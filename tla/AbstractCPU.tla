----------------------------- MODULE AbstractCPU -----------------------------
(* What the simulator promises whatever the algorithm: one CPU, held by at    *)
(* most one admitted process at a time; only the holder is served, a process  *)
(* keeps what it is still owed while it waits, and it leaves exactly when it  *)
(* is owed nothing.                                                           *)
EXTENDS Naturals

CONSTANTS Jobs, Demands     \* Demands: the possible [Jobs -> Nat]

VARIABLES status, owed

vars == <<status, owed>>

TypeOK ==
    /\ status \in [Jobs -> {"new", "waiting", "cpu", "done"}]
    /\ owed \in [Jobs -> Nat]

Init ==
    /\ status = [j \in Jobs |-> "new"]
    /\ owed \in Demands

CPUFree == \A j \in Jobs : status[j] # "cpu"

Moves(j, from, to) ==
    /\ status[j] = from
    /\ status' = [status EXCEPT ![j] = to]
    /\ UNCHANGED owed

Admit(j) == Moves(j, "new", "waiting")
Reject(j) == Moves(j, "new", "done")
Dispatch(j) == CPUFree /\ Moves(j, "waiting", "cpu")
Preempt(j) == owed[j] > 0 /\ Moves(j, "cpu", "waiting")
Retire(j) == owed[j] = 0 /\ Moves(j, "cpu", "done")

Serve(j) ==
    /\ status[j] = "cpu"
    /\ owed[j] > 0
    /\ owed' = [owed EXCEPT ![j] = @ - 1]
    /\ UNCHANGED status

Next ==
    \E j \in Jobs :
        Admit(j) \/ Reject(j) \/ Dispatch(j) \/ Preempt(j) \/ Retire(j) \/ Serve(j)

Spec == Init /\ [][Next]_vars
==============================================================================
