------------------------------- MODULE MCMarsOS -------------------------------
(* Workloads for model checking MarsOS. *)
EXTENDS MarsOS

(* Every workload of N processes sorted by arrival, as the input file is. *)
Files(arrivals, runs, priorities) ==
    {w \in [Procs -> [arrivalTime : arrivals, runTime : runs, priority : priorities]] :
        \A p, q \in Procs : p < q => w[p].arrivalTime <= w[q].arrivalTime}

Small == Files(0 .. 2, 1 .. 3, {0})
Prioritised == Files(0 .. 2, 1 .. 2, 0 .. 1)
Tiny == Files({0, 1}, 1 .. 2, {0})

(* Runs of length zero included. *)
Degenerate == {w \in Files({0, 1}, 0 .. 1, {0}) : w[1].arrivalTime = 0}

(* Three jobs together and one after the first of them have ended. *)
FourthLate ==
    {w \in Files({0, 3}, 1 .. 2, {0}) :
        w[3].arrivalTime = 0 /\ w[4].arrivalTime = 3 /\ w[4].runTime = 1}

(* A job of one tick and a long one; then one that preempts the long one, and *)
(* another one longer than that.                                              *)
PreemptedLate ==
    {w \in Files(0 .. 2, {1, 2, 5}, {0}) :
        /\ [p \in Procs |-> w[p].arrivalTime] = <<0, 0, 2, 2>>
        /\ [p \in Procs |-> w[p].runTime] = <<1, 5, 1, 2>>}
==============================================================================
