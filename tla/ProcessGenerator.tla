-------------------------- MODULE ProcessGenerator --------------------------
(* process_generator.c: reads the workload, forks the clock and the scheduler *)
(* and at every tick sends the processes that have arrived, then ups          *)
(* semSchedGen.  At the first tick that finds everything sent it signals the  *)
(* scheduler, ups once more and waits for the scheduler to exit.              *)
EXTENDS IPC

CONSTANT Workloads      \* the input files considered: sets of [Procs -> process_t]

(* process_t of process_generator.h.  The id is the index; memSize is left to *)
(* the scheduler's nondeterministic Allocate; arrived is a variable.          *)
process_t == [arrivalTime : Nat, runTime : Nat, priority : Nat]

ASSUME WorkloadsAssumption == Workloads \subseteq [Procs -> process_t]

VARIABLES
    processes,      \* the parsed file, fixed once read
    arrived,        \* the processes sent so far
    gpc,            \* where the generator is
    gcur,           \* its curTime
    exitFlag        \* TRUE iff this tick found nothing left to send

genVars == <<processes, arrived, gpc, gcur, exitFlag>>

GenTypeOK ==
    /\ processes \in [Procs -> process_t]
    /\ arrived \subseteq Procs
    /\ gpc \in {"spin", "send", "lastUp", "wait", "done"}
    /\ gcur \in Nat \cup {-1}
    /\ exitFlag \in BOOLEAN

GenInit ==
    /\ processes \in Workloads
    /\ arrived = {}
    /\ gpc = "spin"
    /\ gcur = -1
    /\ exitFlag = FALSE

(* Mutants: an arrival at the current tick has to wait, one at the next tick  *)
(* does not, and the arrived flag is not looked at.                           *)
DueLate == {i \in Procs \ arrived : processes[i].arrivalTime < gcur}
DueEarly == {i \in Procs \ arrived : processes[i].arrivalTime <= gcur + 1}
DueAgain == {i \in Procs : processes[i].arrivalTime <= gcur}

(* The processes the rest of this pass sends. *)
Due == {i \in Procs \ arrived : processes[i].arrivalTime <= gcur}

------------------------------------------------------------------------------
(* The clock has moved: start this tick's pass over the table. *)
GenNewTick ==
    /\ gpc = "spin"
    /\ clk # gcur
    /\ gcur' = clk
    /\ exitFlag' = (arrived = Procs)
    /\ gpc' = "send"
    /\ UNCHANGED <<processes, arrived>>
    /\ UNCHANGED ipcVars

(* msgsnd of the next due process, in table order; blocks while the queue is full. *)
GenSend ==
    /\ gpc = "send"
    /\ Len(msgq) < MsgqCap
    /\ \E i \in Due :
        /\ \A j \in Due : i <= j
        /\ arrived' = arrived \cup {i}
        /\ msgq' = Append(msgq, i)
    /\ UNCHANGED <<processes, gpc, gcur, exitFlag>>
    /\ UNCHANGED <<clk, shm, semSchedGen, semSchedProc, sigs, slp, exited>>

(* The pass is over and some process was still unsent when it began. *)
GenTickDone ==
    /\ gpc = "send"
    /\ Due = {}
    /\ ~exitFlag
    /\ semSchedGen' = Up(semSchedGen)
    /\ gpc' = "spin"
    /\ UNCHANGED <<processes, arrived, gcur, exitFlag>>
    /\ UNCHANGED <<clk, shm, semSchedProc, msgq, sigs, slp, exited>>

(* Everything was sent before this tick: kill(schedPid, SIGMSGQ). *)
GenSignalEnd ==
    /\ gpc = "send"
    /\ exitFlag
    /\ sigs' = sigs \cup {"SIGMSGQ"}
    /\ gpc' = "lastUp"
    /\ UNCHANGED <<processes, arrived, gcur, exitFlag>>
    /\ UNCHANGED <<clk, shm, semSchedGen, semSchedProc, msgq, slp, exited>>

GenLastUp ==
    /\ gpc = "lastUp"
    /\ semSchedGen' = Up(semSchedGen)
    /\ gpc' = "wait"
    /\ UNCHANGED <<processes, arrived, gcur, exitFlag>>
    /\ UNCHANGED <<clk, shm, semSchedProc, msgq, sigs, slp, exited>>

(* Mutant: the generator does not wait for the scheduler. *)
GenReapEarly ==
    /\ gpc = "wait"
    /\ exited' = exited \ {Sched}
    /\ gpc' = "done"
    /\ UNCHANGED <<processes, arrived, gcur, exitFlag>>
    /\ UNCHANGED <<clk, shm, semSchedGen, semSchedProc, msgq, sigs, slp>>

(* waitpid(schedPid), then destroyClk(true): SIGINT ends the whole group, so  *)
(* nothing moves once gpc is "done" (MarsOS guards every other step by it).   *)
GenReap ==
    /\ gpc = "wait"
    /\ Sched \in exited
    /\ exited' = exited \ {Sched}
    /\ gpc' = "done"
    /\ UNCHANGED <<processes, arrived, gcur, exitFlag>>
    /\ UNCHANGED <<clk, shm, semSchedGen, semSchedProc, msgq, sigs, slp>>

GenNext ==
    \/ GenNewTick
    \/ GenSend
    \/ GenTickDone
    \/ GenSignalEnd
    \/ GenLastUp
    \/ GenReap
==============================================================================
