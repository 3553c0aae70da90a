------------------------------- MODULE Process -------------------------------
(* process.c: a simulated job.  It spins on the clock; at each tick it takes  *)
(* one unit off its remaining time, publishes it in the shared word and ups   *)
(* semSchedProc.  SIGSLP toggles it between running and stopped.  At zero it  *)
(* signals the scheduler, ups once more and exits.                            *)
EXTENDS IPC

VARIABLES
    ppc,            \* where each process is
    remainingtime,  \* its own copy of the remaining time
    curTime,        \* the last tick it accounted for
    blocked         \* toggled by SigSleepHandler

procVars == <<ppc, remainingtime, curTime, blocked>>

(* "none": not forked; "exec": forked, handler not bound; "bound": handler    *)
(* bound, shared word not read; "loop": in the loop outside while (blocked);  *)
(* "up": tick published, up() to come; "blk": in while (blocked); "kill",     *)
(* "last": before kill(getppid()) and before the last up(); "end": exited.    *)
ProcPoints == {"none", "exec", "bound", "loop", "up", "blk", "kill", "last", "end"}

ProcTypeOK ==
    /\ ppc \in [Procs -> ProcPoints]
    /\ remainingtime \in [Procs -> Int]
    /\ curTime \in [Procs -> Nat]
    /\ blocked \in [Procs -> BOOLEAN]

ProcInit ==
    /\ ppc = [p \in Procs |-> "none"]
    /\ remainingtime = [p \in Procs |-> 0]
    /\ curTime = [p \in Procs |-> 0]
    /\ blocked = [p \in Procs |-> FALSE]

------------------------------------------------------------------------------
(* signal(SIGSLP, SigSleepHandler). *)
ProcBind(p) ==
    /\ ppc[p] = "exec"
    /\ p \notin slp
    /\ ppc' = [ppc EXCEPT ![p] = "bound"]
    /\ UNCHANGED <<remainingtime, curTime, blocked>>
    /\ UNCHANGED ipcVars

(* SIGSLP before the handler is bound: before execl the child still runs the  *)
(* scheduler's ReadProcess and the toggle is lost; after it, SIGUSR1 kills.   *)
ProcSigEarly(p) ==
    /\ ppc[p] = "exec"
    /\ p \in slp
    /\ slp' = slp \ {p}
    /\ \/ UNCHANGED <<ppc, exited>>
       \/ /\ ppc' = [ppc EXCEPT ![p] = "end"]
          /\ exited' = exited \cup {p}
    /\ UNCHANGED <<remainingtime, curTime, blocked>>
    /\ UNCHANGED <<clk, shm, semSchedGen, semSchedProc, msgq, sigs>>

(* remainingtime = *shmRemainingTimeAd; curTime = getClk(); a job with nothing *)
(* to do skips the loop.  Once the scheduler removed the semaphore, semget and *)
(* shmget fail and the job exits.                                             *)
ProcRead(p) ==
    /\ ppc[p] = "bound"
    /\ p \notin slp
    /\ IF semSchedProc = Removed
       THEN /\ ppc' = [ppc EXCEPT ![p] = "end"]
            /\ exited' = exited \cup {p}
            /\ UNCHANGED <<remainingtime, curTime>>
       ELSE /\ remainingtime' = [remainingtime EXCEPT ![p] = shm]
            /\ curTime' = [curTime EXCEPT ![p] = clk]
            /\ ppc' = [ppc EXCEPT ![p] = IF shm > 0 THEN "loop" ELSE "kill"]
            /\ UNCHANGED exited
    /\ UNCHANGED blocked
    /\ UNCHANGED <<clk, shm, semSchedGen, semSchedProc, msgq, sigs, slp>>

(* if (remainingtime == 0) break;, after the decrement. *)
LastTickLate(p) == remainingtime[p] = 0     \* mutant: tested before it
LastTick(p) == remainingtime[p] = 1

(* One tick of service. *)
ProcTick(p) ==
    /\ ppc[p] = "loop"
    /\ p \notin slp
    /\ clk # curTime[p]
    /\ remainingtime' = [remainingtime EXCEPT ![p] = @ - 1]
    /\ curTime' = [curTime EXCEPT ![p] = clk]
    /\ shm' = remainingtime[p] - 1
    /\ ppc' = [ppc EXCEPT ![p] = IF LastTick(p) THEN "kill" ELSE "up"]
    /\ UNCHANGED blocked
    /\ UNCHANGED <<clk, semSchedGen, semSchedProc, msgq, sigs, slp, exited>>

(* while (remainingtime > 0), tested once it is out of while (blocked). *)
Looping(p) == IF remainingtime[p] > 0 THEN "loop" ELSE "kill"

(* up(semSchedProc); it exits when the semaphore is gone. *)
ProcUp(p) ==
    /\ ppc[p] = "up"
    /\ p \notin slp
    /\ semSchedProc' = Up(semSchedProc)
    /\ IF semSchedProc = Removed
       THEN /\ ppc' = [ppc EXCEPT ![p] = "end"]
            /\ exited' = exited \cup {p}
       ELSE /\ ppc' = [ppc EXCEPT ![p] = IF blocked[p] THEN "blk" ELSE Looping(p)]
            /\ UNCHANGED exited
    /\ UNCHANGED <<remainingtime, curTime, blocked>>
    /\ UNCHANGED <<clk, shm, semSchedGen, msgq, sigs, slp>>

(* A stopped process with no tick to account for enters while (blocked). *)
ProcSettle(p) ==
    /\ ppc[p] = "loop"
    /\ p \notin slp
    /\ blocked[p]
    /\ clk = curTime[p]
    /\ ppc' = [ppc EXCEPT ![p] = "blk"]
    /\ UNCHANGED <<remainingtime, curTime, blocked>>
    /\ UNCHANGED ipcVars

(* SigSleepHandler.  A running process is caught either in while (blocked) or *)
(* before the tick test, where a tick already visible is still accounted for. *)
SigSleepHandler(p) ==
    /\ ppc[p] \in {"bound", "loop", "up", "blk", "kill", "last"}
    /\ p \in slp
    /\ slp' = slp \ {p}
    /\ blocked' = [blocked EXCEPT ![p] = ~ @]
    /\ IF blocked[p]
       THEN /\ curTime' = [curTime EXCEPT ![p] = clk]
            /\ ppc' = [ppc EXCEPT ![p] = IF @ = "blk" THEN Looping(p) ELSE @]
       ELSE /\ UNCHANGED curTime
            /\ \/ UNCHANGED ppc
               \/ /\ ppc[p] = "loop"
                  /\ ppc' = [ppc EXCEPT ![p] = "blk"]
    /\ UNCHANGED remainingtime
    /\ UNCHANGED <<clk, shm, semSchedGen, semSchedProc, msgq, sigs, exited>>

(* kill(getppid(), SIGPF): lost when the scheduler is no longer there. *)
ProcKill(p) ==
    /\ ppc[p] = "kill"
    /\ p \notin slp
    /\ sigs' = IF Sched \in exited THEN sigs ELSE sigs \cup {"SIGPF"}
    /\ ppc' = [ppc EXCEPT ![p] = "last"]
    /\ UNCHANGED <<remainingtime, curTime, blocked>>
    /\ UNCHANGED <<clk, shm, semSchedGen, semSchedProc, msgq, slp, exited>>

(* The last up(), and the exit. *)
ProcLast(p) ==
    /\ ppc[p] = "last"
    /\ p \notin slp
    /\ semSchedProc' = Up(semSchedProc)
    /\ ppc' = [ppc EXCEPT ![p] = "end"]
    /\ exited' = exited \cup {p}
    /\ UNCHANGED <<remainingtime, curTime, blocked>>
    /\ UNCHANGED <<clk, shm, semSchedGen, msgq, sigs, slp>>

ProcNext(p) ==
    \/ ProcBind(p)
    \/ ProcSigEarly(p)
    \/ ProcRead(p)
    \/ ProcTick(p)
    \/ ProcUp(p)
    \/ ProcSettle(p)
    \/ SigSleepHandler(p)
    \/ ProcKill(p)
    \/ ProcLast(p)
==============================================================================
