-------------------------------- MODULE MarsOS --------------------------------
(* The simulator: the clock, process_generator.c, scheduler.c and the         *)
(* processes it forks, each a Unix process running concurrently with the      *)
(* others.  Timing says how far the one-second clock outruns them:            *)
(*   "free"      the clock ticks at any time;                                 *)
(*   "prompt"    it ticks only when every program has nothing left to do.     *)
(* Within a tick the programs interleave freely in both.                      *)
EXTENDS Scheduler

CONSTANT MaxClk         \* bound on the clock

ASSUME MaxClkAssumption == MaxClk \in Nat

vars == <<ipcVars, genVars, procVars, schedVars>>

TypeOK ==
    /\ IPCTypeOK
    /\ GenTypeOK
    /\ ProcTypeOK
    /\ SchedTypeOK

Init ==
    /\ IPCInit
    /\ GenInit
    /\ ProcInit
    /\ SchedInit

------------------------------------------------------------------------------
(* Who has nothing to do before the clock moves. *)
GenWaits ==
    \/ gpc = "spin" /\ gcur = clk
    \/ gpc = "send" /\ Due # {} /\ Len(msgq) >= MsgqCap
    \/ gpc = "wait" /\ Sched \notin exited

SchedWaits ==
    \/ spc \in {"exit", "fault"}
    \/ hpc = "reap" /\ sigs = {} /\ running \notin exited
    \/ /\ hpc = "main"
       /\ sigs = {}
       /\ \/ spc = "spin" /\ scur = clk /\ nproc # 0
          \/ spc = "slpGen" /\ ~CanDown(semSchedGen)
          \/ spc = "slpProc" /\ ~CanDown(semSchedProc)

ProcWaits(p) ==
    \/ ppc[p] \in {"none", "end"}
    \/ ppc[p] = "blk" /\ p \notin slp
    \/ ppc[p] = "loop" /\ p \notin slp /\ curTime[p] = clk /\ ~blocked[p]

Quiescent == GenWaits /\ SchedWaits /\ \A p \in Procs : ProcWaits(p)

Clock ==
    /\ gpc # "done"
    /\ clk < MaxClk
    /\ Timing = "free" \/ Quiescent
    /\ ClockTick
    /\ UNCHANGED genVars
    /\ UNCHANGED procVars
    /\ UNCHANGED schedVars

Generator ==
    /\ GenNext
    /\ UNCHANGED procVars
    /\ UNCHANGED schedVars

Job(p) ==
    /\ gpc # "done"
    /\ ProcNext(p)
    /\ UNCHANGED genVars
    /\ UNCHANGED schedVars

Scheduling ==
    /\ gpc # "done"
    /\ SchedNext
    /\ UNCHANGED genVars

(* The generator has ended and taken the group with it. *)
Terminated == gpc = "done" /\ UNCHANGED vars

Next ==
    \/ Clock
    \/ Generator
    \/ \E p \in Procs : Job(p)
    \/ Scheduling
    \/ Terminated

Spec == Init /\ [][Next]_vars

(* Each program keeps running while it can: the kernel schedules all of them. *)
Fairness ==
    /\ WF_vars(Clock)
    /\ WF_vars(Generator)
    /\ \A p \in Procs : WF_vars(Job(p))
    /\ WF_vars(Scheduling)

FairSpec == Spec /\ Fairness

------------------------------------------------------------------------------
(* The intended end of a job.  Nothing in the code enforces it: it is said of *)
(* a schedule, never built into a step.  The SIGPF of a job finds the         *)
(* scheduler asleep in down(semSchedProc), and the last up() of the job comes *)
(* before the scheduler is on the CPU again, so that this down() takes a      *)
(* token and does not end with EINTR.  All else interleaves.                  *)
EndsInTurn ==
    /\ \A p \in Procs : ppc[p] = "kill" /\ ppc'[p] = "last" => spc = "slpProc"
    /\ spc = "slpProc" /\ spc' = "read" => CanDown(semSchedProc)

(* The schedules in which every job ends in turn, and each program keeps      *)
(* running while it can do so in turn.                                        *)
InTurnSpec ==
    /\ Init
    /\ [][Next /\ EndsInTurn]_vars
    /\ WF_vars(Clock)
    /\ WF_vars(Generator)
    /\ \A p \in Procs : WF_vars(Job(p) /\ EndsInTurn)
    /\ WF_vars(Scheduling /\ EndsInTurn)

------------------------------------------------------------------------------
(* What the properties speak of.                                              *)

Queued == ToSet(readyQueue)
Freed == {p \in Procs : pcb[p].state = "freed"}
Created == {p \in Procs : pcb[p].state = "new"}
Forked == {p \in Procs : ppc[p] # "none"}
Finished == Freed \cap Forked

(* Forked and not yet past its kill(getppid(), SIGPF). *)
Working == {p \in Procs : ppc[p] \in {"exec", "bound", "loop", "up", "blk"}}

(* Arrived by the clock, not refused, not ended, and without the CPU. *)
Waiting == {p \in Procs \ (Freed \cup {running}) : processes[p].arrivalTime <= clk}

(* The service p has still to get. *)
Owed(p) == IF ppc[p] \in {"none", "exec", "bound"}
           THEN processes[p].runTime ELSE remainingtime[p]

------------------------------------------------------------------------------
(* Properties of the intended schedule.                                       *)

(* The report of a finished process adds up: its turnaround time is its       *)
(* waiting time plus its run time, and nothing of it remains (ProcFinished    *)
(* against the accounting of every dispatch and preemption before it).        *)
TurnaroundIsWaitPlusRun ==
    \A p \in Finished :
        /\ ta[p] = pcb[p].waitingTime + processes[p].runTime
        /\ pcb[p].remainingTime = 0

(* The scheduler dereferences neither a NULL nor a freed PCB, and no handler  *)
(* runs into its memory allocation.                                           *)
NoFault == spc # "fault"

(* Between two ticks every job but the one in running is stopped. *)
OnlyRunningRuns ==
    Quiescent => \A p \in Procs : ppc[p] = "loop" => p = running

(* SRTN: between two ticks nobody who has arrived is owed less than the       *)
(* process with the CPU.                                                      *)
ShortestRuns ==
    Quiescent /\ running # Null => \A q \in Waiting : Owed(running) <= Owed(q)

(* HPF: at a dispatch nobody who has arrived by the clock and waits is more   *)
(* urgent, and who gets the CPU keeps it to its end.                          *)
MostUrgentRunsToCompletion ==
    [][IF running # Null
       THEN running' = Null /\ ppc[running] = "end"
       ELSE running' # Null =>
              \A q \in Waiting : processes[running'].priority <= processes[q].priority]_running

(* RR: nobody waits for the CPU longer than a quantum of each of the others. *)
BoundedWait ==
    Quiescent => \A q \in Waiting :
        clk - (IF ppc[q] = "none" THEN processes[q].arrivalTime ELSE pcb[q].waitStart)
            <= (N - 1) * quantum

(* The CPU is never left idle between two ticks while a process waits for it. *)
WorkConserving == Quiescent /\ Waiting # {} => running # Null

(* The ticks the scheduler does not count as idle are as many as the ticks of *)
(* service given, those of each finished process numbered from 1.  (The       *)
(* utilization it prints has one tick more in its numerator: nothing is said  *)
(* of that.)                                                                  *)
Service(served) == UNION {{p} \X (1 .. processes[p].runTime) : p \in served}

BusyTicks == spc = "exit" => totalTime - idleTime = Cardinality(Service(Finished))

(* Only a process that still has work to do waits in the ready queue: one     *)
(* that ends with its quantum is not put back.                                *)
QueuedHaveWork == \A p \in Queued : Owed(p) > 0

(* A process is sent at the appropriate time: once every program has done its *)
(* work of the tick, all that are due are sent.                               *)
SentOnTime ==
    Quiescent => \A p \in Procs : processes[p].arrivalTime <= clk => p \in arrived

(* The run comes to its end: everything ends and the generator, last of all,  *)
(* takes the group down.                                                      *)
EverythingEnds == <>(gpc = "done" /\ Freed = Procs)

------------------------------------------------------------------------------
(* Properties meant to hold whatever the timing.                              *)

(* No process is forked before the time it arrives at, however the clock and  *)
(* the semaphores race, and no waiting time is negative.                      *)
StartNotBeforeArrival ==
    /\ \A p \in Forked : processes[p].arrivalTime <= clk
    /\ \A p \in Procs : pcb[p].waitingTime >= 0

(* nproc counts exactly the processes not yet freed, through refusals and     *)
(* handlers alike; so the scheduler exits when all were freed and not before. *)
NprocExact ==
    /\ nproc = N - Cardinality(Freed)
    /\ spc = "exit" => Freed = Procs

(* Every process sent is in the message queue, in the hands of CreateEntry,   *)
(* in the ready queue, on the CPU or freed, and the two queues never hold it  *)
(* twice.                                                                     *)
NothingLost ==
    /\ arrived = ToSet(msgq) \cup Created \cup Queued \cup ({running} \ {Null}) \cup Freed
    /\ IsInjective(msgq) /\ IsInjective(readyQueue)
    /\ (ToSet(msgq) \cup Created) \cap (Queued \cup {running} \cup Freed) = {}
    /\ ToSet(msgq) \cap Created = {} /\ Cardinality(Created) <= 1

(* ProcFinished reports, deallocates and waits for the very process that sent *)
(* SIGPF: the one in running has ended, or is about to.                       *)
FinishAttributed == hpc = "reap" => running # Null /\ ppc[running] \in {"last", "end"}

(* Memory is released only by processes that have done their work. *)
MemoryHeldWhileWorking == Working \subseteq allocated

(* The scheduler removes semSchedProc and exits only when every job it forked *)
(* has ended, so no job finds the semaphore or the shared word gone.          *)
NoJobOutlivesScheduler ==
    semSchedProc = Removed => \A p \in Forked : ppc[p] = "end"

(* HPF: at most one child works, however late the scheduler learns of its end. *)
OneChild == \A p, q \in Working : p = q

------------------------------------------------------------------------------
(* The abstract CPU: a process waits from its PCB's creation to its end unless *)
(* it is the one in running and not back in the queue.                        *)
cpuStatus ==
    [p \in Procs |->
        CASE pcb[p].state \in {"none", "new"} -> "new"
          [] pcb[p].state = "freed" -> "done"
          [] p = running /\ p \notin Queued -> "cpu"
          [] OTHER -> "waiting"]

CPU == INSTANCE AbstractCPU WITH
    Jobs <- Procs,
    Demands <- {[p \in Procs |-> w[p].runTime] : w \in Workloads},
    status <- cpuStatus, owed <- [p \in Procs |-> Owed(p)]

(* Every step of the simulator is a step of the abstract CPU or a stutter. *)
ImplementsCPU == CPU!Spec
==============================================================================
