------------------------------ MODULE Scheduler ------------------------------
(* scheduler.c: the loop woken by every tick, the three algorithms and the    *)
(* two signal handlers.  A step of the main program is cut where a signal     *)
(* handler could run and make a difference; hpc says whether the handler      *)
(* ProcFinished is inside its waitpid.                                        *)
EXTENDS Process, ProcessGenerator, Itoa, SequencesExt

CONSTANTS
    SchedulerType,  \* 0 SRTN, 1 RR, 2 HPF
    Quantum,        \* the quantum the user types, for RR
    RQSZ            \* capacity of the ready queue

ASSUME SchedulerTypeAssumption == SchedulerType \in 0 .. 2
ASSUME RQSZAssumption == RQSZ \in Nat \ {0}
ASSUME QuantumAssumption == Quantum \in Nat

(* argv[2] and argv[3] as the scheduler reads them. *)
numProcesses == Passed(N)
quantum == Passed(Quantum)

VARIABLES
    spc,            \* where the main program is
    hpc,            \* "main", or "reap" inside ProcFinished
    scur,           \* curTime of main
    procGenFinished,
    running,        \* the PCB holding the CPU, or Null
    readyQueue,     \* the queue or the heap, as a sequence of PCBs
    pcb,            \* the PCBs
    currQuantum, nproc, totalTime, idleTime,
    allocated,      \* the PCBs holding a memoryNode
    ta              \* turnaround times, the numerators of WTAs

schedVars == <<spc, hpc, scur, procGenFinished, running, readyQueue, pcb,
               currQuantum, nproc, totalTime, idleTime, allocated, ta>>

MainPoints ==
    {"boot", "spin", "downGen", "slpGen", "chkProc", "downProc", "slpProc",
     "read", "create", "sched", "charge", "sleep", "pick", "start", "pid", "resume",
     "exit", "fault"}

(* PCB of pcb.h.  "none": no PCB yet; "new": CreateEntry is at work on it;    *)
(* "freed": freed, or refused memory.  pid says whether the field was         *)
(* assigned; id, arrivalTime and runTime are those of the process, memoryNode *)
(* is allocated.                                                              *)
PCB == [state : {"none", "new", "READY", "BLOCKED", "freed"}, pid : BOOLEAN,
        priority : Int, remainingTime : Int, waitingTime : Int, waitStart : Int]

SchedTypeOK ==
    /\ spc \in MainPoints
    /\ hpc \in {"main", "reap"}
    /\ scur \in Nat \cup {-1}
    /\ procGenFinished \in BOOLEAN
    /\ running \in Procs \cup {Null}
    /\ readyQueue \in Seq(Procs)
    /\ pcb \in [Procs -> PCB]
    /\ currQuantum \in Int
    /\ nproc \in Int
    /\ totalTime \in Nat
    /\ idleTime \in Nat
    /\ allocated \subseteq Procs
    /\ ta \in [Procs -> Int]

SchedInit ==
    /\ spc = "boot"
    /\ hpc = "main"
    /\ scur = -1
    /\ procGenFinished = FALSE
    /\ running = Null
    /\ readyQueue = <<>>
    /\ pcb = [p \in Procs |->
                [state |-> "none", pid |-> FALSE, priority |-> 0,
                 remainingTime |-> 0, waitingTime |-> 0, waitStart |-> 0]]
    /\ currQuantum = 0
    /\ nproc = numProcesses
    /\ totalTime = 0
    /\ idleTime = 0
    /\ allocated = {}
    /\ ta = [p \in Procs |-> 0]

------------------------------------------------------------------------------
(* A handler runs before the interrupted program's next instruction. *)
Main(at) == spc = at /\ hpc = "main" /\ sigs = {}

(* A NULL or freed PCB is dereferenced, or the heap or the tree of the memory *)
(* changed by a handler in the middle of a change: nothing is known from here *)
(* on.                                                                        *)
Fault ==
    /\ spc' = "fault"
    /\ hpc' = "main"
    /\ exited' = exited \cup {Sched}
    /\ UNCHANGED <<scur, procGenFinished, running, readyQueue, pcb, currQuantum,
                   nproc, totalTime, idleTime, allocated, ta>>
    /\ UNCHANGED <<clk, shm, semSchedGen, semSchedProc, msgq, sigs, slp>>
    /\ UNCHANGED procVars

(* Most main steps leave the handlers' and the other programs' state alone. *)
HandlerUnchanged == UNCHANGED <<hpc, procGenFinished, ta>>

------------------------------------------------------------------------------
(* Boot: bind the handlers, set semSchedProc to 0. *)
SchedBoot ==
    /\ Main("boot")
    /\ spc' = "spin"
    /\ semSchedProc' = 0
    /\ UNCHANGED <<scur, running, readyQueue, pcb, currQuantum, nproc,
                   totalTime, idleTime, allocated>>
    /\ HandlerUnchanged
    /\ UNCHANGED <<clk, shm, semSchedGen, msgq, sigs, slp, exited>>
    /\ UNCHANGED procVars

(* SIGMSGQ before signal(): SIGUSR1 terminates the scheduler. *)
SchedKilledEarly ==
    /\ spc = "boot"
    /\ sigs # {}
    /\ Fault

(* Top of the loop: the clock has moved. *)
SchedNewTick ==
    /\ Main("spin")
    /\ nproc # 0
    /\ clk # scur
    /\ scur' = clk
    /\ totalTime' = totalTime + 1
    /\ spc' = IF procGenFinished THEN "chkProc" ELSE "downGen"
    /\ UNCHANGED <<running, readyQueue, pcb, currQuantum, nproc, idleTime, allocated>>
    /\ HandlerUnchanged
    /\ UNCHANGED ipcVars
    /\ UNCHANGED procVars

(* Every process is accounted for: remove semSchedProc, report, exit. *)
SchedExit ==
    /\ Main("spin")
    /\ nproc = 0
    /\ spc' = "exit"
    /\ semSchedProc' = Removed
    /\ exited' = exited \cup {Sched}
    /\ UNCHANGED <<scur, running, readyQueue, pcb, currQuantum, nproc,
                   totalTime, idleTime, allocated>>
    /\ HandlerUnchanged
    /\ UNCHANGED <<clk, shm, semSchedGen, msgq, sigs, slp>>
    /\ UNCHANGED procVars

(* down(semSchedGen): takes a token, or falls asleep, or is woken by a signal *)
(* (EINTR), which down() treats as success.                                   *)
DownGen ==
    /\ hpc = "main"
    /\ \/ /\ spc = "slpGen"
       \/ /\ spc = "downGen"
          /\ sigs = {}
    /\ \/ /\ CanDown(semSchedGen)
          /\ semSchedGen' = Down(semSchedGen)
          /\ spc' = "chkProc"
       \/ /\ ~CanDown(semSchedGen)
          /\ spc = "downGen"
          /\ spc' = "slpGen"
          /\ UNCHANGED semSchedGen
       \/ /\ ~CanDown(semSchedGen)
          /\ spc = "slpGen"
          /\ sigs # {}
          /\ spc' = "chkProc"
          /\ UNCHANGED semSchedGen
    /\ UNCHANGED <<scur, running, readyQueue, pcb, currQuantum, nproc,
                   totalTime, idleTime, allocated>>
    /\ HandlerUnchanged
    /\ UNCHANGED <<clk, shm, semSchedProc, msgq, sigs, slp, exited>>
    /\ UNCHANGED procVars

(* if (running != NULL) *)
CheckRunning ==
    /\ Main("chkProc")
    /\ spc' = IF running = Null THEN "read" ELSE "downProc"
    /\ UNCHANGED <<scur, running, readyQueue, pcb, currQuantum, nproc,
                   totalTime, idleTime, allocated>>
    /\ HandlerUnchanged
    /\ UNCHANGED ipcVars
    /\ UNCHANGED procVars

(* down(semSchedProc), the same way. *)
DownProc ==
    /\ hpc = "main"
    /\ \/ /\ spc = "slpProc"
       \/ /\ spc = "downProc"
          /\ sigs = {}
    /\ \/ /\ CanDown(semSchedProc)
          /\ semSchedProc' = Down(semSchedProc)
          /\ spc' = "read"
       \/ /\ ~CanDown(semSchedProc)
          /\ spc = "downProc"
          /\ spc' = "slpProc"
          /\ UNCHANGED semSchedProc
       \/ /\ ~CanDown(semSchedProc)
          /\ spc = "slpProc"
          /\ sigs # {}
          /\ spc' = "read"
          /\ UNCHANGED semSchedProc
    /\ UNCHANGED <<scur, running, readyQueue, pcb, currQuantum, nproc,
                   totalTime, idleTime, allocated>>
    /\ HandlerUnchanged
    /\ UNCHANGED <<clk, shm, semSchedGen, msgq, sigs, slp, exited>>
    /\ UNCHANGED procVars

------------------------------------------------------------------------------
(* Mutants: one slot is never used; the queue is a stack. *)
InsertedShort(q, p) == IF Len(q) + 1 < RQSZ THEN Append(q, p) ELSE q
InsertedFront(q, p) == IF Len(q) < RQSZ THEN <<p>> \o q ELSE q

(* InsertValue and Enqueue, which drop the PCB when the array is full. *)
Inserted(q, p) == IF Len(q) < RQSZ THEN Append(q, p) ELSE q

(* Mutant: the heap is not ordered. *)
FirstCome(q) == {i \in DOMAIN q : i = 1}

(* The entries ExtractMin, Minimum or Dequeue may return: the front of the    *)
(* queue, or a root of the heap, an entry of least priority value.            *)
First(q) ==
    {i \in DOMAIN q : IF SchedulerType = 1
                      THEN i = 1
                      ELSE \A j \in DOMAIN q : pcb[q[i]].priority <= pcb[q[j]].priority}

(* Mutant: the refused process is not counted out. *)
EntryUncounted(p) ==
    /\ allocated # {}
    /\ pcb' = [pcb EXCEPT ![p].state = "freed"]
    /\ UNCHANGED <<nproc, allocated, readyQueue>>

(* Allocate returns NULL, which only an empty memory cannot.  The entry is    *)
(* freed and the process counted out.                                         *)
EntryRefused(p) ==
    /\ allocated # {}
    /\ nproc' = nproc - 1
    /\ pcb' = [pcb EXCEPT ![p].state = "freed"]
    /\ UNCHANGED <<allocated, readyQueue>>

EntryCreated(p) ==
    /\ allocated' = allocated \cup {p}
    /\ pcb' = [pcb EXCEPT ![p] =
                 [state |-> "READY", pid |-> FALSE,
                  priority |-> IF SchedulerType = 0 THEN processes[p].runTime
                                                    ELSE processes[p].priority,
                  remainingTime |-> processes[p].runTime,
                  waitingTime |-> 0, waitStart |-> 0]]
    /\ readyQueue' = Inserted(readyQueue, p)
    /\ UNCHANGED nproc

(* The ready queue holds a PCB that the handler has freed. *)
Dangling == \E i \in DOMAIN readyQueue : pcb[readyQueue[i]].state = "freed"

(* One turn of the loop of ReadMSGQ(0): msgrcv and, in CreateEntry, malloc.   *)
(* With a freed PCB still queued, malloc may hand out that very PCB again.    *)
ReadMSGQ ==
    \/ /\ Main("read")
       /\ msgq # <<>>
       /\ ~Dangling
       /\ msgq' = Tail(msgq)
       /\ pcb' = [pcb EXCEPT ![Head(msgq)].state = "new"]
       /\ spc' = "create"
       /\ UNCHANGED <<scur, running, readyQueue, currQuantum, nproc,
                      totalTime, idleTime, allocated>>
       /\ HandlerUnchanged
       /\ UNCHANGED <<clk, shm, semSchedGen, semSchedProc, sigs, slp, exited>>
       /\ UNCHANGED procVars
    \/ /\ Main("read")
       /\ msgq # <<>>
       /\ Dangling
       /\ Fault

(* The rest of CreateEntry, back to the loop. *)
CreateEntry ==
    /\ Main("create")
    /\ \E p \in Procs : pcb[p].state = "new" /\ (EntryRefused(p) \/ EntryCreated(p))
    /\ spc' = "read"
    /\ UNCHANGED <<scur, running, currQuantum, totalTime, idleTime>>
    /\ HandlerUnchanged
    /\ UNCHANGED ipcVars
    /\ UNCHANGED procVars

(* A tick on which nothing runs and nothing is ready. *)
IdleAnyway == readyQueue = <<>>     \* mutant: the running process is forgotten
IdleTick == readyQueue = <<>> /\ running = Null

(* The message queue is empty: call the algorithm, or count an idle tick. *)
ReadDone ==
    /\ Main("read")
    /\ msgq = <<>>
    /\ spc' = IF readyQueue # <<>> THEN "sched" ELSE "spin"
    /\ idleTime' = IF IdleTick THEN idleTime + 1 ELSE idleTime
    /\ UNCHANGED <<scur, running, readyQueue, pcb, currQuantum, nproc,
                   totalTime, allocated>>
    /\ HandlerUnchanged
    /\ UNCHANGED ipcVars
    /\ UNCHANGED procVars

(* if (running), at the head of all three algorithms. *)
AlwaysCharge == "charge"            \* mutant: no test
AlgorithmPath == IF running = Null THEN "pick" ELSE "charge"

Schedule ==
    /\ Main("sched")
    /\ spc' = AlgorithmPath
    /\ UNCHANGED <<scur, running, readyQueue, pcb, currQuantum, nproc,
                   totalTime, idleTime, allocated>>
    /\ HandlerUnchanged
    /\ UNCHANGED ipcVars
    /\ UNCHANGED procVars

------------------------------------------------------------------------------
(* Mutant: another process is dispatched although one is running. *)
HPFPreempts ==
    /\ SchedulerType = 2
    /\ pcb' = [pcb EXCEPT ![running].remainingTime = shm]
    /\ spc' = "pick"
    /\ UNCHANGED <<readyQueue, currQuantum>>

(* HPFSheduler with a process running: only its record is refreshed. *)
HPFSheduler ==
    /\ SchedulerType = 2
    /\ pcb' = [pcb EXCEPT ![running].remainingTime = shm]
    /\ spc' = "spin"
    /\ UNCHANGED <<readyQueue, currQuantum>>

(* The records of a process that loses the CPU and of one that gets it back. *)
Stopped(entry) == [entry EXCEPT !.state = "BLOCKED", !.waitStart = clk]
ResumedUnaccounted(entry) == [entry EXCEPT !.state = "READY"]   \* mutant
Resumed(entry) ==
    [entry EXCEPT !.state = "READY",
                  !.waitingTime = entry.waitingTime + clk - entry.waitStart]

(* SRTNSheduler with a process running: preempt it when the least remaining   *)
(* time of the queue is below its own, as the shared word gives it.           *)
SRTNSheduler ==
    /\ SchedulerType = 0
    /\ \E i \in First(readyQueue) :
         LET left == [pcb[running] EXCEPT !.remainingTime = shm, !.priority = shm]
         IN  IF shm > pcb[readyQueue[i]].remainingTime
             THEN /\ pcb' = [pcb EXCEPT ![running] = Stopped(left)]
                  /\ readyQueue' = Inserted(readyQueue, running)
                  /\ spc' = "sleep"
             ELSE /\ pcb' = [pcb EXCEPT ![running] = left]
                  /\ spc' = "spin"
                  /\ UNCHANGED readyQueue
    /\ UNCHANGED currQuantum

(* RRSheduler with a process running: preempt it when its quantum is over. *)
RRSheduler ==
    /\ SchedulerType = 1
    /\ currQuantum' = currQuantum - 1
    /\ pcb' = [pcb EXCEPT ![running].remainingTime = shm]
    /\ IF currQuantum = 1
       THEN /\ readyQueue' = Inserted(readyQueue, running)
            /\ spc' = "sleep"
       ELSE /\ spc' = "spin"
            /\ UNCHANGED readyQueue

(* Minimum hands SRTN a PCB that the handler has freed. *)
FreedMinimum ==
    /\ SchedulerType = 0
    /\ \E i \in First(readyQueue) : pcb[readyQueue[i]].state = "freed"

(* The body of if (running): running may have been cleared by the handler     *)
(* since the test.                                                            *)
Charge ==
    \/ /\ Main("charge")
       /\ running # Null
       /\ ~FreedMinimum
       /\ HPFSheduler \/ SRTNSheduler \/ RRSheduler
       /\ UNCHANGED <<scur, running, nproc, totalTime, idleTime, allocated>>
       /\ HandlerUnchanged
       /\ UNCHANGED ipcVars
       /\ UNCHANGED procVars
    \/ /\ Main("charge")
       /\ running = Null \/ FreedMinimum
       /\ Fault

(* Mutant: the process is not told. *)
NotToggled == UNCHANGED slp

(* kill(running->pid, SIGSLP): stops a process that runs, wakes a stopped one. *)
ToggleRunning == Sleep(running)

(* Stop the preempted process; RR also stamps its record here. *)
StopRunning ==
    \/ /\ Main("sleep")
       /\ running # Null
       /\ ToggleRunning
       /\ pcb' = IF SchedulerType = 1
                 THEN [pcb EXCEPT ![running] = Stopped(pcb[running])]
                 ELSE pcb
       /\ spc' = "pick"
       /\ UNCHANGED <<scur, running, readyQueue, currQuantum, nproc,
                      totalTime, idleTime, allocated>>
       /\ HandlerUnchanged
       /\ UNCHANGED <<clk, shm, semSchedGen, semSchedProc, msgq, sigs, exited>>
       /\ UNCHANGED procVars
    \/ /\ Main("sleep")
       /\ running = Null
       /\ Fault

(* ExtractMin or Dequeue, and the test of the state of what it returned. *)
Pick ==
    \E i \in First(readyQueue) :
        \/ /\ Main("pick")
           /\ pcb[readyQueue[i]].state # "freed"
           /\ running' = readyQueue[i]
           /\ readyQueue' = RemoveAt(readyQueue, i)
           /\ currQuantum' = IF SchedulerType = 1 THEN quantum ELSE currQuantum
           /\ spc' = IF pcb[readyQueue[i]].state = "READY" THEN "start" ELSE "resume"
           /\ UNCHANGED <<scur, pcb, nproc, totalTime, idleTime, allocated>>
           /\ HandlerUnchanged
           /\ UNCHANGED ipcVars
           /\ UNCHANGED procVars
        \/ /\ Main("pick")
           /\ pcb[readyQueue[i]].state = "freed"
           /\ Fault

(* First dispatch: publish the remaining time and fork. *)
StartRunning ==
    \/ /\ Main("start")
       /\ running # Null
       /\ shm' = pcb[running].remainingTime
       /\ pcb' = [pcb EXCEPT ![running].waitingTime = clk - processes[running].arrivalTime]
       /\ ppc' = [ppc EXCEPT ![running] = "exec"]
       /\ spc' = "pid"
       /\ UNCHANGED <<scur, running, readyQueue, currQuantum, nproc,
                      totalTime, idleTime, allocated>>
       /\ HandlerUnchanged
       /\ UNCHANGED <<clk, semSchedGen, semSchedProc, msgq, sigs, slp, exited>>
       /\ UNCHANGED <<remainingtime, curTime, blocked>>
    \/ /\ Main("start")
       /\ running = Null
       /\ Fault

(* running->pid = pid, in the parent. *)
AssignPid ==
    \/ /\ Main("pid")
       /\ running # Null
       /\ pcb' = [pcb EXCEPT ![running].pid = TRUE]
       /\ spc' = "spin"
       /\ UNCHANGED <<scur, running, readyQueue, currQuantum, nproc,
                      totalTime, idleTime, allocated>>
       /\ HandlerUnchanged
       /\ UNCHANGED ipcVars
       /\ UNCHANGED procVars
    \/ /\ Main("pid")
       /\ running = Null
       /\ Fault

(* Later dispatches: wake the process and add what it waited. *)
ResumeRunning ==
    \/ /\ Main("resume")
       /\ running # Null
       /\ ToggleRunning
       /\ pcb' = [pcb EXCEPT ![running] = Resumed(pcb[running])]
       /\ spc' = "spin"
       /\ UNCHANGED <<scur, running, readyQueue, currQuantum, nproc,
                      totalTime, idleTime, allocated>>
       /\ HandlerUnchanged
       /\ UNCHANGED <<clk, shm, semSchedGen, semSchedProc, msgq, sigs, exited>>
       /\ UNCHANGED procVars
    \/ /\ Main("resume")
       /\ running = Null
       /\ Fault

------------------------------------------------------------------------------
(* The handlers run between two instructions of the main program, that is at  *)
(* every point where it is neither asleep in the kernel nor unborn nor dead.  *)
UserMode == spc \notin {"boot", "slpGen", "slpProc", "exit", "fault"}

(* SIGMSGQ: also inside ProcFinished, whose mask holds SIGPF only. *)
ReadProcess ==
    /\ UserMode
    /\ "SIGMSGQ" \in sigs
    /\ sigs' = sigs \ {"SIGMSGQ"}
    /\ procGenFinished' = TRUE
    /\ UNCHANGED <<spc, hpc, scur, running, readyQueue, pcb, currQuantum, nproc,
                   totalTime, idleTime, allocated, ta>>
    /\ UNCHANGED <<clk, shm, semSchedGen, semSchedProc, msgq, slp, exited>>
    /\ UNCHANGED procVars

(* SIGPF, up to waitpid: whoever sent it, the process in running is reported  *)
(* finished and its memory deallocated.  In CreateEntry this may come in the  *)
(* middle of Allocate or malloc, which Deallocate and free then run into.     *)
ProcFinished ==
    \/ /\ UserMode
       /\ hpc = "main"
       /\ "SIGPF" \in sigs
       /\ running # Null
       /\ sigs' = sigs \ {"SIGPF"}
       /\ hpc' = "reap"
       /\ ta' = [ta EXCEPT ![running] = clk - processes[running].arrivalTime]
       /\ pcb' = [pcb EXCEPT ![running].remainingTime = shm]
       /\ allocated' = allocated \ {running}
       /\ UNCHANGED <<spc, scur, procGenFinished, running, readyQueue, currQuantum,
                      nproc, totalTime, idleTime>>
       /\ UNCHANGED <<clk, shm, semSchedGen, semSchedProc, msgq, slp, exited>>
       /\ UNCHANGED procVars
    \/ /\ UserMode
       /\ hpc = "main"
       /\ "SIGPF" \in sigs
       /\ running = Null \/ spc = "create"
       /\ Fault

(* waitpid(running->pid).  An unassigned pid makes it fail at once or wait    *)
(* for any child.                                                             *)
NoHang == UNCHANGED exited          \* mutant: WNOHANG
Waitpid ==
    \/ /\ running \in exited
       /\ exited' = exited \ {running}
    \/ /\ ~pcb[running].pid
       /\ UNCHANGED exited
    \/ /\ ~pcb[running].pid
       /\ \E p \in exited \ {running} : exited' = exited \ {p}

(* The rest of ProcFinished: waitpid, free and nproc--. *)
ProcReaped ==
    /\ hpc = "reap"
    /\ "SIGMSGQ" \notin sigs
    /\ Waitpid
    /\ pcb' = [pcb EXCEPT ![running].state = "freed"]
    /\ running' = Null
    /\ nproc' = nproc - 1
    /\ hpc' = "main"
    /\ UNCHANGED <<spc, scur, procGenFinished, readyQueue, currQuantum,
                   totalTime, idleTime, allocated, ta>>
    /\ UNCHANGED <<clk, shm, semSchedGen, semSchedProc, msgq, sigs, slp>>
    /\ UNCHANGED procVars

SchedNext ==
    \/ SchedBoot \/ SchedKilledEarly \/ SchedNewTick \/ SchedExit
    \/ DownGen \/ CheckRunning \/ DownProc \/ ReadMSGQ \/ CreateEntry \/ ReadDone
    \/ Schedule \/ Charge \/ StopRunning \/ Pick \/ StartRunning
    \/ AssignPid \/ ResumeRunning
    \/ ReadProcess \/ ProcFinished \/ ProcReaped
==============================================================================
