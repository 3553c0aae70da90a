----------------------------- MODULE LedgerProofs -----------------------------
(* What the scheduler writes down of every process of InTurnSystem, along the *)
(* schedules in which every job ends in turn: its times add up at every step, *)
(* each dispatch goes by them, round robin keeps nobody waiting longer than a *)
(* quantum of each of the others, and the ticks counted as busy are those of  *)
(* service.                                                                   *)
EXTENDS InTurnProofs

------------------------------------------------------------------------------
(* What the scheduler writes down.                                            *)

(* The time p has been served and has waited, as its PCB has it, since it     *)
(* arrived.                                                                   *)
Base(p) == processes[p].arrivalTime + pcb[p].waitingTime + processes[p].runTime - Owed(p)

Reported(p) ==
    /\ ta[p] = pcb[p].waitingTime + processes[p].runTime
    /\ pcb[p].remainingTime = 0

(* In a tick up to the algorithm, where it is charged for. *)
AfterTick == BeforeTick \/ spc \in {"slpProc", "read", "create", "sched", "charge"}

(* Memory is released in the handler only. *)
MemoryInv ==
    \A p \in Procs :
        pcb[p].state \in {"READY", "BLOCKED"} /\ ~(p = running /\ hpc = "reap") => p \in allocated

(* The time since the arrival of a process is the time it has been served and *)
(* the time it has waited, to the present tick for the process in running and *)
(* to the tick it was stopped for the others.                                 *)
ServedInv ==
    running # Null /\ ppc[running] # "none" /\ spc # "resume" =>
        clk = IF DueTick(running) THEN Base(running) + 1 ELSE Base(running)
StoppedInv ==
    /\ \A p \in Procs : pcb[p].state = "BLOCKED" => pcb[p].waitStart = Base(p)
    /\ spc = "resume" => pcb[running].state = "BLOCKED"

(* The shared word, and what the queue is ordered by, is what is owed. *)
SharedInv == running # Null /\ AfterTick /\ ~DueTick(running) => shm = remainingtime[running]
QueuedInv == \A p \in Procs : Holds(readyQueue, p) => pcb[p].remainingTime = Owed(p)

ReportInv ==
    /\ hpc = "reap" => Reported(running)
    /\ \A p \in Procs : pcb[p].state = "freed" /\ ppc[p] # "none" => Reported(p)

(* The message queue was read in this tick, and the algorithm, if any, ran. *)
AfterRead ==
    \/ spc \in {"sched", "charge", "sleep", "pick", "start", "pid", "resume"}
    \/ spc = "spin" /\ scur = clk
AfterPick == spc \in {"start", "pid", "resume"} \/ (spc = "spin" /\ scur = clk)

(* Nobody who has arrived is left out of this tick's dispatch, and it went by *)
(* the algorithm.                                                             *)
ReadInv == AfterRead => msgq = <<>>
BusyInv == spc = "spin" /\ scur = clk /\ running = Null => readyQueue = <<>>
ShortestInv ==
    SchedulerType = 0 /\ AfterPick /\ running # Null =>
        \A p \in Procs : Holds(readyQueue, p) => Owed(running) <= Owed(p)
UrgentInv ==
    SchedulerType = 2 =>
        /\ \A p \in Procs :
              /\ pcb[p].state = "READY" => pcb[p].priority = processes[p].priority
              /\ pcb[p].state # "BLOCKED"
        /\ spc # "sleep" /\ (spc = "pick" => running = Null)

LedgerInv ==
    /\ MemoryInv
    /\ ServedInv
    /\ StoppedInv
    /\ SharedInv
    /\ QueuedInv
    /\ ReportInv
    /\ ReadInv
    /\ BusyInv
    /\ ShortestInv
    /\ UrgentInv

(* What the arithmetic on the ledger needs of the types.                      *)
LEMMA LedgerTypes ==
    ASSUME TypeOK
    PROVE  /\ \A p \in Procs : /\ processes[p].arrivalTime \in Int /\ processes[p].runTime \in Int
                               /\ remainingtime[p] \in Int /\ pcb[p].waitingTime \in Int
                               /\ Owed(p) \in Int /\ Base(p) \in Int
           /\ ta \in [Procs -> Int] /\ allocated \subseteq Procs
<1>1. processes \in [Procs -> process_t] /\ pcb \in [Procs -> PCB] /\ remainingtime \in [Procs -> Int]
      /\ ta \in [Procs -> Int] /\ allocated \subseteq Procs
  BY DEF TypeOK, GenTypeOK, SchedTypeOK, ProcTypeOK
<1> QED  BY <1>1 DEF process_t, PCB, Owed, Base

(* The ledger of a process moves with its waiting time and what it is owed.   *)
LEMMA SameBase ==
    ASSUME NEW p \in Procs, processes' = processes, pcb'[p].waitingTime = pcb[p].waitingTime,
           Owed(p)' = Owed(p)
    PROVE  Base(p)' = Base(p)
  BY DEF Base

(* A second of service counts once.                                           *)
LEMMA BaseTicked ==
    ASSUME TypeOK, NEW p \in Procs, processes' = processes,
           pcb'[p].waitingTime = pcb[p].waitingTime, Owed(p)' = Owed(p) - 1
    PROVE  Base(p)' = Base(p) + 1
<1>1. PICK a, r, w, o \in Int :
        a = processes[p].arrivalTime /\ r = processes[p].runTime /\ w = pcb[p].waitingTime /\ o = Owed(p)
  BY LedgerTypes
<1>2. Base(p) = a + w + r - o
  BY <1>1 DEF Base
<1>3. Base(p)' = a + w + r - (o - 1)
  <2>1. processes'[p].arrivalTime = a /\ processes'[p].runTime = r /\ pcb'[p].waitingTime = w
    BY <1>1
  <2>2. Owed(p)' = o - 1
    BY <1>1
  <2> QED  BY <2>1, <2>2 DEF Base
<1> QED  BY <1>1, <1>2, <1>3

(* StartRunning writes the time from the arrival to the fork as waiting time. *)
LEMMA BaseStarted ==
    ASSUME TypeOK, NEW p \in Procs, processes' = processes,
           pcb'[p].waitingTime = clk - processes[p].arrivalTime, Owed(p)' = processes[p].runTime
    PROVE  Base(p)' = clk
<1>1. PICK a, r, c \in Int : a = processes[p].arrivalTime /\ r = processes[p].runTime /\ c = clk
  BY LedgerTypes DEF TypeOK, IPCTypeOK
<1>2. Base(p)' = a + (c - a) + r - r
  <2>1. processes'[p].arrivalTime = a /\ processes'[p].runTime = r /\ pcb'[p].waitingTime = c - a
        /\ Owed(p)' = r
    BY <1>1
  <2> QED  BY <2>1 DEF Base
<1> QED  BY <1>1, <1>2

(* ResumeRunning adds the time since the stop to the waiting time.            *)
LEMMA BaseResumed ==
    ASSUME TypeOK, NEW p \in Procs, processes' = processes,
           pcb'[p].waitingTime = pcb[p].waitingTime + clk - Base(p), Owed(p)' = Owed(p)
    PROVE  Base(p)' = clk
<1>1. PICK a, r, w, o \in Int :
        a = processes[p].arrivalTime /\ r = processes[p].runTime /\ w = pcb[p].waitingTime /\ o = Owed(p)
  BY LedgerTypes
<1>2. PICK c \in Int : c = clk
  BY DEF TypeOK, IPCTypeOK
<1>3. Base(p)' = a + (w + c - (a + w + r - o)) + r - o
  <2>1. Base(p) = a + w + r - o
    BY <1>1 DEF Base
  <2>2. processes'[p].arrivalTime = a /\ processes'[p].runTime = r /\ Owed(p)' = o
        /\ pcb'[p].waitingTime = w + c - (a + w + r - o)
    BY <1>1, <1>2, <2>1
  <2> QED  BY <2>2 DEF Base
<1> QED  BY <1>1, <1>2, <1>3

(* A process owed nothing has its run time and its waiting time behind it.    *)
LEMMA BaseEnded ==
    ASSUME TypeOK, NEW p \in Procs, clk = Base(p), Owed(p) = 0
    PROVE  clk - processes[p].arrivalTime = pcb[p].waitingTime + processes[p].runTime
<1>1. PICK a, r, w \in Int :
        a = processes[p].arrivalTime /\ r = processes[p].runTime /\ w = pcb[p].waitingTime
  BY LedgerTypes
<1>2. clk = a + w + r - 0
  BY <1>1 DEF Base
<1> QED  BY <1>1, <1>2

(* Nothing was written down yet.                                              *)
LEMMA LedgerInit == Init => LedgerInv
<1> SUFFICES ASSUME Init PROVE LedgerInv
  OBVIOUS
<1>1. /\ clk = 0 /\ msgq = <<>> /\ spc = "boot" /\ hpc = "main" /\ running = Null /\ readyQueue = <<>>
      /\ \A p \in Procs : ppc[p] = "none" /\ pcb[p].state = "none"
  BY DEF Init, IPCInit, GenInit, ProcInit, SchedInit
<1> QED  BY <1>1 DEF LedgerInv, MemoryInv, ServedInv, StoppedInv, SharedInv, QueuedInv, ReportInv,
             ReadInv, BusyInv, ShortestInv, UrgentInv, Holds, AfterRead, AfterPick

(* Nothing of the ledger moves but perhaps the scheduler's place. *)
LEMMA LedgerFrame ==
    ASSUME TypeOK, LedgerInv, UNCHANGED <<clk, shm, slp, processes, pcb, readyQueue, running, allocated, ta>>,
           UNCHANGED procVars, hpc' = hpc,
           AfterRead' => msgq' = <<>>,
           spc' = "spin" /\ scur' = clk /\ running = Null => readyQueue = <<>>,
           running # Null /\ AfterTick' /\ ~DueTick(running) => AfterTick,
           spc = "resume" <=> spc' = "resume",
           AfterPick' => AfterPick \/ readyQueue = <<>>,
           SchedulerType = 2 => spc' # "sleep" /\ (spc' = "pick" => running = Null)
    PROVE  LedgerInv'
<1> USE OrderTypes
<1>1. \A p \in Procs : /\ Owed(p)' = Owed(p) /\ Base(p)' = Base(p) /\ (DueTick(p)' <=> DueTick(p))
                       /\ Holds(readyQueue, p)' <=> Holds(readyQueue, p)
  BY SameJobs DEF Owed, Base, Holds, procVars
<1>2. MemoryInv'
  BY DEF LedgerInv, MemoryInv
<1>3. ServedInv' /\ SharedInv'
  BY <1>1 DEF LedgerInv, ServedInv, SharedInv, procVars
<1>7. StoppedInv' /\ QueuedInv'
  BY <1>1 DEF LedgerInv, StoppedInv, QueuedInv
<1>4. ReportInv'
  BY DEF LedgerInv, ReportInv, Reported, procVars
<1>5. readyQueue = <<>> => \A p : ~Holds(readyQueue, p)
  BY DEF Holds
<1>6. ReadInv' /\ BusyInv' /\ UrgentInv'
  BY <1>1 DEF LedgerInv, ReadInv, BusyInv, UrgentInv
<1>8. ShortestInv'
  BY <1>1, <1>5 DEF LedgerInv, ShortestInv
<1> QED  BY <1>2, <1>3, <1>4, <1>6, <1>7, <1>8 DEF LedgerInv

(* In the tick that begins, the process in running is due its second. *)
LEMMA LedgerClock ==
    ASSUME InTurnSystem, TypeOK, SendInv, AccountInv, OrderInv, LedgerInv, Clock
    PROVE  LedgerInv'
<1> USE OrderTypes, LedgerTypes
<1>1. /\ Quiescent /\ clk' = clk + 1
      /\ UNCHANGED <<shm, msgq, slp>>
      /\ UNCHANGED genVars /\ UNCHANGED procVars /\ UNCHANGED schedVars
  BY DEF Clock, ClockTick, InTurnSystem
<1>2. /\ spc = "exit" \/ (spc = "spin" /\ scur = clk /\ hpc = "main" /\ sigs = {})
      /\ \A p \in Procs :
                \/ ppc[p] \in {"none", "end"}
                \/ ppc[p] = "blk" /\ p \notin slp
                \/ Ticked(p)
  BY <1>1, ClockMoves
<1>3. \A p \in Procs : /\ Owed(p)' = Owed(p) /\ Base(p)' = Base(p)
                       /\ Holds(readyQueue, p)' <=> Holds(readyQueue, p)
  BY <1>1 DEF Owed, Base, Holds, procVars, genVars, schedVars
<1>4. running # Null => running \in Procs /\ Ticked(running) /\ ~DueTick(running) /\ DueTick(running)'
  <2> SUFFICES ASSUME running # Null PROVE Ticked(running) /\ ~DueTick(running) /\ DueTick(running)'
    OBVIOUS
  <2>1. Ticked(running)
    BY <1>2 DEF OrderInv, HolderInv, Fresh, Woken, Ticked
  <2> QED  BY <1>1, <2>1 DEF Ticked, DueTick, procVars, schedVars
<1>5. ~AfterRead' /\ ~AfterPick'
  <2>1. UNCHANGED <<spc, scur>> /\ clk \in Nat /\ clk' # clk
    BY <1>1 DEF schedVars
  <2> QED  BY <1>2, <2>1 DEF AfterRead, AfterPick
<1>6. MemoryInv'
  BY <1>1 DEF LedgerInv, MemoryInv, schedVars
<1>7. ServedInv'
  <2>1. running' = running
    BY <1>1 DEF schedVars
  <2> SUFFICES ASSUME running # Null PROVE clk' = Base(running)' + 1
    BY <1>4, <2>1 DEF ServedInv
  <2>2. clk = Base(running)
    BY <1>2, <1>4 DEF LedgerInv, ServedInv, Ticked
  <2>3. Base(running)' = Base(running)
    BY <1>3, <1>4, <2>1
  <2> QED  BY <1>1, <2>2, <2>3
<1>10. StoppedInv' /\ SharedInv' /\ QueuedInv'
  BY <1>1, <1>3, <1>4 DEF LedgerInv, StoppedInv, SharedInv, QueuedInv, schedVars
<1>8. ReportInv'
  BY <1>1 DEF LedgerInv, ReportInv, Reported, procVars, schedVars, genVars
<1>9. ReadInv' /\ BusyInv' /\ ShortestInv' /\ UrgentInv'
  BY <1>1, <1>2, <1>5 DEF LedgerInv, ReadInv, BusyInv, ShortestInv, UrgentInv, schedVars, genVars, AfterRead
<1> QED  BY <1>6, <1>7, <1>8, <1>9, <1>10 DEF LedgerInv

(* The generator writes down nothing of a PCB.                                *)
LEMMA LedgerGenerator ==
    ASSUME InTurnSystem, TypeOK, SendInv, AccountInv, OrderInv, LedgerInv, Generator
    PROVE  LedgerInv'
<1> USE OrderTypes
<1>1. /\ UNCHANGED <<clk, shm, slp, processes>> /\ UNCHANGED procVars /\ UNCHANGED schedVars
  BY DEF Generator, GenNext, GenNewTick, GenSend, GenTickDone, GenSignalEnd,
         GenLastUp, GenReap, ipcVars
<1>2. AfterRead => UNCHANGED msgq
  <2>1. CASE GenSend
    <3>1. gpc = "send" /\ arrived # Procs
      BY <2>1 DEF GenSend, Due
    <3>2. ~exitFlag
      BY <3>1 DEF SendInv
    <3>3. AfterRead => Taken /\ spc # "exit"
      BY DEF AfterRead, Taken, OrderInv, PassInv
    <3> QED  BY <3>1, <3>2, <3>3 DEF OrderInv, PassInv, Sent
  <2>2. CASE ~GenSend
    BY <2>2 DEF Generator, GenNext, GenNewTick, GenTickDone, GenSignalEnd, GenLastUp, GenReap, ipcVars
  <2> QED  BY <2>1, <2>2
<1>3. (AfterRead' <=> AfterRead) /\ (AfterTick' <=> AfterTick) /\ (AfterPick' <=> AfterPick)
  BY <1>1 DEF AfterRead, AfterTick, BeforeTick, AfterPick, schedVars
<1> QED  BY <1>1, <1>2, <1>3, LedgerFrame DEF LedgerInv, ReadInv, BusyInv, UrgentInv, schedVars

(* A job takes a second of service only as the process in running, once a     *)
(* tick; every other step of it leaves what it is owed.                       *)
LEMMA JobOwed ==
    ASSUME InTurnSystem, TypeOK, OrderInv, NEW p \in Procs, Job(p)
    PROVE  /\ \A q \in Procs : q # p => Owed(q)' = Owed(q) /\ (DueTick(q)' <=> DueTick(q))
           /\ ppc[p] # "none" /\ pcb[p].state # "freed"
           /\ \/ /\ p = running /\ (BeforeTick \/ spc = "slpProc") /\ DueTick(p) /\ ~DueTick(p)'
                 /\ Owed(p)' = Owed(p) - 1 /\ shm' = remainingtime'[p]
              \/ /\ ~DueTick(p) /\ ~DueTick(p)'
                 /\ Owed(p)' = Owed(p) /\ shm' = shm
                 /\ p = running /\ AfterTick => remainingtime'[p] = remainingtime[p]
<1> USE OrderTypes
<1>1. /\ UNCHANGED <<processes, clk>> /\ UNCHANGED schedVars
      /\ \A q \in Procs : q # p =>
            /\ ppc'[q] = ppc[q] /\ remainingtime'[q] = remainingtime[q] /\ curTime'[q] = curTime[q]
            /\ blocked'[q] = blocked[q]
            /\ q \in slp' <=> q \in slp
  BY JobAlone DEF genVars
<1>2. \A q \in Procs : q # p => Owed(q)' = Owed(q) /\ (DueTick(q)' <=> DueTick(q))
  BY <1>1 DEF Owed, DueTick
<1>3. ppc[p] \notin {"none", "end"} /\ pcb[p].state # "freed"
  <2>1. ppc[p] \notin {"none", "end"}
    BY DEF Job, ProcNext, ProcBind, ProcSigEarly, ProcRead, ProcTick, ProcUp, ProcSettle,
           SigSleepHandler, ProcKill, ProcLast
  <2> QED  BY <2>1 DEF OrderInv, OthersInv, Place
<1>4. p # running => Halted(p)
  BY <1>3 DEF OrderInv, OthersInv, Place, PCB
<1>5. CASE Halted(p)
  <2>1. /\ Halted(p)' /\ ppc'[p] \in {"loop", "blk"} /\ UNCHANGED <<shm, remainingtime>>
        /\ ppc[p] \in {"loop", "blk"}
    BY <1>5, OrderJobStopped DEF Halted, Asleep
  <2>2. ~DueTick(p) /\ ~DueTick(p)'
    BY <1>1, <1>5, <2>1 DEF Halted, Asleep, DueTick
  <2> QED  BY <1>1, <1>2, <1>3, <2>1, <2>2 DEF Owed
<1>6. CASE p = running /\ ~Halted(p)
  <2>1. /\ p \in slp => Woken(p)
        /\ ppc[p] \in {"exec", "bound"} => ~AfterTick /\ semSchedProc # Removed
        /\ ppc[p] = "loop" => DueTick(p) \/ Ticked(p)
        /\ ppc[p] = "up" => ~blocked[p] /\ curTime[p] = clk /\ semSchedProc # Removed
    BY <1>3, <1>6 DEF OrderInv, HolderInv, SignalInv, BeforeTick, AfterTick, InSecond, Announcing, Ending,
       Announced, Fresh, DueTick, Ticked, Halted, Asleep, Woken, MainPoints, Removed
  <2>2. CASE ProcBind(p) \/ ProcKill(p) \/ ProcLast(p)
    BY <1>1, <1>2, <1>3, <2>2 DEF ProcBind, ProcKill, ProcLast, Owed, DueTick, ipcVars
  <2>3. CASE ProcRead(p)
    <3>1. shm = processes[p].runTime /\ shm > 0
      BY <2>3 DEF ProcRead, OrderInv, RemainsInv, Remains
    <3>2. ppc[p] = "bound" /\ ppc'[p] = "loop" /\ curTime'[p] = clk /\ remainingtime'[p] = shm /\ shm' = shm
      BY <2>1, <2>3, <3>1 DEF ProcRead
    <3> QED  BY <1>1, <1>2, <1>3, <2>1, <3>1, <3>2 DEF Owed, DueTick
  <2>4. CASE ProcTick(p)
    <3>1. (BeforeTick \/ spc = "slpProc") /\ ppc[p] = "loop" /\ DueTick(p)
      BY <1>6, <2>1, <2>4, OrderSecond DEF ProcTick, Ticked
    <3>2. ppc'[p] \in {"kill", "up"} /\ remainingtime'[p] = remainingtime[p] - 1
          /\ shm' = remainingtime[p] - 1
      BY <2>4 DEF ProcTick
    <3> QED  BY <1>1, <1>2, <1>3, <1>6, <3>1, <3>2 DEF Owed, DueTick
  <2>5. CASE ProcUp(p)
    <3>1. ppc[p] = "up" /\ ppc'[p] = "loop" /\ UNCHANGED <<remainingtime, shm, curTime>>
      BY <2>1, <2>5 DEF ProcUp, Looping, OrderInv, RemainsInv, Remains
    <3> QED  BY <1>1, <1>2, <1>3, <2>1, <3>1 DEF Owed, DueTick
  <2>6. CASE SigSleepHandler(p)
    <3>1. ppc[p] = "blk" /\ blocked[p]
      BY <2>1, <2>6 DEF SigSleepHandler, Woken
    <3>2. ppc'[p] = "loop" /\ curTime'[p] = clk /\ UNCHANGED <<remainingtime, shm>>
      BY <2>6, <3>1 DEF SigSleepHandler, Looping, OrderInv, RemainsInv, Remains
    <3> QED  BY <1>1, <1>2, <1>3, <3>1, <3>2 DEF Owed, DueTick
  <2>7. ~ProcSettle(p) /\ ~ProcSigEarly(p)
    BY <2>1 DEF ProcSettle, ProcSigEarly, DueTick, Ticked, Woken
  <2> QED  BY <2>2, <2>3, <2>4, <2>5, <2>6, <2>7 DEF Job, ProcNext
<1> QED  BY <1>4, <1>5, <1>6

(* A simulated process owes a second less after its tick, and the shared word *)
(* says so.                                                                   *)
LEMMA LedgerJob ==
    ASSUME InTurnSystem, TypeOK, AccountInv, OrderInv, LedgerInv, NEW p \in Procs, Job(p)
    PROVE  LedgerInv'
<1> USE OrderTypes, LedgerTypes
<1>1. /\ UNCHANGED <<processes, clk, msgq>> /\ UNCHANGED schedVars
      /\ \A q \in Procs : q # p => ppc'[q] = ppc[q] /\ remainingtime'[q] = remainingtime[q]
  BY JobAlone DEF genVars
<1>2. /\ \A q \in Procs : q # p => Owed(q)' = Owed(q) /\ (DueTick(q)' <=> DueTick(q))
      /\ ppc[p] # "none" /\ pcb[p].state # "freed"
      /\ \/ /\ p = running /\ (BeforeTick \/ spc = "slpProc") /\ DueTick(p) /\ ~DueTick(p)'
            /\ Owed(p)' = Owed(p) - 1 /\ shm' = remainingtime'[p]
         \/ /\ ~DueTick(p) /\ ~DueTick(p)'
            /\ Owed(p)' = Owed(p) /\ shm' = shm
            /\ p = running /\ AfterTick => remainingtime'[p] = remainingtime[p]
  BY JobOwed
<1>3. /\ \A q \in Procs : q # p => Base(q)' = Base(q)
      /\ Owed(p)' = Owed(p) => Base(p)' = Base(p)
      /\ Owed(p)' = Owed(p) - 1 => Base(p)' = Base(p) + 1
      /\ \A q : Holds(readyQueue, q)' <=> Holds(readyQueue, q)
  <2>1. pcb' = pcb /\ readyQueue' = readyQueue /\ processes' = processes
    BY <1>1 DEF schedVars
  <2>2. /\ \A q \in Procs : q # p => Base(q)' = Base(q)
        /\ Owed(p)' = Owed(p) => Base(p)' = Base(p)
    BY <1>2, <2>1, SameBase
  <2>3. Owed(p)' = Owed(p) - 1 => Base(p)' = Base(p) + 1
    BY <2>1, BaseTicked
  <2> QED  BY <2>1, <2>2, <2>3 DEF Holds
<1>4. MemoryInv' /\ ReportInv'
  BY <1>1, <1>2 DEF LedgerInv, MemoryInv, ReportInv, Reported, schedVars
<1>5. CASE /\ p = running /\ (BeforeTick \/ spc = "slpProc") /\ DueTick(p) /\ ~DueTick(p)'
           /\ Owed(p)' = Owed(p) - 1 /\ shm' = remainingtime'[p]
  <2>1. ~Holds(readyQueue, p) /\ pcb[p].state # "BLOCKED"
    BY <1>5 DEF AccountInv, RunningInv, OrderInv, OthersInv, Place, BeforeTick
  <2>2. /\ clk = Base(p) + 1 /\ Base(p)' = Base(p) + 1
    BY <1>2, <1>3, <1>5 DEF LedgerInv, ServedInv, BeforeTick
  <2>3. ServedInv' /\ SharedInv'
    BY <1>1, <1>5, <2>2 DEF ServedInv, SharedInv, schedVars, BeforeTick
  <2>4. StoppedInv' /\ QueuedInv'
    BY <1>1, <1>2, <1>3, <2>1 DEF LedgerInv, StoppedInv, QueuedInv, schedVars
  <2>5. ReadInv' /\ BusyInv' /\ ShortestInv' /\ UrgentInv'
    BY <1>1, <1>5 DEF LedgerInv, ReadInv, BusyInv, ShortestInv, UrgentInv, schedVars, AfterRead, AfterPick, BeforeTick
  <2> QED  BY <1>4, <2>3, <2>4, <2>5 DEF LedgerInv
<1>6. CASE /\ ~DueTick(p) /\ ~DueTick(p)'
           /\ Owed(p)' = Owed(p) /\ shm' = shm
           /\ p = running /\ AfterTick => remainingtime'[p] = remainingtime[p]
  <2>1. \A q \in Procs : /\ Owed(q)' = Owed(q) /\ Base(q)' = Base(q) /\ (DueTick(q)' <=> DueTick(q))
                         /\ q = running /\ AfterTick => remainingtime'[q] = remainingtime[q]
    BY <1>1, <1>2, <1>3, <1>6
  <2>2. (AfterTick' <=> AfterTick) /\ (AfterRead' <=> AfterRead) /\ (AfterPick' <=> AfterPick)
    BY <1>1 DEF AfterTick, BeforeTick, AfterRead, AfterPick, schedVars
  <2>3. running # Null /\ ppc'[running] # "none" => ppc[running] # "none"
    BY <1>1, <1>2
  <2>4. ServedInv' /\ SharedInv'
    BY <1>1, <1>6, <2>1, <2>2, <2>3 DEF LedgerInv, ServedInv, SharedInv, schedVars
  <2>5. StoppedInv' /\ QueuedInv'
    BY <1>1, <1>3, <2>1 DEF LedgerInv, StoppedInv, QueuedInv, schedVars
  <2>6. ReadInv' /\ BusyInv' /\ UrgentInv'
    BY <1>1, <2>2 DEF LedgerInv, ReadInv, BusyInv, UrgentInv, schedVars
  <2>7. ShortestInv'
    BY <1>1, <1>3, <2>1, <2>2 DEF LedgerInv, ShortestInv, schedVars
  <2> QED  BY <1>4, <2>4, <2>5, <2>6, <2>7 DEF LedgerInv
<1> QED  BY <1>2, <1>5, <1>6

------------------------------------------------------------------------------
(* The scheduler's steps.                                                     *)

(* The steps between its accounts. *)
LEMMA LedgerQuietSteps ==
    ASSUME InTurnSystem, TypeOK, AccountInv, OrderInv, LedgerInv, UNCHANGED genVars,
           \/ SchedBoot \/ SchedNewTick \/ SchedExit \/ DownGen \/ CheckRunning
           \/ DownProc \/ ReadDone \/ Schedule \/ ReadProcess
    PROVE  LedgerInv'
<1> USE OrderTypes
<1>1. /\ UNCHANGED <<clk, shm, slp, processes, pcb, readyQueue, running, allocated, ta, msgq, hpc>>
      /\ UNCHANGED procVars
  BY DEF SchedBoot, SchedNewTick, SchedExit, DownGen, CheckRunning, DownProc, ReadDone,
         Schedule, ReadProcess, HandlerUnchanged, ipcVars, procVars, genVars
<1>2. CASE ReadProcess
  <2>1. UNCHANGED <<spc, scur>>
    BY <1>2 DEF ReadProcess
  <2> QED  BY <1>1, <2>1, LedgerFrame
           DEF AfterRead, AfterTick, BeforeTick, AfterPick, LedgerInv, ReadInv, BusyInv, UrgentInv
<1>3. CASE ReadDone
  <2>1. /\ spc = "read" /\ spc' = (IF readyQueue # <<>> THEN "sched" ELSE "spin") /\ msgq = <<>>
    BY <1>3 DEF ReadDone, Main
  <2> QED  BY <1>1, <2>1, LedgerFrame DEF AfterTick, BeforeTick, AfterPick
<1>4. CASE Schedule
  <2>1. spc = "sched" /\ spc' = (IF running = Null THEN "pick" ELSE "charge")
    BY <1>4 DEF Schedule, AlgorithmPath, Main
  <2>2. msgq = <<>>
    BY <2>1 DEF LedgerInv, ReadInv, AfterRead
  <2> QED  BY <1>1, <2>1, <2>2, LedgerFrame DEF AfterTick, AfterPick
<1>5. CASE SchedBoot \/ SchedNewTick \/ SchedExit \/ DownGen \/ CheckRunning \/ DownProc
  <2>1. \/ spc = "boot" /\ spc' = "spin" /\ scur' = scur
        \/ spc = "spin" /\ spc' \in {"chkProc", "downGen", "exit"}
        \/ spc \in {"downGen", "slpGen"} /\ spc' \in {"slpGen", "chkProc"}
        \/ spc = "chkProc" /\ spc' = (IF running = Null THEN "read" ELSE "downProc")
        \/ spc = "downProc" /\ spc' \in {"slpProc", "read"}
        \/ spc = "slpProc" /\ spc' = "read"
    BY <1>5 DEF SchedBoot, SchedNewTick, SchedExit, DownGen, CheckRunning, DownProc, Main
  <2>2. (spc = "boot" => running = Null) /\ (spc = "spin" /\ spc' # "exit" => clk # scur)
        /\ (spc = "exit" => running = Null)
    BY <1>5 DEF OrderInv, HolderInv, SchedNewTick, SchedExit, SchedBoot, DownGen, CheckRunning, DownProc, Main
  <2>3. ~AfterRead' /\ ~AfterPick'
    <3>1. spc = "boot" => scur # clk
      BY DEF OrderInv, PassInv
    <3> QED  BY <1>1, <2>1, <3>1 DEF AfterRead, AfterPick
  <2>4. running # Null /\ AfterTick' /\ ~DueTick(running) => AfterTick
    BY <1>1, <2>1, <2>2 DEF AfterTick, BeforeTick
  <2>5. spc # "resume" /\ spc' \notin {"resume", "sleep", "pick"}
    BY <2>1
  <2>6. ~(spc' = "spin" /\ scur' = clk)
    BY <1>1, <2>3 DEF AfterPick
  <2> QED  BY <1>1, <2>3, <2>4, <2>5, <2>6, LedgerFrame
<1> QED  BY <1>2, <1>3, <1>4, <1>5

(* A message becomes a PCB nobody knew. *)
LEMMA LedgerRead ==
    ASSUME InTurnSystem, TypeOK, AccountInv, OrderInv, LedgerInv, UNCHANGED genVars, ReadMSGQ, ~Fault
    PROVE  LedgerInv'
<1> USE OrderTypes
<1>1. /\ spc = "read" /\ spc' = "create" /\ hpc = "main" /\ hpc' = hpc /\ msgq # <<>>
      /\ pcb' = [pcb EXCEPT ![Head(msgq)].state = "new"]
      /\ UNCHANGED <<clk, shm, slp, running, readyQueue, processes, allocated, ta>>
      /\ UNCHANGED procVars
  BY DEF ReadMSGQ, Main, HandlerUnchanged, genVars
<1>2. PICK h \in Procs : h = Head(msgq) /\ Holds(msgq, h)
  BY <1>1, TailHolds DEF AccountInv, PlaceInv
<1>3. ~Holds(readyQueue, h) /\ h # running /\ pcb[h].state # "freed"
  BY <1>2 DEF AccountInv, PlaceInv, IsFreed
<1>4. pcb'[h].state = "new" /\ pcb'[h].waitingTime = pcb[h].waitingTime
      /\ \A p \in Procs : p # h => pcb'[p] = pcb[p]
  BY <1>1, <1>2 DEF PCB
<1>5. \A p \in Procs : /\ Owed(p)' = Owed(p) /\ (DueTick(p)' <=> DueTick(p))
                       /\ Holds(readyQueue, p)' <=> Holds(readyQueue, p)
  BY <1>1, SameJobs DEF Owed, Holds, procVars
<1>6. \A p \in Procs : Base(p)' = Base(p)
  BY <1>1, <1>4, <1>5, SameBase
<1>7. ~AfterRead' /\ ~AfterPick' /\ AfterTick
  BY <1>1 DEF AfterRead, AfterPick, AfterTick
<1>8. MemoryInv' /\ StoppedInv' /\ QueuedInv'
  <2>1. MemoryInv'
    BY <1>1, <1>4 DEF LedgerInv, MemoryInv
  <2>2. StoppedInv'
    BY <1>1, <1>3, <1>4, <1>6 DEF LedgerInv, StoppedInv
  <2>3. QueuedInv'
    BY <1>1, <1>3, <1>4, <1>5 DEF LedgerInv, QueuedInv
  <2> QED  BY <2>1, <2>2, <2>3
<1>9. ServedInv' /\ SharedInv'
  BY <1>1, <1>3, <1>5, <1>6, <1>7 DEF LedgerInv, ServedInv, SharedInv, procVars
<1>10. ReportInv'
  <2>1. UNCHANGED <<ppc, processes, ta, running>> /\ hpc' = "main"
    BY <1>1 DEF procVars
  <2> SUFFICES ASSUME NEW p \in Procs, pcb'[p].state = "freed", ppc[p] # "none"
               PROVE  Reported(p)'
    BY <2>1 DEF ReportInv
  <2>2. p # h /\ pcb'[p] = pcb[p]
    BY <1>4
  <2>3. Reported(p)
    BY <2>2 DEF LedgerInv, ReportInv
  <2> QED  BY <2>1, <2>2, <2>3 DEF Reported
<1>11. ReadInv' /\ BusyInv' /\ ShortestInv' /\ UrgentInv'
  BY <1>1, <1>4, <1>7 DEF LedgerInv, ReadInv, BusyInv, ShortestInv, UrgentInv
<1> QED  BY <1>8, <1>9, <1>10, <1>11 DEF LedgerInv

(* The new PCB is queued with all its run time, and its memory, or freed. *)
LEMMA LedgerCreate ==
    ASSUME InTurnSystem, TypeOK, AccountInv, OrderInv, LedgerInv, UNCHANGED genVars, CreateEntry
    PROVE  LedgerInv'
<1> USE OrderTypes
<1>1. /\ spc = "create" /\ spc' = "read" /\ hpc = "main" /\ hpc' = hpc
      /\ UNCHANGED <<clk, shm, slp, running, processes, ta>>
      /\ UNCHANGED procVars
  BY DEF CreateEntry, Main, HandlerUnchanged, ipcVars, genVars
<1>2. PICK e \in Procs : pcb[e].state = "new" /\ (EntryRefused(e) \/ EntryCreated(e))
  BY DEF CreateEntry
<1>3. ~Holds(readyQueue, e) /\ e # running /\ ppc[e] = "none" /\ IsInjective(readyQueue)
  BY <1>2 DEF AccountInv, PlaceInv, IsNew, OrderInv, OthersInv, Place
<1>4. /\ \A p \in Procs : p # e => pcb'[p] = pcb[p] /\ (Holds(readyQueue, p)' <=> Holds(readyQueue, p))
      /\ allocated \subseteq allocated'
      /\ \/ pcb'[e].state = "freed" /\ ~Holds(readyQueue, e)'
         \/ /\ pcb'[e].state = "READY" /\ Holds(readyQueue, e)' /\ e \in allocated'
            /\ pcb'[e].remainingTime = processes[e].runTime
            /\ SchedulerType = 2 => pcb'[e].priority = processes[e].priority
  <2>1. CASE EntryRefused(e)
    BY <1>3, <2>1 DEF EntryRefused, PCB, Holds
  <2>2. CASE EntryCreated(e)
    <3>1. readyQueue' = Append(readyQueue, e)
      BY <1>3, <2>2, RoomForAll DEF EntryCreated, InTurnSystem
    <3>2. \A p : Holds(Append(readyQueue, e), p) <=> Holds(readyQueue, p) \/ p = e
      BY <1>3, AppendHolds
    <3>3. \A p : Holds(readyQueue, p)' <=> Holds(readyQueue, p) \/ p = e
      BY <3>1, <3>2 DEF Holds
    <3> QED  BY <2>2, <3>3 DEF EntryCreated
  <2> QED  BY <1>2, <2>1, <2>2
<1>5. \A p \in Procs : Owed(p)' = Owed(p) /\ (DueTick(p)' <=> DueTick(p))
  BY <1>1, SameJobs DEF Owed, procVars
<1>6. Owed(e)' = processes[e].runTime
  BY <1>1, <1>3, <1>5 DEF Owed
<1>7. \A p \in Procs : p # e => Base(p)' = Base(p)
  BY <1>1, <1>4, <1>5, SameBase
<1>8. ~AfterRead' /\ ~AfterPick' /\ AfterTick
  BY <1>1 DEF AfterRead, AfterPick, AfterTick
<1>9. MemoryInv' /\ StoppedInv' /\ QueuedInv'
  BY <1>1, <1>4, <1>5, <1>6, <1>7 DEF LedgerInv, MemoryInv, StoppedInv, QueuedInv
<1>10. ServedInv' /\ SharedInv'
  BY <1>1, <1>3, <1>5, <1>7, <1>8 DEF LedgerInv, ServedInv, SharedInv, procVars
<1>11. ReportInv'
  BY <1>1, <1>3, <1>4 DEF LedgerInv, ReportInv, Reported, procVars
<1>12. ReadInv' /\ BusyInv' /\ ShortestInv' /\ UrgentInv'
  BY <1>1, <1>4, <1>8 DEF LedgerInv, ReadInv, BusyInv, ShortestInv, UrgentInv
<1> QED  BY <1>9, <1>10, <1>11, <1>12 DEF LedgerInv

(* The root of SRTN's heap is owed no more than anybody queued. *)
LEMMA LeastOwed ==
    ASSUME TypeOK, OrderInv, LedgerInv, SchedulerType = 0, NEW i \in First(readyQueue)
    PROVE  /\ pcb[readyQueue[i]].remainingTime = Owed(readyQueue[i])
           /\ \A p \in Procs : Holds(readyQueue, p) => Owed(readyQueue[i]) <= Owed(p)
<1>1. PICK r \in Procs : r = readyQueue[i] /\ Holds(readyQueue, r)
  BY FirstIndex DEF Holds
<1>2. \A p \in Procs : Holds(readyQueue, p) =>
            pcb[p].priority = Owed(p) /\ pcb[p].remainingTime = Owed(p)
  BY DEF OrderInv, RemainsInv, Remains, LedgerInv, QueuedInv
<1>3. ASSUME NEW p \in Procs, Holds(readyQueue, p) PROVE pcb[r].priority <= pcb[p].priority
  <2>1. PICK j \in DOMAIN readyQueue : readyQueue[j] = p
    BY <1>3 DEF Holds
  <2>2. \A k \in DOMAIN readyQueue : pcb[readyQueue[i]].priority <= pcb[readyQueue[k]].priority
    BY DEF First
  <2>3. pcb[readyQueue[i]].priority <= pcb[readyQueue[j]].priority
    BY <2>1, <2>2
  <2> QED  BY <1>1, <2>1, <2>3
<1> QED  BY <1>1, <1>2, <1>3

(* The three algorithms take over the shared word; who keeps the CPU under    *)
(* SRTN is owed no more than anybody queued.                                  *)
LEMMA LedgerCharge ==
    ASSUME InTurnSystem, TypeOK, AccountInv, OrderInv, LedgerInv, UNCHANGED genVars, Charge, ~Fault
    PROVE  LedgerInv'
<1> USE OrderTypes
<1>1. /\ spc = "charge" /\ hpc = "main" /\ hpc' = hpc /\ running \in Procs
      /\ UNCHANGED <<clk, shm, slp, running, processes, scur, msgq, allocated, ta>>
      /\ UNCHANGED procVars
      /\ HPFSheduler \/ SRTNSheduler \/ RRSheduler
  BY DEF Charge, Main, HandlerUnchanged, ipcVars, genVars
<1>2. PICK r \in Procs : r = running
  BY <1>1
<1>3. Ticked(r) /\ ~DueTick(r) /\ scur = clk /\ ~Holds(readyQueue, r) /\ IsInjective(readyQueue)
  BY <1>1, <1>2 DEF OrderInv, HolderInv, PassInv, AccountInv, RunningInv, PlaceInv, Ticked, DueTick
<1>4. pcb[r].state = "READY" /\ ppc[r] = "loop"
  <2>1. pcb[r].state \notin {"new", "freed"}
    BY <1>1, <1>2 DEF AccountInv, RunningInv, PlaceInv, IsNew, IsFreed
  <2> QED  BY <1>1, <1>2, <1>3, <2>1 DEF OrderInv, OthersInv, Place, PCB, Ticked
<1>5. shm = Owed(r) /\ clk = Base(r) /\ msgq = <<>>
  BY <1>1, <1>2, <1>3, <1>4
     DEF LedgerInv, SharedInv, ServedInv, ReadInv, AfterTick, AfterRead, Owed
<1>6. \A p \in Procs : p # r => pcb'[p] = pcb[p]
  BY <1>1, <1>2 DEF HPFSheduler, SRTNSheduler, RRSheduler
<1>7. /\ pcb'[r].remainingTime = shm /\ pcb'[r].waitingTime = pcb[r].waitingTime
      /\ pcb'[r].state = "READY" \/ (pcb'[r].state = "BLOCKED" /\ pcb'[r].waitStart = clk)
      /\ \/ spc' = "spin" /\ UNCHANGED readyQueue
         \/ spc' = "sleep" /\ readyQueue' = Inserted(readyQueue, r)
      /\ SchedulerType = 2 => spc' = "spin" /\ pcb'[r].state = "READY" /\ pcb'[r].priority = pcb[r].priority
      /\ SchedulerType = 0 /\ spc' = "spin" =>
            \E i \in First(readyQueue) : ~(shm > pcb[readyQueue[i]].remainingTime)
  <2>1. CASE HPFSheduler \/ RRSheduler
    <3> DEFINE left == [pcb[r] EXCEPT !.remainingTime = shm]
    <3>1. /\ left.state = "READY" /\ left.remainingTime = shm
          /\ left.waitingTime = pcb[r].waitingTime /\ left.priority = pcb[r].priority
      BY <1>4 DEF PCB
    <3>2. /\ pcb' = [pcb EXCEPT ![running] = left]
          /\ \/ spc' = "spin" /\ UNCHANGED readyQueue
             \/ SchedulerType # 2 /\ spc' = "sleep" /\ readyQueue' = Inserted(readyQueue, running)
          /\ SchedulerType # 0
      BY <1>2, <2>1 DEF HPFSheduler, RRSheduler
    <3> HIDE DEF left
    <3>3. pcb'[r] = left
      BY <1>2, <3>2
    <3> QED  BY <1>2, <3>1, <3>2, <3>3
  <2>2. CASE SRTNSheduler
    <3> DEFINE left == [pcb[running] EXCEPT !.remainingTime = shm, !.priority = shm]
    <3>1. /\ left.state = "READY" /\ left.remainingTime = shm /\ left.waitingTime = pcb[r].waitingTime
          /\ Stopped(left).state = "BLOCKED" /\ Stopped(left).waitStart = clk
          /\ Stopped(left).remainingTime = shm /\ Stopped(left).waitingTime = pcb[r].waitingTime
      BY <1>2, <1>4 DEF PCB, Stopped
    <3>2. /\ SchedulerType = 0
          /\ \E i \in First(readyQueue) :
                  \/ /\ pcb' = [pcb EXCEPT ![running] = Stopped(left)]
                     /\ readyQueue' = Inserted(readyQueue, running)
                     /\ spc' = "sleep"
                  \/ /\ ~(shm > pcb[readyQueue[i]].remainingTime)
                     /\ pcb' = [pcb EXCEPT ![running] = left]
                     /\ spc' = "spin"
                     /\ UNCHANGED readyQueue
      BY <2>2 DEF SRTNSheduler
    <3> HIDE DEF left
    <3>3. \/ pcb'[r] = Stopped(left) /\ spc' = "sleep" /\ readyQueue' = Inserted(readyQueue, r)
          \/ /\ pcb'[r] = left /\ spc' = "spin" /\ UNCHANGED readyQueue
             /\ \E i \in First(readyQueue) : ~(shm > pcb[readyQueue[i]].remainingTime)
      BY <1>2, <3>2
    <3> QED  BY <3>1, <3>2, <3>3
  <2> QED  BY <1>1, <2>1, <2>2
<1>8. \A p \in Procs : Holds(readyQueue, p)' <=> Holds(readyQueue, p) \/ (p = r /\ spc' = "sleep")
  <2>1. CASE spc' = "spin" /\ UNCHANGED readyQueue
    BY <2>1 DEF Holds
  <2>2. CASE spc' = "sleep" /\ readyQueue' = Inserted(readyQueue, r)
    <3>1. readyQueue' = Append(readyQueue, r)
      BY <1>3, <2>2, RoomForAll DEF InTurnSystem
    <3>2. \A p : Holds(Append(readyQueue, r), p) <=> Holds(readyQueue, p) \/ p = r
      BY <1>3, AppendHolds
    <3> QED  BY <2>2, <3>1, <3>2 DEF Holds
  <2> QED  BY <1>7, <2>1, <2>2
<1>9. \A p \in Procs : Owed(p)' = Owed(p) /\ (DueTick(p)' <=> DueTick(p))
  BY <1>1, SameJobs DEF Owed, procVars
<1>10. \A p \in Procs : Base(p)' = Base(p)
  <2>1. \A p \in Procs : pcb'[p].waitingTime = pcb[p].waitingTime
    BY <1>6, <1>7
  <2> QED  BY <1>1, <1>9, <2>1, SameBase
<1>11. MemoryInv'
  BY <1>1, <1>2, <1>4, <1>6 DEF LedgerInv, MemoryInv
<1>12. ServedInv' /\ SharedInv'
  <2>1. ~AfterTick'
    BY <1>1, <1>3, <1>7 DEF AfterTick, BeforeTick
  <2>2. clk' = Base(running)' /\ ~DueTick(running)'
    BY <1>1, <1>2, <1>3, <1>5, <1>9, <1>10
  <2> QED  BY <2>1, <2>2 DEF ServedInv, SharedInv
<1>13. StoppedInv' /\ QueuedInv'
  <2>1. StoppedInv'
    BY <1>1, <1>5, <1>6, <1>7, <1>10 DEF LedgerInv, StoppedInv
  <2>2. QueuedInv'
    BY <1>1, <1>3, <1>5, <1>6, <1>7, <1>8, <1>9 DEF LedgerInv, QueuedInv
  <2> QED  BY <2>1, <2>2
<1>14. ReportInv'
  BY <1>1, <1>2, <1>4, <1>6, <1>7 DEF LedgerInv, ReportInv, Reported, procVars
<1>15. ReadInv' /\ BusyInv' /\ UrgentInv'
  <2>1. ReadInv' /\ BusyInv'
    BY <1>1, <1>5, <1>7 DEF ReadInv, BusyInv
  <2>2. ASSUME SchedulerType = 2, NEW p \in Procs
        PROVE  /\ pcb'[p].state = "READY" => pcb'[p].priority = processes[p].priority
               /\ pcb'[p].state # "BLOCKED"
    <3>1. CASE p = r
      BY <1>4, <1>7, <2>2, <3>1 DEF LedgerInv, UrgentInv
    <3>2. CASE p # r
      BY <1>6, <2>2, <3>2 DEF LedgerInv, UrgentInv
    <3> QED  BY <3>1, <3>2
  <2> QED  BY <1>1, <1>7, <2>1, <2>2 DEF UrgentInv
<1>16. ShortestInv'
  <2> SUFFICES ASSUME SchedulerType = 0, spc' = "spin", NEW p \in Procs, Holds(readyQueue, p)
               PROVE  Owed(r) <= Owed(p)
    BY <1>1, <1>2, <1>7, <1>8, <1>9 DEF ShortestInv, AfterPick
  <2>1. PICK i \in First(readyQueue) : ~(shm > pcb[readyQueue[i]].remainingTime)
    BY <1>7
  <2>2. PICK m \in Procs : m = readyQueue[i]
    BY <2>1 DEF First
  <2>3. Owed(m) <= Owed(p) /\ ~(Owed(r) > Owed(m)) /\ Owed(m) \in Int /\ Owed(p) \in Int /\ Owed(r) \in Int
    BY <1>5, <2>1, <2>2, LeastOwed, LedgerTypes
  <2> QED  BY <2>3
<1> QED  BY <1>11, <1>12, <1>13, <1>14, <1>15, <1>16 DEF LedgerInv

(* The preempted process is stopped at the tick its times add up to. *)
LEMMA LedgerStop ==
    ASSUME InTurnSystem, TypeOK, AccountInv, OrderInv, LedgerInv, UNCHANGED genVars, StopRunning, ~Fault
    PROVE  LedgerInv'
<1> USE OrderTypes
<1>1. /\ spc = "sleep" /\ spc' = "pick" /\ hpc = "main" /\ hpc' = hpc /\ running \in Procs
      /\ UNCHANGED <<clk, shm, running, processes, readyQueue, msgq, allocated, ta>>
      /\ UNCHANGED procVars
      /\ slp' = IF running \in exited THEN slp ELSE slp \cup {running}
      /\ pcb' = IF SchedulerType = 1 THEN [pcb EXCEPT ![running] = Stopped(pcb[running])] ELSE pcb
  BY DEF StopRunning, ToggleRunning, Sleep, Main, HandlerUnchanged, genVars
<1>2. PICK r \in Procs : r = running
  BY <1>1
<1>3. Ticked(r) /\ ~DueTick(r) /\ ~DueTick(r)' /\ ppc[r] = "loop"
  <2>1. Ticked(r)
    BY <1>1, <1>2 DEF OrderInv, HolderInv
  <2> QED  BY <1>1, <1>2, <2>1 DEF Ticked, DueTick, procVars
<1>4. pcb[r].state \in {"READY", "BLOCKED"} /\ clk = Base(r) /\ SchedulerType # 2 /\ msgq = <<>>
  <2>1. pcb[r].state \notin {"new", "freed"}
    BY <1>1, <1>2 DEF AccountInv, RunningInv, PlaceInv, IsNew, IsFreed
  <2> QED  BY <1>1, <1>2, <1>3, <2>1
           DEF OrderInv, OthersInv, Place, PCB, LedgerInv, ServedInv, UrgentInv, ReadInv, AfterRead
<1>5. /\ \A p \in Procs : p # r => pcb'[p] = pcb[p]
      /\ pcb'[r].waitingTime = pcb[r].waitingTime /\ pcb'[r].remainingTime = pcb[r].remainingTime
      /\ pcb'[r].state \in {"READY", "BLOCKED"}
      /\ pcb'[r].state = "BLOCKED" => pcb'[r].waitStart = clk
  <2>1. \A p \in Procs : p # r => pcb'[p] = pcb[p]
    BY <1>1, <1>2
  <2>2. CASE SchedulerType = 1
    <3>1. pcb'[r] = Stopped(pcb[r]) /\ pcb[r] \in PCB
      BY <1>1, <1>2, <2>2
    <3> QED  BY <2>1, <3>1 DEF Stopped, PCB
  <2>3. CASE SchedulerType # 1
    BY <1>1, <1>4, <2>1, <2>3 DEF LedgerInv, StoppedInv
  <2> QED  BY <2>2, <2>3
<1>6. \A p \in Procs : Owed(p)' = Owed(p) /\ (Holds(readyQueue, p)' <=> Holds(readyQueue, p))
  BY <1>1 DEF Owed, Holds, procVars
<1>7. \A p \in Procs : Base(p)' = Base(p)
  <2>1. \A p \in Procs : pcb'[p].waitingTime = pcb[p].waitingTime
    BY <1>5
  <2> QED  BY <1>1, <1>6, <2>1, SameBase
<1>8. ~AfterTick' /\ ~AfterPick'
  BY <1>1 DEF AfterTick, BeforeTick, AfterPick
<1>9. MemoryInv' /\ QueuedInv'
  BY <1>1, <1>2, <1>4, <1>5, <1>6 DEF LedgerInv, MemoryInv, QueuedInv
<1>10. StoppedInv'
  BY <1>1, <1>4, <1>5, <1>7 DEF LedgerInv, StoppedInv
<1>11. ServedInv' /\ SharedInv'
  BY <1>1, <1>2, <1>3, <1>4, <1>7, <1>8 DEF ServedInv, SharedInv
<1>12. ReportInv'
  BY <1>1, <1>2, <1>5 DEF LedgerInv, ReportInv, Reported, procVars
<1>13. ReadInv' /\ BusyInv' /\ ShortestInv' /\ UrgentInv'
  BY <1>1, <1>4, <1>8 DEF ReadInv, BusyInv, ShortestInv, UrgentInv
<1> QED  BY <1>9, <1>10, <1>11, <1>12, <1>13 DEF LedgerInv

(* The process taken from the queue. *)
LEMMA LedgerPick ==
    ASSUME InTurnSystem, TypeOK, AccountInv, OrderInv, LedgerInv, UNCHANGED genVars, Pick, ~Fault
    PROVE  LedgerInv'
<1> USE OrderTypes
<1>1. PICK i \in First(readyQueue) :
         /\ running' = readyQueue[i] /\ readyQueue' = RemoveAt(readyQueue, i)
         /\ spc' = IF pcb[readyQueue[i]].state = "READY" THEN "start" ELSE "resume"
  BY DEF Pick
<1>2. /\ spc = "pick" /\ hpc = "main" /\ hpc' = hpc
      /\ UNCHANGED <<clk, shm, slp, pcb, processes, msgq, allocated, ta>>
      /\ UNCHANGED procVars
  BY DEF Pick, Main, HandlerUnchanged, ipcVars, genVars
<1>3. PICK r \in Procs : r = readyQueue[i] /\ Holds(readyQueue, r)
  BY <1>1, FirstIndex DEF Holds
<1>4. \A p : Holds(readyQueue, p)' <=> Holds(readyQueue, p) /\ p # r
  <2>1. i \in 1 .. Len(readyQueue) /\ IsInjective(readyQueue)
    BY <1>1, FirstIndex DEF AccountInv, PlaceInv
  <2>2. \A p : Holds(RemoveAt(readyQueue, i), p) <=> Holds(readyQueue, p) /\ p # readyQueue[i]
    BY <2>1, RemoveHolds
  <2> QED  BY <1>1, <1>3, <2>2 DEF Holds
<1>5. /\ pcb[r].state \in {"READY", "BLOCKED"} /\ running' = r
      /\ spc' = (IF pcb[r].state = "READY" THEN "start" ELSE "resume")
      /\ pcb[r].state = "READY" => ppc[r] = "none" \/ r = running
  BY <1>1, <1>3 DEF OrderInv, OthersInv, Place
<1>6. r # running
  BY <1>1, <1>2, <1>3 DEF OrderInv, RemainsInv, QueueInv, First
<1>7. \A p \in Procs : /\ Owed(p)' = Owed(p) /\ (DueTick(p)' <=> DueTick(p))
                       /\ Base(p)' = Base(p)
  BY <1>2, SameJobs DEF Owed, Base, procVars
<1>8. ~AfterTick' /\ msgq = <<>>
  BY <1>2, <1>5 DEF AfterTick, BeforeTick, LedgerInv, ReadInv, AfterRead
<1>9. MemoryInv' /\ QueuedInv'
  BY <1>2, <1>4, <1>7 DEF LedgerInv, MemoryInv, QueuedInv
<1>10. StoppedInv'
  BY <1>2, <1>5, <1>7 DEF LedgerInv, StoppedInv
<1>11. ServedInv' /\ SharedInv'
  BY <1>2, <1>5, <1>6, <1>8 DEF ServedInv, SharedInv, procVars
<1>12. ReportInv'
  BY <1>2 DEF LedgerInv, ReportInv, Reported, procVars
<1>13. ReadInv' /\ BusyInv' /\ UrgentInv'
  BY <1>2, <1>5, <1>8 DEF LedgerInv, ReadInv, BusyInv, UrgentInv
<1>14. ShortestInv'
  BY <1>1, <1>3, <1>4, <1>5, <1>7, LeastOwed DEF ShortestInv
<1> QED  BY <1>9, <1>10, <1>11, <1>12, <1>13, <1>14 DEF LedgerInv

(* A first dispatch: all the time since its arrival was waiting. *)
LEMMA LedgerStart ==
    ASSUME InTurnSystem, TypeOK, AccountInv, OrderInv, LedgerInv, UNCHANGED genVars, StartRunning, ~Fault
    PROVE  LedgerInv'
<1> USE OrderTypes
<1>1. /\ spc = "start" /\ spc' = "pid" /\ hpc = "main" /\ hpc' = hpc /\ running \in Procs
      /\ pcb' = [pcb EXCEPT ![running].waitingTime = clk - processes[running].arrivalTime]
      /\ ppc' = [ppc EXCEPT ![running] = "exec"]
      /\ UNCHANGED <<clk, slp, running, processes, readyQueue, msgq, allocated, ta>>
      /\ UNCHANGED <<remainingtime, curTime, blocked>>
  BY DEF StartRunning, Main, HandlerUnchanged, genVars
<1>2. PICK r \in Procs : r = running
  BY <1>1
<1>3. ppc[r] = "none" /\ pcb[r].state = "READY" /\ ~Holds(readyQueue, r) /\ msgq = <<>>
  BY <1>1, <1>2 DEF OrderInv, HolderInv, AccountInv, RunningInv, LedgerInv, ReadInv, AfterRead
<1>4. /\ \A p \in Procs : p # r => pcb'[p] = pcb[p] /\ ppc'[p] = ppc[p]
      /\ pcb'[r].state = "READY" /\ pcb'[r].priority = pcb[r].priority
      /\ pcb'[r].waitingTime = clk - processes[r].arrivalTime
      /\ ppc'[r] = "exec"
  BY <1>1, <1>2, <1>3 DEF PCB
<1>5. \A p \in Procs : Owed(p)' = Owed(p) /\ (Holds(readyQueue, p)' <=> Holds(readyQueue, p))
  BY <1>1, <1>3, <1>4 DEF Owed, Holds
<1>6. \A p \in Procs : p # r => Base(p)' = Base(p)
  BY <1>1, <1>4, <1>5, SameBase
<1>7. Base(r)' = clk /\ ~DueTick(r)'
  <2>1. pcb'[r].waitingTime = clk - processes[r].arrivalTime /\ Owed(r)' = processes[r].runTime
    BY <1>3, <1>4, <1>5 DEF Owed
  <2> QED  BY <1>1, <1>4, <2>1, BaseStarted DEF DueTick
<1>8. ~AfterTick' /\ AfterPick
  BY <1>1 DEF AfterTick, BeforeTick, AfterPick, OrderInv, PassInv
<1>9. MemoryInv' /\ QueuedInv' /\ StoppedInv'
  BY <1>1, <1>3, <1>4, <1>5, <1>6 DEF LedgerInv, MemoryInv, QueuedInv, StoppedInv
<1>10. ServedInv' /\ SharedInv'
  BY <1>1, <1>2, <1>7, <1>8 DEF ServedInv, SharedInv
<1>11. ReportInv'
  BY <1>1, <1>3, <1>4 DEF LedgerInv, ReportInv, Reported
<1>12. ReadInv' /\ BusyInv' /\ UrgentInv'
  BY <1>1, <1>3, <1>4 DEF LedgerInv, ReadInv, BusyInv, UrgentInv
<1>13. ShortestInv'
  BY <1>1, <1>2, <1>5, <1>8 DEF LedgerInv, ShortestInv
<1> QED  BY <1>9, <1>10, <1>11, <1>12, <1>13 DEF LedgerInv

(* A later dispatch: the time since it was stopped was waiting too. *)
LEMMA LedgerDispatched ==
    ASSUME InTurnSystem, TypeOK, AccountInv, OrderInv, LedgerInv, UNCHANGED genVars,
           AssignPid \/ ResumeRunning, ~Fault
    PROVE  LedgerInv'
<1> USE OrderTypes
<1>1. /\ spc \in {"pid", "resume"} /\ spc' = "spin" /\ hpc = "main" /\ hpc' = hpc /\ running \in Procs
      /\ UNCHANGED <<clk, shm, running, processes, readyQueue, scur, msgq, allocated, ta>>
      /\ UNCHANGED procVars
      /\ \/ spc = "pid" /\ UNCHANGED slp /\ pcb' = [pcb EXCEPT ![running].pid = TRUE]
         \/ spc = "resume" /\ pcb' = [pcb EXCEPT ![running] = Resumed(pcb[running])]
  BY DEF AssignPid, ResumeRunning, ToggleRunning, Sleep, Main, HandlerUnchanged, ipcVars, genVars
<1>2. PICK r \in Procs : r = running
  BY <1>1
<1>3. ~Holds(readyQueue, r) /\ pcb[r].state \in {"READY", "BLOCKED"} /\ msgq = <<>>
  <2>1. ~Holds(readyQueue, r) /\ pcb[r].state \notin {"new", "freed"} /\ ppc[r] # "none"
    BY <1>1, <1>2 DEF AccountInv, RunningInv, PlaceInv, IsNew, IsFreed, OrderInv, HolderInv,
       Fresh, Ticked, Asleep
  <2> QED  BY <1>1, <1>2, <2>1 DEF OrderInv, OthersInv, Place, PCB, LedgerInv, ReadInv, AfterRead
<1>4. \A p \in Procs : p # r => pcb'[p] = pcb[p]
  BY <1>1, <1>2
<1>5. \A p \in Procs : Owed(p)' = Owed(p) /\ (Holds(readyQueue, p)' <=> Holds(readyQueue, p))
  BY <1>1 DEF Owed, Holds, procVars
<1>6. \A p \in Procs : p # r => Base(p)' = Base(p)
  BY <1>1, <1>4, <1>5, SameBase
<1>7. /\ Base(r)' = clk /\ ~DueTick(r)'
      /\ pcb'[r].state = "READY" /\ pcb'[r].priority = pcb[r].priority
      /\ SchedulerType = 2 => pcb[r].state = "READY"
  <2>1. CASE spc = "pid"
    <3>1. /\ pcb'[r].waitingTime = pcb[r].waitingTime /\ pcb'[r].state = pcb[r].state
          /\ pcb'[r].priority = pcb[r].priority
      BY <1>1, <1>2, <2>1 DEF PCB
    <3>2. Fresh(r) \/ Ticked(r)
      BY <1>2, <2>1, <1>1 DEF OrderInv, HolderInv
    <3>3. ~DueTick(r) /\ ~DueTick(r)'
      BY <1>1, <2>1, <3>2 DEF Fresh, Ticked, DueTick, procVars
    <3>4. Base(r)' = Base(r) /\ Base(r) = clk /\ pcb[r].state # "BLOCKED"
      BY <1>1, <1>2, <1>5, <2>1, <3>1, <3>2, <3>3, SameBase
         DEF LedgerInv, ServedInv, OrderInv, OthersInv, Place, Fresh, Ticked
    <3> QED  BY <1>3, <3>1, <3>3, <3>4
  <2>2. CASE spc = "resume"
    <3>1. pcb[r].state = "BLOCKED" /\ pcb[r].waitStart = Base(r) /\ SchedulerType # 2
      BY <1>2, <2>2 DEF LedgerInv, StoppedInv, UrgentInv
    <3>2. pcb'[r] = Resumed(pcb[r]) /\ pcb[r] \in PCB
      BY <1>1, <1>2, <2>2
    <3>3. /\ pcb'[r].state = "READY" /\ pcb'[r].priority = pcb[r].priority
          /\ pcb'[r].waitingTime = pcb[r].waitingTime + clk - pcb[r].waitStart
      BY <3>2 DEF Resumed, PCB
    <3>4. ppc[r] = "blk" /\ ppc' = ppc
      BY <1>1, <1>2, <2>2 DEF OrderInv, HolderInv, Asleep, procVars
    <3>5. Base(r)' = clk
      BY <1>1, <1>5, <3>1, <3>3, BaseResumed
    <3> QED  BY <3>1, <3>3, <3>4, <3>5 DEF DueTick
  <2> QED  BY <1>1, <2>1, <2>2
<1>8. ~AfterTick' /\ AfterPick
  BY <1>1 DEF AfterTick, BeforeTick, AfterPick, OrderInv, PassInv
<1>9. MemoryInv' /\ QueuedInv'
  BY <1>1, <1>2, <1>3, <1>4, <1>5 DEF LedgerInv, MemoryInv, QueuedInv
<1>14. StoppedInv'
  BY <1>1, <1>4, <1>6, <1>7 DEF LedgerInv, StoppedInv
<1>10. ServedInv' /\ SharedInv'
  BY <1>1, <1>2, <1>7, <1>8 DEF ServedInv, SharedInv
<1>11. ReportInv'
  BY <1>1, <1>4, <1>7 DEF LedgerInv, ReportInv, Reported, procVars
<1>12. ReadInv' /\ BusyInv' /\ UrgentInv'
  BY <1>1, <1>2, <1>3, <1>4, <1>7 DEF LedgerInv, ReadInv, BusyInv, UrgentInv
<1>13. ShortestInv'
  BY <1>1, <1>2, <1>5, <1>8 DEF LedgerInv, ShortestInv
<1> QED  BY <1>9, <1>14, <1>10, <1>11, <1>12, <1>13 DEF LedgerInv

(* The handler reports a process none of whose time is left. *)
LEMMA LedgerHandler ==
    ASSUME InTurnSystem, TypeOK, AccountInv, OrderInv, LedgerInv, UNCHANGED genVars,
           ProcFinished \/ ProcReaped, ~Fault
    PROVE  LedgerInv'
<1> USE OrderTypes
<1>1. CASE ProcFinished
  <2>1. /\ hpc = "main" /\ hpc' = "reap" /\ "SIGPF" \in sigs /\ running \in Procs /\ spc # "slpProc"
        /\ pcb' = [pcb EXCEPT ![running].remainingTime = shm]
        /\ ta' = [ta EXCEPT ![running] = clk - processes[running].arrivalTime]
        /\ allocated' = allocated \ {running}
        /\ UNCHANGED <<clk, shm, slp, spc, scur, running, processes, readyQueue, msgq>>
        /\ UNCHANGED procVars
    BY <1>1 DEF ProcFinished, UserMode, genVars
  <2>2. PICK r \in Procs : r = running
    BY <2>1
  <2>3. spc = "read" /\ ppc[r] = "end" /\ ~Holds(readyQueue, r) /\ pcb[r].state # "freed"
    BY <2>1, <2>2 DEF OrderInv, SignalInv, AccountInv, RunningInv, IsFreed
  <2>4. remainingtime[r] = 0 /\ Owed(r) = 0 /\ shm = 0 /\ clk = Base(r) /\ ~DueTick(r)
    <3>1. remainingtime[r] = 0 /\ ~DueTick(r)
      BY <2>3 DEF OrderInv, RemainsInv, Remains, DueTick
    <3> QED  BY <2>2, <2>3, <3>1 DEF Owed, LedgerInv, SharedInv, ServedInv, AfterTick
  <2>5. /\ \A p \in Procs : p # r => pcb'[p] = pcb[p] /\ ta'[p] = ta[p] /\ (p \in allocated' <=> p \in allocated)
        /\ pcb'[r].state = pcb[r].state /\ pcb'[r].waitingTime = pcb[r].waitingTime
        /\ pcb'[r].remainingTime = shm /\ pcb'[r].priority = pcb[r].priority
        /\ pcb'[r].waitStart = pcb[r].waitStart
        /\ ta'[r] = clk - processes[r].arrivalTime
    BY <2>1, <2>2, LedgerTypes DEF PCB
  <2>6. \A p \in Procs : /\ Owed(p)' = Owed(p) /\ (DueTick(p)' <=> DueTick(p))
                         /\ Holds(readyQueue, p)' <=> Holds(readyQueue, p)
    BY <2>1, SameJobs DEF Owed, Holds, procVars
  <2>7. \A p \in Procs : Base(p)' = Base(p)
    <3>1. \A p \in Procs : pcb'[p].waitingTime = pcb[p].waitingTime
      BY <2>5
    <3> QED  BY <2>1, <2>6, <3>1, SameBase
  <2>8. Reported(r)'
    <3>1. clk - processes[r].arrivalTime = pcb[r].waitingTime + processes[r].runTime
      BY <2>4, BaseEnded
    <3> QED  BY <2>1, <2>4, <2>5, <3>1 DEF Reported
  <2>9. MemoryInv' /\ QueuedInv' /\ StoppedInv'
    BY <2>1, <2>2, <2>3, <2>5, <2>6, <2>7 DEF LedgerInv, MemoryInv, QueuedInv, StoppedInv
  <2>10. ServedInv' /\ SharedInv'
    BY <2>1, <2>2, <2>4, <2>6, <2>7 DEF ServedInv, SharedInv, procVars
  <2>11. ReportInv'
    BY <2>1, <2>2, <2>3, <2>5, <2>8 DEF LedgerInv, ReportInv, Reported, procVars
  <2>12. ReadInv' /\ BusyInv' /\ ShortestInv' /\ UrgentInv'
    BY <2>1, <2>3, <2>5 DEF LedgerInv, ReadInv, BusyInv, ShortestInv, UrgentInv, AfterRead, AfterPick
  <2> QED  BY <2>9, <2>10, <2>11, <2>12 DEF LedgerInv
<1>2. CASE ProcReaped
  <2>1. /\ hpc = "reap" /\ hpc' = "main" /\ running' = Null
        /\ pcb' = [pcb EXCEPT ![running].state = "freed"]
        /\ UNCHANGED <<clk, shm, slp, spc, scur, processes, readyQueue, msgq, allocated, ta>>
        /\ UNCHANGED procVars
    BY <1>2 DEF ProcReaped, genVars
  <2>2. PICK r \in Procs : r = running
    BY <2>1 DEF OrderInv, SignalInv
  <2>3. spc = "read" /\ ppc[r] = "end" /\ ~Holds(readyQueue, r)
    BY <2>1, <2>2 DEF OrderInv, SignalInv, AccountInv, RunningInv
  <2>4. /\ \A p \in Procs : p # r => pcb'[p] = pcb[p]
        /\ pcb'[r].state = "freed" /\ pcb'[r].waitingTime = pcb[r].waitingTime
        /\ pcb'[r].remainingTime = pcb[r].remainingTime
    BY <2>1, <2>2 DEF PCB
  <2>5. \A p \in Procs : Owed(p)' = Owed(p) /\ (Holds(readyQueue, p)' <=> Holds(readyQueue, p))
    BY <2>1 DEF Owed, Holds, procVars
  <2>6. \A p \in Procs : Base(p)' = Base(p)
    <3>1. \A p \in Procs : pcb'[p].waitingTime = pcb[p].waitingTime
      BY <2>4
    <3> QED  BY <2>1, <2>5, <3>1, SameBase
  <2>7. MemoryInv' /\ QueuedInv' /\ StoppedInv'
    BY <2>1, <2>2, <2>3, <2>4, <2>5, <2>6 DEF LedgerInv, MemoryInv, QueuedInv, StoppedInv
  <2>8. ServedInv' /\ SharedInv'
    BY <2>1 DEF ServedInv, SharedInv
  <2>9. ReportInv'
    BY <2>1, <2>2, <2>4 DEF LedgerInv, ReportInv, Reported, procVars
  <2>10. ReadInv' /\ BusyInv' /\ ShortestInv' /\ UrgentInv'
    BY <2>1, <2>3, <2>4 DEF LedgerInv, ReadInv, BusyInv, ShortestInv, UrgentInv, AfterRead
  <2> QED  BY <2>7, <2>8, <2>9, <2>10 DEF LedgerInv
<1> QED  BY <1>1, <1>2

(* Every step of the scheduler.                                               *)
LEMMA LedgerScheduling ==
    ASSUME InTurnSystem, TypeOK, AccountInv, OrderInv, LedgerInv, Scheduling
    PROVE  LedgerInv'
<1>1. ~Fault /\ UNCHANGED genVars
  BY OrderNoFault DEF Scheduling
<1>2. ~SchedKilledEarly
  BY <1>1 DEF SchedKilledEarly
<1> QED  BY <1>1, <1>2, LedgerQuietSteps, LedgerRead, LedgerCreate, LedgerCharge, LedgerStop, LedgerPick,
            LedgerStart, LedgerDispatched, LedgerHandler DEF Scheduling, SchedNext

(* A stuttering step.                                                         *)
LEMMA LedgerStutter == ASSUME LedgerInv, UNCHANGED vars PROVE LedgerInv'
<1>1. UNCHANGED <<clk, shm, slp, msgq, processes>> /\ UNCHANGED procVars /\ UNCHANGED schedVars
  BY DEF vars, ipcVars, genVars
<1>2. \A p \in Procs : /\ Owed(p)' = Owed(p) /\ Base(p)' = Base(p) /\ (DueTick(p)' <=> DueTick(p))
                       /\ Holds(readyQueue, p)' <=> Holds(readyQueue, p)
  BY <1>1, SameJobs DEF Owed, Base, Holds, procVars, schedVars
<1>3. UNCHANGED <<spc, scur, hpc, running, readyQueue, pcb, allocated, ta>>
  BY <1>1 DEF schedVars
<1>4. (AfterRead' <=> AfterRead) /\ (AfterTick' <=> AfterTick) /\ (AfterPick' <=> AfterPick)
  BY <1>1, <1>3 DEF AfterRead, AfterTick, BeforeTick, AfterPick
<1>5. MemoryInv' /\ StoppedInv' /\ QueuedInv' /\ ReportInv'
  BY <1>1, <1>2, <1>3 DEF LedgerInv, MemoryInv, StoppedInv, QueuedInv, ReportInv, Reported, procVars
<1>6. ServedInv' /\ SharedInv' /\ ReadInv' /\ BusyInv' /\ ShortestInv' /\ UrgentInv'
  <2>1. (running # Null => running \in Procs) \/ running \notin Procs
    OBVIOUS
  <2>2. /\ Owed(running)' = Owed(running) /\ Base(running)' = Base(running)
        /\ DueTick(running)' <=> DueTick(running)
    BY <1>1, <1>3 DEF Owed, Base, DueTick, procVars
  <2> QED  BY <1>1, <1>2, <1>3, <1>4, <2>2
           DEF LedgerInv, ServedInv, SharedInv, ReadInv, BusyInv, ShortestInv, UrgentInv, procVars
<1> QED  BY <1>5, <1>6 DEF LedgerInv

(* In a prompt system whose jobs end in turn the ledger holds at every step:  *)
(* LedgerInv is inductive together with OrderInv and what that needs.         *)
THEOREM LedgerInvariant == ASSUME InTurnSystem PROVE Spec /\ [][EndsInTurn]_vars => []LedgerInv
<1>1. TypeOK /\ SendInv /\ AccountInv /\ OrderInv /\ LedgerInv /\ [Next]_vars => LedgerInv'
  BY LedgerClock, LedgerGenerator, LedgerJob, LedgerScheduling, LedgerStutter DEF Next, Terminated
<1>2. RQSZ >= N
  BY DEF InTurnSystem
<1> QED
  BY <1>1, <1>2, LedgerInit, TypeCorrect, SendInvariant, AccountInvariant, OrderInvariant, PTL DEF Spec

------------------------------------------------------------------------------
(* Theorems of the schedule.                                                  *)

(* In a prompt system whose jobs end in turn memory is released only by       *)
(* processes that have done their work.                                       *)
THEOREM InTurnMemoryHeld == ASSUME InTurnSystem PROVE Spec /\ [][EndsInTurn]_vars => []MemoryHeldWhileWorking
<1>1. TypeOK /\ OrderInv /\ LedgerInv => MemoryHeldWhileWorking
  <2> SUFFICES ASSUME TypeOK, OrderInv, LedgerInv, NEW p \in Working PROVE p \in allocated
    BY DEF MemoryHeldWhileWorking
  <2>1. p \in Procs /\ ppc[p] \in {"exec", "bound", "loop", "up", "blk"}
    BY DEF Working
  <2>2. pcb[p].state \in {"READY", "BLOCKED"} /\ ~(p = running /\ hpc = "reap")
    BY <2>1, OrderTypes DEF OrderInv, OthersInv, Place, PCB, SignalInv
  <2> QED  BY <2>1, <2>2 DEF LedgerInv, MemoryInv
<1> QED  BY <1>1, LedgerInvariant, OrderInvariant, TypeCorrect, PTL

(* In a prompt system whose jobs end in turn and have work to do, the report  *)
(* of a finished process adds up, whatever preemptions it went through.       *)
THEOREM InTurnTurnaround == ASSUME InTurnSystem PROVE Spec /\ [][EndsInTurn]_vars => []TurnaroundIsWaitPlusRun
<1>1. LedgerInv => TurnaroundIsWaitPlusRun
  BY DEF LedgerInv, ReportInv, Reported, TurnaroundIsWaitPlusRun, Finished, Freed, Forked
<1> QED  BY <1>1, LedgerInvariant, PTL

(* Once the scheduler has read the message queue in a tick, who has arrived   *)
(* and is neither freed nor on the CPU is in the ready queue.                 *)
LEMMA WaitingQueued ==
    ASSUME TypeOK, SendInv, AccountInv, OrderInv, LedgerInv, AfterRead, NEW q \in Waiting
    PROVE  q \in Procs /\ Holds(readyQueue, q) /\ q # running /\ ~IsFreed(q)
<1>1. q \in Procs /\ ~IsFreed(q) /\ q # running /\ processes[q].arrivalTime <= clk
  BY DEF Waiting, Freed, IsFreed
<1>2. msgq = <<>> /\ spc \notin {"create", "fault", "exit"} /\ Taken
  BY DEF LedgerInv, ReadInv, AfterRead, OrderInv, PassInv, Taken
<1>3. q \in arrived
  BY <1>1, <1>2 DEF OrderInv, PassInv, SendInv, Sent
<1>4. ~Holds(msgq, q) /\ ~IsNew(q)
  BY <1>1, <1>2 DEF Holds, AccountInv, RunningInv
<1> QED  BY <1>1, <1>3, <1>4 DEF AccountInv, PlaceInv

(* Between two ticks the scheduler has exited, or read and dispatched.        *)
LEMMA QuiescentRead ==
    ASSUME InTurnSystem, TypeOK, SendInv, AccountInv, OrderInv, Quiescent, Waiting # {}
    PROVE  spc = "spin" /\ scur = clk /\ AfterRead /\ AfterPick
<1>1. spc = "exit" => Waiting = {}
  <2>1. spc = "exit" => Freed = Procs
    BY ExitWhenFreed DEF InTurnSystem
  <2> QED  BY <2>1 DEF Waiting
<1>2. spc = "exit" \/ (spc = "spin" /\ scur = clk)
  BY ClockMoves
<1> QED  BY <1>1, <1>2 DEF AfterRead, AfterPick

(* In a prompt system whose jobs end in turn the CPU is never left idle       *)
(* between two ticks while a process waits for it.                            *)
THEOREM InTurnWorkConserving == ASSUME InTurnSystem PROVE Spec /\ [][EndsInTurn]_vars => []WorkConserving
<1>1. TypeOK /\ SendInv /\ AccountInv /\ OrderInv /\ LedgerInv => WorkConserving
  <2> SUFFICES ASSUME TypeOK, SendInv, AccountInv, OrderInv, LedgerInv, Quiescent, NEW q \in Waiting,
                      running = Null
               PROVE  FALSE
    BY DEF WorkConserving
  <2>1. spc = "spin" /\ scur = clk /\ AfterRead
    BY QuiescentRead
  <2>2. Holds(readyQueue, q) /\ readyQueue = <<>>
    BY <2>1, WaitingQueued DEF LedgerInv, BusyInv
  <2> QED  BY <2>2 DEF Holds
<1> QED
  BY <1>1, LedgerInvariant, OrderInvariant, TypeCorrect, SendInvariant, AccountInvariant, PTL DEF InTurnSystem

(* SRTN, in a prompt system whose jobs end in turn: between two ticks nobody  *)
(* who has arrived is owed less than the process with the CPU; the shared     *)
(* word it goes by is what that process is owed.                              *)
THEOREM SRTNShortestRuns ==
    ASSUME InTurnSystem, SchedulerType = 0
    PROVE  Spec /\ [][EndsInTurn]_vars => []ShortestRuns
<1>1. TypeOK /\ SendInv /\ AccountInv /\ OrderInv /\ LedgerInv => ShortestRuns
  <2> SUFFICES ASSUME TypeOK, SendInv, AccountInv, OrderInv, LedgerInv, Quiescent, running # Null,
                      NEW q \in Waiting
               PROVE  Owed(running) <= Owed(q)
    BY DEF ShortestRuns
  <2>1. AfterRead /\ AfterPick
    BY QuiescentRead
  <2>2. q \in Procs /\ Holds(readyQueue, q)
    BY <2>1, WaitingQueued
  <2> QED  BY <2>1, <2>2 DEF LedgerInv, ShortestInv
<1> QED
  BY <1>1, LedgerInvariant, OrderInvariant, TypeCorrect, SendInvariant, AccountInvariant, PTL DEF InTurnSystem

(* HPF, in a prompt system whose jobs end in turn: at a dispatch nobody who   *)
(* has arrived and waits is more urgent, and who gets the CPU keeps it to its *)
(* end.                                                                       *)
THEOREM HPFMostUrgent ==
    ASSUME InTurnSystem, SchedulerType = 2
    PROVE  Spec /\ [][EndsInTurn]_vars => MostUrgentRunsToCompletion
<1> DEFINE Dispatch ==
        IF running # Null
        THEN running' = Null /\ ppc[running] = "end"
        ELSE running' # Null => \A q \in Waiting : processes[running'].priority <= processes[q].priority
<1>1. TypeOK /\ SendInv /\ AccountInv /\ OrderInv /\ LedgerInv /\ [Next]_vars => Dispatch \/ UNCHANGED running
  <2> SUFFICES ASSUME TypeOK, SendInv, AccountInv, OrderInv, LedgerInv, Next, running' # running
               PROVE  Dispatch
    BY DEF vars, schedVars
  <2>1. Scheduling /\ ~Fault
    <3>1. Scheduling
      BY DEF Next, Clock, Generator, Job, Terminated, schedVars, vars
    <3> QED  BY <3>1, OrderNoFault
  <2>2. CASE Pick
    <3>1. PICK i \in First(readyQueue) : spc = "pick" /\ running' = readyQueue[i]
      BY <2>1, <2>2 DEF Pick, Main
    <3>2. running = Null /\ AfterRead
      BY <3>1 DEF LedgerInv, UrgentInv, AfterRead
    <3>3. PICK r \in Procs : r = readyQueue[i] /\ Holds(readyQueue, r)
      BY OrderTypes DEF First, Holds
    <3>4. \A q \in Procs : Holds(readyQueue, q) => pcb[q].priority = processes[q].priority
      BY DEF OrderInv, OthersInv, Place, LedgerInv, UrgentInv
    <3>5. ASSUME NEW q \in Waiting PROVE processes[r].priority <= processes[q].priority
      <4>1. q \in Procs /\ Holds(readyQueue, q)
        BY <3>2, WaitingQueued
      <4>2. PICK j \in DOMAIN readyQueue : readyQueue[j] = q
        BY <4>1 DEF Holds
      <4>3. pcb[r].priority <= pcb[q].priority
        BY <3>3, <4>2 DEF First
      <4> QED  BY <3>3, <3>4, <4>1, <4>3
    <3> QED  BY <3>1, <3>2, <3>3, <3>5
  <2>3. CASE ProcReaped
    BY <2>3 DEF ProcReaped, OrderInv, SignalInv
  <2>4. Pick \/ ProcReaped
    BY <2>1 DEF Scheduling, SchedNext, SchedBoot, SchedKilledEarly, SchedNewTick, SchedExit, DownGen,
        CheckRunning, DownProc, ReadMSGQ, CreateEntry, ReadDone, Schedule, Charge, StopRunning,
        StartRunning, AssignPid, ResumeRunning, ReadProcess, ProcFinished
  <2> QED  BY <2>2, <2>3, <2>4
<1> QED
  BY <1>1, LedgerInvariant, OrderInvariant, TypeCorrect, SendInvariant, AccountInvariant, PTL
     DEF InTurnSystem, Spec, MostUrgentRunsToCompletion

------------------------------------------------------------------------------
(* Every algorithm implements the abstract CPU.                               *)

(* The second of service of a job is one of the holder of the CPU.            *)
LEMMA OrderCPUJob ==
    ASSUME InTurnSystem, TypeOK, AccountInv, OrderInv, NEW j \in Procs, Job(j),
           cpuStatus = [p \in Procs |-> StatusOf(p)], cpuStatus' = [p \in Procs |-> StatusOf(p)']
    PROVE  CPU!Next \/ UNCHANGED CPU!vars
<1> USE OrderTypes
<1>1. \A p \in Procs : StatusOf(p)' = StatusOf(p)
  BY DEF Job, schedVars, StatusOf, Holds
<1>2. CASE \A p \in Procs : Owed(p)' = Owed(p)
  BY <1>1, <1>2, CPUStutters
<1>3. CASE ~(\A p \in Procs : Owed(p)' = Owed(p))
  <2>1. /\ j = running /\ (BeforeTick \/ spc = "slpProc") /\ DueTick(j) /\ Owed(j)' = Owed(j) - 1
        /\ \A p \in Procs : p # j => Owed(p)' = Owed(p)
    BY <1>3, JobOwed
  <2>2. StatusOf(j) = "cpu"
    BY <2>1 DEF DueTick, BeforeTick, OrderInv, OthersInv, Place, AccountInv, RunningInv, StatusOf, PCB
  <2>3. Owed(j) > 0
    BY <2>1 DEF DueTick, Owed, OrderInv, RemainsInv, Remains
  <2> QED  BY <1>1, <2>1, <2>2, <2>3, CPUServes DEF CPU!Next
<1> QED  BY <1>2, <1>3

(* CreateEntry admits or rejects.                                             *)
LEMMA OrderCPUCreate ==
    ASSUME InTurnSystem, TypeOK, AccountInv, OrderInv, CreateEntry, UNCHANGED genVars,
           cpuStatus = [p \in Procs |-> StatusOf(p)], cpuStatus' = [p \in Procs |-> StatusOf(p)']
    PROVE  CPU!Next
<1> USE OrderTypes
<1>1. UNCHANGED <<running, processes>> /\ UNCHANGED procVars
  BY DEF CreateEntry, genVars
<1>2. PICK e \in Procs : pcb[e].state = "new" /\ (EntryRefused(e) \/ EntryCreated(e))
  BY DEF CreateEntry
<1>3. ~Holds(readyQueue, e) /\ e # running /\ IsInjective(readyQueue)
  BY <1>2 DEF AccountInv, PlaceInv, IsNew
<1>7. StatusOf(e) = "new"
  BY <1>2, <1>3 DEF StatusOf
<1>8. \A p \in Procs : Owed(p)' = Owed(p)
  BY <1>1 DEF Owed, procVars
<1>4. StatusOf(e) = "new" /\ \A p \in Procs : Owed(p)' = Owed(p)
  BY <1>7, <1>8
<1>5. CASE EntryRefused(e)
  <2>2. /\ pcb'[e].state = "freed" /\ UNCHANGED readyQueue
        /\ \A p \in Procs : p # e => pcb'[p] = pcb[p]
    BY <1>5 DEF EntryRefused, PCB
  <2>3. StatusOf(e)' = "done"
    BY <1>1, <1>3, <2>2 DEF StatusOf
  <2>4. \A p \in Procs : p # e => StatusOf(p)' = StatusOf(p)
    BY <1>1, <2>2 DEF StatusOf, Holds
  <2>1. StatusOf(e)' = "done" /\ \A p \in Procs : p # e => StatusOf(p)' = StatusOf(p)
    BY <2>3, <2>4
  <2> QED  BY <1>4, <2>1, CPUMoves DEF CPU!Next, CPU!Reject
<1>6. CASE EntryCreated(e)
  <2>1. readyQueue' = Append(readyQueue, e)
    BY <1>3, <1>6, RoomForAll DEF EntryCreated, InTurnSystem
  <2>2. \A p : Holds(Append(readyQueue, e), p) <=> Holds(readyQueue, p) \/ p = e
    BY <1>3, AppendHolds
  <2>3. \A p : Holds(readyQueue, p)' <=> Holds(readyQueue, p) \/ p = e
    BY <2>1, <2>2 DEF Holds
  <2>4. pcb'[e].state = "READY" /\ \A p \in Procs : p # e => pcb'[p] = pcb[p]
    BY <1>6 DEF EntryCreated
  <2>5. StatusOf(e)' = "waiting" /\ \A p \in Procs : p # e => StatusOf(p)' = StatusOf(p)
    BY <1>1, <2>3, <2>4 DEF StatusOf
  <2> QED  BY <1>4, <2>5, CPUMoves DEF CPU!Next, CPU!Admit
<1> QED  BY <1>2, <1>5, <1>6

(* A preemption puts who is still owed something back into the queue.         *)
LEMMA OrderCPUCharge ==
    ASSUME InTurnSystem, TypeOK, AccountInv, OrderInv, Charge, ~Fault, UNCHANGED genVars,
           cpuStatus = [p \in Procs |-> StatusOf(p)], cpuStatus' = [p \in Procs |-> StatusOf(p)']
    PROVE  CPU!Next \/ UNCHANGED CPU!vars
<1> USE OrderTypes
<1>1. /\ spc = "charge" /\ running \in Procs
      /\ UNCHANGED <<running, processes>> /\ UNCHANGED procVars
      /\ HPFSheduler \/ SRTNSheduler \/ RRSheduler
  BY DEF Charge, Main, genVars
<1>2. PICK r \in Procs : r = running
  BY <1>1
<1>3. ppc[r] = "loop" /\ ~Holds(readyQueue, r) /\ IsInjective(readyQueue)
  BY <1>1, <1>2 DEF OrderInv, HolderInv, Ticked, AccountInv, RunningInv, PlaceInv
<1>4. pcb[r].state \in {"READY", "BLOCKED"}
  BY <1>1, <1>2, <1>3 DEF OrderInv, OthersInv, Place, PCB
<1>5. /\ \A p \in Procs : p # r => pcb'[p] = pcb[p]
      /\ pcb'[r].state \in {"READY", "BLOCKED"}
      /\ UNCHANGED readyQueue \/ readyQueue' = Inserted(readyQueue, r)
  <2>1. CASE HPFSheduler \/ RRSheduler
    <3>1. [pcb[r] EXCEPT !.remainingTime = shm].state = pcb[r].state
      BY DEF PCB
    <3>2. /\ pcb' = [pcb EXCEPT ![running].remainingTime = shm]
          /\ UNCHANGED readyQueue \/ readyQueue' = Inserted(readyQueue, running)
      BY <2>1 DEF HPFSheduler, RRSheduler
    <3> QED  BY <1>2, <1>4, <3>1, <3>2
  <2>2. CASE SRTNSheduler
    <3> DEFINE left == [pcb[running] EXCEPT !.remainingTime = shm, !.priority = shm]
    <3>1. left.state \in {"READY", "BLOCKED"} /\ Stopped(left).state = "BLOCKED"
      BY <1>2, <1>4 DEF PCB, Stopped
    <3>2. \/ /\ pcb' = [pcb EXCEPT ![running] = Stopped(left)]
             /\ readyQueue' = Inserted(readyQueue, running)
          \/ /\ pcb' = [pcb EXCEPT ![running] = left]
             /\ UNCHANGED readyQueue
      BY <2>2 DEF SRTNSheduler
    <3> HIDE DEF left
    <3> QED  BY <1>2, <3>1, <3>2
  <2> QED  BY <1>1, <2>1, <2>2
<1>6. \A p \in Procs : Owed(p)' = Owed(p)
  BY <1>1 DEF Owed, procVars
<1>7. CASE UNCHANGED readyQueue
  <2>1. \A p \in Procs : StatusOf(p)' = StatusOf(p)
    BY <1>1, <1>2, <1>4, <1>5, <1>7 DEF StatusOf, Holds
  <2> QED  BY <1>6, <2>1, CPUStutters
<1>8. CASE readyQueue' = Inserted(readyQueue, r)
  <2>1. readyQueue' = Append(readyQueue, r)
    BY <1>3, <1>8, RoomForAll DEF InTurnSystem
  <2>2. \A p : Holds(Append(readyQueue, r), p) <=> Holds(readyQueue, p) \/ p = r
    BY <1>3, AppendHolds
  <2>3. \A p : Holds(readyQueue, p)' <=> Holds(readyQueue, p) \/ p = r
    BY <2>1, <2>2 DEF Holds
  <2>4. StatusOf(r) = "cpu" /\ StatusOf(r)' = "waiting"
    BY <1>1, <1>2, <1>3, <1>4, <1>5, <2>3 DEF StatusOf
  <2>5. \A p \in Procs : p # r => StatusOf(p)' = StatusOf(p)
    BY <1>1, <1>2, <1>5, <2>3 DEF StatusOf
  <2>6. Owed(r) > 0
    BY <1>3 DEF Owed, OrderInv, RemainsInv, Remains
  <2>7. [p \in Procs |-> Owed(p)][r] > 0
    BY <2>6
  <2> QED  BY <1>6, <2>4, <2>5, <2>7, CPUMoves DEF CPU!Next, CPU!Preempt
<1> QED  BY <1>5, <1>7, <1>8

(* Pick dispatches, to a CPU nobody holds any more.                           *)
LEMMA OrderCPUPick ==
    ASSUME InTurnSystem, TypeOK, AccountInv, OrderInv, Pick, ~Fault, UNCHANGED genVars,
           cpuStatus = [p \in Procs |-> StatusOf(p)], cpuStatus' = [p \in Procs |-> StatusOf(p)']
    PROVE  CPU!Next
<1> USE OrderTypes
<1>1. PICK i \in First(readyQueue) :
         running' = readyQueue[i] /\ readyQueue' = RemoveAt(readyQueue, i)
  BY DEF Pick
<1>2. /\ spc = "pick" /\ UNCHANGED <<pcb, processes>> /\ UNCHANGED procVars
  BY DEF Pick, Main, genVars
<1>3. PICK r \in Procs : r = readyQueue[i] /\ Holds(readyQueue, r)
  BY <1>1, FirstIndex DEF Holds
<1>4. \A p : Holds(readyQueue, p)' <=> Holds(readyQueue, p) /\ p # r
  <2>1. i \in 1 .. Len(readyQueue) /\ IsInjective(readyQueue)
    BY <1>1, FirstIndex DEF AccountInv, PlaceInv
  <2>2. \A p : Holds(RemoveAt(readyQueue, i), p) <=> Holds(readyQueue, p) /\ p # readyQueue[i]
    BY <2>1, RemoveHolds
  <2> QED  BY <1>1, <1>3, <2>2 DEF Holds
<1>5. pcb[r].state \in {"READY", "BLOCKED"}
  BY <1>3 DEF OrderInv, OthersInv, Place
<1>6. \A p \in Procs : p = running => Holds(readyQueue, p)
  BY <1>2 DEF AccountInv, RunningInv
<1>7. StatusOf(r) = "waiting" /\ StatusOf(r)' = "cpu"
  BY <1>1, <1>2, <1>3, <1>4, <1>5 DEF StatusOf
<1>8. \A p \in Procs : p # r => StatusOf(p)' = StatusOf(p)
  BY <1>1, <1>2, <1>3, <1>4, <1>6 DEF StatusOf
<1>9. \A p \in Procs : Owed(p)' = Owed(p)
  BY <1>2 DEF Owed, procVars
<1>10. CPU!CPUFree
  <2>1. \A p \in Procs : StatusOf(p) # "cpu"
    BY <1>6 DEF StatusOf
  <2> QED  BY <2>1 DEF CPU!CPUFree
<1> QED  BY <1>7, <1>8, <1>9, <1>10, CPUMoves DEF CPU!Next, CPU!Dispatch

(* ProcReaped retires who is owed nothing.                                    *)
LEMMA OrderCPUReaped ==
    ASSUME InTurnSystem, TypeOK, AccountInv, OrderInv, ProcReaped, UNCHANGED genVars,
           cpuStatus = [p \in Procs |-> StatusOf(p)], cpuStatus' = [p \in Procs |-> StatusOf(p)']
    PROVE  CPU!Next
<1> USE OrderTypes
<1>1. /\ hpc = "reap" /\ running' = Null /\ UNCHANGED <<readyQueue, processes>> /\ UNCHANGED procVars
      /\ pcb' = [pcb EXCEPT ![running].state = "freed"]
  BY DEF ProcReaped, genVars
<1>2. PICK r \in Procs : r = running
  BY <1>1 DEF OrderInv, SignalInv
<1>3. spc = "read" /\ ppc[r] = "end" /\ ~Holds(readyQueue, r) /\ pcb[r].state \notin {"freed", "new"}
  BY <1>1, <1>2 DEF OrderInv, SignalInv, AccountInv, RunningInv, PlaceInv, IsFreed, IsNew
<1>4. pcb[r].state \in {"READY", "BLOCKED"} /\ Owed(r) = 0
  BY <1>3 DEF OrderInv, OthersInv, Place, RemainsInv, Remains, Owed, PCB
<1>5. pcb'[r].state = "freed" /\ \A p \in Procs : p # r => pcb'[p] = pcb[p]
  BY <1>1, <1>2 DEF PCB
<1>9. StatusOf(r) = "cpu"
  BY <1>2, <1>3, <1>4 DEF StatusOf
<1>10. StatusOf(r)' = "done"
  BY <1>1, <1>5 DEF StatusOf
<1>6. StatusOf(r) = "cpu" /\ StatusOf(r)' = "done"
  BY <1>9, <1>10
<1>7. \A p \in Procs : (p # r => StatusOf(p)' = StatusOf(p)) /\ Owed(p)' = Owed(p)
  BY <1>1, <1>2, <1>5 DEF StatusOf, Owed, procVars, Holds
<1>8. [p \in Procs |-> Owed(p)][r] = 0
  BY <1>4
<1> QED  BY <1>6, <1>7, <1>8, CPUMoves DEF CPU!Next, CPU!Retire

(* The other steps do not show. *)
LEMMA OrderCPUQuiet ==
    ASSUME InTurnSystem, TypeOK, AccountInv, OrderInv, Scheduling, ~Fault,
           ~CreateEntry, ~Charge, ~Pick, ~ProcReaped,
           cpuStatus = [p \in Procs |-> StatusOf(p)], cpuStatus' = [p \in Procs |-> StatusOf(p)']
    PROVE  UNCHANGED CPU!vars
<1> USE OrderTypes
<1>1. UNCHANGED <<processes, running, readyQueue>>
  BY DEF Scheduling, SchedNext, SchedBoot, SchedKilledEarly, SchedNewTick, SchedExit, DownGen, CheckRunning,
         DownProc, ReadMSGQ, ReadDone, Schedule, StopRunning, StartRunning,
         AssignPid, ResumeRunning, ReadProcess, ProcFinished, genVars
<1>2. CASE ReadMSGQ
  <2>1. msgq # <<>> /\ pcb' = [pcb EXCEPT ![Head(msgq)].state = "new"] /\ UNCHANGED procVars
    BY <1>2 DEF ReadMSGQ
  <2>2. PICK h \in Procs : h = Head(msgq) /\ Holds(msgq, h)
    BY <2>1, TailHolds DEF AccountInv, PlaceInv
  <2>3. pcb[h].state \in {"none", "new"} /\ h # running
    BY <2>2 DEF AccountInv, PlaceInv, IsFreed, OrderInv, OthersInv, Place, PCB
  <2>4. pcb'[h].state = "new" /\ \A p \in Procs : p # h => pcb'[p] = pcb[p]
    BY <2>1, <2>2 DEF PCB
  <2>6. StatusOf(h) = "new" /\ StatusOf(h)' = "new"
    BY <1>1, <2>3, <2>4 DEF StatusOf
  <2>7. \A p \in Procs : p # h => StatusOf(p)' = StatusOf(p)
    BY <1>1, <2>4 DEF StatusOf, Holds
  <2>8. \A p \in Procs : Owed(p)' = Owed(p)
    BY <1>1, <2>1 DEF Owed, procVars
  <2>5. \A p \in Procs : StatusOf(p)' = StatusOf(p) /\ Owed(p)' = Owed(p)
    BY <2>6, <2>7, <2>8
  <2> QED  BY <2>5, CPUStutters
<1>3. CASE StartRunning
  <2>1. /\ UNCHANGED remainingtime /\ running \in Procs /\ spc = "start"
        /\ pcb' = [pcb EXCEPT ![running].waitingTime = clk - processes[running].arrivalTime]
        /\ ppc' = [ppc EXCEPT ![running] = "exec"]
    BY <1>3 DEF StartRunning, Main
  <2>2. \A p \in Procs : pcb'[p].state = pcb[p].state
    BY <2>1 DEF PCB
  <2>3. ppc[running] = "none"
    BY <2>1 DEF OrderInv, HolderInv
  <2>4. \A p \in Procs : StatusOf(p)' = StatusOf(p) /\ Owed(p)' = Owed(p)
    BY <1>1, <2>1, <2>2, <2>3 DEF StatusOf, Owed, Holds
  <2> QED  BY <2>4, CPUStutters
<1>4. CASE StopRunning \/ ResumeRunning
  <2>1. PICK r \in Procs : r = running
    BY <1>4 DEF StopRunning, ResumeRunning
  <2>2. /\ spc \in {"sleep", "resume"} /\ UNCHANGED procVars
        /\ \/ pcb' = [pcb EXCEPT ![r] = Stopped(pcb[r])]
           \/ pcb' = [pcb EXCEPT ![r] = Resumed(pcb[r])]
           \/ pcb' = pcb
    BY <1>4, <2>1 DEF StopRunning, ResumeRunning, Main
  <2>3. ppc[r] # "none" /\ pcb[r].state # "freed"
    BY <2>1, <2>2 DEF OrderInv, HolderInv, Ticked, Asleep, AccountInv, RunningInv, IsFreed
  <2>4. pcb[r].state \in {"READY", "BLOCKED"} /\ pcb[r] \in PCB
    BY <2>3 DEF OrderInv, OthersInv, Place, PCB
  <2>5. pcb'[r].state \in {"READY", "BLOCKED"} /\ \A p \in Procs : p # r => pcb'[p] = pcb[p]
    <3>1. Stopped(pcb[r]).state = "BLOCKED" /\ Resumed(pcb[r]).state = "READY"
      BY <2>4 DEF Stopped, Resumed, PCB
    <3> QED  BY <2>2, <2>4, <3>1
  <2>6. \A p \in Procs : StatusOf(p)' = StatusOf(p) /\ Owed(p)' = Owed(p)
    BY <1>1, <2>2, <2>4, <2>5 DEF StatusOf, Owed, procVars, Holds
  <2> QED  BY <2>6, CPUStutters
<1>5. CASE AssignPid \/ ProcFinished
  <2>1. /\ UNCHANGED procVars
        /\ \/ pcb' = [pcb EXCEPT ![running].remainingTime = shm]
           \/ pcb' = [pcb EXCEPT ![running].pid = TRUE]
    BY <1>5 DEF AssignPid, ProcFinished
  <2>2. \A p \in Procs : pcb'[p].state = pcb[p].state
    <3>1. CASE pcb' = [pcb EXCEPT ![running].remainingTime = shm]
      BY <3>1 DEF PCB
    <3>2. CASE pcb' = [pcb EXCEPT ![running].pid = TRUE]
      BY <3>2 DEF PCB
    <3> QED  BY <2>1, <3>1, <3>2
  <2> QED  BY <1>1, <2>1, <2>2, CPUFrame
<1>6. CASE ~(ReadMSGQ \/ StartRunning \/ StopRunning \/ ResumeRunning \/ AssignPid \/ ProcFinished)
  <2>1. UNCHANGED pcb /\ UNCHANGED procVars
    BY <1>6 DEF Scheduling, SchedNext, SchedBoot, SchedKilledEarly, SchedNewTick, SchedExit, DownGen,
                CheckRunning, DownProc, ReadDone, Schedule, ReadProcess
  <2> QED  BY <1>1, <2>1, CPUFrame
<1> QED  BY <1>2, <1>3, <1>4, <1>5, <1>6

(* Whatever the algorithm, in a prompt system whose jobs end in turn every    *)
(* step of the simulator is a step of the abstract CPU or a stutter: one      *)
(* process at a time is served, who waits keeps what it is owed, and who      *)
(* leaves is owed nothing.                                                    *)
THEOREM InTurnImplementsCPU == ASSUME InTurnSystem PROVE Spec /\ [][EndsInTurn]_vars => ImplementsCPU
<1> DEFINE Inv == TypeOK /\ AccountInv /\ OrderInv /\ cpuStatus = [p \in Procs |-> StatusOf(p)]
<1>1. Inv /\ Inv' /\ [Next]_vars => [CPU!Next]_(CPU!vars)
  <2> SUFFICES ASSUME Inv, Inv', [Next]_vars PROVE CPU!Next \/ UNCHANGED CPU!vars
    OBVIOUS
  <2>1. cpuStatus = [p \in Procs |-> StatusOf(p)]
    OBVIOUS
  <2>2. cpuStatus' = [p \in Procs |-> StatusOf(p)']
    OBVIOUS
  <2>3. CASE Clock \/ Generator \/ UNCHANGED vars
    <3>1. UNCHANGED <<processes, running, readyQueue, pcb>> /\ UNCHANGED procVars
      BY <2>3 DEF Clock, Generator, GenNext, GenNewTick, GenSend, GenTickDone, GenSignalEnd,
                  GenLastUp, GenReap, vars, genVars, schedVars
    <3> QED  BY <2>1, <2>2, <3>1, CPUFrame
  <2>4. CASE Scheduling
    <3>1. ~Fault /\ UNCHANGED genVars
      BY <2>4, OrderNoFault DEF Scheduling
    <3> QED  BY <2>1, <2>2, <2>4, <3>1, OrderCPUCreate, OrderCPUCharge, OrderCPUPick, OrderCPUReaped, OrderCPUQuiet
  <2> QED  BY <2>1, <2>2, <2>3, <2>4, OrderCPUJob DEF Next, Terminated
<1>2. TypeOK /\ AccountInv /\ OrderInv => Inv
  BY CPUStatus
<1>3. Spec /\ [][EndsInTurn]_vars => []Inv
  BY <1>2, TypeCorrect, AccountInvariant, OrderInvariant, PTL DEF InTurnSystem
<1> QED  BY CPUInit, <1>1, <1>3, PTL DEF Spec, ImplementsCPU, CPU!Spec

------------------------------------------------------------------------------
(* Round robin: nobody waits for long.                                        *)

(* Round robin with a quantum. *)
RoundRobin == InTurnSystem /\ SchedulerType = 1 /\ quantum > 0

(* Since when a process in the queue waits for the CPU. *)
Since(q) == IF ppc[q] = "none" THEN processes[q].arrivalTime ELSE pcb[q].waitStart

(* The quanta of all but i of the processes. *)
Room(i) == (N - i) * quantum

(* What is left, after this tick, of the quantum of the process in running:   *)
(* the algorithm counts the tick down when it comes to it.                    *)
Left == IF running = Null \/ spc \in {"sleep", "pick"} THEN 0
        ELSE IF AfterPick THEN currQuantum ELSE currQuantum - 1

QuantumInv == running # Null /\ spc \notin {"sleep", "pick"} => currQuantum \in 1 .. quantum

(* What entry i has waited, with what is left to the process in running, is   *)
(* at most a quantum for each process but itself and those before it.  The    *)
(* wait of a process that is being preempted has not begun yet.               *)
PatienceInv ==
    \A i \in DOMAIN readyQueue : \/ spc = "sleep" /\ readyQueue[i] = running
                                 \/ clk - Since(readyQueue[i]) + Left <= Room(i)

(* A process comes to the ready queue in the tick it arrives. *)
PromptInv ==
    /\ gpc = "send" => \A p \in Procs \ arrived : processes[p].arrivalTime >= gcur
    /\ \A p \in Procs : Holds(msgq, p) \/ IsNew(p) => processes[p].arrivalTime = clk

TurnInv == QuantumInv /\ PatienceInv

(* The room of a place in the queue is a quantum more than that of the place  *)
(* behind it, and never more than a quantum of each of the others.            *)
LEMMA RoomSteps ==
    ASSUME RoundRobin
    PROVE  /\ quantum \in Nat \ {0} /\ N \in Nat
           /\ \A i \in Nat : Room(i) \in Int /\ Room(i + 1) + quantum = Room(i)
           /\ \A i \in 1 .. N : Room(i) >= 0
           /\ \A i \in Nat \ {0} : Room(i) <= (N - 1) * quantum
<1>1. PICK n, k \in Nat : n = N /\ k = quantum /\ k > 0
  BY NAssumption, ArgumentsRead DEF RoundRobin
<1>2. \A i \in Nat : Room(i) = (n - i) * k
  BY <1>1 DEF Room
<1>3. ASSUME NEW i \in Nat PROVE (n - (i + 1)) * k + k = (n - i) * k
  OBVIOUS
<1>4. ASSUME NEW i \in 1 .. n PROVE (n - i) * k >= 0
  <2>1. PICK m \in Nat : m = n - i
    OBVIOUS
  <2>2. m * k >= 0
    OBVIOUS
  <2> QED  BY <2>1, <2>2
<1>5. ASSUME NEW i \in Nat \ {0} PROVE (n - i) * k <= (n - 1) * k
  <2>1. PICK m \in Nat : m = i - 1
    OBVIOUS
  <2>2. m * k >= 0 /\ (n - i) * k = (n - 1) * k - m * k
    BY <2>1
  <2> QED  BY <2>2
<1>6. ASSUME NEW i \in Nat PROVE (n - i) * k \in Int
  OBVIOUS
<1>7. \A i \in Nat : i + 1 \in Nat /\ (i \in 1 .. N => i \in 1 .. n)
  BY <1>1
<1> QED  BY <1>1, <1>2, <1>3, <1>4, <1>5, <1>6, <1>7

(* The room of a place is a number of ticks.                                  *)
LEMMA RoomInt == ASSUME RoundRobin, NEW i \in Nat PROVE Room(i) \in Int
  BY RoomSteps

(* The places of a queue of N have room.                                      *)
LEMMA RoomLeft == ASSUME RoundRobin, NEW i \in 1 .. N PROVE Room(i) \in Int /\ Room(i) >= 0
<1>1. i \in Nat
  OBVIOUS
<1> QED  BY <1>1, RoomSteps

(* What the arithmetic on turns needs of the types.                           *)
LEMMA TurnTypes ==
    ASSUME TypeOK
    PROVE  /\ \A p \in Procs : Since(p) \in Int /\ processes[p].arrivalTime \in Int
           /\ clk \in Int /\ currQuantum \in Int /\ Left \in Int
<1>1. clk \in Int /\ currQuantum \in Int
  BY DEF TypeOK, IPCTypeOK, SchedTypeOK
<1>2. \A p \in Procs : processes[p].arrivalTime \in Int /\ pcb[p].waitStart \in Int
  <2>1. processes \in [Procs -> process_t] /\ pcb \in [Procs -> PCB]
    BY DEF TypeOK, GenTypeOK, SchedTypeOK
  <2> QED  BY <2>1 DEF process_t, PCB
<1> QED  BY <1>1, <1>2 DEF Since, Left

(* An entry is the last one or one before it.                                 *)
LEMMA LastOrBefore == ASSUME NEW n \in Nat, NEW i \in 1 .. n + 1, i # n + 1 PROVE i \in 1 .. n
  OBVIOUS

(* PatienceInv after a step, entry by entry.                                  *)
LEMMA PatienceNext ==
    ASSUME TypeOK',
           \A i \in DOMAIN readyQueue', p \in Procs : readyQueue'[i] = p =>
                \/ spc' = "sleep" /\ p = running'
                \/ clk' - Since(p)' + Left' <= Room(i)
    PROVE  PatienceInv'
<1>1. \A i \in DOMAIN readyQueue' : readyQueue'[i] \in Procs
  BY DEF TypeOK, SchedTypeOK
<1> QED  BY <1>1 DEF PatienceInv, Room, Since

(* The queue stays, and neither the clock nor the process in running gets     *)
(* anything of the entries' time.                                             *)
LEMMA PatienceFrame ==
    ASSUME RoundRobin, TypeOK, TypeOK', PatienceInv, UNCHANGED <<clk, readyQueue>>, Left' <= Left,
           \A i \in DOMAIN readyQueue : Since(readyQueue[i])' = Since(readyQueue[i]),
           spc = "sleep" => spc' = "sleep" /\ running' = running
    PROVE  PatienceInv'
<1> SUFFICES ASSUME NEW i \in DOMAIN readyQueue, ~(spc' = "sleep" /\ readyQueue[i] = running')
             PROVE  clk - Since(readyQueue[i])' + Left' <= Room(i)
  BY DEF PatienceInv, Room
<1>1. ~(spc = "sleep" /\ readyQueue[i] = running)
  OBVIOUS
<1>2. clk - Since(readyQueue[i]) + Left <= Room(i)
  BY <1>1 DEF PatienceInv
<1>3. i \in Nat /\ readyQueue[i] \in Procs
  BY QueueTypes
<1>4. PICK s \in Int : s = Since(readyQueue[i])
  BY <1>3, TurnTypes
<1>5. PICK c, l, m \in Int : c = clk /\ l = Left /\ m = Left'
  <2>1. currQuantum' \in Int
    BY DEF TypeOK, SchedTypeOK
  <2>2. Left' \in Int
    BY <2>1 DEF Left
  <2> QED  BY <2>2, TurnTypes
<1>6. PICK r \in Int : r = Room(i)
  BY <1>3, RoomInt
<1>7. c - s + l <= r /\ m <= l
  BY <1>2, <1>4, <1>5, <1>6
<1>8. c - s + m <= r
  BY <1>7
<1> QED  BY <1>4, <1>5, <1>6, <1>8

(* Distinct processes are no more than there are. *)
LEMMA AtMostAll ==
    ASSUME NEW q \in Seq(Procs), IsInjective(q)
    PROVE  Len(q) <= N
<1> SUFFICES ASSUME Len(q) > N PROVE FALSE
  BY NAssumption
<1>1. IsFiniteSet(Procs) /\ Cardinality(Procs) = N
  BY NAssumption, FS_Interval DEF Procs
<1>2. IsFiniteSet(1 .. Len(q)) /\ Cardinality(1 .. Len(q)) = Len(q)
  BY FS_Interval
<1>3. \E x, y \in 1 .. Len(q) : x # y /\ q[x] = q[y]
  BY <1>1, <1>2, FS_PigeonHole
<1> QED  BY <1>3 DEF IsInjective

(* A queue without two of the processes has two places free.                  *)
LEMMA TwoMissing ==
    ASSUME NEW q \in Seq(Procs), IsInjective(q), NEW d \in Procs, NEW e \in Procs, d # e,
           ~Holds(q, d), ~Holds(q, e)
    PROVE  Len(q) + 1 < N
<1>1. IsInjective(Append(q, d)) /\ Append(q, d) \in Seq(Procs) /\ ~Holds(Append(q, d), e)
  BY AppendHolds
<1>2. Len(Append(q, d)) < N
  BY <1>1, OneMissing
<1>3. Len(Append(q, d)) = Len(q) + 1
  OBVIOUS
<1> QED  BY <1>2, <1>3

(* Nothing of a turn moves but perhaps the scheduler's place. *)
LEMMA TurnFrame ==
    ASSUME RoundRobin, TypeOK, TypeOK', TurnInv, UNCHANGED <<clk, readyQueue, currQuantum>>,
           running' = running \/ running' = Null,
           running' # Null => (spc' \in {"sleep", "pick"} <=> spc \in {"sleep", "pick"}),
           AfterPick' => AfterPick \/ readyQueue = <<>>,
           spc = "sleep" => spc' = "sleep" /\ running' = running,
           \A i \in DOMAIN readyQueue : Since(readyQueue[i])' = Since(readyQueue[i])
    PROVE  TurnInv'
<1>1. QuantumInv'
  BY DEF TurnInv, QuantumInv
<1>2. CASE readyQueue = <<>>
  BY <1>1, <1>2 DEF TurnInv, PatienceInv
<1>3. CASE readyQueue # <<>>
  <2>1. currQuantum \in Int /\ (running # Null /\ spc \notin {"sleep", "pick"} => currQuantum > 0)
    BY TurnTypes, RoomSteps DEF TurnInv, QuantumInv
  <2>2. Left' <= Left
    BY <1>3, <2>1 DEF Left
  <2>3. PatienceInv'
    BY <2>2, PatienceFrame DEF TurnInv
  <2> QED  BY <1>1, <2>3 DEF TurnInv
<1> QED  BY <1>2, <1>3

(* Nobody waits yet.                                                          *)
LEMMA TurnInit == Init => TurnInv
<1> SUFFICES ASSUME Init PROVE TurnInv
  OBVIOUS
<1>1. running = Null /\ readyQueue = <<>>
  BY DEF Init, SchedInit
<1> QED  BY <1>1 DEF TurnInv, QuantumInv, PatienceInv

(* A tick more of waiting is a tick less of the quantum. *)
LEMMA TurnClock ==
    ASSUME RoundRobin, TypeOK, TypeOK', SendInv, AccountInv, OrderInv, LedgerInv, TurnInv, Clock
    PROVE  TurnInv'
<1>1. /\ Quiescent /\ clk' = clk + 1 /\ InTurnSystem
      /\ UNCHANGED <<running, readyQueue, currQuantum, spc, scur, ppc, processes, pcb>>
  BY DEF Clock, ClockTick, RoundRobin, InTurnSystem, genVars, procVars, schedVars
<1>2. spc = "exit" \/ (spc = "spin" /\ scur = clk)
  BY <1>1, ClockMoves
<1>3. spc = "exit" => readyQueue = <<>>
  <2> SUFFICES ASSUME spc = "exit", readyQueue # <<>> PROVE FALSE
    OBVIOUS
  <2>1. readyQueue[1] \in Procs /\ Holds(readyQueue, readyQueue[1])
    BY OrderTypes DEF Holds
  <2>2. readyQueue[1] \in Freed
    BY <1>1, <2>1, ExitWhenFreed DEF InTurnSystem
  <2> QED  BY <2>1, <2>2 DEF Freed, OrderInv, OthersInv, Place
<1>4. QuantumInv'
  BY <1>1 DEF TurnInv, QuantumInv
<1>5. CASE readyQueue = <<>>
  BY <1>1, <1>4, <1>5 DEF TurnInv, PatienceInv
<1>6. CASE readyQueue # <<>>
  <2>1. spc = "spin" /\ scur = clk /\ running # Null /\ clk \in Int /\ currQuantum \in Int
    BY <1>2, <1>3, <1>6, TurnTypes DEF LedgerInv, BusyInv
  <2>2. AfterPick /\ ~AfterPick'
    BY <1>1, <2>1 DEF AfterPick
  <2>3. Left = currQuantum /\ Left' = currQuantum - 1
    BY <1>1, <2>1, <2>2 DEF Left
  <2> SUFFICES ASSUME NEW i \in DOMAIN readyQueue
               PROVE  clk' - Since(readyQueue[i])' + Left' <= Room(i)
    BY <1>1, <1>4, <2>1 DEF TurnInv, PatienceInv, Room
  <2>4. clk - Since(readyQueue[i]) + Left <= Room(i) /\ Since(readyQueue[i])' = Since(readyQueue[i])
    BY <1>1, <2>1 DEF TurnInv, PatienceInv, Since
  <2>5. PICK s, r, c, k \in Int :
            s = Since(readyQueue[i]) /\ r = Room(i) /\ c = clk /\ k = currQuantum
    <3>1. i \in Nat /\ readyQueue[i] \in Procs
      BY QueueTypes
    <3>2. Since(readyQueue[i]) \in Int /\ Room(i) \in Int
      BY <3>1, TurnTypes, RoomInt
    <3> QED  BY <2>1, <3>2
  <2>6. c - s + k <= r
    BY <2>3, <2>4, <2>5
  <2>7. c + 1 - s + (k - 1) <= r
    BY <2>6
  <2> QED  BY <1>1, <2>3, <2>4, <2>5, <2>7
<1> QED  BY <1>5, <1>6

(* The generator keeps nobody waiting.                                        *)
LEMMA TurnGenerator ==
    ASSUME RoundRobin, TypeOK, TypeOK', TurnInv, Generator PROVE TurnInv'
<1>1. /\ UNCHANGED <<clk, processes>> /\ UNCHANGED procVars /\ UNCHANGED schedVars
  BY DEF Generator, GenNext, GenNewTick, GenSend, GenTickDone, GenSignalEnd,
         GenLastUp, GenReap, ipcVars
<1>2. \A i \in DOMAIN readyQueue : Since(readyQueue[i])' = Since(readyQueue[i])
  BY <1>1 DEF Since, procVars, schedVars
<1> QED  BY <1>1, <1>2, TurnFrame DEF schedVars, AfterPick

(* A simulated process keeps nobody waiting.                                  *)
LEMMA TurnJob ==
    ASSUME RoundRobin, TypeOK, TypeOK', OrderInv, TurnInv, NEW p \in Procs, Job(p) PROVE TurnInv'
<1>1. /\ UNCHANGED <<processes, clk>> /\ UNCHANGED schedVars
      /\ \A q \in Procs : q # p => ppc'[q] = ppc[q]
  BY JobAlone DEF genVars
<1>2. ppc[p] # "none" /\ ppc'[p] # "none"
  BY OrderTypes DEF Job, ProcNext, ProcBind, ProcSigEarly, ProcRead, ProcTick, ProcUp, Looping, ProcSettle,
         SigSleepHandler, ProcKill, ProcLast
<1>3. \A i \in DOMAIN readyQueue : Since(readyQueue[i])' = Since(readyQueue[i])
  <2>1. UNCHANGED <<readyQueue, pcb>>
    BY <1>1 DEF schedVars
  <2>2. ASSUME NEW q \in Procs PROVE ppc'[q] = "none" <=> ppc[q] = "none"
    BY <1>1, <1>2
  <2> QED  BY <1>1, <2>1, <2>2, QueueTypes DEF Since
<1> QED  BY <1>1, <1>3, TurnFrame DEF schedVars, AfterPick

(* A stuttering step.                                                         *)
LEMMA TurnStutter == ASSUME RoundRobin, TypeOK, TypeOK', TurnInv, UNCHANGED vars PROVE TurnInv'
<1>1. UNCHANGED <<clk, processes>> /\ UNCHANGED procVars /\ UNCHANGED schedVars
  BY DEF vars, ipcVars, genVars
<1>2. \A i \in DOMAIN readyQueue : Since(readyQueue[i])' = Since(readyQueue[i])
  BY <1>1 DEF Since, procVars, schedVars
<1> QED  BY <1>1, <1>2, TurnFrame DEF schedVars, AfterPick

(* The scheduler's steps that leave the queue and the quantum alone. *)
LEMMA TurnQuietSteps ==
    ASSUME RoundRobin, TypeOK, TypeOK', AccountInv, OrderInv, TurnInv, UNCHANGED genVars,
           \/ SchedBoot \/ SchedNewTick \/ SchedExit \/ DownGen \/ CheckRunning
           \/ DownProc \/ ReadDone \/ Schedule \/ ReadProcess
    PROVE  TurnInv'
<1>1. /\ UNCHANGED <<clk, processes, pcb, readyQueue, running, currQuantum>> /\ UNCHANGED procVars
  BY DEF SchedBoot, SchedNewTick, SchedExit, DownGen, CheckRunning, DownProc, ReadDone,
         Schedule, ReadProcess, HandlerUnchanged, ipcVars, procVars, genVars
<1>2. \A i \in DOMAIN readyQueue : Since(readyQueue[i])' = Since(readyQueue[i])
  BY <1>1 DEF Since, procVars
<1>3. CASE ReadProcess
  <2>1. UNCHANGED <<spc, scur>>
    BY <1>3 DEF ReadProcess
  <2> QED  BY <1>1, <1>2, <2>1, TurnFrame DEF AfterPick
<1>4. CASE ReadDone
  <2>1. spc = "read" /\ spc' = (IF readyQueue # <<>> THEN "sched" ELSE "spin")
    BY <1>4 DEF ReadDone, Main
  <2> QED  BY <1>1, <1>2, <2>1, TurnFrame DEF AfterPick
<1>5. CASE Schedule
  <2>1. spc = "sched" /\ spc' = (IF running = Null THEN "pick" ELSE "charge")
    BY <1>5 DEF Schedule, AlgorithmPath, Main
  <2> QED  BY <1>1, <1>2, <2>1, TurnFrame DEF AfterPick
<1>6. CASE SchedBoot \/ SchedNewTick \/ SchedExit \/ DownGen \/ CheckRunning \/ DownProc
  <2>1. \/ spc = "boot" /\ spc' = "spin" /\ scur' = scur
        \/ /\ spc \in {"spin", "downGen", "slpGen", "chkProc", "downProc", "slpProc"}
           /\ spc' \in {"exit", "downGen", "slpGen", "chkProc", "downProc", "slpProc", "read"}
    BY <1>6 DEF SchedBoot, SchedNewTick, SchedExit, DownGen, CheckRunning, DownProc, Main
  <2>2. ~AfterPick'
    <3>1. spc = "boot" => scur # clk
      BY DEF OrderInv, PassInv
    <3> QED  BY <1>1, <2>1, <3>1 DEF AfterPick
  <2> QED  BY <1>1, <1>2, <2>1, <2>2, TurnFrame
<1> QED  BY <1>3, <1>4, <1>5, <1>6

(* A new PCB, a dispatch and a handler concern nobody in the queue. *)
LEMMA TurnOthersPCB ==
    ASSUME RoundRobin, TypeOK, TypeOK', AccountInv, OrderInv, TurnInv, UNCHANGED genVars, ~Fault,
           ReadMSGQ \/ StartRunning \/ AssignPid \/ ResumeRunning \/ ProcFinished \/ ProcReaped
    PROVE  TurnInv'
<1> USE OrderTypes
<1>1. /\ UNCHANGED <<clk, processes, readyQueue, currQuantum>>
      /\ running' = running \/ running' = Null
  BY DEF ReadMSGQ, StartRunning, AssignPid, ResumeRunning, ProcFinished, ProcReaped,
         HandlerUnchanged, ipcVars, genVars
<1>2. PICK e \in Procs : /\ \A p \in Procs : p # e => pcb'[p] = pcb[p] /\ ppc'[p] = ppc[p]
                         /\ ~Holds(readyQueue, e)
  <2>1. CASE ReadMSGQ
    <3>1. /\ pcb' = [pcb EXCEPT ![Head(msgq)].state = "new"] /\ msgq # <<>> /\ ppc' = ppc
      BY <2>1 DEF ReadMSGQ, procVars
    <3>2. Head(msgq) \in Procs /\ Holds(msgq, Head(msgq))
      BY <3>1, TailHolds DEF AccountInv, PlaceInv
    <3> QED  BY <3>1, <3>2 DEF AccountInv, PlaceInv
  <2>2. CASE ~ReadMSGQ
    <3>1. /\ running \in Procs /\ spc \notin {"sleep", "pick"}
          /\ \A p \in Procs : p # running => pcb'[p] = pcb[p] /\ ppc'[p] = ppc[p]
      BY <2>2 DEF StartRunning, AssignPid, ResumeRunning, ProcFinished, ProcReaped, procVars, Main,
                  OrderInv, SignalInv
    <3> QED  BY <3>1 DEF AccountInv, RunningInv, OrderInv
  <2> QED  BY <2>1, <2>2
<1>3. \A i \in DOMAIN readyQueue : Since(readyQueue[i])' = Since(readyQueue[i])
  <2>1. \A i \in DOMAIN readyQueue : readyQueue[i] \in Procs /\ readyQueue[i] # e
    BY <1>2 DEF Holds
  <2> QED  BY <1>1, <1>2, <2>1 DEF Since
<1>4. /\ spc \notin {"sleep", "pick"} /\ spc' \notin {"sleep", "pick"}
      /\ AfterPick' => AfterPick
  <2>1. CASE ReadMSGQ \/ StartRunning \/ AssignPid \/ ResumeRunning
    BY <2>1 DEF ReadMSGQ, StartRunning, AssignPid, ResumeRunning, Main, AfterPick
  <2>2. CASE ProcFinished \/ ProcReaped
    <3>1. UNCHANGED <<spc, scur>> /\ spc = "read"
      BY <2>2, <1>1 DEF ProcFinished, ProcReaped, UserMode, OrderInv, SignalInv
    <3> QED  BY <1>1, <3>1 DEF AfterPick
  <2> QED  BY <2>1, <2>2
<1> QED  BY <1>1, <1>3, <1>4, TurnFrame

(* The wait of a process that is preempted begins now. *)
LEMMA TurnStop ==
    ASSUME RoundRobin, TypeOK, TypeOK', AccountInv, OrderInv, TurnInv, UNCHANGED genVars, StopRunning, ~Fault
    PROVE  TurnInv'
<1> USE OrderTypes
<1>1. /\ spc = "sleep" /\ spc' = "pick" /\ running \in Procs
      /\ UNCHANGED <<clk, running, processes, readyQueue, currQuantum, ppc>>
      /\ pcb' = [pcb EXCEPT ![running] = Stopped(pcb[running])]
  BY DEF StopRunning, Main, HandlerUnchanged, genVars, procVars, RoundRobin
<1>2. ppc[running] # "none" /\ IsInjective(readyQueue)
  BY <1>1 DEF OrderInv, HolderInv, Ticked, AccountInv, PlaceInv
<1>3. /\ \A p \in Procs : p # running => Since(p)' = Since(p)
      /\ Since(running)' = clk
  <2>1. pcb'[running].waitStart = clk /\ \A p \in Procs : p # running => pcb'[p] = pcb[p]
    BY <1>1 DEF Stopped, PCB
  <2> QED  BY <1>1, <1>2, <2>1 DEF Since
<1>4. QuantumInv' /\ Left = 0 /\ Left' = 0
  BY <1>1 DEF QuantumInv, Left
<1>5. ASSUME NEW i \in DOMAIN readyQueue
      PROVE  clk - Since(readyQueue[i])' + 0 <= Room(i)
  <2>1. CASE readyQueue[i] = running
    <3>1. i \in 1 .. N
      <4>1. i \in 1 .. Len(readyQueue) /\ Len(readyQueue) \in Nat
        BY QueueTypes
      <4>2. Len(readyQueue) <= N
        BY <1>2, AtMostAll
      <4> QED  BY <4>1, <4>2, NAssumption
    <3>2. Room(i) \in Int /\ Room(i) >= 0
      BY <3>1, RoomLeft
    <3>3. clk - clk + 0 = 0
      OBVIOUS
    <3>4. Since(readyQueue[i])' = clk
      BY <1>1, <1>3, <2>1 DEF Since
    <3> QED  BY <3>2, <3>3, <3>4
  <2>2. CASE readyQueue[i] # running
    BY <1>1, <1>3, <1>4, <2>2 DEF TurnInv, PatienceInv
  <2> QED  BY <2>1, <2>2
<1>6. PatienceInv'
  BY <1>1, <1>4, <1>5 DEF PatienceInv, Room
<1> QED  BY <1>4, <1>6 DEF TurnInv

(* A new entry has arrived in this tick, and goes behind the others. *)
LEMMA TurnCreate ==
    ASSUME RoundRobin, TypeOK, TypeOK', AccountInv, OrderInv, TurnInv, PromptInv, UNCHANGED genVars, CreateEntry
    PROVE  TurnInv'
<1> USE OrderTypes
<1>1. /\ spc = "create" /\ spc' = "read"
      /\ UNCHANGED <<clk, running, processes, currQuantum, ppc>>
  BY DEF CreateEntry, Main, HandlerUnchanged, ipcVars, genVars, procVars
<1>2. PICK e \in Procs : pcb[e].state = "new" /\ (EntryRefused(e) \/ EntryCreated(e))
  BY DEF CreateEntry
<1>3. /\ ~Holds(readyQueue, e) /\ e # running /\ ppc[e] = "none" /\ IsInjective(readyQueue)
      /\ running # Null => ~Holds(readyQueue, running)
      /\ processes[e].arrivalTime = clk
  BY <1>1, <1>2 DEF AccountInv, PlaceInv, RunningInv, IsNew, OrderInv, OthersInv, Place, PromptInv
<1>4. \A p \in Procs : p # e => pcb'[p] = pcb[p]
  BY <1>2 DEF EntryRefused, EntryCreated
<1>5. \A p \in Procs : p # e => Since(p)' = Since(p)
  BY <1>1, <1>4 DEF Since
<1>6. Left' = Left /\ QuantumInv'
  BY <1>1 DEF Left, AfterPick, TurnInv, QuantumInv
<1>7. CASE EntryRefused(e)
  <2>1. readyQueue' = readyQueue
    BY <1>7 DEF EntryRefused
  <2>2. ASSUME NEW i \in DOMAIN readyQueue, NEW p \in Procs, readyQueue[i] = p
        PROVE  clk - Since(p)' + Left' <= Room(i)
    BY <1>1, <1>3, <1>5, <1>6, <2>2 DEF TurnInv, PatienceInv, Holds
  <2>3. PatienceInv'
    BY <1>1, <2>1, <2>2, QueueTypes, PatienceNext
  <2> QED  BY <1>6, <2>3 DEF TurnInv
<1>8. CASE EntryCreated(e)
  <2>1. readyQueue' = Append(readyQueue, e)
    BY <1>3, <1>8, RoomForAll DEF EntryCreated, RoundRobin, InTurnSystem
  <2>2. PICK n \in Nat : n = Len(readyQueue) /\ DOMAIN readyQueue = 1 .. n
    OBVIOUS
  <2>3. /\ DOMAIN readyQueue' = 1 .. n + 1 /\ readyQueue'[n + 1] = e
        /\ \A i \in 1 .. n : readyQueue'[i] = readyQueue[i]
    BY <2>1, <2>2
  <2>4. ASSUME NEW i \in 1 .. n, NEW p \in Procs, p = readyQueue[i]
        PROVE  clk - Since(p)' + Left' <= Room(i)
    <3>2. clk - Since(p) + Left <= Room(i) /\ p # e
      BY <1>1, <1>3, <2>2, <2>4 DEF TurnInv, PatienceInv, Holds
    <3> QED  BY <1>5, <1>6, <3>2
  <2>5. clk - Since(e)' + Left' <= Room(n + 1)
    <3>1. Since(e)' = clk
      BY <1>1, <1>3 DEF Since
    <3>2. Left <= Room(n + 1)
      <4>1. CASE running = Null
        <5>1. n + 1 \in 1 .. N
          <6>1. n < N
            BY <1>3, <2>2, OneMissing
          <6> QED  BY <6>1, NAssumption
        <5> QED  BY <4>1, <5>1, RoomSteps DEF Left
      <4>2. CASE running # Null
        <5>1. n + 1 + 1 \in 1 .. N
          <6>1. n + 1 < N
            BY <1>3, <2>2, <4>2, TwoMissing
          <6> QED  BY <6>1, NAssumption
        <5>2. Room(n + 1) \in Int /\ Room(n + 1 + 1) >= 0 /\ Room(n + 1 + 1) + quantum = Room(n + 1)
              /\ Room(n + 1 + 1) \in Int /\ quantum \in Nat
          BY <2>2, <5>1, RoomSteps
        <5>3. Left = currQuantum - 1 /\ currQuantum \in 1 .. quantum
          BY <1>1, <4>2 DEF Left, AfterPick, TurnInv, QuantumInv
        <5> QED  BY <5>2, <5>3
      <4> QED  BY <4>1, <4>2
    <3>3. Left \in Int /\ clk \in Int
      BY TurnTypes
    <3> QED  BY <1>6, <3>1, <3>2, <3>3
  <2>6. PatienceInv'
    <3> SUFFICES ASSUME NEW i \in 1 .. n + 1, NEW p \in Procs, readyQueue'[i] = p
                 PROVE  clk - Since(p)' + Left' <= Room(i)
      BY <1>1, <2>3, PatienceNext
    <3>1. CASE i = n + 1
      BY <2>3, <2>5, <3>1
    <3>2. CASE i # n + 1
      <4>1. i \in 1 .. n
        BY <2>2, <3>2, LastOrBefore
      <4> QED  BY <2>2, <2>3, <2>4, <4>1
    <3> QED  BY <3>1, <3>2
  <2> QED  BY <1>6, <2>6 DEF TurnInv
<1> QED  BY <1>2, <1>7, <1>8

(* The tick of service is counted; the process that has had its quantum goes  *)
(* behind the others.                                                         *)
LEMMA TurnCharge ==
    ASSUME RoundRobin, TypeOK, TypeOK', AccountInv, OrderInv, TurnInv, UNCHANGED genVars, Charge, ~Fault
    PROVE  TurnInv'
<1> USE OrderTypes
<1>1. /\ spc = "charge" /\ running \in Procs /\ RRSheduler
      /\ UNCHANGED <<clk, running, processes, ppc, scur>>
  BY DEF Charge, Main, HandlerUnchanged, genVars, procVars, ipcVars, RoundRobin, HPFSheduler, SRTNSheduler
<1>2. scur = clk /\ ~Holds(readyQueue, running) /\ IsInjective(readyQueue)
  BY <1>1 DEF OrderInv, PassInv, AccountInv, RunningInv, PlaceInv
<1>3. currQuantum \in 1 .. quantum /\ quantum \in Nat /\ Left = currQuantum - 1
  BY <1>1, RoomSteps DEF TurnInv, QuantumInv, Left, AfterPick
<1>4. \A p \in Procs : Since(p)' = Since(p)
  <2>1. pcb' = [pcb EXCEPT ![running].remainingTime = shm]
    BY <1>1 DEF RRSheduler
  <2>2. \A p \in Procs : pcb'[p].waitStart = pcb[p].waitStart
    BY <1>1, <2>1 DEF PCB
  <2> QED  BY <1>1, <2>2 DEF Since
<1>5. CASE currQuantum = 1
  <2>1. spc' = "sleep" /\ readyQueue' = Append(readyQueue, running)
    BY <1>1, <1>2, <1>5, RoomForAll DEF RRSheduler, RoundRobin, InTurnSystem
  <2>2. QuantumInv' /\ Left = 0 /\ Left' = 0
    BY <1>3, <1>5, <2>1 DEF QuantumInv, Left
  <2>3. /\ DOMAIN readyQueue' = 1 .. Len(readyQueue) + 1
        /\ \A i \in 1 .. Len(readyQueue) : readyQueue'[i] = readyQueue[i]
        /\ readyQueue'[Len(readyQueue) + 1] = running
        /\ DOMAIN readyQueue = 1 .. Len(readyQueue) /\ Len(readyQueue) \in Nat
    BY <1>1, <2>1
  <2>4. ASSUME NEW i \in DOMAIN readyQueue', NEW p \in Procs, readyQueue'[i] = p, p # running
        PROVE  clk - Since(p)' + Left' <= Room(i)
    <3>1. i \in DOMAIN readyQueue /\ readyQueue[i] = p
      <4>1. i # Len(readyQueue) + 1 /\ i \in 1 .. Len(readyQueue) + 1
        BY <2>3, <2>4
      <4>2. i \in 1 .. Len(readyQueue)
        BY <2>3, <4>1, LastOrBefore
      <4> QED  BY <2>3, <2>4, <4>2
    <3>2. clk - Since(p) + Left <= Room(i)
      BY <1>1, <3>1 DEF TurnInv, PatienceInv
    <3> QED  BY <1>4, <2>2, <3>2
  <2>5. PatienceInv'
    BY <1>1, <2>1, <2>4, PatienceNext
  <2> QED  BY <2>2, <2>5 DEF TurnInv
<1>6. CASE currQuantum # 1
  <2>1. spc' = "spin" /\ readyQueue' = readyQueue /\ currQuantum' = currQuantum - 1
    BY <1>1, <1>6 DEF RRSheduler
  <2>2. QuantumInv' /\ Left' = currQuantum - 1
    BY <1>1, <1>2, <1>3, <1>6, <2>1 DEF QuantumInv, Left, AfterPick
  <2>3. \A i \in DOMAIN readyQueue : Since(readyQueue[i])' = Since(readyQueue[i])
    BY <1>4, <2>1
  <2>4. PatienceInv'
    BY <1>1, <1>3, <2>1, <2>2, <2>3, PatienceFrame DEF TurnInv
  <2> QED  BY <2>2, <2>4 DEF TurnInv
<1> QED  BY <1>5, <1>6

(* The first entry gets a quantum, and the others move up by one.             *)
LEMMA TurnPick ==
    ASSUME RoundRobin, TypeOK, TypeOK', AccountInv, OrderInv, TurnInv, UNCHANGED genVars, Pick, ~Fault
    PROVE  TurnInv'
<1> USE OrderTypes
<1>1. /\ spc = "pick" /\ spc' \in {"start", "resume"} /\ currQuantum' = quantum
      /\ UNCHANGED <<clk, processes, pcb, ppc>>
  BY DEF Pick, Main, HandlerUnchanged, ipcVars, genVars, procVars, RoundRobin
<1>2. /\ running' = readyQueue[1] /\ readyQueue' = RemoveAt(readyQueue, 1) /\ readyQueue # <<>>
      /\ running' \in Procs
  <2>1. PICK i \in First(readyQueue) : running' = readyQueue[i] /\ readyQueue' = RemoveAt(readyQueue, i)
    BY DEF Pick
  <2>2. i = 1 /\ i \in DOMAIN readyQueue
    BY DEF First, RoundRobin
  <2> QED  BY <2>1, <2>2
<1>3. /\ QuantumInv' /\ Left = 0 /\ Left' = quantum
  <2>1. quantum \in 1 .. quantum
    <3>1. quantum \in Nat \ {0}
      BY RoomSteps
    <3> QED  BY <3>1
  <2>2. running' # Null
    BY <1>2
  <2> QED  BY <1>1, <2>1, <2>2 DEF QuantumInv, Left, AfterPick
<1>4. PICK n \in Nat \ {0} : n = Len(readyQueue) /\ DOMAIN readyQueue = 1 .. n
  BY <1>2
<1>5. /\ DOMAIN readyQueue' = 1 .. n - 1
      /\ \A i \in 1 .. n - 1 : readyQueue'[i] = readyQueue[i + 1]
  <2>1. 1 \in 1 .. Len(readyQueue)
    BY <1>4
  <2>2. /\ DOMAIN RemoveAt(readyQueue, 1) = 1 .. Len(readyQueue) - 1
        /\ \A k \in 1 .. Len(readyQueue) - 1 :
              RemoveAt(readyQueue, 1)[k] = IF k < 1 THEN readyQueue[k] ELSE readyQueue[k + 1]
    BY <2>1, RemoveAtIndex
  <2> QED  BY <1>2, <1>4, <2>2
<1>6. ASSUME NEW i \in 1 .. n - 1, NEW p \in Procs, readyQueue'[i] = p
      PROVE  clk - Since(p)' + Left' <= Room(i)
  <2>1. i \in Nat /\ i + 1 \in 1 .. n
    BY <1>4
  <2>2. readyQueue[i + 1] = p
    BY <1>5, <1>6
  <2>3. clk - Since(p) + Left <= Room(i + 1)
    BY <1>1, <1>4, <2>1, <2>2 DEF TurnInv, PatienceInv
  <2>4. Since(p)' = Since(p)
    BY <1>1 DEF Since
  <2>5. PICK c, s, r, k \in Int : c = clk /\ s = Since(p) /\ r = Room(i + 1) /\ k = quantum
    <3>1. Room(i + 1) \in Int /\ quantum \in Int
      BY <2>1, RoomSteps
    <3>2. clk \in Int /\ Since(p) \in Int
      BY TurnTypes
    <3> QED  BY <3>1, <3>2
  <2>6. Room(i) = r + k
    BY <2>1, <2>5, RoomSteps
  <2>7. c - s + 0 <= r
    BY <1>3, <2>3, <2>5
  <2>8. c - s + k <= r + k
    BY <2>7
  <2> QED  BY <1>3, <2>4, <2>5, <2>6, <2>8
<1>7. PatienceInv'
  BY <1>1, <1>5, <1>6, PatienceNext
<1> QED  BY <1>3, <1>7 DEF TurnInv

(* Every step of the scheduler.                                               *)
LEMMA TurnScheduling ==
    ASSUME RoundRobin, TypeOK, TypeOK', AccountInv, OrderInv, TurnInv, PromptInv, Scheduling
    PROVE  TurnInv'
<1>1. ~Fault /\ UNCHANGED genVars
  BY OrderNoFault DEF Scheduling, RoundRobin
<1>2. ~SchedKilledEarly
  BY <1>1 DEF SchedKilledEarly
<1> QED  BY <1>1, <1>2, TurnQuietSteps, TurnOthersPCB, TurnCreate, TurnCharge, TurnStop, TurnPick
         DEF Scheduling, SchedNext

(* Nothing was sent yet.                                                      *)
LEMMA PromptInit == Init => PromptInv
<1> SUFFICES ASSUME Init PROVE PromptInv
  OBVIOUS
<1>1. gpc = "spin" /\ msgq = <<>> /\ \A p \in Procs : pcb[p].state = "none"
  BY DEF Init, IPCInit, GenInit, SchedInit
<1> QED  BY <1>1 DEF PromptInv, Holds, IsNew

(* The clock finds nobody on the way to the ready queue.                      *)
LEMMA PromptClock ==
    ASSUME InTurnSystem, TypeOK, SendInv, AccountInv, OrderInv, LedgerInv, PromptInv, Clock
    PROVE  PromptInv'
<1>1. /\ Quiescent /\ UNCHANGED <<msgq, pcb, processes, arrived, gpc, gcur>>
  BY DEF Clock, ClockTick, InTurnSystem, genVars, schedVars
<1>2. spc = "exit" \/ (spc = "spin" /\ scur = clk)
  BY <1>1, ClockMoves
<1>3. \A p \in Procs : ~Holds(msgq, p) /\ ~IsNew(p)
  <2>1. CASE spc = "exit"
    <3>1. \A p \in Procs : IsFreed(p)
      BY <2>1, ExitWhenFreed DEF InTurnSystem, Freed, IsFreed
    <3> QED  BY <3>1 DEF AccountInv, PlaceInv
  <2>2. CASE spc = "spin" /\ scur = clk
    <3>1. msgq = <<>>
      BY <2>2 DEF LedgerInv, ReadInv, AfterRead
    <3> QED  BY <2>2, <3>1 DEF AccountInv, RunningInv, Holds
  <2> QED  BY <1>2, <2>1, <2>2
<1> QED  BY <1>1, <1>3 DEF PromptInv, Holds, IsNew

(* A pass begins where the one of the tick before ended. *)
LEMMA PromptGenerator ==
    ASSUME InTurnSystem, TypeOK, SendInv, OrderInv, PromptInv, Generator
    PROVE  PromptInv'
<1> USE OrderTypes
<1>1. UNCHANGED <<clk, pcb, processes>>
  BY DEF Generator, GenNext, GenNewTick, GenSend, GenTickDone, GenSignalEnd,
         GenLastUp, GenReap, ipcVars, schedVars
<1>2. CASE GenNewTick
  <2>1. gpc = "spin" /\ clk # gcur /\ gcur' = clk /\ UNCHANGED <<arrived, msgq>>
    BY <1>2 DEF GenNewTick, ipcVars
  <2>2. gcur = clk - 1 /\ \A p \in Procs : processes[p].arrivalTime <= gcur => p \in arrived
    BY <2>1 DEF OrderInv, PassInv, SendInv
  <2>3. ASSUME NEW p \in Procs \ arrived PROVE processes[p].arrivalTime >= clk
    <3>1. ~(processes[p].arrivalTime <= clk - 1)
      BY <2>2, <2>3
    <3>2. clk \in Int /\ processes[p].arrivalTime \in Int
      BY LedgerTypes
    <3> QED  BY <3>1, <3>2
  <2> QED  BY <1>1, <2>1, <2>3 DEF PromptInv, Holds, IsNew
<1>3. CASE GenSend
  <2>1. PICK i \in Due : arrived' = arrived \cup {i} /\ msgq' = Append(msgq, i)
    BY <1>3 DEF GenSend
  <2>2. gpc = "send" /\ UNCHANGED <<gpc, gcur>> /\ gcur = clk
    BY <1>3 DEF GenSend, OrderInv, PassInv
  <2>3. i \in Procs \ arrived /\ processes[i].arrivalTime = clk
    <3>1. i \in Procs \ arrived /\ processes[i].arrivalTime <= clk
      BY <2>1, <2>2 DEF Due
    <3>2. processes[i].arrivalTime >= clk
      BY <2>2, <3>1 DEF PromptInv
    <3>3. clk \in Int /\ processes[i].arrivalTime \in Int
      BY <3>1, TurnTypes
    <3> QED  BY <3>1, <3>2, <3>3
  <2>4. \A p \in Procs : Holds(msgq', p) => Holds(msgq, p) \/ p = i
    <3>1. ~Holds(msgq, i) /\ IsInjective(msgq)
      BY <2>3 DEF SendInv, Holds
    <3>2. \A p : Holds(Append(msgq, i), p) <=> Holds(msgq, p) \/ p = i
      BY <2>3, <3>1, AppendHolds
    <3> QED  BY <2>1, <3>2
  <2> QED  BY <1>1, <2>1, <2>2, <2>3, <2>4 DEF PromptInv, Holds, IsNew
<1>4. CASE GenTickDone \/ GenSignalEnd \/ GenLastUp \/ GenReap
  <2>1. gpc' # "send" /\ UNCHANGED msgq
    BY <1>4 DEF GenTickDone, GenSignalEnd, GenLastUp, GenReap
  <2> QED  BY <1>1, <2>1 DEF PromptInv, Holds, IsNew
<1> QED  BY <1>2, <1>3, <1>4 DEF Generator, GenNext

(* The scheduler takes from the message queue and makes a PCB. *)
LEMMA PromptOthers ==
    ASSUME InTurnSystem, TypeOK, AccountInv, OrderInv, PromptInv,
           (\E p \in Procs : Job(p)) \/ Scheduling \/ UNCHANGED vars
    PROVE  PromptInv'
<1> USE OrderTypes
<1>1. UNCHANGED genVars
  BY JobAlone DEF Scheduling, vars
<1>2. SUFFICES /\ clk' = clk
               /\ \A p \in Procs : Holds(msgq, p)' \/ IsNew(p)' => Holds(msgq, p) \/ IsNew(p)
  BY <1>1 DEF PromptInv, genVars
<1>3. CASE (\E p \in Procs : Job(p)) \/ UNCHANGED vars
  <2>1. UNCHANGED <<clk, msgq, pcb>>
    BY <1>3, JobAlone DEF vars, ipcVars, schedVars
  <2> QED  BY <2>1 DEF Holds, IsNew
<1>4. CASE Scheduling
  <2>1. ~Fault /\ ~SchedKilledEarly
    BY <1>4, OrderNoFault DEF SchedKilledEarly
  <2>2. CASE ReadMSGQ
    <3>1. /\ clk' = clk /\ msgq # <<>> /\ msgq' = Tail(msgq)
          /\ pcb' = [pcb EXCEPT ![Head(msgq)].state = "new"]
      BY <2>1, <2>2 DEF ReadMSGQ
    <3>2. /\ Holds(msgq, Head(msgq))
          /\ \A p : Holds(Tail(msgq), p) <=> Holds(msgq, p) /\ p # Head(msgq)
      BY <3>1, TailHolds DEF AccountInv, PlaceInv
    <3>3. \A p \in Procs : Holds(msgq', p) => Holds(msgq, p)
      BY <3>1, <3>2
    <3>4. \A p \in Procs : IsNew(p)' => p = Head(msgq) \/ IsNew(p)
      BY <3>1 DEF IsNew
    <3> QED  BY <3>1, <3>2, <3>3, <3>4 DEF Holds
  <2>3. CASE ~ReadMSGQ
    <3>1. UNCHANGED <<clk, msgq>>
      BY <1>4, <2>1, <2>3
         DEF Scheduling, SchedNext, SchedBoot, SchedNewTick, SchedExit,
             DownGen, CheckRunning, DownProc, CreateEntry, ReadDone, Schedule,
             Charge, StopRunning, Pick, StartRunning, AssignPid, ResumeRunning, ReadProcess,
             ProcFinished, ProcReaped, ipcVars
    <3>2. \A p \in Procs : IsNew(p)' => IsNew(p)
      <4>1. CASE CreateEntry
        <5>1. PICK e \in Procs : EntryRefused(e) \/ EntryCreated(e)
          BY <4>1 DEF CreateEntry
        <5>2. pcb'[e].state # "new" /\ \A p \in Procs : p # e => pcb'[p] = pcb[p]
          <6>1. CASE EntryRefused(e)
            BY <6>1 DEF EntryRefused, PCB
          <6>2. CASE EntryCreated(e)
            BY <6>2 DEF EntryCreated
          <6> QED  BY <5>1, <6>1, <6>2
        <5> QED  BY <5>2 DEF IsNew
      <4>2. CASE Charge \/ StopRunning \/ StartRunning \/ AssignPid \/ ResumeRunning
                 \/ ProcFinished \/ ProcReaped
        BY <2>1, <4>2, NoNewEntry DEF IsNew
      <4>3. CASE SchedBoot \/ SchedNewTick \/ SchedExit \/ DownGen \/ CheckRunning \/ DownProc
                 \/ ReadDone \/ Schedule \/ Pick \/ ReadProcess
        <5>1. UNCHANGED pcb
          BY <2>1, <4>3 DEF SchedBoot, SchedNewTick, SchedExit, DownGen, CheckRunning, DownProc,
                     ReadDone, Schedule, Pick, ReadProcess
        <5> QED  BY <5>1 DEF IsNew
      <4> QED  BY <1>4, <2>1, <2>3, <4>1, <4>2, <4>3 DEF Scheduling, SchedNext
    <3> QED  BY <3>1, <3>2 DEF Holds
  <2> QED  BY <2>2, <2>3
<1> QED  BY <1>3, <1>4

(* In a prompt system whose jobs end in turn, who is on the way to the ready  *)
(* queue has arrived in this tick.                                            *)
THEOREM PromptInvariant == ASSUME InTurnSystem PROVE Spec /\ [][EndsInTurn]_vars => []PromptInv
<1>1. TypeOK /\ SendInv /\ AccountInv /\ OrderInv /\ LedgerInv /\ PromptInv /\ [Next]_vars => PromptInv'
  BY PromptClock, PromptGenerator, PromptOthers DEF Next, Terminated
<1>2. RQSZ >= N
  BY DEF InTurnSystem
<1> QED
  BY <1>1, <1>2, PromptInit, TypeCorrect, SendInvariant, AccountInvariant, OrderInvariant, LedgerInvariant,
     PTL DEF Spec

(* RR with a quantum, in a prompt system whose jobs end in turn: the quantum  *)
(* that is left and the wait of every entry stay within the room of its place *)
(* in the queue.                                                              *)
THEOREM TurnInvariant == ASSUME RoundRobin PROVE Spec /\ [][EndsInTurn]_vars => []TurnInv
<1>1. /\ TypeOK /\ TypeOK' /\ SendInv /\ AccountInv /\ OrderInv /\ LedgerInv /\ PromptInv /\ TurnInv
      /\ [Next]_vars
      => TurnInv'
  BY TurnClock, TurnGenerator, TurnJob, TurnScheduling, TurnStutter DEF Next, Terminated
<1>2. RQSZ >= N /\ InTurnSystem
  BY DEF InTurnSystem, RoundRobin
<1> QED
  BY <1>1, <1>2, TurnInit, TypeCorrect, SendInvariant, AccountInvariant, OrderInvariant, LedgerInvariant,
     PromptInvariant, PTL DEF Spec

(* RR with a quantum, in a prompt system whose jobs end in turn: nobody waits *)
(* for the CPU longer than a quantum of each of the others, however they      *)
(* arrive.                                                                    *)
THEOREM RRBoundedWait == ASSUME RoundRobin PROVE Spec /\ [][EndsInTurn]_vars => []BoundedWait
<1>1. TypeOK /\ SendInv /\ AccountInv /\ OrderInv /\ LedgerInv /\ TurnInv => BoundedWait
  <2> SUFFICES ASSUME TypeOK, SendInv, AccountInv, OrderInv, LedgerInv, TurnInv, Quiescent, NEW q \in Waiting
               PROVE  clk - Since(q) <= (N - 1) * quantum
    BY DEF BoundedWait, Since
  <2>1. spc = "spin" /\ scur = clk /\ AfterRead
    BY QuiescentRead DEF RoundRobin
  <2>2. q \in Procs /\ Holds(readyQueue, q)
    BY <2>1, WaitingQueued
  <2>3. PICK i \in DOMAIN readyQueue : readyQueue[i] = q
    BY <2>2 DEF Holds
  <2>4. i \in Nat \ {0}
    BY QueueTypes
  <2>5. clk - Since(q) + Left <= Room(i) /\ Left >= 0
    <3>1. running # Null => currQuantum > 0 /\ currQuantum \in Int
      BY <2>1, RoomSteps DEF TurnInv, QuantumInv
    <3> QED  BY <2>1, <2>3, <3>1 DEF TurnInv, PatienceInv, Left, AfterPick
  <2>6. Room(i) <= (N - 1) * quantum /\ Room(i) \in Int
    BY <2>4, RoomSteps
  <2>7. PICK w, l, r, m \in Int : w = clk - Since(q) /\ l = Left /\ r = Room(i) /\ m = (N - 1) * quantum
    <3>1. (N - 1) * quantum \in Int
      BY RoomSteps
    <3> QED  BY <2>2, <2>6, <3>1, TurnTypes
  <2>8. w + l <= r /\ l >= 0 /\ r <= m
    BY <2>5, <2>6, <2>7
  <2>9. w <= m
    BY <2>8
  <2> QED  BY <2>7, <2>9
<1>2. RQSZ >= N /\ InTurnSystem
  BY DEF InTurnSystem, RoundRobin
<1> QED
  BY <1>1, <1>2, TypeCorrect, SendInvariant, AccountInvariant, OrderInvariant, LedgerInvariant, TurnInvariant,
     PTL

------------------------------------------------------------------------------
(* What the utilization is computed from.                                     *)

(* The seconds of service given so far, one by one.                           *)
Given(p) == processes[p].runTime - Owed(p)
Rendered == UNION {{p} \X (1 .. Given(p)) : p \in Procs}

(* A tick counted as busy whose second of service is not given yet: the one   *)
(* of this pass, which stands for a second of the next tick once this tick's  *)
(* was given, and that of the process in running before.                      *)
InPass == spc \notin {"boot", "spin", "exit"}
ToServe ==
    /\ running # Null
    /\ IF BeforeTick \/ spc = "slpProc" THEN DueTick(running) ELSE spc = "spin"
Credit == (IF InPass THEN 1 ELSE 0) + (IF ToServe THEN 1 ELSE 0)

MeterInv ==
    /\ \A p \in Procs : Given(p) >= 0
    /\ IsFiniteSet(Rendered)
    /\ totalTime - idleTime = Cardinality(Rendered) + Credit

(* What the arithmetic of the meter needs of the types.                       *)
LEMMA MeterTypes ==
    /\ Credit \in Int
    /\ TypeOK => totalTime \in Int /\ idleTime \in Int /\ \A p \in Procs : Given(p) \in Int
<1>1. TypeOK => \A p \in Procs : processes[p].runTime \in Int /\ Owed(p) \in Int
  BY LedgerTypes
<1> QED  BY <1>1 DEF TypeOK, SchedTypeOK, Given, Credit

(* Nobody was served.                                                         *)
LEMMA MeterInit == ASSUME TypeOK, Init PROVE MeterInv
<1>1. /\ \A p \in Procs : ppc[p] = "none"
      /\ spc = "boot" /\ running = Null /\ totalTime = 0 /\ idleTime = 0
  BY DEF Init, ProcInit, SchedInit
<1>2. \A p \in Procs : Given(p) = 0
  BY <1>1, LedgerTypes DEF Given, Owed
<1>3. Rendered = {}
  <2>1. \A p \in Procs : 1 .. Given(p) = {}
    BY <1>2
  <2> QED  BY <2>1 DEF Rendered
<1>4. IsFiniteSet(Rendered) /\ Cardinality(Rendered) = 0
  BY <1>3, FS_EmptySet
<1>5. Credit = 0
  BY <1>1 DEF Credit, InPass, ToServe
<1> QED  BY <1>1, <1>2, <1>4, <1>5 DEF MeterInv

(* Nobody is served in this step.                                             *)
LEMMA MeterFrame ==
    ASSUME TypeOK, MeterInv, processes' = processes, \A p \in Procs : Owed(p)' = Owed(p),
           NEW d \in Int, totalTime' - idleTime' = totalTime - idleTime + d, Credit' = Credit + d
    PROVE  MeterInv'
<1>1. \A p \in Procs : Given(p)' = Given(p)
  BY DEF Given
<1>2. Rendered' = Rendered
  BY <1>1 DEF Rendered
<1>3. PICK t, c, e \in Int : t = totalTime - idleTime /\ c = Cardinality(Rendered) /\ e = Credit
  BY MeterTypes, FS_CardinalityType DEF MeterInv
<1>4. t = c + e /\ totalTime' - idleTime' = t + d /\ Credit' = e + d
  BY <1>3 DEF MeterInv
<1>5. totalTime' - idleTime' = c + Credit'
  BY <1>3, <1>4
<1> QED  BY <1>1, <1>2, <1>3, <1>5 DEF MeterInv

(* The same without anything counted.                                         *)
LEMMA MeterSame ==
    ASSUME TypeOK, MeterInv, processes' = processes, \A p \in Procs : Owed(p)' = Owed(p),
           UNCHANGED <<totalTime, idleTime>>, Credit' = Credit
    PROVE  MeterInv'
<1>1. totalTime' - idleTime' = totalTime - idleTime + 0 /\ Credit' = Credit + 0
  BY MeterTypes
<1> QED  BY <1>1, MeterFrame

(* A second of service is one more.                                           *)
LEMMA MeterServed ==
    ASSUME TypeOK, MeterInv, processes' = processes, NEW p \in Procs, Owed(p)' = Owed(p) - 1,
           \A q \in Procs : q # p => Owed(q)' = Owed(q),
           UNCHANGED <<totalTime, idleTime>>, Credit' = Credit - 1
    PROVE  MeterInv'
<1>1. \A q \in Procs : q # p => Given(q)' = Given(q)
  BY DEF Given
<1>2. Given(p)' = Given(p) + 1
  <2>1. PICK r, o \in Int : r = processes[p].runTime /\ o = Owed(p)
    BY LedgerTypes
  <2>2. Given(p) = r - o /\ Given(p)' = r - (o - 1)
    BY <2>1 DEF Given
  <2> QED  BY <2>1, <2>2
<1>3. PICK g \in Nat : g = Given(p)
  BY MeterTypes DEF MeterInv
<1> DEFINE x == <<p, g + 1>>
<1>4. Rendered' = Rendered \cup {x}
  <2>1. 1 .. (g + 1) = (1 .. g) \cup {g + 1}
    OBVIOUS
  <2>2. Given(p)' = g + 1
    BY <1>2, <1>3
  <2>3. \A q, k : <<q, k>> \in Rendered' <=> q \in Procs /\ k \in 1 .. Given(q)'
    BY DEF Rendered
  <2>4. \A q, k : <<q, k>> \in Rendered <=> q \in Procs /\ k \in 1 .. Given(q)
    BY DEF Rendered
  <2>5. \A q, k : <<q, k>> \in Rendered' <=> <<q, k>> \in Rendered \cup {x}
    BY <1>1, <1>3, <2>1, <2>2, <2>3, <2>4
  <2>6. (\A z \in Rendered' : \E q, k : z = <<q, k>>) /\ (\A z \in Rendered : \E q, k : z = <<q, k>>)
    BY DEF Rendered
  <2> QED  BY <2>5, <2>6
<1>5. x \notin Rendered
  <2>1. x \in Rendered => g + 1 \in 1 .. g
    BY <1>3 DEF Rendered
  <2> QED  BY <2>1
<1> HIDE DEF x
<1>6. IsFiniteSet(Rendered') /\ Cardinality(Rendered') = Cardinality(Rendered) + 1
  BY <1>4, <1>5, FS_AddElement DEF MeterInv
<1>7. PICK t, c, e \in Int : t = totalTime - idleTime /\ c = Cardinality(Rendered) /\ e = Credit
  BY MeterTypes, FS_CardinalityType DEF MeterInv
<1>8. t = c + e /\ totalTime' - idleTime' = t /\ Credit' = e - 1 /\ Cardinality(Rendered') = c + 1
  BY <1>6, <1>7 DEF MeterInv
<1>9. totalTime' - idleTime' = Cardinality(Rendered') + Credit'
  BY <1>7, <1>8
<1>10. \A q \in Procs : Given(q)' >= 0
  BY <1>1, <1>2, <1>3 DEF MeterInv
<1> QED  BY <1>6, <1>9, <1>10 DEF MeterInv

(* The clock moves when nobody is in a pass.                                  *)
LEMMA MeterClock ==
    ASSUME InTurnSystem, TypeOK, SendInv, AccountInv, OrderInv, MeterInv, Clock
    PROVE  MeterInv'
<1>1. Quiescent /\ UNCHANGED genVars /\ UNCHANGED procVars /\ UNCHANGED schedVars
  BY DEF Clock, InTurnSystem
<1>2. spc = "exit" \/ (spc = "spin" /\ scur = clk)
  BY <1>1, ClockMoves
<1>3. spc = "exit" => running = Null
  BY DEF OrderInv, HolderInv
<1>5. running # Null => spc = "spin" /\ scur = clk /\ ~BeforeTick /\ BeforeTick' /\ DueTick(running)'
  <2> SUFFICES ASSUME running # Null
               PROVE  spc = "spin" /\ scur = clk /\ ~BeforeTick /\ BeforeTick' /\ DueTick(running)'
    OBVIOUS
  <2>1. spc = "spin" /\ scur = clk /\ clk' = clk + 1 /\ slp' = slp /\ clk \in Nat /\ running \in Procs
    BY <1>2, <1>3, OrderTypes DEF Clock, ClockTick
  <2>2. Ticked(running)
    BY <1>1, <2>1, ClockMoves DEF OrderInv, HolderInv, Fresh, Woken, Ticked
  <2> QED  BY <1>1, <2>1, <2>2 DEF Ticked, DueTick, BeforeTick, procVars, schedVars
<1>4. Credit' = Credit
  BY <1>1, <1>2, <1>5 DEF Credit, InPass, ToServe, schedVars
<1> QED  BY <1>1, <1>4, MeterSame DEF Owed, procVars, genVars, schedVars

(* The generator serves nobody.                                               *)
LEMMA MeterGenerator ==
    ASSUME TypeOK, MeterInv, Generator
    PROVE  MeterInv'
<1>1. UNCHANGED <<clk, slp, processes>> /\ UNCHANGED procVars /\ UNCHANGED schedVars
  BY DEF Generator, GenNext, GenNewTick, GenSend, GenTickDone, GenSignalEnd,
         GenLastUp, GenReap, ipcVars
<1>2. Credit' = Credit
  BY <1>1 DEF Credit, InPass, ToServe, BeforeTick, DueTick, schedVars, procVars
<1> QED  BY <1>1, <1>2, MeterSame DEF Owed, procVars, schedVars

(* A job takes the second that is due.                                        *)
LEMMA MeterJob ==
    ASSUME InTurnSystem, TypeOK, OrderInv, MeterInv, NEW p \in Procs, Job(p)
    PROVE  MeterInv'
<1>1. UNCHANGED <<processes, clk>> /\ UNCHANGED schedVars
  BY JobAlone DEF genVars
<1>2. UNCHANGED <<spc, scur, running, totalTime, idleTime>>
  BY <1>1 DEF schedVars
<1>3. running \in Procs \cup {Null}
  BY OrderTypes
<1>4. CASE /\ p = running /\ (BeforeTick \/ spc = "slpProc") /\ DueTick(p) /\ ~DueTick(p)'
           /\ Owed(p)' = Owed(p) - 1
  <2>1. ToServe /\ ~ToServe' /\ (InPass' <=> InPass)
    BY <1>1, <1>2, <1>4, OrderTypes DEF InPass, ToServe, BeforeTick
  <2>2. Credit' = Credit - 1
    BY <2>1 DEF Credit
  <2> QED  BY <1>1, <1>2, <1>4, <2>2, JobOwed, MeterServed
<1>5. CASE ~DueTick(p) /\ ~DueTick(p)' /\ Owed(p)' = Owed(p)
  <2>1. running # Null => (DueTick(running)' <=> DueTick(running))
    BY <1>2, <1>3, <1>5, JobOwed
  <2>2. Credit' = Credit
    BY <1>1, <1>2, <2>1 DEF Credit, InPass, ToServe, BeforeTick
  <2> QED  BY <1>1, <1>2, <1>5, <2>2, JobOwed, MeterSame
<1> QED  BY <1>4, <1>5, JobOwed

(* What the scheduler does leaves everybody with what he is owed.             *)
LEMMA MeterOwed ==
    ASSUME InTurnSystem, TypeOK, OrderInv, Scheduling
    PROVE  /\ processes' = processes /\ ~Fault
           /\ \A p \in Procs : Owed(p)' = Owed(p)
<1>1. UNCHANGED genVars /\ ~Fault
  BY OrderNoFault DEF Scheduling
<1>2. CASE UNCHANGED procVars
  BY <1>1, <1>2 DEF Owed, procVars, genVars
<1>3. CASE StartRunning
  <2>1. /\ spc = "start" /\ running # Null
        /\ ppc' = [ppc EXCEPT ![running] = "exec"] /\ UNCHANGED remainingtime
    BY <1>1, <1>3 DEF StartRunning, Main
  <2>2. ppc[running] = "none"
    BY <2>1 DEF OrderInv, HolderInv
  <2>3. ppc \in [Procs -> ProcPoints]
    BY OrderTypes
  <2> QED  BY <1>1, <2>1, <2>2, <2>3 DEF Owed, genVars
<1>4. UNCHANGED procVars \/ StartRunning
  BY <1>1 DEF Scheduling, SchedNext, SchedBoot, SchedKilledEarly, SchedNewTick, SchedExit,
     DownGen, CheckRunning, DownProc, ReadMSGQ, CreateEntry, ReadDone, Schedule, Charge,
     StopRunning, Pick, AssignPid, ResumeRunning, ReadProcess, ProcFinished, ProcReaped
<1> QED  BY <1>1, <1>2, <1>3, <1>4 DEF genVars

(* The two steps that count a tick.                                           *)
LEMMA MeterCounts ==
    ASSUME InTurnSystem, TypeOK, OrderInv, MeterInv, Scheduling, SchedNewTick \/ ReadDone
    PROVE  MeterInv'
<1>1. /\ processes' = processes /\ \A p \in Procs : Owed(p)' = Owed(p)
      /\ UNCHANGED clk /\ (DueTick(running)' <=> DueTick(running))
  BY MeterOwed, OrderTypes DEF SchedNewTick, ReadDone, ipcVars, procVars, DueTick
<1>2. PICK t, i \in Int : t = totalTime /\ i = idleTime
  BY MeterTypes
<1>3. CASE SchedNewTick
  <2>1. /\ spc = "spin" /\ clk # scur /\ spc' \in {"chkProc", "downGen"} /\ running' = running
        /\ totalTime' = t + 1 /\ idleTime' = i
    BY <1>2, <1>3 DEF SchedNewTick, Main
  <2>4. (ToServe' <=> ToServe) /\ ~InPass /\ InPass'
    BY <1>1, <2>1 DEF InPass, ToServe, BeforeTick
  <2>2. Credit' = Credit + 1
    BY <2>4 DEF Credit
  <2>3. totalTime' - idleTime' = totalTime - idleTime + 1
    BY <1>2, <2>1
  <2> QED  BY <1>1, <2>2, <2>3, MeterFrame
<1>4. CASE ReadDone /\ IdleTick
  <2>1. /\ spc = "read" /\ spc' = "spin" /\ running' = running /\ running = Null
        /\ totalTime' = t /\ idleTime' = i + 1
    BY <1>2, <1>4 DEF ReadDone, Main, IdleTick
  <2>2. Credit' = Credit + (-1)
    BY <2>1 DEF Credit, InPass, ToServe, BeforeTick
  <2>3. totalTime' - idleTime' = totalTime - idleTime + (-1)
    BY <1>2, <2>1
  <2> QED  BY <1>1, <2>2, <2>3, MeterFrame
<1>5. CASE ReadDone /\ ~IdleTick
  <2>1. /\ spc = "read" /\ spc' \in {"sched", "spin"} /\ running' = running
        /\ spc' = "spin" => running # Null
        /\ totalTime' = t /\ idleTime' = i /\ scur' = scur /\ scur = clk
    BY <1>2, <1>5 DEF ReadDone, Main, IdleTick, OrderInv, PassInv
  <2>2. Credit' = Credit
    BY <1>1, <2>1 DEF Credit, InPass, ToServe, BeforeTick
  <2> QED  BY <1>1, <1>2, <2>1, <2>2, MeterSame
<1> QED  BY <1>3, <1>4, <1>5

(* Every other step: a pass that is not idle ends with somebody in running.   *)
LEMMA MeterPasses ==
    ASSUME InTurnSystem, TypeOK, OrderInv, OrderInv', MeterInv, Scheduling, ~SchedNewTick, ~ReadDone
    PROVE  MeterInv'
<1> USE OrderTypes
<1>1. processes' = processes /\ ~Fault /\ \A p \in Procs : Owed(p)' = Owed(p)
  BY MeterOwed
<1>2. UNCHANGED <<totalTime, idleTime, clk>>
  BY <1>1 DEF Scheduling, SchedNext, SchedBoot, SchedKilledEarly, SchedExit,
     DownGen, CheckRunning, DownProc, ReadMSGQ, CreateEntry, Schedule, Charge, StopRunning, Pick,
     StartRunning, AssignPid, ResumeRunning, ReadProcess, ProcFinished, ProcReaped, ipcVars
<1>3. CASE SchedBoot \/ SchedExit \/ DownGen \/ CheckRunning
  <2>1. /\ running' = running
        /\ \/ spc \in {"boot", "spin"} /\ spc' \in {"spin", "exit"} /\ (spc = "boot" \/ spc' = "exit")
           \/ spc \in {"downGen", "slpGen"} /\ spc' \in {"slpGen", "chkProc"}
           \/ spc = "chkProc" /\ spc' = (IF running = Null THEN "read" ELSE "downProc")
    BY <1>3 DEF SchedBoot, SchedExit, DownGen, CheckRunning, Main
  <2>2. (spc = "boot" => running = Null) /\ (spc' = "exit" => running' = Null)
    BY DEF OrderInv, HolderInv
  <2>3. spc \in {"downGen", "slpGen", "chkProc"} => BeforeTick /\ (BeforeTick' \/ running = Null)
    BY <2>1 DEF BeforeTick
  <2>4. DueTick(running)' <=> DueTick(running)
    BY <1>3, <1>2 DEF SchedBoot, SchedExit, DownGen, CheckRunning, ipcVars, procVars, DueTick
  <2>5. (ToServe' <=> ToServe) /\ (InPass' <=> InPass)
    BY <2>1, <2>2, <2>3, <2>4 DEF InPass, ToServe
  <2> QED  BY <2>5, <1>1, <1>2, MeterSame DEF Credit
<1>4. CASE DownProc
  <2>1. /\ running' = running /\ UNCHANGED <<clk, slp, scur>> /\ UNCHANGED procVars
        /\ \/ spc = "downProc" /\ spc' = "slpProc"
           \/ spc \in {"downProc", "slpProc"} /\ spc' = "read"
    BY <1>4 DEF DownProc, Main
  <2>2. DueTick(running)' <=> DueTick(running)
    BY <2>1 DEF DueTick, procVars
  <2>3. spc' = "read" => ~DueTick(running)'
    BY <2>1 DEF OrderInv, HolderInv, Ticked, DueTick
  <2>4. (ToServe' <=> ToServe) /\ (InPass' <=> InPass)
    BY <2>1, <2>2, <2>3 DEF InPass, ToServe, BeforeTick
  <2> QED  BY <2>4, <1>1, <1>2, MeterSame DEF Credit
<1>5. CASE \/ ReadMSGQ \/ CreateEntry \/ Schedule \/ Charge \/ StopRunning \/ Pick
           \/ StartRunning \/ AssignPid \/ ResumeRunning
  <2>1. /\ spc \in {"read", "create", "sched", "charge", "sleep", "pick", "start", "pid", "resume"}
        /\ spc' \in {"read", "create", "pick", "charge", "sleep", "start", "pid", "resume", "spin"}
        /\ spc' = "spin" => running' # Null
        /\ scur' = scur
    BY <1>1, <1>5 DEF ReadMSGQ, CreateEntry, Schedule, AlgorithmPath, Charge, HPFSheduler, SRTNSheduler,
       RRSheduler, StopRunning, Pick, StartRunning, AssignPid, ResumeRunning, Main
  <2>2. scur = clk
    BY <2>1 DEF OrderInv, PassInv
  <2> QED  BY <2>1, <2>2, <1>1, <1>2, MeterSame DEF Credit, InPass, ToServe, BeforeTick
<1>6. CASE ReadProcess \/ ProcFinished
  <2>1. UNCHANGED <<spc, scur, running>> /\ spc # "slpProc"
    BY <1>1, <1>6 DEF ReadProcess, ProcFinished, UserMode
  <2>2. DueTick(running)' <=> DueTick(running)
    BY <1>1, <1>2, <1>6 DEF ReadProcess, ProcFinished, procVars, DueTick
  <2> QED  BY <2>1, <2>2, <1>1, <1>2, MeterSame DEF Credit, InPass, ToServe, BeforeTick
<1>7. CASE ProcReaped
  <2>1. spc = "read" /\ spc' = spc
    BY <1>7 DEF ProcReaped, OrderInv, SignalInv
  <2> QED  BY <2>1, <1>1, <1>2, MeterSame DEF Credit, InPass, ToServe, BeforeTick
<1>8. ~SchedKilledEarly
  BY <1>1 DEF SchedKilledEarly
<1> QED  BY <1>3, <1>4, <1>5, <1>6, <1>7, <1>8 DEF Scheduling, SchedNext

(* A stuttering step.                                                         *)
LEMMA MeterStutter == ASSUME TypeOK, MeterInv, UNCHANGED vars PROVE MeterInv'
<1>1. UNCHANGED <<clk, slp, processes>> /\ UNCHANGED procVars /\ UNCHANGED schedVars
  BY DEF vars, ipcVars, genVars
<1>2. UNCHANGED <<totalTime, idleTime>> /\ Credit' = Credit
  BY <1>1 DEF Credit, InPass, ToServe, BeforeTick, DueTick, schedVars, procVars
<1> QED  BY <1>1, <1>2, MeterSame DEF Owed, procVars

(* In a prompt system whose jobs end in turn every tick counted as busy is a  *)
(* second of service given or still to come.                                  *)
THEOREM MeterInvariant == ASSUME InTurnSystem PROVE Spec /\ [][EndsInTurn]_vars => []MeterInv
<1>1. TypeOK /\ SendInv /\ AccountInv /\ OrderInv /\ OrderInv' /\ MeterInv /\ [Next]_vars
          => MeterInv'
  BY MeterClock, MeterGenerator, MeterJob, MeterCounts, MeterPasses, MeterStutter DEF Next, Terminated
<1>2. Init /\ TypeOK => MeterInv
  BY MeterInit
<1>3. RQSZ >= N
  BY DEF InTurnSystem
<1> QED  BY <1>1, <1>2, <1>3, TypeCorrect, SendInvariant, AccountInvariant, OrderInvariant, PTL DEF Spec

(* In a prompt system whose jobs end in turn the ticks not counted as idle    *)
(* are, at the end, as many as the ticks of service of the processes that     *)
(* were not refused.                                                          *)
THEOREM InTurnBusyTicks == ASSUME InTurnSystem PROVE Spec /\ [][EndsInTurn]_vars => []BusyTicks
<1>1. ASSUME TypeOK, OrderInv, MeterInv, NprocExact, spc = "exit"
      PROVE  totalTime - idleTime = Cardinality(Service(Finished))
  <2> USE OrderTypes
  <2>1. Credit = 0
    BY <1>1 DEF Credit, InPass, ToServe, OrderInv, HolderInv
  <2>2. Freed = Procs
    BY <1>1 DEF NprocExact
  <2>3. ASSUME NEW p \in Finished PROVE p \in Procs /\ Given(p) = processes[p].runTime
    <3>1. p \in Procs /\ pcb[p].state = "freed" /\ ppc[p] # "none"
      BY <2>3 DEF Finished, Freed, Forked
    <3>2. ppc[p] = "end" /\ remainingtime[p] = 0
      BY <1>1, <3>1 DEF OrderInv, OthersInv, Place, RemainsInv, Remains
    <3>3. processes[p].runTime \in Int /\ Owed(p) = 0
      BY <1>1, <3>1, <3>2, LedgerTypes DEF Owed
    <3> QED  BY <3>1, <3>3 DEF Given
  <2>4. ASSUME NEW p \in Procs, p \notin Finished PROVE 1 .. Given(p) = {}
    <3>1. ppc[p] = "none"
      BY <2>2, <2>4 DEF Finished, Forked
    <3>2. processes[p].runTime \in Int /\ Owed(p) = processes[p].runTime
      BY <1>1, <3>1, LedgerTypes DEF Owed
    <3>3. Given(p) = 0
      BY <3>2 DEF Given
    <3> QED  BY <3>3
  <2>5. Rendered = Service(Finished)
    <3>1. Rendered \subseteq Service(Finished)
      <4> SUFFICES ASSUME NEW p \in Procs, NEW k \in 1 .. Given(p) PROVE <<p, k>> \in Service(Finished)
        BY DEF Rendered
      <4>1. p \in Finished
        BY <2>4
      <4> QED  BY <2>3, <4>1 DEF Service
    <3>2. Service(Finished) \subseteq Rendered
      BY <2>3 DEF Rendered, Service
    <3> QED  BY <3>1, <3>2
  <2>6. Cardinality(Rendered) \in Int
    BY <1>1, FS_CardinalityType DEF MeterInv
  <2> QED  BY <1>1, <2>1, <2>5, <2>6 DEF MeterInv
<1>2. numProcesses = N /\ RQSZ >= N
  BY DEF InTurnSystem
<1>3. TypeOK /\ OrderInv /\ MeterInv /\ NprocExact => BusyTicks
  BY <1>1 DEF BusyTicks
<1> QED  BY <1>2, <1>3, TypeCorrect, OrderInvariant, MeterInvariant, NprocCounts, PTL
==============================================================================
