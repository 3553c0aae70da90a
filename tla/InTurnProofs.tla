---------------------------- MODULE InTurnProofs ----------------------------
(* What the two semaphores are meant to produce, for every algorithm: a tick  *)
(* is the generator's pass, the second of service of the process in running   *)
(* and the scheduler's pass.  The theorems say when it is produced: the       *)
(* program must be one of InTurnSystem and the schedule one of EndsInTurn.    *)
EXTENDS MarsOSProofs

(* The system considered: a clock that ticks only when every program has      *)
(* nothing left to do, a file of at least one process, none of length 0,      *)
(* whose number the scheduler was told, and queues with room for all of them. *)
(* This says nothing of the order in which the programs do their work of a    *)
(* tick: of that, EndsInTurn says all that the proofs use.                    *)
InTurnSystem ==
    /\ Timing = "prompt"
    /\ N > 0 /\ numProcesses = N /\ RQSZ >= N /\ MsgqCap >= N
    /\ \A w \in Workloads : \A p \in Procs : w[p].runTime > 0

------------------------------------------------------------------------------
(* Generator, scheduler and clock.                                            *)

(* The generator's pass of this tick is over; the scheduler has taken note.   *)
Sent == gpc = "spin" /\ gcur = clk
Taken == scur = clk /\ spc \notin {"downGen", "slpGen"}

(* Nobody lags behind the clock by more than the tick that has just begun,    *)
(* and semSchedGen holds a token exactly between the end of the generator's   *)
(* pass and the scheduler's down, until the generator ends.                   *)
PassInv ==
    /\ gpc = "spin" => gcur \in {clk - 1, clk}
    /\ gpc = "send" => gcur = clk
    /\ gcur = -1 => arrived = {} /\ gpc = "spin"
    /\ spc = "boot" => clk = 0 /\ scur = -1 /\ sigs = {} /\ ~exitFlag
    /\ spc = "spin" => scur \in {clk - 1, clk}
    /\ spc \notin {"boot", "spin", "exit"} => scur = clk
    /\ gpc \in {"lastUp", "wait"} => exitFlag /\ ("SIGMSGQ" \in sigs \/ procGenFinished)
    /\ gpc = "spin" => ~exitFlag
    /\ gpc = "wait" /\ spc \in {"downGen", "slpGen"} => semSchedGen >= 1
    /\ ~exitFlag => ~procGenFinished /\ "SIGMSGQ" \notin sigs
    /\ ~exitFlag /\ spc # "exit" =>
            /\ Taken => Sent
            /\ semSchedGen = IF Sent /\ ~Taken THEN 1 ELSE 0

------------------------------------------------------------------------------
(* Scheduler and jobs.                                                        *)

(* Where a job is: its second of this tick is still to come; accounted for;   *)
(* it was just forked; it is stopped; it will be, or it is, in this tick; it  *)
(* was just sent the signal that wakes it.                                    *)
DueTick(p) == ppc[p] = "loop" /\ curTime[p] # clk /\ ~blocked[p] /\ p \notin slp
Ticked(p) == ppc[p] = "loop" /\ curTime[p] = clk /\ ~blocked[p] /\ p \notin slp
Fresh(p) == ppc[p] \in {"exec", "bound"} /\ ~blocked[p] /\ p \notin slp
Asleep(p) == ppc[p] = "blk" /\ blocked[p] /\ p \notin slp
Halted(p) == Asleep(p) \/ (ppc[p] = "loop" /\ curTime[p] = clk /\ (p \in slp <=> ~blocked[p]))
Woken(p) == ppc[p] = "blk" /\ blocked[p] /\ p \in slp

(* Its second of this tick is at most being accounted for: it is due, taken   *)
(* and not announced, announced, or was the last and is about to be.          *)
Announcing(p) == ppc[p] = "up" /\ curTime[p] = clk /\ ~blocked[p] /\ p \notin slp
Ending(p) == ppc[p] = "kill" /\ p \notin slp
InSecond(p) == DueTick(p) \/ Announcing(p) \/ Ticked(p) \/ Ending(p)

(* The scheduler has not yet come to down(semSchedProc) in this tick; or not  *)
(* to the dispatch.                                                           *)
BeforeTick == spc \in {"boot", "downGen", "slpGen", "chkProc", "downProc"} \/ (spc = "spin" /\ scur # clk)
BeforePick == BeforeTick \/ spc \in {"slpProc", "read", "create", "sched", "charge", "sleep", "pick"}

(* The process in running, at each point of the scheduler.                    *)
HolderInv ==
    /\ spc \in {"boot", "exit"} => running = Null
    /\ spc \in {"downProc", "slpProc", "charge", "sleep", "start", "pid", "resume"} => running # Null
    /\ running # Null =>
        /\ BeforeTick => InSecond(running)
        /\ spc = "slpProc" =>
              \/ InSecond(running)
              \/ ppc[running] = "last" /\ running \notin slp
              \/ ppc[running] = "end" /\ running \in exited
        /\ spc = "read" => Ticked(running) \/ (ppc[running] = "end" /\ running \in exited)
        /\ spc \in {"create", "sched", "charge", "sleep"} => Ticked(running)
        /\ spc = "sleep" => SchedulerType = 1 \/ pcb[running].state = "BLOCKED"
        /\ spc = "pick" => Halted(running) /\ pcb[running].state = "BLOCKED"
        /\ spc = "start" => ppc[running] = "none" /\ pcb[running].state = "READY"
        /\ spc = "pid" => Fresh(running) \/ Ticked(running)
        /\ spc = "resume" => Asleep(running)
        /\ spc = "spin" /\ scur = clk => Fresh(running) \/ Ticked(running) \/ Woken(running)

(* The process in running has announced its second, or its end, and the       *)
(* scheduler has not yet taken note.                                          *)
Announced ==
    /\ running # Null
    /\ \/ (BeforeTick \/ spc = "slpProc") /\ Ticked(running)
       \/ spc = "slpProc" /\ ppc[running] = "end"

(* SIGPF is pending, or being handled, from the kill() of the process in      *)
(* running to the waitpid() for it, and finds the scheduler in its down() or  *)
(* right after it; semSchedProc holds a token from the up() of the process in *)
(* running to that down() only.                                               *)
SignalInv ==
    /\ "SIGPF" \in sigs <=>
            /\ running # Null /\ hpc = "main"
            /\ \/ spc = "slpProc" /\ ppc[running] \in {"last", "end"}
               \/ spc = "read" /\ ppc[running] = "end"
    /\ Sched \in exited => spc = "exit"
    /\ hpc = "reap" => spc = "read" /\ running # Null /\ ppc[running] = "end"
    /\ semSchedProc =
            IF spc = "exit" THEN Removed
            ELSE IF Announced THEN 1
            ELSE 0

(* Everybody else was not forked, has ended, or is stopped in the ready queue *)
(* - since an earlier tick, until the scheduler comes to its dispatch.        *)
Place(p) ==
    /\ pcb[p].state \in {"none", "new"} => ppc[p] = "none"
    /\ pcb[p].state = "freed" => ppc[p] \in {"none", "end"}
    /\ pcb[p].state \in {"READY", "BLOCKED"} => Holds(readyQueue, p) \/ p = running
    /\ Holds(readyQueue, p) => pcb[p].state \in {"READY", "BLOCKED"}
    /\ pcb[p].state = "READY" /\ p # running => ppc[p] = "none"
    /\ pcb[p].state = "BLOCKED" /\ p # running => Halted(p) /\ (BeforePick => Asleep(p))
    /\ pcb[p].state = "BLOCKED" /\ p = running => spc \in {"sleep", "pick", "resume"}
    /\ ppc[p] = "none" => ~blocked[p] /\ p \notin slp
    /\ p \in exited => ppc[p] = "end"

(* What remains of it, by its own copy, its PCB's and the shared word. *)
Remains(p) ==
    /\ processes[p].runTime > 0
    /\ pcb[p].state = "READY" /\ ppc[p] = "none" => pcb[p].remainingTime = processes[p].runTime
    /\ ppc[p] \in {"exec", "bound"} => shm = processes[p].runTime
    /\ ppc[p] \in {"loop", "up", "blk"} => remainingtime[p] > 0
    /\ ppc[p] \in {"kill", "last", "end"} => remainingtime[p] = 0
    /\ SchedulerType = 0 /\ Holds(readyQueue, p) => pcb[p].priority = pcb[p].remainingTime

(* The algorithms run on a queue that is not empty, and a process that is     *)
(* preempted is not the next one.                                             *)
QueueInv ==
    /\ spc \in {"sched", "charge"} => readyQueue # <<>>
    /\ spc \in {"sleep", "pick"} /\ running # Null =>
            \A i \in First(readyQueue) : readyQueue[i] # running

OthersInv == \A p \in Procs : Place(p)
RemainsInv == (\A p \in Procs : Remains(p)) /\ QueueInv

OrderInv ==
    /\ spc # "fault"
    /\ PassInv
    /\ HolderInv
    /\ SignalInv
    /\ OthersInv
    /\ RemainsInv

------------------------------------------------------------------------------
(* The three programs start in step.                                          *)
LEMMA OrderInit == ASSUME InTurnSystem, Init PROVE OrderInv
<1>1. /\ clk = 0 /\ sigs = {} /\ slp = {} /\ exited = {} /\ semSchedGen = 0 /\ semSchedProc = 0
      /\ gpc = "spin" /\ gcur = -1 /\ exitFlag = FALSE /\ processes \in Workloads
      /\ arrived = {}
      /\ spc = "boot" /\ hpc = "main" /\ scur = -1 /\ procGenFinished = FALSE /\ running = Null
      /\ readyQueue = <<>>
      /\ \A p \in Procs : ppc[p] = "none" /\ ~blocked[p] /\ pcb[p].state = "none"
  BY DEF Init, IPCInit, GenInit, ProcInit, SchedInit
<1>2. PassInv
  BY <1>1 DEF PassInv, Sent, Taken
<1>3. HolderInv /\ SignalInv
  BY <1>1 DEF HolderInv, SignalInv, Announced, Removed
<1>4. \A p : ~Holds(readyQueue, p)
  BY <1>1 DEF Holds
<1>5. OthersInv
  BY <1>1, <1>4 DEF OthersInv, Place
<1>6. RemainsInv
  BY <1>1, <1>4 DEF RemainsInv, Remains, QueueInv, InTurnSystem
<1> QED  BY <1>1, <1>2, <1>3, <1>5, <1>6 DEF OrderInv

(* What the proofs need of the types. *)
LEMMA OrderTypes ==
    ASSUME TypeOK
    PROVE  /\ clk \in Nat /\ shm \in Int /\ semSchedGen \in Nat /\ sigs \subseteq Signals
           /\ slp \subseteq Procs /\ exited \subseteq Procs \cup {Sched}
           /\ gpc \in {"spin", "send", "lastUp", "wait", "done"} /\ gcur \in Int
           /\ exitFlag \in BOOLEAN /\ procGenFinished \in BOOLEAN
           /\ ppc \in [Procs -> ProcPoints] /\ remainingtime \in [Procs -> Int]
           /\ curTime \in [Procs -> Nat] /\ blocked \in [Procs -> BOOLEAN]
           /\ spc \in MainPoints /\ hpc \in {"main", "reap"} /\ scur \in Int
           /\ running \in Procs \cup {Null} /\ readyQueue \in Seq(Procs) /\ msgq \in Seq(Procs)
           /\ pcb \in [Procs -> PCB] /\ \A p \in Procs : pcb[p] \in PCB
           /\ Null \notin Procs /\ Sched \notin Procs
<1>1. Null \notin Procs /\ Sched \notin Procs
  BY NAssumption DEF Procs, Null, Sched
<1>2. IPCTypeOK /\ GenTypeOK /\ ProcTypeOK /\ SchedTypeOK
  BY DEF TypeOK
<1>3. \A p \in Procs : pcb[p] \in PCB
  BY <1>2 DEF SchedTypeOK
<1>4. /\ clk \in Nat /\ shm \in Int /\ semSchedGen \in Nat /\ sigs \subseteq Signals
      /\ slp \subseteq Procs /\ exited \subseteq Procs \cup {Sched} /\ msgq \in Seq(Procs)
  BY <1>2 DEF IPCTypeOK
<1>5. /\ gpc \in {"spin", "send", "lastUp", "wait", "done"} /\ gcur \in Int
      /\ exitFlag \in BOOLEAN
  BY <1>2 DEF GenTypeOK
<1>6. /\ ppc \in [Procs -> ProcPoints] /\ remainingtime \in [Procs -> Int]
      /\ curTime \in [Procs -> Nat] /\ blocked \in [Procs -> BOOLEAN]
  BY <1>2 DEF ProcTypeOK
<1>7. /\ procGenFinished \in BOOLEAN
      /\ spc \in MainPoints /\ hpc \in {"main", "reap"} /\ scur \in Int
      /\ running \in Procs \cup {Null} /\ readyQueue \in Seq(Procs) /\ pcb \in [Procs -> PCB]
  BY <1>2 DEF SchedTypeOK
<1> QED  BY <1>1, <1>3, <1>4, <1>5, <1>6, <1>7

(* What the proofs need of the type of the ready queue.                       *)
LEMMA QueueTypes ==
    ASSUME TypeOK
    PROVE  /\ Len(readyQueue) \in Nat /\ DOMAIN readyQueue = 1 .. Len(readyQueue)
           /\ \A i \in DOMAIN readyQueue : i \in Nat \ {0} /\ readyQueue[i] \in Procs
<1>1. readyQueue \in Seq(Procs)
  BY OrderTypes
<1> QED  BY <1>1

(* The algorithms take an entry of the queue. *)
LEMMA FirstIndex ==
    ASSUME TypeOK, NEW i \in First(readyQueue)
    PROVE  i \in DOMAIN readyQueue /\ i \in 1 .. Len(readyQueue) /\ readyQueue[i] \in Procs
<1>1. readyQueue \in Seq(Procs)
  BY OrderTypes
<1>2. i \in DOMAIN readyQueue
  BY DEF First
<1> QED  BY <1>1, <1>2

(* A process whose PCB, job and place in the queue do not change stays as it  *)
(* is, and what remains of it does.                                           *)
LEMMA PlaceStays ==
    ASSUME NEW q \in Procs, Place(q), UNCHANGED running,
           spc' = spc \/ q # running \/ pcb[q].state # "BLOCKED", BeforePick' => BeforePick,
           pcb'[q].state = pcb[q].state, Holds(readyQueue, q)' <=> Holds(readyQueue, q),
           ppc'[q] = ppc[q], blocked'[q] = blocked[q], q \in slp' <=> q \in slp,
           q \in exited' <=> q \in exited, Halted(q)' <=> Halted(q), Asleep(q)' <=> Asleep(q)
    PROVE  Place(q)'
  BY DEF Place

(* What remains of a process depends on its PCB, its place and its job only.  *)
LEMMA RemainsStays ==
    ASSUME NEW q \in Procs, Remains(q), UNCHANGED processes, pcb'[q] = pcb[q],
           UNCHANGED shm \/ ppc[q] \notin {"exec", "bound"},
           Holds(readyQueue, q)' <=> Holds(readyQueue, q), ppc'[q] = ppc[q],
           remainingtime'[q] = remainingtime[q]
    PROVE  Remains(q)'
  BY DEF Remains

(* The clock moves only when the generator has sent everything of the tick or *)
(* ended, the scheduler waits for the clock or has exited, and the jobs are   *)
(* accounted for or stopped.                                                  *)
LEMMA ClockMoves ==
    ASSUME InTurnSystem, TypeOK, SendInv, AccountInv, OrderInv, Quiescent
    PROVE  /\ Sent \/ (gpc \in {"wait", "done"})
           /\ spc = "exit" \/ (spc = "spin" /\ scur = clk /\ hpc = "main" /\ sigs = {})
           /\ semSchedProc # Removed => semSchedProc = 0
           /\ \A p \in Procs :
                \/ ppc[p] \in {"none", "end"}
                \/ ppc[p] = "blk" /\ p \notin slp
                \/ Ticked(p)
<1> USE OrderTypes
<1>1. gpc # "send"
  <2> SUFFICES ASSUME gpc = "send" PROVE FALSE
    OBVIOUS
  <2>1. Len(msgq) >= MsgqCap /\ Due # {}
    BY DEF Quiescent, GenWaits
  <2>2. PICK p \in Procs \ arrived : TRUE
    BY <2>1 DEF Due
  <2>3. ~Holds(msgq, p)
    BY <2>2 DEF SendInv, Holds
  <2>4. Len(msgq) < N
    BY <2>2, <2>3, OneMissing DEF SendInv
  <2> QED  BY <2>1, <2>4, NAssumption, MsgqCapAssumption DEF InTurnSystem
<1>2. (gpc = "spin" /\ gcur = clk) \/ gpc = "wait"
  BY <1>1 DEF Quiescent, GenWaits
<1>3. \A p \in Procs :
                \/ ppc[p] \in {"none", "end"}
                \/ ppc[p] = "blk" /\ p \notin slp
                \/ Ticked(p)
  BY DEF Quiescent, ProcWaits, Ticked
<1>4. ~(hpc = "reap" /\ sigs = {} /\ running \notin exited)
  BY DEF OrderInv, SignalInv, Announced, BeforeTick, HolderInv, Ticked
<1>5. ~(spc = "slpProc" /\ ~CanDown(semSchedProc))
  <2> SUFFICES ASSUME spc = "slpProc", ~CanDown(semSchedProc) PROVE FALSE
    OBVIOUS
  <2>1. running \in Procs /\ ~Ticked(running) /\ ppc[running] # "end"
    BY DEF OrderInv, HolderInv, SignalInv, Announced, CanDown
  <2> QED  BY <1>3, <2>1 DEF OrderInv, HolderInv, InSecond, Announcing, Ending, DueTick, Ticked
<1>6. ~(spc = "slpGen" /\ ~CanDown(semSchedGen))
  BY <1>2 DEF OrderInv, PassInv, CanDown, Sent, Taken
<1>7. spc = "exit" \/ (spc = "spin" /\ scur = clk /\ hpc = "main" /\ sigs = {})
  BY <1>4, <1>5, <1>6 DEF Quiescent, SchedWaits, OrderInv
<1>8. semSchedProc # Removed => semSchedProc = 0
  BY <1>7 DEF OrderInv, SignalInv, Announced, BeforeTick
<1> QED  BY <1>2, <1>3, <1>7, <1>8 DEF Sent

(* The clock begins a tick: the process in running is due its second of       *)
(* service.                                                                   *)
LEMMA OrderClock ==
    ASSUME InTurnSystem, TypeOK, SendInv, AccountInv, OrderInv, Clock
    PROVE  OrderInv'
<1> USE OrderTypes
<1>1. /\ Quiescent /\ clk' = clk + 1
      /\ UNCHANGED <<shm, semSchedGen, semSchedProc, msgq, sigs, slp, exited>>
      /\ UNCHANGED genVars /\ UNCHANGED procVars /\ UNCHANGED schedVars
  BY DEF Clock, ClockTick, InTurnSystem
<1>2. /\ Sent \/ (gpc \in {"wait", "done"})
      /\ spc = "exit" \/ (spc = "spin" /\ scur = clk /\ hpc = "main" /\ sigs = {})
      /\ semSchedProc # Removed => semSchedProc = 0
      /\ \A p \in Procs :
                \/ ppc[p] \in {"none", "end"}
                \/ ppc[p] = "blk" /\ p \notin slp
                \/ Ticked(p)
  BY <1>1, ClockMoves
<1>3. PassInv'
  BY <1>1, <1>2 DEF OrderInv, PassInv, Sent, Taken, genVars, schedVars
<1>4. running # Null => Ticked(running) /\ running' = running /\ spc = "spin"
  BY <1>1, <1>2 DEF OrderInv, HolderInv, Fresh, Woken, Ticked, schedVars
<1>5. \A p \in Procs : Ticked(p) => DueTick(p)' /\ InSecond(p)' /\ ~Ticked(p)' /\ ppc'[p] = "loop"
  BY <1>1 DEF Ticked, DueTick, InSecond, procVars
<1>6. HolderInv'
  BY <1>1, <1>2, <1>4, <1>5 DEF OrderInv, HolderInv, BeforeTick, schedVars
<1>7. SignalInv'
  BY <1>1, <1>2, <1>4, <1>5 DEF OrderInv, SignalInv, Announced, BeforeTick, schedVars, procVars
<1>8. OthersInv'
  <2>1. \A p \in Procs : Halted(p) => Asleep(p)
    BY <1>2 DEF Halted, Asleep, Ticked
  <2>2. \A p \in Procs : Asleep(p) => Asleep(p)'
    BY <1>1 DEF Asleep, procVars
  <2> QED  BY <1>1, <1>2, <2>1, <2>2 DEF OrderInv, OthersInv, Place, Halted, procVars, schedVars, Holds
<1>9. RemainsInv'
  BY <1>1 DEF OrderInv, RemainsInv, Remains, QueueInv, First, Holds, genVars, procVars, schedVars
<1> QED  BY <1>1, <1>3, <1>6, <1>7, <1>8, <1>9 DEF OrderInv, schedVars

(* The pass of the generator hands one token to the scheduler.                *)
LEMMA OrderGenerator ==
    ASSUME InTurnSystem, TypeOK, SendInv, AccountInv, OrderInv, Generator
    PROVE  OrderInv'
<1> USE OrderTypes
<1>1. /\ UNCHANGED <<clk, shm, semSchedProc, slp, processes>> /\ UNCHANGED procVars /\ UNCHANGED schedVars
      /\ "SIGPF" \in sigs' <=> "SIGPF" \in sigs
      /\ \A p \in Procs : p \in exited' <=> p \in exited
  BY DEF Generator, GenNext, GenNewTick, GenSend, GenTickDone, GenSignalEnd,
         GenLastUp, GenReap, ipcVars
<1>2. PassInv'
  <2>1. CASE GenNewTick
    <3>1. gcur = clk - 1 /\ gcur' = clk /\ gpc' = "send" /\ ~exitFlag /\ exitFlag' = (arrived = Procs)
          /\ UNCHANGED <<arrived, sigs, semSchedGen>>
      BY <2>1 DEF GenNewTick, OrderInv, PassInv, ipcVars
    <3>2. spc = "boot" => arrived # Procs
      BY <3>1, NAssumption DEF OrderInv, PassInv, InTurnSystem, Procs
    <3> QED  BY <1>1, <3>1, <3>2 DEF OrderInv, PassInv, Sent, Taken, schedVars
  <2>2. CASE GenSend
    BY <1>1, <2>2 DEF GenSend, OrderInv, PassInv, Sent, Taken, schedVars, ipcVars
  <2>3. CASE GenTickDone
    BY <1>1, <2>3 DEF GenTickDone, OrderInv, PassInv, Sent, Taken, schedVars, Up, Removed
  <2>4. CASE GenSignalEnd
    BY <1>1, <2>4 DEF GenSignalEnd, OrderInv, PassInv, Sent, Taken, schedVars
  <2>5. CASE GenLastUp
    BY <1>1, <2>5 DEF GenLastUp, OrderInv, PassInv, Sent, Taken, schedVars, Up, Removed
  <2>6. CASE GenReap
    BY <1>1, <2>6 DEF GenReap, OrderInv, PassInv, Sent, Taken, schedVars
  <2> QED  BY <2>1, <2>2, <2>3, <2>4, <2>5, <2>6 DEF Generator, GenNext
<1>3. HolderInv'
  BY <1>1 DEF OrderInv, HolderInv, BeforeTick, InSecond, Announcing, Ending, DueTick, Ticked, Fresh,
              Asleep, Halted, Woken, schedVars, procVars
<1>4. SignalInv'
  <2>1. Sched \in exited' => Sched \in exited
    BY DEF Generator, GenNext, GenNewTick, GenSend, GenTickDone, GenSignalEnd, GenLastUp, GenReap, ipcVars
  <2> QED  BY <1>1, <2>1 DEF OrderInv, SignalInv, Announced, BeforeTick, Ticked, schedVars, procVars
<1>5. OthersInv'
  BY <1>1 DEF OrderInv, OthersInv, Place, BeforePick, BeforeTick, Asleep, Halted, Holds, schedVars, procVars
<1>6. RemainsInv'
  BY <1>1 DEF OrderInv, RemainsInv, Remains, QueueInv, First, Holds, schedVars, procVars
<1> QED  BY <1>1, <1>2, <1>3, <1>4, <1>5, <1>6 DEF OrderInv, schedVars

------------------------------------------------------------------------------
(* A job touches nothing of another one. *)
LEMMA JobAlone ==
    ASSUME TypeOK, NEW p \in Procs, Job(p)
    PROVE  /\ UNCHANGED <<clk, semSchedGen, msgq>> /\ UNCHANGED genVars /\ UNCHANGED schedVars
           /\ sigs' \subseteq sigs \cup {"SIGPF"} /\ sigs \subseteq sigs'
           /\ Sched \in exited' <=> Sched \in exited
           /\ \A q \in Procs : q # p =>
                /\ ppc'[q] = ppc[q] /\ remainingtime'[q] = remainingtime[q]
                /\ curTime'[q] = curTime[q] /\ blocked'[q] = blocked[q]
                /\ q \in slp' <=> q \in slp
                /\ q \in exited' <=> q \in exited
<1> USE OrderTypes DEF Job, ProcNext, ipcVars
<1>1. UNCHANGED <<clk, semSchedGen, msgq>> /\ UNCHANGED genVars /\ UNCHANGED schedVars
  BY DEF ProcBind, ProcSigEarly, ProcRead, ProcTick, ProcUp, ProcSettle, SigSleepHandler, ProcKill, ProcLast
<1>2. sigs' \subseteq sigs \cup {"SIGPF"} /\ sigs \subseteq sigs'
  BY DEF ProcBind, ProcSigEarly, ProcRead, ProcTick, ProcUp, ProcSettle, SigSleepHandler, ProcKill, ProcLast
<1>3. exited' \subseteq exited \cup {p} /\ exited \subseteq exited' /\ slp' \subseteq slp /\ slp \subseteq slp' \cup {p}
  BY DEF ProcBind, ProcSigEarly, ProcRead, ProcTick, ProcUp, ProcSettle, SigSleepHandler, ProcKill, ProcLast
<1>4. \A q \in Procs : q # p => ppc'[q] = ppc[q] /\ remainingtime'[q] = remainingtime[q]
  BY DEF ProcBind, ProcSigEarly, ProcRead, ProcTick, ProcUp, ProcSettle, SigSleepHandler, ProcKill, ProcLast
<1>5. \A q \in Procs : q # p => curTime'[q] = curTime[q] /\ blocked'[q] = blocked[q]
  BY DEF ProcBind, ProcSigEarly, ProcRead, ProcTick, ProcUp, ProcSettle, SigSleepHandler, ProcKill, ProcLast
<1> QED  BY <1>1, <1>2, <1>3, <1>4, <1>5

(* A stopped job handles its SIGSLP and settles in while (blocked). *)
LEMMA OrderJobStopped ==
    ASSUME InTurnSystem, TypeOK, OrderInv, NEW p \in Procs, Halted(p), Job(p)
    PROVE  /\ Halted(p)' /\ ~Asleep(p) /\ ppc'[p] \in {"loop", "blk"}
           /\ UNCHANGED <<sigs, exited, shm, semSchedProc, remainingtime>>
<1> USE OrderTypes
<1>1. ppc[p] \in {"loop", "blk"} /\ (ppc[p] = "loop" => curTime[p] = clk)
  BY DEF Halted, Asleep
<1>2. UNCHANGED clk
  BY JobAlone
<1>3. CASE SigSleepHandler(p)
  <2>1. p \in slp /\ ppc[p] = "loop" /\ ~blocked[p]
    BY <1>3 DEF SigSleepHandler, Halted, Asleep
  <2> QED  BY <1>1, <1>2, <1>3, <2>1 DEF SigSleepHandler, Halted, Asleep
<1>4. CASE ProcSettle(p)
  BY <1>1, <1>2, <1>4 DEF ProcSettle, Halted, Asleep, ipcVars
<1> QED
  BY <1>1, <1>3, <1>4 DEF Job, ProcNext, ProcBind, ProcSigEarly, ProcRead, ProcTick, ProcUp, ProcKill, ProcLast

(* What stays of the invariant when only p's state and the tokens change. *)
LEMMA OrderJobFrame ==
    ASSUME InTurnSystem, TypeOK, OrderInv, NEW p \in Procs, Job(p),
           p = running \/ UNCHANGED sigs
    PROVE  /\ spc' # "fault" /\ PassInv'
           /\ running # p => HolderInv'
           /\ \A q \in Procs : q # p =>
                /\ Halted(q)' <=> Halted(q)
                /\ Asleep(q)' <=> Asleep(q)
<1> USE OrderTypes
<1>1. running = p => spc # "boot"
  BY DEF OrderInv, HolderInv
<1>2. PassInv'
  <2>1. /\ UNCHANGED <<clk, semSchedGen>>
        /\ UNCHANGED <<processes, arrived, gpc, gcur, exitFlag>>
        /\ UNCHANGED <<spc, scur, procGenFinished, running>>
    BY JobAlone DEF genVars, schedVars
  <2>2. "SIGMSGQ" \in sigs' <=> "SIGMSGQ" \in sigs
    BY JobAlone
  <2>3. (Sent' <=> Sent) /\ (Taken' <=> Taken)
    BY <2>1 DEF Sent, Taken
  <2>4. spc = "boot" => UNCHANGED sigs
    BY <1>1
  <2> QED  BY <2>1, <2>2, <2>3, <2>4 DEF OrderInv, PassInv
<1>3. \A q \in Procs : q # p =>
         /\ DueTick(q)' <=> DueTick(q)
         /\ Ticked(q)' <=> Ticked(q)
         /\ Fresh(q)' <=> Fresh(q)
         /\ Halted(q)' <=> Halted(q)
         /\ Asleep(q)' <=> Asleep(q)
         /\ Woken(q)' <=> Woken(q)
         /\ InSecond(q)' <=> InSecond(q)
  BY JobAlone DEF DueTick, Ticked, Fresh, Halted, Asleep, Woken, InSecond, Announcing, Ending
<1>4. ASSUME running # p PROVE HolderInv'
  <2>1. UNCHANGED <<spc, scur, clk, pcb, running>>
    BY JobAlone DEF schedVars
  <2> QED  BY <1>3, <1>4, <2>1, JobAlone DEF OrderInv, HolderInv, BeforeTick
<1> QED  BY <1>2, <1>3, <1>4, JobAlone DEF OrderInv, schedVars

(* The other processes only settle into their stop.                           *)
LEMMA OrderJobWaiting ==
    ASSUME InTurnSystem, TypeOK, OrderInv, NEW p \in Procs, p # running, Job(p)
    PROVE  OrderInv'
<1> USE OrderTypes
<1>1. ppc[p] \notin {"none", "end"}
  BY DEF Job, ProcNext, ProcBind, ProcSigEarly, ProcRead, ProcTick, ProcUp, ProcSettle,
         SigSleepHandler, ProcKill, ProcLast
<1>2. pcb[p].state = "BLOCKED" /\ Halted(p)
  BY <1>1 DEF OrderInv, OthersInv, Place, PCB
<1>3. /\ Halted(p)' /\ ~Asleep(p) /\ ppc'[p] \in {"loop", "blk"}
      /\ UNCHANGED <<sigs, exited, shm, semSchedProc, remainingtime>>
  BY <1>2, OrderJobStopped
<1>4. spc' # "fault" /\ PassInv' /\ HolderInv'
      /\ \A q \in Procs : q # p => (Halted(q)' <=> Halted(q)) /\ (Asleep(q)' <=> Asleep(q))
  BY <1>3, OrderJobFrame
<1>5. /\ UNCHANGED <<processes, clk>> /\ UNCHANGED schedVars
      /\ \A q \in Procs : q # p =>
            /\ ppc'[q] = ppc[q] /\ curTime'[q] = curTime[q] /\ blocked'[q] = blocked[q]
            /\ q \in slp' <=> q \in slp
  BY JobAlone DEF genVars
<1>6. ~BeforePick /\ ppc[p] \in {"loop", "blk"}
  BY <1>2, <1>3 DEF OrderInv, OthersInv, Place, Halted, Asleep
<1>7. SignalInv'
  BY <1>3, <1>5 DEF OrderInv, SignalInv, Announced, BeforeTick, HolderInv, Ticked, schedVars
<1>8. OthersInv'
  <2>1. ~BeforePick'
    BY <1>5, <1>6 DEF BeforePick, BeforeTick, schedVars
  <2>2. p \notin exited
    BY <1>6 DEF OrderInv, OthersInv, Place
  <2> SUFFICES ASSUME NEW q \in Procs
               PROVE  Place(q)'
    BY DEF OthersInv
  <2>3. CASE q = p
    BY <1>2, <1>3, <1>5, <1>6, <2>1, <2>2, <2>3 DEF OrderInv, OthersInv, Place, Holds, schedVars
  <2>4. CASE q # p
    <3>1. Place(q) /\ (BeforePick' <=> BeforePick)
      BY <1>6, <2>1 DEF OrderInv, OthersInv
    <3>2. UNCHANGED <<running, spc, pcb, readyQueue>> /\ (Holds(readyQueue, q)' <=> Holds(readyQueue, q))
      BY <1>5 DEF Holds, schedVars
    <3>3. /\ ppc'[q] = ppc[q] /\ blocked'[q] = blocked[q] /\ (q \in slp' <=> q \in slp)
          /\ (q \in exited' <=> q \in exited)
          /\ (Halted(q)' <=> Halted(q)) /\ (Asleep(q)' <=> Asleep(q))
      BY <1>3, <1>4, <1>5, <2>4
    <3> QED  BY <3>1, <3>2, <3>3, PlaceStays
  <2> QED  BY <2>3, <2>4
<1>9. RemainsInv'
  <2>1. UNCHANGED <<running, spc, pcb, readyQueue>>
    BY <1>5 DEF schedVars
  <2>2. QueueInv'
    BY <2>1 DEF OrderInv, RemainsInv, QueueInv, First
  <2> SUFFICES ASSUME NEW q \in Procs
               PROVE  Remains(q)'
    BY <2>2 DEF RemainsInv
  <2>3. Remains(q) /\ (Holds(readyQueue, q)' <=> Holds(readyQueue, q))
    BY <2>1 DEF OrderInv, RemainsInv, Holds
  <2>4. CASE q = p
    BY <1>3, <1>5, <1>6, <2>1, <2>3, <2>4 DEF Remains
  <2>5. CASE q # p
    BY <1>3, <1>5, <2>1, <2>3, <2>5, RemainsStays
  <2> QED  BY <2>4, <2>5
<1> QED  BY <1>4, <1>7, <1>8, <1>9 DEF OrderInv

(* Where the scheduler is while the process in running takes or announces its *)
(* second, and while it ends.                                                 *)
LEMMA OrderSecond ==
    ASSUME TypeOK, OrderInv, running # Null
    PROVE  /\ DueTick(running) \/ Announcing(running) => BeforeTick \/ spc = "slpProc"
           /\ ppc[running] = "last" => spc = "slpProc" /\ hpc = "main"
<1> USE OrderTypes
<1>1. /\ DueTick(running) => ppc[running] = "loop" /\ curTime[running] # clk
      /\ Announcing(running) => ppc[running] = "up"
      /\ Ticked(running) => ppc[running] = "loop" /\ curTime[running] = clk
      /\ Fresh(running) => ppc[running] \in {"exec", "bound"}
      /\ Halted(running) => ppc[running] = "blk" \/ (ppc[running] = "loop" /\ curTime[running] = clk)
      /\ Asleep(running) \/ Woken(running) => ppc[running] = "blk"
      /\ Ending(running) => ppc[running] = "kill"
  BY DEF DueTick, Announcing, Ticked, Fresh, Halted, Asleep, Woken, Ending
<1>2. spc # "fault" /\ spc \notin {"boot", "exit"}
  BY DEF OrderInv, HolderInv
<1>3. hpc = "reap" => ppc[running] = "end"
  BY DEF OrderInv, SignalInv
<1> QED  BY <1>1, <1>2, <1>3 DEF OrderInv, HolderInv, InSecond, BeforeTick, MainPoints

(* The process in running: it reads the shared word, takes its second, tells  *)
(* the scheduler, once or for good; or it is stopped or woken.                *)
LEMMA OrderJobRunning ==
    ASSUME InTurnSystem, TypeOK, OrderInv, NEW p \in Procs, p = running, Job(p), EndsInTurn
    PROVE  OrderInv'
<1> USE OrderTypes
<1>1. /\ UNCHANGED <<processes, clk>> /\ UNCHANGED schedVars
      /\ \A q \in Procs : q # p =>
            /\ ppc'[q] = ppc[q] /\ remainingtime'[q] = remainingtime[q] /\ curTime'[q] = curTime[q]
            /\ blocked'[q] = blocked[q]
            /\ q \in slp' <=> q \in slp
            /\ q \in exited' <=> q \in exited
      /\ Sched \in exited' <=> Sched \in exited
  BY JobAlone DEF genVars
<1>2. running # Null /\ spc \notin {"boot", "exit"} /\ semSchedProc # Removed /\ Sched \notin exited
  BY DEF OrderInv, HolderInv, SignalInv, Announced, BeforeTick, Removed
<1>3. spc' # "fault" /\ PassInv'
      /\ \A q \in Procs : q # p => (Halted(q)' <=> Halted(q)) /\ (Asleep(q)' <=> Asleep(q))
  BY OrderJobFrame
<1>4. \A q \in Procs : q # p => ppc[q] \notin {"exec", "bound"}
  BY DEF OrderInv, OthersInv, Place, PCB, Halted, Asleep
<1>5. ASSUME ppc[p] # "none", ppc'[p] # "none", p \in exited' => ppc'[p] = "end",
             pcb[p].state = "freed" => ppc'[p] \in {"none", "end"}
      PROVE  OthersInv'
  <2>1. UNCHANGED <<running, spc, scur, clk, pcb, readyQueue>>
        /\ (BeforePick' <=> BeforePick) /\ \A q \in Procs : Holds(readyQueue, q)' <=> Holds(readyQueue, q)
    BY <1>1 DEF BeforePick, BeforeTick, Holds, schedVars
  <2>2. Place(p)'
    BY <1>5, <2>1 DEF OrderInv, OthersInv, Place
  <2> SUFFICES ASSUME NEW q \in Procs, q # p
               PROVE  Place(q)'
    BY <2>2 DEF OthersInv
  <2>3. Place(q)
    BY DEF OrderInv, OthersInv
  <2>4. /\ ppc'[q] = ppc[q] /\ blocked'[q] = blocked[q] /\ (q \in slp' <=> q \in slp)
        /\ (q \in exited' <=> q \in exited)
        /\ (Halted(q)' <=> Halted(q)) /\ (Asleep(q)' <=> Asleep(q))
    BY <1>1, <1>3
  <2> QED  BY <2>1, <2>3, <2>4, PlaceStays
<1>6. ppc[p] \notin {"none", "end"} /\ pcb[p].state # "freed"
  <2>1. ppc[p] \notin {"none", "end"}
    BY DEF Job, ProcNext, ProcBind, ProcSigEarly, ProcRead, ProcTick, ProcUp, ProcSettle,
           SigSleepHandler, ProcKill, ProcLast
  <2> QED  BY <2>1 DEF OrderInv, OthersInv, Place
<1>7. /\ Remains(p) /\ (Holds(readyQueue, p)' <=> Holds(readyQueue, p))
      /\ UNCHANGED <<processes, pcb, spc, running, readyQueue>>
  BY <1>1 DEF OrderInv, RemainsInv, Holds, schedVars
<1>15. ASSUME Remains(p)'
       PROVE  RemainsInv'
  <2>1. QueueInv'
    BY <1>7 DEF OrderInv, RemainsInv, QueueInv, First
  <2> SUFFICES ASSUME NEW q \in Procs, q # p
               PROVE  Remains(q)'
    BY <1>15, <2>1 DEF RemainsInv
  <2>2. Remains(q) /\ (Holds(readyQueue, q)' <=> Holds(readyQueue, q))
    BY <1>7 DEF OrderInv, RemainsInv, Holds
  <2>3. ppc'[q] = ppc[q] /\ remainingtime'[q] = remainingtime[q]
    BY <1>1
  <2> QED  BY <1>4, <1>7, <2>2, <2>3, RemainsStays
<1>8. CASE Halted(p) /\ spc = "pick"
  <2>1. /\ Halted(p)' /\ ppc'[p] \in {"loop", "blk"}
        /\ UNCHANGED <<sigs, exited, shm, semSchedProc, remainingtime>>
    BY <1>8, OrderJobStopped
  <2>2. HolderInv'
    BY <1>1, <1>2, <1>8, <2>1 DEF OrderInv, HolderInv, BeforeTick, schedVars
  <2>3. SignalInv'
    BY <1>1, <1>8, <2>1 DEF OrderInv, SignalInv, Announced, BeforeTick, schedVars
  <2>4. OthersInv'
    BY <1>5, <1>6, <2>1 DEF OrderInv, OthersInv, Place
  <2>5. RemainsInv'
    <3>1. Remains(p)'
      BY <1>7, <1>8, <2>1 DEF Remains, Halted, Asleep
    <3> QED  BY <1>15, <3>1
  <2> QED  BY <1>3, <2>2, <2>3, <2>4, <2>5 DEF OrderInv
<1>9. CASE Fresh(p) /\ (spc = "pid" \/ (spc = "spin" /\ scur = clk))
  <2>1. CASE ProcBind(p)
    <3>1. /\ Fresh(p)' /\ ppc'[p] = "bound" /\ ppc[p] = "exec"
          /\ UNCHANGED <<sigs, exited, shm, semSchedProc, remainingtime>>
      BY <1>9, <2>1 DEF ProcBind, Fresh, ipcVars
    <3>2. HolderInv'
      BY <1>1, <1>2, <1>9, <3>1 DEF OrderInv, HolderInv, BeforeTick, schedVars
    <3>3. SignalInv'
      BY <1>1, <1>2, <1>9, <3>1 DEF OrderInv, SignalInv, Announced, BeforeTick, schedVars
    <3>4. OthersInv'
      BY <1>5, <1>6, <3>1 DEF OrderInv, OthersInv, Place
    <3>5. RemainsInv'
      <4>1. Remains(p)'
        BY <1>7, <1>9, <3>1 DEF Remains
      <4> QED  BY <1>15, <4>1
    <3> QED  BY <1>3, <3>2, <3>3, <3>4, <3>5 DEF OrderInv
  <2>2. CASE ProcRead(p)
    <3>1. shm > 0
      BY <1>9 DEF OrderInv, RemainsInv, Remains, QueueInv, Fresh
    <3>2. /\ Ticked(p)' /\ remainingtime'[p] > 0
          /\ UNCHANGED <<sigs, exited, shm, semSchedProc>>
      BY <1>1, <1>2, <1>9, <2>2, <3>1 DEF ProcRead, Fresh, Ticked
    <3>3. HolderInv'
      BY <1>1, <1>2, <1>9, <3>2 DEF OrderInv, HolderInv, BeforeTick, schedVars
    <3>4. SignalInv'
      BY <1>1, <1>2, <1>9, <3>2 DEF OrderInv, SignalInv, Announced, BeforeTick, schedVars
    <3>5. OthersInv'
      BY <1>5, <1>6, <3>2 DEF OrderInv, OthersInv, Place, Ticked
    <3>6. RemainsInv'
      <4>1. ppc'[p] = "loop" /\ ppc[p] # "none"
        BY <1>6, <3>2 DEF Ticked
      <4>2. Remains(p)'
        BY <1>7, <3>2, <4>1 DEF Remains
      <4> QED  BY <1>15, <4>2
    <3> QED  BY <1>3, <3>3, <3>4, <3>5, <3>6 DEF OrderInv
  <2> QED
    BY <1>9, <2>1, <2>2 DEF Fresh, Job, ProcNext, ProcSigEarly, ProcTick, ProcUp, ProcSettle,
                            SigSleepHandler, ProcKill, ProcLast
<1>10. CASE Woken(p) /\ spc = "spin" /\ scur = clk
  <2>1. SigSleepHandler(p)
    BY <1>10 DEF Woken, Job, ProcNext, ProcBind, ProcSigEarly, ProcRead, ProcTick, ProcUp, ProcSettle,
                 ProcKill, ProcLast
  <2>2. Ticked(p)' /\ UNCHANGED <<sigs, exited, shm, semSchedProc, remainingtime>>
    BY <1>1, <1>7, <1>10, <2>1 DEF SigSleepHandler, Looping, Remains, Woken, Ticked
  <2>3. HolderInv'
    BY <1>1, <1>2, <1>10, <2>2 DEF OrderInv, HolderInv, BeforeTick, schedVars
  <2>4. SignalInv'
    BY <1>1, <1>2, <1>10, <2>2 DEF OrderInv, SignalInv, Announced, BeforeTick, schedVars
  <2>5. OthersInv'
    BY <1>5, <1>6, <2>2 DEF OrderInv, OthersInv, Place, Ticked
  <2>6. RemainsInv'
    <3>1. Remains(p)'
      BY <1>7, <1>10, <2>2 DEF Remains, Ticked, Woken
    <3> QED  BY <1>15, <3>1
  <2> QED  BY <1>3, <2>3, <2>4, <2>5, <2>6 DEF OrderInv
<1>11. CASE DueTick(p)
  <2>1. ProcTick(p)
    BY <1>11 DEF DueTick, Job, ProcNext, ProcBind, ProcSigEarly, ProcRead, ProcUp, ProcSettle,
                 SigSleepHandler, ProcKill, ProcLast
  <2>2. (BeforeTick \/ spc = "slpProc") /\ semSchedProc = 0
    BY <1>2, <1>11, OrderSecond DEF OrderInv, SignalInv, Announced, DueTick, Ticked
  <2>3. /\ ppc'[p] = IF remainingtime[p] = 1 THEN "kill" ELSE "up"
        /\ remainingtime'[p] = remainingtime[p] - 1 /\ curTime'[p] = clk
        /\ ~blocked'[p] /\ p \notin slp' /\ ppc[p] = "loop"
        /\ UNCHANGED <<sigs, exited, semSchedProc>>
    BY <1>11, <2>1 DEF ProcTick, LastTick, DueTick
  <2>8. InSecond(p)' /\ ~Ticked(p)'
    BY <1>1, <2>3 DEF InSecond, Announcing, Ending, Ticked
  <2>4. HolderInv'
    BY <1>1, <1>2, <2>2, <2>8 DEF OrderInv, HolderInv, BeforeTick, schedVars
  <2>5. SignalInv'
    BY <1>1, <1>2, <2>2, <2>3, <2>8 DEF OrderInv, SignalInv, Announced, BeforeTick, schedVars
  <2>6. OthersInv'
    BY <1>5, <1>6, <2>3 DEF OrderInv, OthersInv, Place
  <2>7. RemainsInv'
    <3>1. Remains(p)'
      BY <1>7, <2>2, <2>3 DEF Remains
    <3> QED  BY <1>15, <3>1
  <2> QED  BY <1>3, <2>4, <2>5, <2>6, <2>7 DEF OrderInv
<1>12. CASE Announcing(p)
  <2>1. ProcUp(p)
    BY <1>12 DEF Announcing, Job, ProcNext, ProcBind, ProcSigEarly, ProcRead, ProcTick, ProcSettle,
                 SigSleepHandler, ProcKill, ProcLast
  <2>7. BeforeTick \/ spc = "slpProc"
    BY <1>2, <1>12, OrderSecond DEF Announcing
  <2>2. /\ Ticked(p)' /\ semSchedProc = 0 /\ semSchedProc' = 1
        /\ UNCHANGED <<sigs, exited, shm, remainingtime>>
    BY <1>1, <1>2, <1>7, <1>12, <2>1, <2>7
       DEF ProcUp, Looping, Up, Ticked, Announcing, Remains, OrderInv, SignalInv, Announced
  <2>3. HolderInv'
    BY <1>1, <1>2, <2>2, <2>7 DEF OrderInv, HolderInv, InSecond, BeforeTick, schedVars
  <2>4. SignalInv'
    BY <1>1, <1>2, <1>12, <2>2, <2>7
       DEF OrderInv, SignalInv, Announced, BeforeTick, Ticked, Announcing, schedVars
  <2>5. OthersInv'
    BY <1>5, <1>6, <2>2 DEF OrderInv, OthersInv, Place, Ticked
  <2>6. RemainsInv'
    <3>1. Remains(p)'
      BY <1>7, <1>12, <2>2 DEF Remains, Ticked, Announcing
    <3> QED  BY <1>15, <3>1
  <2> QED  BY <1>3, <2>3, <2>4, <2>5, <2>6 DEF OrderInv
<1>13. CASE ppc[p] \in {"kill", "last"} /\ p \notin slp
  <2>1. CASE ProcKill(p)
    <3>6. /\ ppc[p] = "kill" /\ ppc'[p] = "last" /\ p \notin slp' /\ "SIGPF" \in sigs'
          /\ UNCHANGED <<exited, shm, semSchedProc, remainingtime>>
      BY <1>2, <1>13, <2>1 DEF ProcKill
    <3>1. /\ ppc[p] = "kill" /\ ppc'[p] = "last" /\ p \notin slp' /\ "SIGPF" \in sigs'
          /\ UNCHANGED <<exited, shm, semSchedProc, remainingtime>> /\ spc = "slpProc"
      BY <3>6 DEF EndsInTurn
    <3>2. HolderInv'
      BY <1>1, <1>2, <1>13, <3>1 DEF OrderInv, HolderInv, BeforeTick, schedVars
    <3>3. SignalInv'
      BY <1>1, <1>2, <1>13, <3>1 DEF OrderInv, SignalInv, Announced, BeforeTick, Ticked, schedVars
    <3>4. OthersInv'
      BY <1>5, <1>6, <3>1 DEF OrderInv, OthersInv, Place
    <3>5. RemainsInv'
      <4>1. Remains(p)'
        BY <1>7, <1>13, <3>1 DEF Remains
      <4> QED  BY <1>15, <4>1
    <3> QED  BY <1>3, <3>2, <3>3, <3>4, <3>5 DEF OrderInv
  <2>2. CASE ProcLast(p)
    <3>6. spc = "slpProc" /\ hpc = "main"
      BY <1>2, <1>13, <2>2, OrderSecond DEF ProcLast
    <3>1. /\ ppc[p] = "last" /\ ppc'[p] = "end" /\ p \in exited' /\ spc = "slpProc"
          /\ semSchedProc = 0 /\ semSchedProc' = 1
          /\ UNCHANGED <<sigs, shm, remainingtime>>
      BY <1>2, <1>13, <2>2, <3>6 DEF ProcLast, Up, OrderInv, SignalInv, Announced, BeforeTick, Ticked
    <3>2. HolderInv'
      BY <1>1, <1>2, <1>13, <3>1 DEF OrderInv, HolderInv, BeforeTick, schedVars
    <3>3. SignalInv'
      BY <1>1, <1>2, <1>13, <3>1 DEF OrderInv, SignalInv, Announced, BeforeTick, schedVars
    <3>4. OthersInv'
      BY <1>5, <1>6, <3>1 DEF OrderInv, OthersInv, Place
    <3>5. RemainsInv'
      <4>1. Remains(p)'
        BY <1>7, <1>13, <3>1 DEF Remains
      <4> QED  BY <1>15, <4>1
    <3> QED  BY <1>3, <3>2, <3>3, <3>4, <3>5 DEF OrderInv
  <2> QED
    BY <1>13, <2>1, <2>2 DEF Job, ProcNext, ProcBind, ProcSigEarly, ProcRead, ProcTick, ProcUp, ProcSettle,
                 SigSleepHandler
<1>14. ~Ticked(p) /\ ~Asleep(p)
  BY DEF Ticked, Asleep, Job, ProcNext, ProcBind, ProcSigEarly, ProcRead, ProcTick, ProcUp, ProcSettle,
                 SigSleepHandler, ProcKill, ProcLast
<1> QED
  BY <1>2, <1>6, <1>8, <1>9, <1>10, <1>11, <1>12, <1>13, <1>14
  DEF OrderInv, HolderInv, InSecond, Ending, BeforeTick, MainPoints

(* Every step of a simulated process.                                         *)
LEMMA OrderJob ==
    ASSUME InTurnSystem, TypeOK, OrderInv, NEW p \in Procs, Job(p), EndsInTurn
    PROVE  OrderInv'
  BY OrderJobWaiting, OrderJobRunning

------------------------------------------------------------------------------
(* No handler finds running cleared or runs into CreateEntry, and no freed    *)
(* PCB is queued.                                                             *)
LEMMA OrderNoFault ==
    ASSUME InTurnSystem, TypeOK, OrderInv, Scheduling
    PROVE  ~Fault
<1> USE OrderTypes
<1> SUFFICES spc' # "fault"
  BY DEF Fault
<1>1. \A i \in DOMAIN readyQueue : pcb[readyQueue[i]].state \in {"READY", "BLOCKED"}
  <2>1. \A i \in DOMAIN readyQueue : readyQueue[i] \in Procs /\ Holds(readyQueue, readyQueue[i])
    BY DEF Holds
  <2> QED  BY <2>1 DEF OrderInv, OthersInv, Place
<1>2. ~Dangling /\ ~FreedMinimum /\ \A i \in First(readyQueue) : pcb[readyQueue[i]].state # "freed"
  BY <1>1 DEF Dangling, FreedMinimum, First
<1>3. spc \in {"charge", "sleep", "start", "pid", "resume"} => running # Null
  BY DEF OrderInv, HolderInv
<1>4. spc = "boot" => sigs = {}
  BY DEF OrderInv, PassInv
<1>5. "SIGPF" \in sigs => running # Null /\ spc # "create"
  BY DEF OrderInv, SignalInv, Announced, BeforeTick
<1>6. spc # "fault"
  BY DEF OrderInv
<1>7. CASE SchedBoot \/ SchedKilledEarly \/ SchedNewTick \/ SchedExit \/ DownGen \/ CheckRunning
           \/ DownProc \/ CreateEntry \/ ReadDone \/ Schedule \/ ReadProcess \/ ProcReaped
  BY <1>4, <1>6, <1>7 DEF SchedBoot, SchedKilledEarly, SchedNewTick, SchedExit, DownGen, CheckRunning,
           DownProc, CreateEntry, ReadDone, Schedule, AlgorithmPath, ReadProcess, ProcReaped
<1>8. CASE ReadMSGQ \/ Charge \/ Pick
  BY <1>2, <1>3, <1>8 DEF ReadMSGQ, Charge, HPFSheduler, SRTNSheduler, RRSheduler, Pick, Main
<1>9. CASE StopRunning \/ StartRunning \/ AssignPid \/ ResumeRunning \/ ProcFinished
  BY <1>3, <1>5, <1>6, <1>9 DEF StopRunning, StartRunning, AssignPid, ResumeRunning, ProcFinished, Main
<1> QED  BY <1>7, <1>8, <1>9 DEF Scheduling, SchedNext

(* The scheduler's part in the passes of the tick. *)
LEMMA OrderPasses ==
    ASSUME InTurnSystem, TypeOK, OrderInv, Scheduling
    PROVE  PassInv'
<1> USE OrderTypes, OrderNoFault DEF OrderInv, PassInv, Sent, Taken
<1>1. /\ UNCHANGED <<clk, gpc, gcur, exitFlag, arrived>>
      /\ "SIGPF" \in sigs => spc \in {"slpProc", "read"}
  BY DEF Scheduling, genVars, SchedNext, SchedBoot, SchedKilledEarly, SchedNewTick, SchedExit, DownGen,
         CheckRunning, DownProc, ReadMSGQ, CreateEntry, ReadDone, Schedule, Charge, StopRunning,
         Pick, StartRunning, AssignPid, ResumeRunning, ReadProcess, ProcFinished, ProcReaped, ipcVars,
         SignalInv
<1>2. CASE SchedBoot
  BY <1>1, <1>2 DEF SchedBoot, Main, HandlerUnchanged
<1>3. CASE SchedNewTick
  BY <1>1, <1>3 DEF SchedNewTick, Main, HandlerUnchanged, ipcVars
<1>4. CASE SchedExit
  BY <1>1, <1>4 DEF SchedExit, Main, HandlerUnchanged
<1>5. CASE DownGen
  <2>1. /\ hpc' = hpc /\ UNCHANGED <<scur, procGenFinished, sigs>> /\ spc \in {"downGen", "slpGen"}
        /\ scur = clk /\ ~Taken
    BY <1>5 DEF DownGen, HandlerUnchanged
  <2>2. CASE CanDown(semSchedGen)
    <3>1. spc' = "chkProc" /\ semSchedGen' = semSchedGen - 1 /\ semSchedGen > 0
      BY <1>5, <2>2 DEF DownGen, CanDown, Down
    <3> QED  BY <1>1, <2>1, <3>1
  <2>3. CASE ~CanDown(semSchedGen)
    <3>1. UNCHANGED semSchedGen /\ semSchedGen = 0
      BY <1>5, <2>3 DEF DownGen, CanDown
    <3>2. CASE spc' = "slpGen"
      BY <1>1, <2>1, <3>1, <3>2
    <3>3. CASE spc' = "chkProc"
      <4>1. sigs # {} /\ "SIGPF" \notin sigs
        BY <1>1, <1>5, <2>1, <2>3, <3>3 DEF DownGen
      <4>2. "SIGMSGQ" \in sigs
        BY <4>1 DEF Signals
      <4>3. exitFlag
        BY <4>2
      <4> QED  BY <1>1, <2>1, <3>1, <3>3, <4>3
    <3> QED  BY <1>5, <2>3, <3>2, <3>3 DEF DownGen
  <2> QED  BY <2>2, <2>3
<1>6. CASE ReadProcess
  BY <1>1, <1>6 DEF ReadProcess
<1>7. CASE \/ CheckRunning \/ DownProc \/ ReadMSGQ \/ CreateEntry \/ ReadDone \/ Schedule \/ Charge
           \/ StopRunning \/ Pick \/ StartRunning \/ AssignPid \/ ResumeRunning \/ ProcFinished \/ ProcReaped
  <2>1. /\ spc \notin {"boot", "downGen", "slpGen", "spin", "exit"}
        /\ spc' \notin {"boot", "downGen", "slpGen", "exit"}
    BY <1>1, <1>7 DEF CheckRunning, DownProc, ReadMSGQ, CreateEntry, ReadDone, Schedule, AlgorithmPath, Charge,
       HPFSheduler, SRTNSheduler, RRSheduler, StopRunning, Pick, StartRunning, AssignPid, ResumeRunning,
       ProcFinished, UserMode, ProcReaped, Main, SignalInv
  <2>2. /\ UNCHANGED <<scur, procGenFinished, semSchedGen>>
        /\ "SIGMSGQ" \in sigs' <=> "SIGMSGQ" \in sigs
    BY <1>7 DEF CheckRunning, DownProc, ReadMSGQ, CreateEntry, ReadDone, Schedule, Charge, StopRunning,
       Pick, StartRunning, AssignPid, ResumeRunning, ProcFinished, ProcReaped, HandlerUnchanged, ipcVars
  <2> QED  BY <1>1, <2>1, <2>2
<1>8. ~SchedKilledEarly
  BY DEF SchedKilledEarly
<1> QED  BY <1>2, <1>3, <1>4, <1>5, <1>6, <1>7, <1>8 DEF Scheduling, SchedNext

------------------------------------------------------------------------------
(* The steps of the scheduler that change neither queue, CPU, PCBs nor jobs.  *)

Quiet ==
    /\ UNCHANGED <<clk, shm, slp, processes, pcb, readyQueue, running>> /\ UNCHANGED procVars
    /\ \A p \in Procs : p \in exited' <=> p \in exited
    /\ hpc' = hpc /\ ("SIGPF" \in sigs' <=> "SIGPF" \in sigs)

(* Where the jobs are, when none of them moves.                               *)
LEMMA SameJobs ==
    ASSUME UNCHANGED <<clk, slp>>, UNCHANGED procVars
    PROVE  \A p \in Procs :
                /\ DueTick(p)' <=> DueTick(p)
                /\ Ticked(p)' <=> Ticked(p)
                /\ Fresh(p)' <=> Fresh(p)
                /\ Halted(p)' <=> Halted(p)
                /\ Asleep(p)' <=> Asleep(p)
                /\ Woken(p)' <=> Woken(p)
                /\ InSecond(p)' <=> InSecond(p)
  BY DEF procVars, DueTick, Ticked, Fresh, Halted, Asleep, Woken, InSecond, Announcing, Ending

(* A step of the scheduler that moves nothing but its own place and its       *)
(* tokens.                                                                    *)
LEMMA OrderQuiet ==
    ASSUME TypeOK, OrderInv, Quiet, BeforePick' => BeforePick,
           running # Null => spc' = spc \/ spc \notin {"sleep", "pick", "resume"}
    PROVE  OthersInv' /\ \A p \in Procs : Remains(p)'
<1> USE OrderTypes DEF Quiet, procVars
<1>1. \A p \in Procs : Holds(readyQueue, p)' <=> Holds(readyQueue, p)
  BY DEF Holds
<1>2. \A p \in Procs : Remains(p)'
  BY <1>1 DEF OrderInv, RemainsInv, Remains
<1>3. \A p \in Procs : Place(p)'
  BY <1>1, SameJobs DEF OrderInv, OthersInv, Place
<1> QED  BY <1>2, <1>3 DEF OthersInv

(* The steps of which that is true.                                           *)
LEMMA OrderQuietSteps ==
    ASSUME InTurnSystem, TypeOK, AccountInv, OrderInv, EndsInTurn, UNCHANGED genVars,
           \/ SchedBoot \/ SchedNewTick \/ SchedExit \/ DownGen \/ CheckRunning
           \/ DownProc \/ ReadDone \/ Schedule \/ ReadProcess
    PROVE  HolderInv' /\ SignalInv' /\ OthersInv' /\ RemainsInv'
<1> USE OrderTypes
<1>1. Quiet
  BY DEF Quiet, SchedBoot, SchedNewTick, SchedExit, DownGen, CheckRunning, DownProc, ReadDone,
         Schedule, ReadProcess, HandlerUnchanged, ipcVars, procVars, genVars
<1> USE OrderQuiet, <1>1
<1>2. /\ UNCHANGED <<clk, running, readyQueue, pcb, ppc, curTime, blocked, slp, hpc>>
      /\ \A p \in Procs : p \in exited' <=> p \in exited
      /\ "SIGPF" \in sigs' <=> "SIGPF" \in sigs
      /\ \A p \in Procs :
                /\ DueTick(p)' <=> DueTick(p)
                /\ Ticked(p)' <=> Ticked(p)
                /\ Fresh(p)' <=> Fresh(p)
                /\ Halted(p)' <=> Halted(p)
                /\ Asleep(p)' <=> Asleep(p)
                /\ Woken(p)' <=> Woken(p)
                /\ InSecond(p)' <=> InSecond(p)
  BY SameJobs DEF Quiet, procVars
<1> HIDE DEF Quiet
<1>3. CASE SchedBoot
  <2>1. /\ spc = "boot" /\ spc' = "spin" /\ scur' = scur /\ semSchedProc' = 0 /\ exited' = exited
        /\ running = Null /\ scur # clk
    BY <1>3 DEF SchedBoot, Main, OrderInv, HolderInv, PassInv
  <2> QED  BY <1>2, <2>1 DEF HolderInv, SignalInv, Announced, RemainsInv, QueueInv, BeforePick, BeforeTick, OrderInv,
             Removed
<1>4. CASE SchedNewTick
  <2>1. /\ spc = "spin" /\ spc' \in {"chkProc", "downGen"} /\ scur # clk /\ exited' = exited
        /\ UNCHANGED semSchedProc
    BY <1>4 DEF SchedNewTick, Main, ipcVars
  <2> QED  BY <1>2, <2>1 DEF HolderInv, SignalInv, Announced, RemainsInv, QueueInv, BeforePick, BeforeTick, OrderInv
<1>5. CASE SchedExit
  <2>1. /\ spc = "spin" /\ spc' = "exit" /\ semSchedProc' = Removed /\ nproc = 0 /\ sigs = {}
        /\ hpc = "main"
    BY <1>5 DEF SchedExit, Main
  <2>2. Freed = Procs
    BY <2>1, AllFreed DEF InTurnSystem
  <2>3. running = Null
    BY <2>2 DEF AccountInv, RunningInv, IsFreed, Freed
  <2> QED  BY <1>2, <2>1, <2>3 DEF HolderInv, SignalInv, Announced, RemainsInv, QueueInv, BeforePick, BeforeTick, OrderInv
<1>6. CASE DownGen
  <2>1. /\ spc \in {"downGen", "slpGen"} /\ spc' \in {"slpGen", "chkProc"}
        /\ UNCHANGED <<semSchedProc, exited>>
    BY <1>6 DEF DownGen
  <2> QED  BY <1>2, <2>1 DEF HolderInv, SignalInv, Announced, RemainsInv, QueueInv, BeforePick, BeforeTick, OrderInv
<1>7. CASE CheckRunning
  <2>1. /\ spc = "chkProc" /\ spc' = (IF running = Null THEN "read" ELSE "downProc")
        /\ UNCHANGED <<semSchedProc, exited>>
    BY <1>7 DEF CheckRunning, Main, ipcVars
  <2> QED  BY <1>2, <2>1 DEF HolderInv, SignalInv, Announced, RemainsInv, QueueInv, BeforePick, BeforeTick, OrderInv
<1>8. CASE DownProc
  <2>1. hpc = "main" /\ UNCHANGED exited /\ running # Null /\ spc \in {"downProc", "slpProc"}
    BY <1>8 DEF DownProc, OrderInv, HolderInv
  <2>2. CASE semSchedProc > 0 /\ semSchedProc' = semSchedProc - 1 /\ spc' = "read"
    <3>1. semSchedProc = 1 /\ Announced
      BY <2>1, <2>2 DEF OrderInv, SignalInv
    <3>2. Ticked(running) \/ (ppc[running] = "end" /\ running \in exited /\ spc = "slpProc")
      BY <3>1 DEF OrderInv, HolderInv, Announced, InSecond, Announcing, Ending, DueTick, Ticked
    <3>3. semSchedProc' = 0 /\ ("SIGPF" \in sigs <=> ppc[running] = "end")
      BY <2>1, <2>2, <3>1, <3>2 DEF OrderInv, SignalInv, Ticked
    <3> QED
      BY <1>2, <2>1, <2>2, <3>2, <3>3
      DEF HolderInv, SignalInv, Announced, RemainsInv, QueueInv, BeforePick, BeforeTick, OrderInv
  <2>3. CASE spc = "downProc" /\ ~(semSchedProc > 0) /\ UNCHANGED semSchedProc /\ spc' = "slpProc"
    <3>1. InSecond(running) /\ ~Ticked(running) /\ ppc[running] \notin {"last", "end"} /\ semSchedProc = 0
      BY <2>1, <2>3 DEF OrderInv, HolderInv, SignalInv, Announced, BeforeTick, InSecond, DueTick,
                        Announcing, Ending, Ticked
    <3> QED
      BY <1>2, <2>1, <2>3, <3>1
      DEF HolderInv, SignalInv, Announced, RemainsInv, QueueInv, BeforePick, BeforeTick, OrderInv
  <2> QED  BY <1>8, <2>2, <2>3 DEF DownProc, CanDown, Down, EndsInTurn
<1>9. CASE ReadDone
  <2>1. /\ spc = "read" /\ spc' = (IF readyQueue # <<>> THEN "sched" ELSE "spin") /\ hpc = "main"
        /\ sigs = {} /\ UNCHANGED <<semSchedProc, exited, scur>>
    BY <1>9 DEF ReadDone, Main, HandlerUnchanged, ipcVars
  <2>2. scur = clk /\ (running # Null => Ticked(running))
    BY <2>1 DEF OrderInv, PassInv, HolderInv, SignalInv, Announced, BeforeTick
  <2> QED  BY <1>2, <2>1, <2>2 DEF HolderInv, SignalInv, Announced, RemainsInv, QueueInv, BeforePick, BeforeTick, OrderInv
<1>10. CASE Schedule
  <2>1. /\ spc = "sched" /\ spc' = (IF running = Null THEN "pick" ELSE "charge")
        /\ UNCHANGED <<semSchedProc, exited>>
    BY <1>10 DEF Schedule, AlgorithmPath, Main, ipcVars
  <2> QED  BY <1>2, <2>1 DEF HolderInv, SignalInv, Announced, RemainsInv, QueueInv, BeforePick, BeforeTick, OrderInv
<1>11. CASE ReadProcess
  <2>1. UNCHANGED <<spc, scur, semSchedProc, exited>>
    BY <1>11 DEF ReadProcess
  <2>2. HolderInv'
    BY <1>2, <2>1 DEF HolderInv, OrderInv, BeforeTick
  <2>3. SignalInv'
    BY <1>2, <2>1 DEF SignalInv, Announced, BeforeTick, OrderInv, HolderInv
  <2>4. OthersInv' /\ RemainsInv'
    BY <1>2, <2>1 DEF RemainsInv, QueueInv, BeforePick, BeforeTick, OrderInv, First
  <2> QED  BY <2>2, <2>3, <2>4
<1> QED  BY <1>3, <1>4, <1>5, <1>6, <1>7, <1>8, <1>9, <1>10, <1>11

------------------------------------------------------------------------------
(* The other steps.                                                           *)

(* A message becomes a PCB nobody knew. *)
LEMMA OrderRead ==
    ASSUME InTurnSystem, TypeOK, AccountInv, OrderInv, UNCHANGED genVars, ReadMSGQ, ~Fault
    PROVE  HolderInv' /\ SignalInv' /\ OthersInv' /\ RemainsInv'
<1> USE OrderTypes
<1>1. /\ spc = "read" /\ spc' = "create" /\ hpc = "main" /\ hpc' = hpc /\ sigs = {} /\ msgq # <<>>
      /\ pcb' = [pcb EXCEPT ![Head(msgq)].state = "new"]
      /\ UNCHANGED <<clk, shm, slp, exited, semSchedProc, sigs, running, readyQueue, processes>>
      /\ UNCHANGED procVars
  BY DEF ReadMSGQ, Main, HandlerUnchanged, genVars
<1>2. PICK h \in Procs : h = Head(msgq) /\ Holds(msgq, h)
  BY <1>1, TailHolds DEF AccountInv, PlaceInv
<1>3. ~Holds(readyQueue, h) /\ h # running /\ pcb[h].state # "freed"
  BY <1>2 DEF AccountInv, PlaceInv, IsFreed
<1>4. pcb[h].state \in {"none", "new"} /\ ppc[h] = "none"
  BY <1>2, <1>3 DEF OrderInv, OthersInv, Place, PCB
<1>5. pcb'[h].state = "new" /\ \A p \in Procs : p # h => pcb'[p] = pcb[p]
  BY <1>1, <1>2 DEF PCB
<1>6. \A p \in Procs : Holds(readyQueue, p)' <=> Holds(readyQueue, p)
  BY <1>1 DEF Holds
<1>7. running # Null => Ticked(running)
  BY <1>1 DEF OrderInv, HolderInv, SignalInv, Announced, BeforeTick
<1>8. HolderInv'
  BY <1>1, <1>7, SameJobs DEF HolderInv, BeforeTick
<1>9. SignalInv'
  BY <1>1, <1>7 DEF OrderInv, SignalInv, Announced, BeforeTick, Ticked, procVars
<1>10. OthersInv'
  <2>1. Place(h)'
    BY <1>1, <1>2, <1>3, <1>4, <1>5, <1>6 DEF OrderInv, OthersInv, Place, procVars
  <2>2. \A p \in Procs : p # h => Place(p)'
    <3> SUFFICES ASSUME NEW p \in Procs, p # h
                 PROVE  Place(p)'
      OBVIOUS
    <3>1. Place(p) /\ (p = running => pcb[p].state # "BLOCKED")
      BY <1>1 DEF OrderInv, OthersInv, Place
    <3>2. BeforePick' => BeforePick
      BY <1>1 DEF BeforePick
    <3>3. ppc'[p] = ppc[p] /\ blocked'[p] = blocked[p] /\ pcb'[p].state = pcb[p].state
      BY <1>1, <1>5 DEF procVars
    <3>4. (Halted(p)' <=> Halted(p)) /\ (Asleep(p)' <=> Asleep(p))
      BY <1>1, SameJobs
    <3> QED  BY <1>1, <1>6, <3>1, <3>2, <3>3, <3>4, PlaceStays
  <2> QED  BY <2>1, <2>2 DEF OthersInv
<1>11. RemainsInv'
  <2>1. Remains(h)'
    BY <1>1, <1>2, <1>3, <1>4, <1>5, <1>6 DEF OrderInv, RemainsInv, Remains, procVars
  <2>2. \A p \in Procs : p # h => Remains(p)'
    <3> SUFFICES ASSUME NEW p \in Procs, p # h
                 PROVE  Remains(p)'
      OBVIOUS
    <3>1. Remains(p) /\ ppc'[p] = ppc[p] /\ remainingtime'[p] = remainingtime[p] /\ pcb'[p] = pcb[p]
      BY <1>1, <1>5 DEF OrderInv, RemainsInv, procVars
    <3> QED  BY <1>1, <1>6, <3>1, RemainsStays
  <2> QED  BY <1>1, <2>1, <2>2 DEF RemainsInv, QueueInv
<1> QED  BY <1>8, <1>9, <1>10, <1>11

(* The new PCB is freed or queued; its process was not forked. *)
LEMMA OrderCreate ==
    ASSUME InTurnSystem, TypeOK, AccountInv, OrderInv, UNCHANGED genVars, CreateEntry
    PROVE  HolderInv' /\ SignalInv' /\ OthersInv' /\ RemainsInv'
<1> USE OrderTypes
<1>1. /\ spc = "create" /\ spc' = "read" /\ hpc = "main" /\ hpc' = hpc /\ sigs = {}
      /\ UNCHANGED <<clk, shm, slp, exited, semSchedProc, sigs, running, processes>>
      /\ UNCHANGED procVars
  BY DEF CreateEntry, Main, HandlerUnchanged, ipcVars, genVars
<1>2. PICK e \in Procs : pcb[e].state = "new" /\ (EntryRefused(e) \/ EntryCreated(e))
  BY DEF CreateEntry
<1>3. ~Holds(readyQueue, e) /\ e # running /\ ppc[e] = "none" /\ ~blocked[e] /\ e \notin slp
      /\ IsInjective(readyQueue)
  BY <1>2 DEF AccountInv, PlaceInv, IsNew, OrderInv, OthersInv, Place
<1>4. /\ \A p \in Procs : p # e => pcb'[p] = pcb[p] /\ (Holds(readyQueue, p)' <=> Holds(readyQueue, p))
      /\ \/ pcb'[e].state = "freed" /\ ~Holds(readyQueue, e)'
         \/ /\ pcb'[e].state = "READY" /\ Holds(readyQueue, e)'
            /\ pcb'[e].remainingTime = processes[e].runTime
            /\ SchedulerType = 0 => pcb'[e].priority = processes[e].runTime
  <2>1. CASE EntryRefused(e)
    BY <1>3, <2>1 DEF EntryRefused, PCB, Holds
  <2>2. CASE EntryCreated(e)
    <3>1. readyQueue' = Append(readyQueue, e)
      BY <1>3, <2>2, RoomForAll DEF EntryCreated, InTurnSystem
    <3>2. \A p : Holds(Append(readyQueue, e), p) <=> Holds(readyQueue, p) \/ p = e
      BY <1>3, AppendHolds
    <3>3. \A p : Holds(readyQueue, p)' <=> Holds(readyQueue, p) \/ p = e
      BY <3>1, <3>2 DEF Holds
    <3> QED  BY <2>2, <3>3 DEF EntryCreated
  <2> QED  BY <1>2, <2>1, <2>2
<1>5. running # Null => Ticked(running)
  BY <1>1 DEF OrderInv, HolderInv
<1>6. HolderInv'
  BY <1>1, <1>5, SameJobs DEF HolderInv, BeforeTick
<1>7. SignalInv'
  BY <1>1, <1>5 DEF OrderInv, SignalInv, Announced, BeforeTick, Ticked, procVars
<1>8. OthersInv'
  <2>1. Place(e)'
    BY <1>1, <1>3, <1>4 DEF OrderInv, OthersInv, Place, procVars
  <2>2. \A p \in Procs : p # e => Place(p)'
    BY <1>1, <1>4, SameJobs DEF OrderInv, OthersInv, Place, BeforePick, procVars
  <2> QED  BY <2>1, <2>2 DEF OthersInv
<1>9. RemainsInv'
  <2>1. Remains(e)'
    BY <1>1, <1>3, <1>4 DEF OrderInv, RemainsInv, Remains, procVars
  <2>2. \A p \in Procs : p # e => Remains(p)'
    BY <1>1, <1>4 DEF OrderInv, RemainsInv, Remains, procVars
  <2> QED  BY <1>1, <2>1, <2>2 DEF RemainsInv, QueueInv
<1> QED  BY <1>6, <1>7, <1>8, <1>9

(* The three algorithms on the process in running; who is preempted is not    *)
(* the first of the queue.                                                    *)
LEMMA OrderCharge ==
    ASSUME InTurnSystem, TypeOK, AccountInv, OrderInv, UNCHANGED genVars, Charge, ~Fault
    PROVE  HolderInv' /\ SignalInv' /\ OthersInv' /\ RemainsInv'
<1> USE OrderTypes
<1>1. /\ spc = "charge" /\ hpc = "main" /\ hpc' = hpc /\ sigs = {} /\ running \in Procs
      /\ UNCHANGED <<clk, shm, slp, exited, semSchedProc, sigs, running, processes, scur>>
      /\ UNCHANGED procVars
      /\ HPFSheduler \/ SRTNSheduler \/ RRSheduler
  BY DEF Charge, Main, HandlerUnchanged, ipcVars, genVars
<1>2. Ticked(running) /\ scur = clk /\ readyQueue # <<>> /\ ~Holds(readyQueue, running)
      /\ IsInjective(readyQueue)
  BY <1>1 DEF OrderInv, HolderInv, PassInv, RemainsInv, QueueInv, AccountInv, RunningInv, PlaceInv
<1>3. pcb[running].state = "READY"
  <2>1. pcb[running].state \notin {"new", "freed"}
    BY <1>1 DEF AccountInv, RunningInv, PlaceInv, IsNew, IsFreed
  <2> QED  BY <1>1, <1>2, <2>1 DEF OrderInv, OthersInv, Place, PCB, Ticked
<1>4. \A p \in Procs : p # running => pcb'[p] = pcb[p]
  BY <1>1 DEF HPFSheduler, SRTNSheduler, RRSheduler
<1>5. \/ /\ spc' = "spin" /\ UNCHANGED readyQueue
         /\ pcb'[running].state = "READY"
      \/ /\ spc' = "sleep" /\ readyQueue' = Inserted(readyQueue, running)
         /\ SchedulerType = 1 /\ pcb'[running].state = "READY"
      \/ /\ spc' = "sleep" /\ readyQueue' = Inserted(readyQueue, running)
         /\ SchedulerType = 0 /\ SchedulerType # 1 /\ pcb'[running].state = "BLOCKED"
         /\ pcb'[running].priority = shm /\ pcb'[running].remainingTime = shm
         /\ \E j \in DOMAIN readyQueue : shm > pcb[readyQueue[j]].remainingTime
  <2>1. CASE HPFSheduler \/ RRSheduler
    BY <1>1, <1>3, <2>1 DEF HPFSheduler, RRSheduler, PCB
  <2>2. CASE SRTNSheduler
    <3> DEFINE left == [pcb[running] EXCEPT !.remainingTime = shm, !.priority = shm]
    <3>1. left.state = "READY" /\ Stopped(left).state = "BLOCKED" /\ Stopped(left).priority = shm
          /\ Stopped(left).remainingTime = shm
      BY <1>1, <1>3 DEF PCB, Stopped
    <3>2. /\ SchedulerType = 0
          /\ \E i \in First(readyQueue) :
                  \/ /\ shm > pcb[readyQueue[i]].remainingTime
                     /\ pcb' = [pcb EXCEPT ![running] = Stopped(left)]
                     /\ readyQueue' = Inserted(readyQueue, running)
                     /\ spc' = "sleep"
                  \/ /\ pcb' = [pcb EXCEPT ![running] = left]
                     /\ spc' = "spin"
                     /\ UNCHANGED readyQueue
      BY <2>2 DEF SRTNSheduler
    <3>3. \A i \in First(readyQueue) : i \in DOMAIN readyQueue
      BY DEF First
    <3> HIDE DEF left
    <3>4. \/ /\ pcb' = [pcb EXCEPT ![running] = Stopped(left)]
             /\ readyQueue' = Inserted(readyQueue, running) /\ spc' = "sleep"
             /\ \E j \in DOMAIN readyQueue : shm > pcb[readyQueue[j]].remainingTime
          \/ pcb' = [pcb EXCEPT ![running] = left] /\ spc' = "spin" /\ UNCHANGED readyQueue
      BY <3>2, <3>3
    <3>5. SchedulerType = 0 /\ SchedulerType # 1
      BY <3>2
    <3> QED  BY <1>1, <3>1, <3>4, <3>5
  <2> QED  BY <1>1, <2>1, <2>2
<1>6. HolderInv'
  BY <1>1, <1>2, <1>5, SameJobs DEF HolderInv, BeforeTick
<1>7. SignalInv'
  BY <1>1, <1>2, <1>5 DEF OrderInv, SignalInv, Announced, BeforeTick, Ticked, procVars
<1>8. CASE spc' = "spin" /\ UNCHANGED readyQueue
  <2>1. pcb'[running].state = "READY"
    BY <1>5, <1>8
  <2>2. \A p \in Procs : Holds(readyQueue, p)' <=> Holds(readyQueue, p)
    BY <1>8 DEF Holds
  <2>3. ppc[running] = "loop"
    BY <1>2 DEF Ticked
  <2>4. Place(running)' /\ Remains(running)'
    BY <1>1, <1>2, <1>3, <2>1, <2>2, <2>3 DEF OrderInv, OthersInv, Place, RemainsInv, Remains, procVars
  <2>5. \A p \in Procs : p # running => Place(p)' /\ Remains(p)'
    BY <1>1, <1>2, <1>4, <1>8, <2>2, SameJobs
       DEF OrderInv, OthersInv, Place, RemainsInv, Remains, procVars, BeforePick, BeforeTick
  <2> QED  BY <1>1, <1>6, <1>7, <1>8, <2>4, <2>5 DEF OthersInv, RemainsInv, QueueInv
<1>9. CASE spc' = "sleep" /\ readyQueue' = Inserted(readyQueue, running)
  <2>1. readyQueue' = Append(readyQueue, running)
    BY <1>1, <1>2, <1>9, RoomForAll DEF InTurnSystem
  <2>2. \A p : Holds(Append(readyQueue, running), p) <=> Holds(readyQueue, p) \/ p = running
    BY <1>1, <1>2, AppendHolds
  <2>3. \A p : Holds(readyQueue, p)' <=> Holds(readyQueue, p) \/ p = running
    BY <1>1, <2>1, <2>2 DEF Holds
  <2>4. ppc[running] = "loop" /\ pcb'[running].state \in {"READY", "BLOCKED"}
    BY <1>2, <1>5, <1>9 DEF Ticked
  <2>10. \/ SchedulerType = 1
         \/ /\ SchedulerType = 0
            /\ pcb'[running].priority = shm /\ pcb'[running].remainingTime = shm
            /\ \E j \in DOMAIN readyQueue : shm > pcb[readyQueue[j]].remainingTime
    BY <1>5, <1>9
  <2>5. SchedulerType = 0 => pcb'[running].priority = pcb'[running].remainingTime
    BY <2>10
  <2>6. Place(running)' /\ Remains(running)'
    BY <1>1, <1>2, <1>9, <2>3, <2>4, <2>5 DEF OrderInv, OthersInv, Place, RemainsInv, Remains, procVars
  <2>7. \A p \in Procs : p # running => Place(p)' /\ Remains(p)'
    BY <1>1, <1>2, <1>4, <1>9, <2>3, SameJobs
       DEF OrderInv, OthersInv, Place, RemainsInv, Remains, procVars, BeforePick, BeforeTick
  <2>8. /\ DOMAIN readyQueue' = 1 .. Len(readyQueue) + 1
        /\ \A j \in DOMAIN readyQueue : /\ j \in DOMAIN readyQueue' /\ readyQueue'[j] = readyQueue[j]
                                       /\ readyQueue[j] \in Procs /\ readyQueue[j] # running
        /\ 1 \in DOMAIN readyQueue
    <3>1. readyQueue \in Seq(Procs) /\ readyQueue # <<>> /\ readyQueue' = Append(readyQueue, running)
      BY <1>2, <2>1
    <3>2. \A j \in DOMAIN readyQueue : readyQueue[j] # running
      BY <1>2 DEF Holds
    <3>3. /\ Len(readyQueue) \in Nat /\ Len(readyQueue) > 0 /\ DOMAIN readyQueue = 1 .. Len(readyQueue)
          /\ \A j \in DOMAIN readyQueue : readyQueue[j] \in Procs
      BY <3>1
    <3>4. /\ DOMAIN readyQueue' = 1 .. Len(readyQueue) + 1
          /\ \A j \in 1 .. Len(readyQueue) : readyQueue'[j] = readyQueue[j]
      BY <1>1, <3>1
    <3> QED  BY <3>2, <3>3, <3>4
  <2>9. \A i \in First(readyQueue)' : readyQueue'[i] # running
    <3>1. CASE SchedulerType = 1
      BY <2>8, <3>1 DEF First
    <3>2. CASE SchedulerType = 0
      <4>7. /\ pcb'[running].priority = shm
            /\ \E j \in DOMAIN readyQueue : shm > pcb[readyQueue[j]].remainingTime
        BY <2>10, <3>2
      <4>1. PICK j \in DOMAIN readyQueue : shm > pcb[readyQueue[j]].remainingTime
        BY <4>7
      <4>2. pcb'[readyQueue'[j]].priority = pcb[readyQueue[j]].remainingTime
        <5> DEFINE q == readyQueue[j]
        <5>1. q \in Procs /\ q # running /\ readyQueue'[j] = q /\ Holds(readyQueue, q)
          BY <2>8, <4>1 DEF Holds
        <5>2. pcb[q].priority = pcb[q].remainingTime
          BY <3>2, <5>1 DEF OrderInv, RemainsInv, Remains
        <5> HIDE DEF q
        <5> QED  BY <1>4, <5>1, <5>2 DEF q
      <4>3. pcb'[running].priority = shm
        BY <4>7
      <4>4. pcb[readyQueue[j]].remainingTime \in Int
        BY <2>8 DEF PCB
      <4> SUFFICES ASSUME NEW i \in First(readyQueue)', readyQueue'[i] = running
                   PROVE  FALSE
        OBVIOUS
      <4>5. pcb'[readyQueue'[i]].priority <= pcb'[readyQueue'[j]].priority
        BY <2>8, <3>2 DEF First
      <4>6. shm <= pcb[readyQueue[j]].remainingTime
        BY <4>2, <4>3, <4>5
      <4>8. PICK x, y \in Int : x = shm /\ y = pcb[readyQueue[j]].remainingTime
        BY <4>4
      <4>9. x > y /\ x <= y
        BY <4>1, <4>6, <4>8
      <4> QED  BY <4>9
    <3> QED  BY <1>5, <1>9, <3>1, <3>2
  <2> QED  BY <1>1, <1>6, <1>7, <1>9, <2>6, <2>7, <2>9 DEF OthersInv, RemainsInv, QueueInv
<1> QED  BY <1>5, <1>8, <1>9

(* The preempted process gets its SIGSLP. *)
LEMMA OrderStop ==
    ASSUME InTurnSystem, TypeOK, AccountInv, OrderInv, UNCHANGED genVars, StopRunning, ~Fault
    PROVE  HolderInv' /\ SignalInv' /\ OthersInv' /\ RemainsInv'
<1> USE OrderTypes
<1>1. /\ spc = "sleep" /\ spc' = "pick" /\ hpc = "main" /\ hpc' = hpc /\ sigs = {} /\ running \in Procs
      /\ UNCHANGED <<clk, shm, exited, semSchedProc, sigs, running, processes, readyQueue>>
      /\ UNCHANGED procVars
      /\ slp' = IF running \in exited THEN slp ELSE slp \cup {running}
      /\ pcb' = IF SchedulerType = 1 THEN [pcb EXCEPT ![running] = Stopped(pcb[running])] ELSE pcb
  BY DEF StopRunning, ToggleRunning, Sleep, Main, HandlerUnchanged, genVars
<1>2. Ticked(running) /\ (SchedulerType = 1 \/ pcb[running].state = "BLOCKED")
  BY <1>1 DEF OrderInv, HolderInv
<1>3. running \notin exited
  BY <1>1, <1>2 DEF OrderInv, OthersInv, Place, Ticked
<1>4. /\ \A p \in Procs : p # running =>
            pcb'[p] = pcb[p] /\ (Halted(p)' <=> Halted(p)) /\ (Asleep(p)' <=> Asleep(p))
                            /\ (p \in slp' <=> p \in slp)
      /\ pcb'[running].state = "BLOCKED"
      /\ SchedulerType = 0 => pcb'[running] = pcb[running]
  <2>1. \A p \in Procs : p # running => p \in slp' <=> p \in slp
    BY <1>1
  <2>2. \A p \in Procs : p # running => (Halted(p)' <=> Halted(p)) /\ (Asleep(p)' <=> Asleep(p))
    BY <1>1, <2>1 DEF Halted, Asleep, procVars
  <2>3. Stopped(pcb[running]).state = "BLOCKED"
    BY <1>1 DEF Stopped, PCB
  <2>4. \A p \in Procs : p # running => pcb'[p] = pcb[p]
    BY <1>1
  <2>5. pcb'[running].state = "BLOCKED" /\ (SchedulerType = 0 => pcb'[running] = pcb[running])
    BY <1>1, <1>2, <2>3
  <2> QED  BY <2>1, <2>2, <2>4, <2>5
<1>5. Halted(running)'
  BY <1>1, <1>2, <1>3 DEF Ticked, Halted, procVars
<1>6. \A p \in Procs : Holds(readyQueue, p)' <=> Holds(readyQueue, p)
  BY <1>1 DEF Holds
<1>7. Holds(readyQueue, running) /\ ppc[running] = "loop"
  BY <1>1, <1>2 DEF AccountInv, RunningInv, Ticked
<1>8. HolderInv'
  BY <1>1, <1>4, <1>5 DEF HolderInv, BeforeTick
<1>9. SignalInv'
  BY <1>1 DEF OrderInv, SignalInv, Announced, BeforeTick
<1>10. Place(running)' /\ Remains(running)'
  BY <1>1, <1>3, <1>4, <1>6, <1>7 DEF OrderInv, OthersInv, Place, RemainsInv, Remains, procVars
<1>11. \A p \in Procs : p # running => Place(p)' /\ Remains(p)'
  BY <1>1, <1>4, <1>6 DEF OrderInv, OthersInv, Place, RemainsInv, Remains, procVars, BeforePick
<1>12. QueueInv'
  BY <1>1 DEF OrderInv, RemainsInv, QueueInv, First
<1> QED  BY <1>1, <1>8, <1>9, <1>10, <1>11, <1>12 DEF OthersInv, RemainsInv

(* The next process: not forked, or asleep. *)
LEMMA OrderPick ==
    ASSUME InTurnSystem, TypeOK, AccountInv, OrderInv, UNCHANGED genVars, Pick, ~Fault
    PROVE  HolderInv' /\ SignalInv' /\ OthersInv' /\ RemainsInv'
<1> USE OrderTypes
<1>1. PICK i \in First(readyQueue) :
         /\ running' = readyQueue[i] /\ readyQueue' = RemoveAt(readyQueue, i)
         /\ spc' = IF pcb[readyQueue[i]].state = "READY" THEN "start" ELSE "resume"
  BY DEF Pick
<1>2. /\ spc = "pick" /\ hpc = "main" /\ hpc' = hpc /\ sigs = {}
      /\ UNCHANGED <<clk, shm, slp, exited, semSchedProc, sigs, pcb, processes>>
      /\ UNCHANGED procVars
  BY DEF Pick, Main, HandlerUnchanged, ipcVars, genVars
<1>3. PICK r \in Procs : r = readyQueue[i] /\ Holds(readyQueue, r) /\ r # running
  <2>1. i \in DOMAIN readyQueue /\ readyQueue[i] \in Procs
    BY <1>1 DEF First
  <2>2. readyQueue[i] # running
    BY <1>1, <1>2, <2>1 DEF OrderInv, RemainsInv, QueueInv
  <2> QED  BY <2>1, <2>2 DEF Holds
<1>4. \A p : Holds(readyQueue, p)' <=> Holds(readyQueue, p) /\ p # r
  <2>1. i \in 1 .. Len(readyQueue) /\ IsInjective(readyQueue)
    BY <1>1, FirstIndex DEF AccountInv, PlaceInv
  <2>2. \A p : Holds(RemoveAt(readyQueue, i), p) <=> Holds(readyQueue, p) /\ p # readyQueue[i]
    BY <2>1, RemoveHolds
  <2> QED  BY <1>1, <1>3, <2>2 DEF Holds
<1>5. pcb[r].state \in {"READY", "BLOCKED"} /\ running' = r
      /\ spc' = (IF pcb[r].state = "READY" THEN "start" ELSE "resume")
  BY <1>1, <1>3 DEF OrderInv, OthersInv, Place
<1>6. /\ pcb[r].state = "READY" => ppc[r] = "none"
      /\ pcb[r].state = "BLOCKED" => Asleep(r)
  BY <1>2, <1>3 DEF OrderInv, OthersInv, Place, BeforePick
<1>7. running # Null => /\ Halted(running) /\ pcb[running].state = "BLOCKED"
                        /\ Holds(readyQueue, running) /\ running \in Procs
  BY <1>2 DEF OrderInv, HolderInv, AccountInv, RunningInv
<1>8. HolderInv'
  BY <1>2, <1>5, <1>6, SameJobs DEF HolderInv, BeforeTick, procVars
<1>9. SignalInv'
  BY <1>2, <1>5 DEF OrderInv, SignalInv, Announced, BeforeTick
<1>10. OthersInv'
  <2>1. Place(r)'
    BY <1>2, <1>3, <1>4, <1>5 DEF OrderInv, OthersInv, Place, procVars
  <2>2. ~BeforePick'
    BY <1>5 DEF BeforePick, BeforeTick
  <2>3. \A p \in Procs : p # r => Place(p)'
    BY <1>2, <1>4, <1>5, <1>7, <2>2, SameJobs DEF OrderInv, OthersInv, Place, procVars
  <2> QED  BY <2>1, <2>3 DEF OthersInv
<1>11. RemainsInv'
  BY <1>2, <1>4, <1>5 DEF OrderInv, RemainsInv, Remains, QueueInv, procVars
<1> QED  BY <1>8, <1>9, <1>10, <1>11

(* The fork; nobody else is about to read the shared word. *)
LEMMA OrderStart ==
    ASSUME InTurnSystem, TypeOK, AccountInv, OrderInv, UNCHANGED genVars, StartRunning, ~Fault
    PROVE  HolderInv' /\ SignalInv' /\ OthersInv' /\ RemainsInv'
<1> USE OrderTypes
<1>1. /\ spc = "start" /\ spc' = "pid" /\ hpc = "main" /\ hpc' = hpc /\ sigs = {} /\ running \in Procs
      /\ shm' = pcb[running].remainingTime
      /\ pcb' = [pcb EXCEPT ![running].waitingTime = clk - processes[running].arrivalTime]
      /\ ppc' = [ppc EXCEPT ![running] = "exec"]
      /\ UNCHANGED <<clk, slp, exited, semSchedProc, sigs, running, processes, readyQueue>>
      /\ UNCHANGED <<remainingtime, curTime, blocked>>
  BY DEF StartRunning, Main, HandlerUnchanged, genVars
<1>2. ppc[running] = "none" /\ pcb[running].state = "READY" /\ ~blocked[running] /\ running \notin slp
      /\ running \notin exited /\ pcb[running].remainingTime = processes[running].runTime
  BY <1>1 DEF OrderInv, HolderInv, OthersInv, Place, RemainsInv, Remains
<1>3. /\ \A p \in Procs : p # running => pcb'[p] = pcb[p] /\ ppc'[p] = ppc[p]
            /\ (Halted(p)' <=> Halted(p)) /\ (Asleep(p)' <=> Asleep(p))
      /\ pcb'[running].state = "READY" /\ ppc'[running] = "exec"
      /\ pcb'[running].priority = pcb[running].priority
      /\ pcb'[running].remainingTime = pcb[running].remainingTime
  BY <1>1, <1>2 DEF PCB, Halted, Asleep
<1>4. Fresh(running)'
  BY <1>1, <1>2, <1>3 DEF Fresh
<1>5. \A p \in Procs : Holds(readyQueue, p)' <=> Holds(readyQueue, p)
  BY <1>1 DEF Holds
<1>6. \A p \in Procs : p # running => ppc[p] \notin {"exec", "bound"}
  BY DEF OrderInv, OthersInv, Place, PCB, Halted, Asleep
<1>7. HolderInv'
  BY <1>1, <1>4 DEF HolderInv, BeforeTick
<1>8. SignalInv'
  BY <1>1 DEF OrderInv, SignalInv, Announced, BeforeTick
<1>9. Place(running)' /\ Remains(running)'
  BY <1>1, <1>2, <1>3, <1>5 DEF OrderInv, OthersInv, Place, RemainsInv, Remains
<1>10. ~BeforePick' /\ QueueInv'
  BY <1>1 DEF BeforePick, BeforeTick, QueueInv
<1>11. \A p \in Procs : p # running => Place(p)' /\ Remains(p)'
  BY <1>1, <1>3, <1>5, <1>6, <1>10 DEF OrderInv, OthersInv, Place, RemainsInv, Remains
<1> QED  BY <1>1, <1>7, <1>8, <1>9, <1>10, <1>11 DEF OthersInv, RemainsInv

(* The pid of the child, or the SIGSLP that wakes it. *)
LEMMA OrderDispatched ==
    ASSUME InTurnSystem, TypeOK, AccountInv, OrderInv, UNCHANGED genVars,
           AssignPid \/ ResumeRunning, ~Fault
    PROVE  HolderInv' /\ SignalInv' /\ OthersInv' /\ RemainsInv'
<1> USE OrderTypes
<1>1. /\ spc \in {"pid", "resume"} /\ spc' = "spin" /\ hpc = "main" /\ hpc' = hpc /\ sigs = {}
      /\ running \in Procs
      /\ UNCHANGED <<clk, shm, exited, semSchedProc, sigs, running, processes, readyQueue, scur>>
      /\ UNCHANGED procVars
      /\ \/ spc = "pid" /\ UNCHANGED slp /\ pcb' = [pcb EXCEPT ![running].pid = TRUE]
         \/ /\ spc = "resume" /\ slp' = (IF running \in exited THEN slp ELSE slp \cup {running})
            /\ pcb' = [pcb EXCEPT ![running] = Resumed(pcb[running])]
  BY DEF AssignPid, ResumeRunning, ToggleRunning, Sleep, Main, HandlerUnchanged, ipcVars, genVars
<1>2. scur = clk /\ ~Holds(readyQueue, running) /\ pcb[running].state \notin {"freed", "new"}
  BY <1>1 DEF OrderInv, PassInv, AccountInv, RunningInv, PlaceInv, IsFreed, IsNew
<1>3. ppc[running] # "none" /\ (Fresh(running) \/ Ticked(running) \/ (Asleep(running) /\ spc = "resume"))
      /\ running \notin exited
  BY <1>1 DEF OrderInv, HolderInv, Fresh, Ticked, Asleep, OthersInv, Place
<1>4. pcb[running].state \in {"READY", "BLOCKED"} /\ (spc = "pid" => pcb[running].state = "READY")
  BY <1>1, <1>2, <1>3 DEF OrderInv, OthersInv, Place, PCB
<1>5. /\ \A p \in Procs : p # running => pcb'[p] = pcb[p] /\ (p \in slp' <=> p \in slp)
            /\ (Halted(p)' <=> Halted(p)) /\ (Asleep(p)' <=> Asleep(p))
      /\ pcb'[running].state = "READY"
  <2>1. \A p \in Procs : p # running => pcb'[p] = pcb[p] /\ (p \in slp' <=> p \in slp)
    BY <1>1
  <2>2. \A p \in Procs : p # running => (Halted(p)' <=> Halted(p)) /\ (Asleep(p)' <=> Asleep(p))
    BY <1>1, <2>1 DEF Halted, Asleep, procVars
  <2>3. Resumed(pcb[running]).state = "READY"
    BY <1>1 DEF PCB, Resumed
  <2>4. pcb'[running].state = "READY"
    BY <1>1, <1>4, <2>3 DEF PCB
  <2> QED  BY <2>1, <2>2, <2>4
<1>6. (Fresh(running) \/ Ticked(running) \/ Woken(running))'
  <2>1. CASE spc = "pid"
    BY <1>1, <2>1 DEF OrderInv, HolderInv, Fresh, Ticked, procVars
  <2>2. CASE spc = "resume"
    BY <1>1, <1>3, <2>2 DEF OrderInv, HolderInv, Asleep, Woken, procVars
  <2> QED  BY <1>1, <2>1, <2>2
<1>7. \A p \in Procs : Holds(readyQueue, p)' <=> Holds(readyQueue, p)
  BY <1>1 DEF Holds
<1>8. HolderInv'
  BY <1>1, <1>2, <1>6 DEF HolderInv, BeforeTick
<1>9. SignalInv'
  BY <1>1, <1>2 DEF OrderInv, SignalInv, Announced, BeforeTick
<1>10. Place(running)' /\ Remains(running)'
  BY <1>1, <1>2, <1>3, <1>5, <1>7 DEF OrderInv, OthersInv, Place, RemainsInv, Remains, procVars
<1>11. ~BeforePick' /\ QueueInv'
  BY <1>1, <1>2 DEF BeforePick, BeforeTick, QueueInv
<1>12. \A p \in Procs : p # running => Place(p)' /\ Remains(p)'
  BY <1>1, <1>5, <1>7, <1>11 DEF OrderInv, OthersInv, Place, RemainsInv, Remains, procVars
<1> QED  BY <1>1, <1>8, <1>9, <1>10, <1>11, <1>12 DEF OthersInv, RemainsInv

(* ProcFinished handles the end of the process in running. *)
LEMMA OrderHandler ==
    ASSUME InTurnSystem, TypeOK, AccountInv, OrderInv, UNCHANGED genVars,
           ProcFinished \/ ProcReaped, ~Fault
    PROVE  HolderInv' /\ SignalInv' /\ OthersInv' /\ RemainsInv'
<1> USE OrderTypes
<1>1. CASE ProcFinished
  <2>1. /\ hpc = "main" /\ hpc' = "reap" /\ "SIGPF" \in sigs /\ sigs' = sigs \ {"SIGPF"}
        /\ running \in Procs /\ spc # "slpProc"
        /\ pcb' = [pcb EXCEPT ![running].remainingTime = shm]
        /\ UNCHANGED <<clk, shm, slp, exited, spc, scur, semSchedProc, running, processes, readyQueue>>
        /\ UNCHANGED procVars
    BY <1>1 DEF ProcFinished, UserMode, genVars
  <2>2. spc = "read" /\ ppc[running] = "end" /\ ~Holds(readyQueue, running)
    BY <2>1 DEF OrderInv, SignalInv, Announced, BeforeTick, AccountInv, RunningInv
  <2>3. /\ \A p \in Procs : p # running => pcb'[p] = pcb[p]
        /\ pcb'[running].state = pcb[running].state
    BY <2>1 DEF PCB
  <2>4. \A p \in Procs : Holds(readyQueue, p)' <=> Holds(readyQueue, p)
    BY <2>1 DEF Holds
  <2>5. HolderInv'
    BY <2>1, <2>2, SameJobs DEF OrderInv, HolderInv, BeforeTick, procVars
  <2>6. SignalInv'
    BY <2>1, <2>2 DEF OrderInv, SignalInv, Announced, BeforeTick, procVars
  <2>7. OthersInv'
    BY <2>1, <2>3, <2>4, SameJobs DEF OrderInv, OthersInv, Place, BeforePick, BeforeTick, procVars
  <2>8. RemainsInv'
    BY <2>1, <2>2, <2>3, <2>4 DEF OrderInv, RemainsInv, Remains, QueueInv, procVars
  <2> QED  BY <2>5, <2>6, <2>7, <2>8
<1>2. CASE ProcReaped
  <2>1. /\ hpc = "reap" /\ hpc' = "main" /\ running' = Null /\ UNCHANGED sigs
        /\ pcb' = [pcb EXCEPT ![running].state = "freed"]
        /\ \A p : p \in exited' => p \in exited
        /\ UNCHANGED <<clk, shm, slp, spc, scur, semSchedProc, processes, readyQueue>>
        /\ UNCHANGED procVars
    BY <1>2 DEF ProcReaped, Waitpid, genVars
  <2>2. spc = "read" /\ running \in Procs /\ ppc[running] = "end" /\ "SIGPF" \notin sigs
        /\ ~Holds(readyQueue, running)
    BY <2>1 DEF OrderInv, SignalInv, Announced, BeforeTick, AccountInv, RunningInv
  <2>3. /\ \A p \in Procs : p # running => pcb'[p] = pcb[p]
        /\ pcb'[running].state = "freed"
    BY <2>1, <2>2 DEF PCB
  <2>4. \A p \in Procs : Holds(readyQueue, p)' <=> Holds(readyQueue, p)
    BY <2>1 DEF Holds
  <2>5. HolderInv'
    BY <2>1, <2>2 DEF HolderInv
  <2>6. SignalInv'
    BY <2>1, <2>2 DEF OrderInv, SignalInv, Announced, BeforeTick
  <2>7. PICK r \in Procs : r = running
    BY <2>2
  <2>8. Place(r)' /\ Remains(r)'
    BY <2>1, <2>2, <2>3, <2>4, <2>7 DEF OrderInv, OthersInv, Place, RemainsInv, Remains, procVars
  <2>9. \A p \in Procs : p # r => Place(p)' /\ Remains(p)'
    BY <2>1, <2>2, <2>3, <2>4, <2>7, SameJobs
       DEF OrderInv, OthersInv, Place, RemainsInv, Remains, BeforePick, BeforeTick, procVars
  <2> QED  BY <2>1, <2>2, <2>5, <2>6, <2>8, <2>9 DEF OthersInv, RemainsInv, QueueInv
<1> QED  BY <1>1, <1>2

(* Every step of the scheduler.                                               *)
LEMMA OrderScheduling ==
    ASSUME InTurnSystem, TypeOK, AccountInv, OrderInv, Scheduling, EndsInTurn
    PROVE  OrderInv'
<1>1. ~Fault /\ PassInv' /\ UNCHANGED genVars
  BY OrderNoFault, OrderPasses DEF Scheduling
<1>2. spc' # "fault" /\ ~SchedKilledEarly
  BY <1>1, OrderTypes DEF SchedKilledEarly, Scheduling, SchedNext, SchedBoot, SchedNewTick, SchedExit, DownGen,
         CheckRunning, DownProc, ReadMSGQ, CreateEntry, ReadDone, Schedule, AlgorithmPath, Charge,
         HPFSheduler, SRTNSheduler, RRSheduler, StopRunning,
         Pick, StartRunning, AssignPid, ResumeRunning, ReadProcess, ProcFinished, ProcReaped, OrderInv
<1>3. HolderInv' /\ SignalInv' /\ OthersInv' /\ RemainsInv'
  BY <1>1, <1>2, OrderQuietSteps, OrderRead, OrderCreate, OrderCharge, OrderStop, OrderPick, OrderStart,
     OrderDispatched, OrderHandler DEF Scheduling, SchedNext
<1> QED  BY <1>1, <1>2, <1>3 DEF OrderInv

(* A stuttering step.                                                         *)
LEMMA OrderStutter == ASSUME OrderInv, UNCHANGED vars PROVE OrderInv'
  BY DEF vars, ipcVars, genVars, procVars, schedVars, OrderInv, PassInv, Sent, Taken, HolderInv, BeforeTick,
         DueTick, Ticked, Fresh, Asleep, Halted, Woken, InSecond, Announcing, Ending, SignalInv, Announced, OthersInv, Place, BeforePick, Holds,
         RemainsInv, Remains, QueueInv, First

(* The schedules that TLC runs are schedules of the theorems.                  *)
THEOREM InTurnSchedules == InTurnSpec => Spec /\ [][EndsInTurn]_vars
<1>1. [Next /\ EndsInTurn]_vars => [Next]_vars /\ [EndsInTurn]_vars
  OBVIOUS
<1> QED  BY <1>1, PTL DEF InTurnSpec, Spec

(* OrderInv is inductive together with TypeOK, SendInv and AccountInv, along  *)
(* the schedules in which every job ends in turn.                             *)
THEOREM OrderInvariant == ASSUME InTurnSystem PROVE Spec /\ [][EndsInTurn]_vars => []OrderInv
<1>1. /\ TypeOK /\ SendInv /\ AccountInv /\ OrderInv /\ [Next]_vars /\ [EndsInTurn]_vars => OrderInv'
  BY OrderClock, OrderGenerator, OrderJob, OrderScheduling, OrderStutter DEF Next, Terminated
<1>2. RQSZ >= N
  BY DEF InTurnSystem
<1> QED  BY <1>1, <1>2, OrderInit, TypeCorrect, SendInvariant, AccountInvariant, PTL DEF Spec

------------------------------------------------------------------------------
(* Theorems of the schedules in which every job ends in turn.                 *)

(* In a prompt system whose jobs end in turn the scheduler dereferences       *)
(* neither a NULL nor a freed PCB: a fault takes a SIGPF that does not find   *)
(* the scheduler in its down(semSchedProc).                                   *)
THEOREM InTurnNoFault == ASSUME InTurnSystem PROVE Spec /\ [][EndsInTurn]_vars => []NoFault
<1>1. OrderInv => NoFault
  BY DEF OrderInv, NoFault
<1> QED  BY <1>1, OrderInvariant, PTL

(* In a prompt system whose jobs end in turn the handler reports, deallocates *)
(* and waits for the process that ended, preemptive algorithms included.      *)
THEOREM InTurnFinishAttributed == ASSUME InTurnSystem PROVE Spec /\ [][EndsInTurn]_vars => []FinishAttributed
<1>1. OrderInv => FinishAttributed
  BY DEF OrderInv, SignalInv, FinishAttributed
<1> QED  BY <1>1, OrderInvariant, PTL

(* In a prompt system whose jobs end in turn every job but the one in running *)
(* is stopped between two ticks: the SIGSLP toggles never get out of step.    *)
THEOREM InTurnOnlyRunningRuns == ASSUME InTurnSystem PROVE Spec /\ [][EndsInTurn]_vars => []OnlyRunningRuns
<1>1. TypeOK /\ SendInv /\ AccountInv /\ OrderInv => OnlyRunningRuns
  <2> SUFFICES ASSUME TypeOK, SendInv, AccountInv, OrderInv, Quiescent,
                      NEW p \in Procs, ppc[p] = "loop", p # running
               PROVE  FALSE
    BY DEF OnlyRunningRuns
  <2>1. Ticked(p)
    BY ClockMoves
  <2>2. Halted(p)
    BY OrderTypes DEF OrderInv, OthersInv, Place, PCB
  <2> QED  BY <2>1, <2>2 DEF Ticked, Halted, Asleep
<1> QED
  BY <1>1, OrderInvariant, TypeCorrect, SendInvariant, AccountInvariant, PTL DEF InTurnSystem

(* In a prompt system whose jobs end in turn only a process that still has    *)
(* work to do waits in the ready queue.                                       *)
THEOREM InTurnQueuedHaveWork == ASSUME InTurnSystem PROVE Spec /\ [][EndsInTurn]_vars => []QueuedHaveWork
<1>1. TypeOK /\ AccountInv /\ OrderInv => QueuedHaveWork
  <2> SUFFICES ASSUME TypeOK, AccountInv, OrderInv, NEW p \in Procs, Holds(readyQueue, p)
               PROVE  Owed(p) > 0
    BY OrderTypes DEF QueuedHaveWork, Queued, ToSet, Holds
  <2>1. CASE p = running
    BY <2>1, OrderTypes
       DEF AccountInv, RunningInv, OrderInv, HolderInv, RemainsInv, Remains, Owed, Ticked, Halted, Asleep
  <2>2. CASE p # running
    BY <2>2 DEF OrderInv, OthersInv, Place, RemainsInv, Remains, Owed, Halted, Asleep
  <2> QED  BY <2>1, <2>2
<1> QED  BY <1>1, OrderInvariant, TypeCorrect, AccountInvariant, PTL DEF InTurnSystem
==============================================================================
