# mars-OS: a TLA+ verification project

This directory specifies the two parts of the repository in TLA+, the simulator
of `src/scheduler/` and the producers and consumers of `src/synchronizer/`,
checks them with TLC on small instances and proves part of it with TLAPS for all
instances.
The code is the reference: every definition names, in `PROJECT.json` under
`map`, the lines it translates.

- [The system](#the-system)
- [Modules](#modules)
- [How the model abstracts the code](#how-the-model-abstracts-the-code)
- [Properties and runs](#properties-and-runs)
- [What the runs found](#what-the-runs-found)
- [Proofs](#proofs)
- [Not modelled, and the plan](#not-modelled-and-the-plan)

## The system

`make run` starts the process generator, which forks the clock and the
scheduler; the scheduler forks one Unix process per simulated job.

| component | state | operations | talks to |
|---|---|---|---|
| clock, `clk.c` | a shared word | increments it every second | everybody reads the word |
| process generator, `process_generator.c` | the parsed table with its `arrived` flags, `curTime` | at each tick, `msgsnd` of what is due, then `up(semSchedGen)`; once all is sent `kill(SIGMSGQ)`, a last `up`, `waitpid`, SIGINT to the group | message queue, `semSchedGen`, a signal to the scheduler |
| scheduler, `scheduler.c` | `running`, `readyQueue`, the PCBs, `nproc`, `currQuantum`, the statistics | main loop: `down(semSchedGen)`, `down(semSchedProc)`, `ReadMSGQ`, one of `SRTNSheduler`, `RRSheduler`, `HPFSheduler`; handlers `ReadProcess` and `ProcFinished` | forks, stops and wakes jobs (SIGSLP), publishes a job's remaining time in a shared word |
| job, `process.c` | `remainingtime`, `curTime`, `blocked` | one unit per tick, published in the shared word, then `up(semSchedProc)`; at zero `kill(SIGPF)`, a last `up`; SIGSLP toggles `blocked` | shared word, `semSchedProc`, a signal to the scheduler |
| IPC wrappers, `headers.h` | two semaphores | `up`, `down` (EINTR counts as success) | used by all |
| circular queue, `ready_queue.c` | `front`, `rear`, `size`, `array` | `Enqueue`, `Dequeue`, `Front`, `Rear` | the scheduler, RR |
| heap, `priority_queue.c` | the same array as a heap | `InsertValue`, `ExtractMin`, `Minimum` | the scheduler, SRTN and HPF |
| buddy memory, `buddy.c` | a binary tree | `Allocate`, `Deallocate` | `CreateEntry`, `ProcFinished` |
| `myItoa` | none | a number to a string | the scheduler's command line |
| parser, logs, report, `test_generator.c` | files | | not modelled, see the end |

The synchronizer shares no code with it. `make` builds its programs and a user
starts them from shells:

| component | state | operations | talks to |
|---|---|---|---|
| `producer.c`, any number | `value`, the identifiers it has got, which objects it did not find | finds or makes two shared indices, the shared buffer and the semaphores `full`, `empty`, `mutex`; then for ever produce, `Down(empty)`, `Down(mutex)`, store, advance, `Up(mutex)`, `Up(full)`; on SIGINT exits | the other programs, through the objects under their keys |
| `consumer.c`, any number | the identifiers, the item in hand | waits for the semaphores, finds the indices; the mirrored loop; on SIGINT removes the semaphores and the memory | the same |
| `producer_consumer.c` | a ring, a mutex, two condition variables | one producer and one consumer thread, any number by its comment | threads of one process |

What is hard here: in the simulator, four kinds of programs advance against a clock that waits
for none of them; the scheduler's two signal handlers may run between any two
instructions of `main` and change `running`, `nproc` and the heap under it;
`down()` returns without a token when a signal arrives; SIGUSR1 means three
different things to three programs and kills whoever has not bound it; one
shared word carries the remaining time of whichever job wrote it last. In the
synchronizer the programs look, make and initialise in separate calls, while
others do the same; they can be interrupted between any two calls, also with the
mutex in hand; and the first consumer interrupted removes every object under
the others, for the next program to make again. The threads signal after they
have released the mutex, one sleeper at a time. The full list, each entry at its line, is `hazards` in `PROJECT.json`.

What makes each part correct:

- scheduler and jobs together: one CPU, given by the algorithm chosen, with
  reports that add up; nobody lost, nobody started before arriving, every finish
  charged to the one who finished; the run ends;
- generator: arrivals on their tick, once, and an orderly end;
- queues: a bounded FIFO and a bounded priority queue;
- memory: disjoint, aligned, fitting blocks; refused only if none is free;
- command line: numbers arrive as they were sent;
- synchronizer: one program in the critical region of a buffer, no slot counted
  twice, a bounded buffer whoever is interrupted, and nobody left asleep on what
  has been removed;
- threads: no overflow, no lost wake-up, everything produced is consumed.

## Modules

```
IPC ── ProcessGenerator ─┐
  └─── Process ──────────┼─ Scheduler ── MarsOS ── MCMarsOS
Itoa ── MCItoa           │                 ├── AbstractCPU (refined)
  └──────────────────────┘                 └── MarsOSProofs ── InTurnProofs ── LedgerProofs
Ring ── ReadyQueue ── BoundedFIFO (refined) ─────────────┐
  │     PriorityQueue ── AbstractPriorityQueue (refined) ┼── MCStructures ── BuddyProofs ── StructuresProofs
  │     Buddy ── AbstractMemory (refined) ───────────────┘
  ├──── Synchronizer ── SynchronizerProofs
  │       └── BoundedBuffer (refined, once per incarnation of the buffer)
  └──── PthreadBuffer ── PthreadBufferProofs
          └── BoundedBuffer (refined)
Ring ── Foundations: lemmas for MarsOSProofs, BuddyProofs, SynchronizerProofs, PthreadBufferProofs
```

| module | models | actions |
|---|---|---|
| `IPC` | the kernel objects, as the code uses them: the clock word, the shared remaining time, both semaphores, the message queue, pending signals (a set: equal signals coalesce), zombies | `ClockTick`; `Up`, `CanDown`, `Down`, `Sleep` for the programs |
| `ProcessGenerator` | `main` of `process_generator.c` from the parsed table on | `GenNewTick`, `GenSend`, `GenTickDone`, `GenSignalEnd`, `GenLastUp`, `GenReap` |
| `Process` | `process.c` | `ProcBind`, `ProcSigEarly`, `ProcRead`, `ProcTick`, `ProcUp`, `ProcSettle`, `SigSleepHandler`, `ProcKill`, `ProcLast` |
| `Scheduler` | `scheduler.c`; `spc` is where `main` is, `hpc` whether `ProcFinished` is in its `waitpid` | boot, loop top, both `down`s, `ReadMSGQ`, `CreateEntry`, `ReadDone`, `Schedule`, `Charge` (the three `if (running)` bodies), `StopRunning`, `Pick`, `StartRunning`, `AssignPid`, `ResumeRunning`, exit; handlers `ReadProcess`, `ProcFinished`, `ProcReaped` |
| `MarsOS` | the composition, the timing, the properties | `Clock`, `Generator`, `Job(p)`, `Scheduling`, `Terminated` |
| `AbstractCPU` | what the simulator promises | admit, reject, dispatch, preempt, serve, retire |
| `ReadyQueue`, `PriorityQueue`, `Buddy`, `Itoa` | the data structures and the conversion, as their code is written | one per operation |
| `BoundedFIFO`, `AbstractPriorityQueue`, `AbstractMemory` | what those promise | |
| `Ring` | a circular buffer seen as a sequence, for the three of the repository | |
| `Synchronizer` | `producer.c` and `consumer.c`, any number of each; `at` is the call a program is about to make and the object it is about | `Main(p)`: the calls `Look`, `Get`, `Find`, `Attach`, `Set`, `GetSem`, `Bind`, `ProduceItem`, `Down`, `Up`, `Store`, `Load`, `Advance` in the order of `main`; `Start(p)`, `Interrupt(p)`, `FreeResources(p)` |
| `PthreadBuffer` | both thread functions of `producer_consumer.c`, any number of threads | `Lock`, `Check`, `Test`, `Access`, `Unlock`, `Signal`, `SpuriousWakeup` |
| `BoundedBuffer` | what a shared buffer promises the programs around it | put, take |
| `MCMarsOS`, `MCStructures`, `MCItoa` | the workloads, requests and numbers of the runs | |

An operator marked *mutant* is a plausible mistake in the definition that
follows it. It is never used by a specification: `PROJECT.json` pairs each
checked property with a mutant that breaks it, which shows that the property
does say something about the code.

## How the model abstracts the code

**Steps.** A step of `main` is cut at every point where a handler or another
program could make a difference: before each system call, and between the test
of `running` and its use. Consecutive reads of the clock or of the shared word
within one piece of a function read one value. The exceptions to "anywhere" are
listed here so that they can be argued about:

- inside `CreateEntry` a `SIGPF` either comes between two of its calls, and its
  handler runs as anywhere, or in the middle of `Allocate` or `malloc`, and is a
  fault: `Deallocate` and `free` find the tree or the heap half-changed;
- a handler that runs into an `fprintf` of `main` is taken to lose or mix log
  text at most, which is not modelled;
- a signal reaches a program before that program's next step (a uniprocessor
  kernel delivers it on the way back to user mode): `Main(at)` and the guards
  `p \notin slp` say so;
- a semaphore sleeper takes the token if there is one, else is woken by a
  pending signal and returns as if it had one (`headers.h:63-69`);
- `StopRunning` is the `kill` and the four lines that follow it
  (`scheduler.c:511-516`) in one step. A `SIGPF` handled between them would clear
  `running` under those lines; in the model it comes before or after them. Before,
  it is the handler between test and use, a fault all the same.

**Signals.** `SIGMSGQ` interrupts `ProcFinished` too (its mask holds only
SIGPF). A signal that arrives before its handler is bound does what the default
action does, and before `execl` a job still has the scheduler's handlers.

**NULL and freed PCBs.** `spc = "fault"` is entered when one is dereferenced:
nothing of the scheduler is said from there on, so a property that survives a
fault is not claimed to survive what the memory then contains. When a freed PCB
is still queued, the next `malloc` may return that very PCB, so `ReadMSGQ`, which
ends with it, is a fault as well.

**Memory in the simulator.** In `Scheduler`, `Allocate` answers
nondeterministically: it may refuse whenever some process holds memory, and
cannot refuse an empty memory. That is all the schedule can see of it; `Buddy`
has the tree.

**The ready queue in the simulator** is a sequence: FIFO for RR; for SRTN and
HPF, extraction of any entry of least priority (which one of equals the heap
gives is an accident of its shape). `ReadyQueue` and `PriorityQueue` show that
the two structures do behave so.

**Data.** Process ids are 1..N and equal to the table index; PCBs are named by
their ids and NULL is 0; memory sizes stay in `Buddy`. The count of processes
and the quantum are read through `Passed`, the composition of `myItoa` and
`atoi`. Which fields of a PCB are garbage is only tracked for `pid`. Integers
are unbounded: no value of a run comes near 2^31.

**Build.** Reads of `*shmaddr` and of the globals `blocked` and `running` are
taken to be real reads each time, as the Makefile's unoptimised build makes them.

**Kernel objects of the synchronizer.** An object has an incarnation: `bound[k]`
is the one there is under key `k`, `id[p][k]` the one a program has got, and the
two differ once the object was removed (`Lost`). A `semop` on a removed
semaphore fails and the program exits; shared memory stays with whoever has it
attached. `Attach` is the two `shmat` of `InitIndices` or the one of `InitBuff`;
whether it succeeds on memory removed in the meantime depends on who else has it
attached and is left open. A program that ends keeps its `at`: whoever was
interrupted with a slot or the mutex in hand has it for good, and the properties
count it. SIGINT is blocked while its handler runs. The fixed sleeps of the
loops and of `GetSem`'s polling are left out: they only delay. What the
handlers and the last calls detach at exit the kernel detaches anyway.

**Launch.** `Launch` says how the programs are started. With `"free"` any program
starts at any time; with `"orderly"` a producer is started once the others are
done with their start-up, and nothing starts while a consumer removes the
objects, nor is a consumer interrupted while somebody starts. This is the least
order found under which the start-up is safe: without it see `sync_startup`.

**Threads.** `pthread_cond_wait` may return without a signal. The `while` around
it is entered with the mutex held, and giving the mutex up and going to sleep is
one step, as POSIX has it. A producer's round ends after its signal.

### Timing

The one-second clock is slow compared with the programs, but nothing enforces
it. `Timing` says how much is assumed:

| `Timing` | the clock ticks | used for |
|---|---|---|
| `"free"` | at any time | what must hold under any load |
| `"prompt"` | only when every program has done all it can (`Quiescent`) | what must hold when the machine keeps up with the clock, under every interleaving inside a tick |

**Schedules in turn.** Most properties of the preemptive algorithms do not hold
of a prompt clock (see `rr_misattribution` and `srtn_overwritten`), because
`down()` takes EINTR for success. They are stated of a part of its schedules,
those whose every step satisfies `EndsInTurn` (in `MarsOS`):

- a job sends `SIGPF` only when it finds the scheduler asleep in
  `down(semSchedProc)`, and
- that `down` ends with a token: the last `up` of the job comes before the
  scheduler is on the CPU again.

`EndsInTurn` is a hypothesis about the schedule, not a part of any action: the
actions of the scheduler and of the jobs are the same in every run, the EINTR
return of both `down`s included. *Nothing in the code enforces it.* What remains
is every other interleaving of a tick: a job may take its tick before or after the
scheduler has got to its `down`, the generator's sends and its SIGMSGQ interleave
with both, and `down(semSchedGen)` ends with EINTR when SIGMSGQ comes.
What the hypothesis excludes are the surplus token, the wrong finish, the
handler between test and use or within an allocation; with a prompt clock also
signals that come before their handler is bound, or coalesce. The properties of
these schedules say nothing of those hazards: they say that the program is
right whenever jobs end in turn, and the two violation runs what happens when one
does not.

### Fairness

`FairSpec` asks weak fairness of the clock, the generator, each job and the
scheduler: each is a separate Unix process, none holds a lock another spins on,
and the kernel schedules all that can run. Nothing is assumed of the order of
signals. `InTurnSpec` asks the same of the schedules in turn: of the clock and the
generator, and of each job and the scheduler as far as they can step in turn, so
that no program is obliged to a step that `EndsInTurn` forbids. Only `EverythingEnds`
needs it, which is therefore a statement about those schedules: in others
`ProcFinished` may wait for ever on the wrong process.

In the synchronizer and among the threads fairness is weak too, of each program
or thread: `semop`, the mutex and the condition variables put a program to sleep
until it can go on, and nothing is assumed of the order in which they let
sleepers go on (`NobodyLeftBehind`, `ItemsFlow` and `EverythingConsumed` hold
without). Nobody is obliged to start a program or to interrupt one. Of wake-ups
without a signal the thread module allows any finite number.

## Properties and runs

Bounds of the simulator: `N` is the number of jobs, `MaxClk` stops the clock (a
horizon that lets every workload finish: at most 2 + 3 * 3 ticks plus the closing
ones for the three-job runs), `MsgqCap` the messages the queue holds, `RQSZ` the
ready-queue capacity (at least N, as 1000 is in practice). Workloads are all
tables sorted by arrival over small arrival times, run times and priorities,
defined in `MCMarsOS`. Three jobs are the least with one running, one preempted
and one arriving; a fourth is used where a PCB has to be freed wrongly, requeued
and met by a new arrival, and where a surplus token has to be there before one
job preempts another and a third arrives; two are what a free clock leaves within reach of TLC.

| run | workload and bounds | shows |
|---|---|---|
| `srtn_in_turn` | schedules in turn; 3 jobs, arrivals 0..2, run times 1..3 | `ShortestRuns`, `TurnaroundIsWaitPlusRun`, `BusyTicks`, `WorkConserving`, `OnlyRunningRuns`, `ImplementsCPU`, `EverythingEnds` |
| `rr_in_turn` | the same, quantum 2 | `QueuedHaveWork`, `BoundedWait`, `MemoryHeldWhileWorking`, `ImplementsCPU`, `EverythingEnds` |
| `hpf_in_turn` | schedules in turn; 3 jobs, arrivals 0..2, run times 1..2, priorities 0..1 | `NoFault`, `SentOnTime`, `MostUrgentRunsToCompletion` |
| `rr_prompt` | every schedule of a prompt clock; 4 jobs, three at time 0, quantum 1 | `NoJobOutlivesScheduler`, `NothingLost`, `NprocExact` |
| `hpf_free` | 2 jobs, run times 0..1, free clock up to 3 | `TypeOK`, `FinishAttributed`, `OneChild`, `StartNotBeforeArrival` |
| `structures` | queue and heap: 6 PCBs, 5 slots, 3 priorities; memory: 4 bytes, requests 0..5 | `TypesOK`, `EndsShown`, `TreeIsWhatIsHeld`, `ImplementsFIFO`, `ImplementsPriorityQueue`, `ImplementsMemory` |
| `pthread_buffer` | 2 producers, 2 consumers, 2 slots, 2 rounds | `NoOverflow`, `NoLostWakeup`, `ImplementsBuffer`, `EverythingConsumed` |
| `synchronizer` | 2 producers, 1 consumer, 2 slots, orderly launch; a producer and the consumer may be interrupted, every object may be made twice | `TypeOK`, `MutualExclusion`, `SlotsAccounted`, `ImplementsBuffers`, `NobodyLeftBehind`, `ItemsFlow` |
| `rr_misattribution` | 3 jobs, run times 1..2, quantum 1, prompt | refutes `FinishAttributed` for round robin |
| `srtn_overwritten` | 4 jobs (one workload, `PreemptedLate`), prompt | refutes `FinishAttributed` for shortest remaining time next |
| `sync_startup` | 2 producers, 1 consumer, free launch, nobody interrupted | refutes `MutualExclusion` |
| `itoa_roundtrip` | numbers up to 120 | refutes `RoundTrip` |

Why the structures are large enough. A ring of five slots has every relative
position of `front` and `rear` and both wrap-arounds. A heap of five has a node
with two children below the root, so a sift of two levels with either child, and
a last parent with one child or none. A memory of four bytes has nodes at four
levels, since a request of zero bytes (which `test_generator.c` produces) grows
the tree to nodes of size 0 below those of one byte: enough for every shape of a
split subtree beside a held, a split or an absent buddy. The two nodes of size 0
under a byte have the same start and size but exclude each other in the tree, so
the refinement to `AbstractMemory` measures memory in half bytes: a request for
nothing does take half a byte away. A request of five, more than the memory, is
granted all of an empty memory and refused by any other; the abstract memory
says so in `Rounded`. The three structures share no state: each behaviour of
`structures` exercises one of them. Symmetry of the PCBs is sound there: none of
the properties is a liveness property, no definition picks a PCB by `CHOOSE`, and
PCBs are only told apart by their priorities, which are variables.

Why the buffers are large enough. Two producers and a consumer already have two
programs that initialise, one that waits, and one that removes; the interrupted
producer can die in each call, before and inside the critical region, and the
other one goes on, or makes the objects again after the consumer has removed
them. Two incarnations let a program with an identifier of the first meet the
second; a third would repeat that. With one consumer the second buffer has no taker: its items
are put in and never taken, and only producers are left behind by the removal.
Two consumers beside two producers are 1.2 million states, more than the liveness
check can do in five minutes; that the refinement holds with any number of
consumers, in every incarnation, is `SyncImplementsBuffers` below. Item numbers wrap at two, so that producers
put in both distinct and equal items; the refinement still tells a lost or
doubled item by the order of the others. The threads have two sleepers of each
kind, so that one signal can go to the wrong one of two, and two slots, so that
the buffer is neither full nor empty in between. Four threads with four items
is what TLC checks within minutes; the proofs below have no bound.

`CHECK_DEADLOCK FALSE` stands where a run may really stop: at `MaxClk` under a
free clock (`hpf_free`); after a fault, or with `ProcFinished` waiting for ever
on the wrong process (both preemptive algorithms under prompt timing); in `synchronizer`, when
all programs have been interrupted, or wait for one that was; at the last number
of `itoa_roundtrip`. The threads do not stop: the consumers of
`producer_consumer.c` wait for ever at an empty buffer, but a wake-up without a
signal always remains possible there.

`ImplementsCPU` maps a job to *new* before it has a PCB, *done* when freed,
*cpu* when in `running` and not back in the queue, and *waiting* otherwise; what
it is owed is its run time until it has read the shared word and its own counter
after. Every step is then a step of one CPU that serves only its holder, or a
stutter: this fails as soon as a preempted job gets a tick, a resumed one resumes with another's
remaining time, or a job leaves with work to do.

`ImplementsBuffers` maps each incarnation of the shared buffer to a bounded buffer
of its own. An item is in it from the step of the write index to the load: the
ring is read from the `read` index, one further while a consumer is between its
load and its step of that index, and its length is what `full` counts and what
programs in the middle of a turn have yet to tell. A program interrupted there
keeps its share for ever.

`NoFault` also says that no `SIGPF` is handled while `CreateEntry` allocates:
when jobs end in turn, the one that ends has been reaped before the messages are read.
`hpf_free` reaches the fault, and goes on to check that what it claims holds
whatever comes after it.

`FinishAttributed`, `NoFault`, `QueuedHaveWork`, `ShortestRuns` and
`MemoryHeldWhileWorking` do not hold of the preemptive algorithms under prompt
timing, nor `OnlyRunningRuns` of round robin: see below. That is why each stands in the
run of the algorithm, the timing and the schedules it does hold of.

`BusyTicks` is about `totalTime - idleTime`. The utilization in the report adds
one to it before it divides (`scheduler.c:228`), so that one job that arrives at 5
and runs for 1 is reported as 2/7 of the time; that number is not modelled and
nothing is claimed of it.

## What the runs found

Each of four runs states what the repository says of the program, and TLC shows
a behaviour that does otherwise (`findings` in `PROJECT.json` quotes both).

- `rr_misattribution`: `down()` takes EINTR for success. A job that ends sends
  SIGPF before its last `up`. If the scheduler is scheduled in between it
  returns from `down(semSchedProc)` without a token, and the token stays. From
  then on it runs one tick ahead of its jobs and may preempt a job on the tick
  that job ends; the SIGPF of that job then finds another one in `running`,
  which is reported finished and loses its memory while `waitpid` waits for it
  to end. The same surplus token is why `QueuedHaveWork` (a job that has ended
  is put back in the queue), `ShortestRuns` (the remaining time in the shared
  word is still that of the job that ran before) and `NoFault` are stated of
  the schedules in turn only.
- `srtn_overwritten`: the same surplus token under shortest remaining time next,
  which takes the remaining time from the shared word at every pass. The
  scheduler preempts a job before that job has taken its tick. It is stopped, but
  the tick is already visible to it, so it still counts it and writes its own
  remaining time over the one published for the job started in its place. On the
  next tick the scheduler charges the new job with that number, finds it too long
  and preempts it as well, on the tick on which it ends; its SIGPF is charged to
  the job that comes next. With three jobs this does not happen: the surplus token
  takes the end of a first job, and the rest takes three more.
- `sync_startup`: a producer looks for each semaphore, makes it, and sets it if it
  had not found it. Two producers that look before either makes the mutex both
  set it to 1, the second while the first is in the critical region.
- `itoa_roundtrip`: with ten processes the scheduler is told there are none.

Other limits of the code are visible in the models and have no run of their own.
The quantum only counts ticks on which somebody else is ready (`main` calls
`RRSheduler`, which decrements it, only if the ready queue is not empty), so
that a job may keep the CPU for a whole quantum after another one has arrived.
A producer killed inside the critical region of the synchronizer, or between
making a semaphore and setting it, leaves everybody asleep until a consumer is
interrupted: `NobodyLeftBehind` says that this does wake them all, and
`ItemsFlow` is stated of runs in which no program ends.
`SentOnTime` needs a message queue that holds all arrivals of one tick
(`MsgqCap >= N` in that run): with one more, `msgsnd` blocks before the `up` that
lets the scheduler drain the queue and both wait for ever; the default System V
queue of 16384 bytes holds 682 messages. And an empty buddy memory grants a
request larger than itself, as above.

## Proofs

TLAPS proves these for every `N`, workload, capacity, quantum and `Timing` that
satisfies the named assumptions of the modules, for the data structures for every
capacity, set of PCBs, priorities, size of the memory and requests, and for the
buffers for every number of programs or threads, slots, rounds and incarnations.

| theorem | module | statement |
|---|---|---|
| `TypeCorrect` | `MarsOSProofs` | `Spec => []TypeOK` |
| `NoEarlyStart` | `MarsOSProofs` | `Spec => []StartNotBeforeArrival` |
| `EverythingSentOnTime` | `MarsOSProofs` | with `MsgqCap >= N`, `Spec => []SentOnTime` |
| `NothingIsLost` | `MarsOSProofs` | with `RQSZ >= N`, `Spec => []NothingLost` |
| `NprocCounts` | `MarsOSProofs` | with `RQSZ >= N` and `numProcesses = N`, `Spec => []NprocExact` |
| `NoJobOutlives` | `MarsOSProofs` | with the same, `Spec => []NoJobOutlivesScheduler` |
| `CommandLineNumbers` | `MarsOSProofs` | `Passed(n) = n` for one digit; two digits other than zero come in exchanged; `Passed(n) = 0` if `n` ends in zero |
| `HPFFinishAttributed`, `HPFOneChild`, `HPFOnlyRunningRuns` | `MarsOSProofs` | with `SchedulerType = 2`, `Spec => []FinishAttributed`, `[]OneChild`, `[]OnlyRunningRuns` |
| `HPFMemoryHeld` | `MarsOSProofs` | with `SchedulerType = 2`, `RQSZ >= N`, `numProcesses = N`, `Spec => []MemoryHeldWhileWorking` |
| `HPFImplementsCPU` | `MarsOSProofs` | with the same, `Spec => ImplementsCPU` |
| `InTurnSchedules` | `InTurnProofs` | `InTurnSpec => Spec /\ [][EndsInTurn]_vars`; below, `Turns` stands for the right-hand side |
| `OrderInvariant`, `LedgerInvariant` | `InTurnProofs`, `LedgerProofs` | with `InTurnSystem`, `Turns => []OrderInv`, `[]LedgerInv` |
| `InTurnNoFault`, `InTurnFinishAttributed`, `InTurnOnlyRunningRuns`, `InTurnQueuedHaveWork` | `InTurnProofs` | with `InTurnSystem`, `Turns => []NoFault`, `[]FinishAttributed`, `[]OnlyRunningRuns`, `[]QueuedHaveWork` |
| `InTurnMemoryHeld`, `InTurnTurnaround`, `InTurnWorkConserving` | `LedgerProofs` | with `InTurnSystem`, `Turns => []MemoryHeldWhileWorking`, `[]TurnaroundIsWaitPlusRun`, `[]WorkConserving` |
| `SRTNShortestRuns` | `LedgerProofs` | with `InTurnSystem` and `SchedulerType = 0`, `Turns => []ShortestRuns` |
| `HPFMostUrgent` | `LedgerProofs` | with `InTurnSystem` and `SchedulerType = 2`, `Turns => MostUrgentRunsToCompletion` |
| `RRBoundedWait` | `LedgerProofs` | with `RoundRobin`, `Turns => []BoundedWait` |
| `InTurnBusyTicks` | `LedgerProofs` | with `InTurnSystem`, `Turns => []BusyTicks` |
| `InTurnImplementsCPU` | `LedgerProofs` | with `InTurnSystem`, `Turns => ImplementsCPU` |
| `QueueTypeCorrect`, `QueueEndsShown` | `StructuresProofs` | `Spec => []TypeOK`, `Spec => []EndsShown` |
| `QueueImplementsFIFO` | `StructuresProofs` | `Spec => ImplementsFIFO` |
| `HeapTypeCorrect`, `HeapImplementsPriorityQueue` | `StructuresProofs` | `Heap!Spec => []Heap!TypeOK`, `Heap!Spec => Heap!ImplementsPriorityQueue` |
| `MemoryTypeCorrect`, `MemoryCoalesces`, `MemoryImplementsAbstract` | `BuddyProofs` | `Memory!Spec => []Memory!TypeOK`, `[]Memory!TreeIsWhatIsHeld`, `Memory!ImplementsMemory` |
| `StructuresTypeCorrect`, `StructuresCoalesce` | `StructuresProofs` | `StructuresSpec => []TypesOK`, `[]TreeIsWhatIsHeld` |
| `StructuresImplementPriorityQueue`, `StructuresImplementMemory` | `StructuresProofs` | `StructuresSpec => ImplementsPriorityQueue`, `ImplementsMemory` |
| `PthreadTypeCorrect`, `PthreadNoOverflow` | `PthreadBufferProofs` | `Spec => []TypeOK`, `Spec => []NoOverflow` |
| `PthreadNoLostWakeup` | `PthreadBufferProofs` | `Spec => []NoLostWakeup` |
| `PthreadImplementsBuffer` | `PthreadBufferProofs` | `Spec => ImplementsBuffer` |
| `SyncTypeCorrect` | `SynchronizerProofs` | with `Launch = "orderly"`, `Spec => []TypeOK` |
| `SyncMutualExclusion` | `SynchronizerProofs` | with `Launch = "orderly"`, `Spec => []MutualExclusion` |
| `SyncSlotsAccounted` | `SynchronizerProofs` | with `Launch = "orderly"`, `Spec => []SlotsAccounted` |
| `SyncImplementsBuffers` | `SynchronizerProofs` | with `Launch = "orderly"`, `Spec => ImplementsBuffers` |

*Any timing.* `TypeOK` is inductive; the only delicate conjunct is that `down` is
guarded by `CanDown`, which keeps semaphores natural. One lemma per program, one
step per action.

`StartNotBeforeArrival` needs to know where a process comes from: `ArrivalInv`
says that only what was sent is in the message queue, in the hands of
`CreateEntry`, in the ready queue, in `running` or forked; that what was sent
had arrived by the clock; that the generator's `curTime` is never ahead of the
clock; and that every `waitStart` is in the past. `SendInv` is the other
direction: what had arrived by the generator's `curTime` was sent. `SentOnTime`
follows with room in the message queue for all (the pass that blocks in
`msgsnd` is the deadlock described above).

`NothingLost` and `NprocExact` hold for all three algorithms and every timing, the
runs in which RR or SRTN charges a finish to the wrong process included.
`AccountInv` has three parts. `PlaceInv` is `NothingLost` process by process.
`RunningInv` says that the process in `running` has not been freed, that it is in
the ready queue as well exactly while it is being preempted (`sleep` and `pick`),
and that no PCB is new outside `CreateEntry`. The handler between `sleep` and `pick`
may free a PCB that stays queued; the step that then uses it is a fault, after
which `RunningInv` claims less. `CountInv` ties `nproc` to the number of freed
PCBs. Both hypotheses come from the code: `RQSZ >= N`
because an insertion into a full queue drops its element (`RoomForAll` turns the
bound into room by the pigeonhole principle; `scheduler.c` has 1000 slots and
accepts more processes than that), and `numProcesses = N` because the count
crosses the command line through `myItoa`, which does not return every number.
`CommandLineNumbers` says which: up to nine processes the hypothesis holds, with
ten it is false (`Passed(10) = 0`), with eleven it holds again.

`NoJobOutlives` is about the same runs, the misattributed finishes included: the
scheduler that charges the wrong process also waits for it, so it cannot be gone
before that process ends. `LeaveInv` says of each process that only who has ended
is a zombie, that who was forked is past the message queue and `CreateEntry`,
that its pid is known but between `fork` and the assignment, and that who is freed
has ended. The last has an exception, and it is where the proof turns: `waitpid`
waits for an indeterminate pid, and so perhaps for another process, only while `spc`
is `pid`, and the scheduler then stands before an assignment through `running`, which
the handler has cleared, so that its next step is a fault and it never gets to its
exit. `ForkInv` shows that nobody is forked twice: an entry that was forked and
waits in the queue again is marked as stopped, in round robin only from the step
after its insertion on, when it is not yet possible to pick it.

*HPF under any timing.* `FinishAttributed` is not inductive: the handler is
entered on SIGPF whoever sent it. `HPFInv` adds that HPF comes to `Pick` with the
CPU free only, that any job which has not yet signalled its end is the one in
`running` with no SIGPF pending and no handler inside `waitpid`, and that a
pending or half-handled SIGPF belongs to the process in `running`, which has sent
it. Preemption is exactly what would break it, and RR breaks it
(`rr_misattribution`). `OneChild` and `OnlyRunningRuns` follow from the same
invariant. `CareerInv` follows every process from its PCB to its end: nobody is
ever stopped; who is queued was not forked; what the shared word and its own
counter hold is its run time less its ticks; its memory goes with its SIGPF or
later; and the one job that can end before the scheduler has stored its pid
leaves a trace (`spc` is `pid` with nothing in `running`) until it is reaped. The
abstract CPU's refinement is then one step per action.

*All algorithms, in turn.* Under every schedule of a free or prompt clock the two
preemptive algorithms do not have these properties (`rr_misattribution`,
`srtn_overwritten`). The theorems have two hypotheses. `InTurnSystem` is about the constants: a prompt clock; `numProcesses = N` and
the queues with room for everybody, as above; at least one process (with none the
scheduler leaves its loop before the first `down`); and run times above zero.
`test_generator.c` does write run times of zero: a process that has nothing to do
signals its end before its first tick, which is outside the order the semaphores
make; `hpf_free` and the theorems of any timing cover those. `[][EndsInTurn]_vars`
is about the schedule, in the statement of each theorem, and is what
[Timing](#timing) says of it: nothing in the code enforces it. Everything else is
arbitrary: the algorithm, the quantum, the workload, arrivals in bursts, memory
refusals, and the order of the programs within a tick.

`OrderInv` is the order the two semaphores are meant to produce, and that one
constraint on how a job ends is enough for all of it. `PassInv` is the handshake of
generator, scheduler and clock: each is at this tick or has not noticed it yet, and
`semSchedGen` holds a token exactly between the end of the generator's pass and the
scheduler's `down`, until the generator ends. `HolderInv` says at each place of the
scheduler what the process in `running` can be doing: until the scheduler has been
through `down(semSchedProc)` it is anywhere in its second of service (due, taken,
announced, or about to signal its end), afterwards the second is accounted for or
the process has ended; it is stopped, woken, or fresh from `fork`. `SignalInv` says
when SIGPF is pending or half-handled, and that `semSchedProc` holds a token from the
`up` of the process in `running` (`Announced`) to that `down` only. `OthersInv` places
everybody else: not forked, ended, or stopped in the queue with both toggles
accounted for. `RemainsInv` says what each knows of what remains. None of the five
is inductive alone: that the handler finds the right process needs `SignalInv`,
that needs the scheduler to be in its `down` when a job signals, which is the
hypothesis, and not to have left it without the token, for which `HolderInv` and
`PassInv` rule out every other signal; and that nobody else takes a tick needs
`OthersInv`, a toggle at a time. `TypeOK`, `SendInv` and `AccountInv` are used
beside it.

`LedgerInv` adds the times. `Base(p)` is arrival time, waiting time and time
served of `p`: it is the present tick for the process in `running` (or the one
before, until the second of this tick is taken) and the tick it was stopped for
the others; what is in the shared word, in a queued PCB and in its key is what
is really owed. So the reports add up (`TurnaroundIsWaitPlusRun`), the heap's
root is the process owed least (`ShortestRuns`), and who arrived is in the queue
before the dispatch of its tick (`WorkConserving`,
`MostUrgentRunsToCompletion`).

`BoundedWait` needs an invariant of its own: `PatienceInv` says of the entry at
place `i` of the queue that its wait so far and what is left of the quantum under
way fit into `N - i` quanta. A tick of waiting is a tick less of the quantum, a
dispatch moves everybody up one place and starts a quantum; an entry of the queue
that is new has waited nothing, because `PromptInv` has it arrive in this very
tick, and is behind at most `N - 2` others since it is not there itself and
neither is the one in `running` (`TwoMissing`). Only at
`sleep` is there an exception: the process being preempted is queued already and
its wait has not begun. `RoundRobin` adds
`SchedulerType = 1` and a quantum that is not zero to `InTurnSystem`.

`BusyTicks` compares two counters of the scheduler with the service of all
processes together; `Service` numbers each process's ticks, so that a second of
service is one more element of a finite set. `MeterInv` is the inductive form: what is
counted as busy exceeds what was given by the pass under way and by the second
that the process in `running` is still to get. A pass that is not idle ends with
somebody in `running` (the second it stands for is the next tick's), and the tick
of a process's last second is idle when nobody is left.

*Recursion and induction.* `numProcesses` is a number that went through two
recursive functions, the heap sifts and the buddy memory searches recursively. A
recursive function is a `CHOOSE`, of which nothing is known before some function
is shown to satisfy the equation. `RecursionExists` (in `Foundations`) does that once: if each
value depends on values of lower rank only, a function satisfying the equation
exists, put together from its restrictions to the ranks below `n`. The library's
theorems for this take operators as parameters, which the provers cannot
instantiate; here the equation is a function from arguments to functions, and
induction is over sets of numbers (`SetInduction`, `RankInduction`), so both can
be cited. Each recursive function has a lemma of the form "it is its equation"
(`MinHeapifyEquation`, `MovedUpEquation`, `Alloc1Equation`, `Alloc2Equation`,
`DeallocateUtilEquation`, `PathIs`, `DigitsAre`), and everything else is
argued from those.

*The heap.* The invariant is the types, at most `capacity` entries, no PCB in two
places and no parent after its child. `MovedUpIs` and `MinHeapifyIs` are
inductions along the path of the sift: a heap but for one entry that may be
before its parents (or after its children) stays one, with the hole a level up (or
down), because the entries above and below the hole are in order with each other
already; and the sift only exchanges entries, so what is held stays the same.
What the root holds is then of least priority (`RootFirst`), and the abstract
queue's step follows by counting the entries (`EntriesCount`).

*The buddy memory.* `MemoryInv` is the types, `TreeIsWhatIsHeld` and that no block
is part of another. `SearchStep` and `Alloc2Is` say what `alloc2` returns at a node, by induction
on the height: a free node of the level asked for below that node if there is one,
else nothing; the fallbacks from one child to the other and to a fresh branch are
its cases. `DeallocateUtilIs` says that going up from a block removes exactly
the nodes no other block needs. For the refinement each node is a stretch of
memory: a child is within its parent and apart from its sibling (`ChildExtent`),
so two nodes overlap exactly if one is above the other (`OverlapIs`), every aligned
stretch of a block's size is a node (`NodeAt`), and the size that `log` and `ceil`
round a request to is the least power of two that fits (`RoundedIs`), half a byte
for a request for nothing. A refusal is then a refusal of the abstract memory.

`StructuresSpec`, the specification of the run `structures`, lets one of the three
structures take a step at a time; `StructuresAreTheirs` projects it onto each of
them.

*The rings.* `Foundations` has the arithmetic once: where the slot behind the last
item is, and that writing it appends to the sequence and stepping the first index
takes its tail (`RingAppend`, `RingTail`), and that a write behind the last item
changes none (`RingBehind`). `QueueInv` says of the ready queue that `rear` is the
slot of the last item; the refinements of the queue, of the threads' buffer and of
each incarnation of the shared one are then a step of the abstract queue for each
operation.

*The threads.* `NoOverflow` needs to know that nobody changes the buffer between a
thread's last test and its access. `BufferInv` says who holds the mutex
(`MutexInv`: exactly the thread inside), that whoever is about to access the buffer
may (`AccessInv`), that `add` is the slot behind the last item (`AddInv`), and
that a producer is in one of its rounds (`RoundInv`, for the type of what it
inserts). `NoLostWakeup` is inductive beside it: going to sleep needs the
buffer full or empty, each access that makes a slot or an item is followed by a
signal, and a signal turns one thread about to signal into one awake.

*The synchronizer.* The three invariants are parts or consequences of `SyncInv`:
`LaunchInv` (what the orderly launch gives: one producer initialises at a time,
and nobody starts beside a consumer that removes), `EpochInv` (all objects are of
one epoch: what is missing is the next to be made, or has just been removed by
the one consumer that is past its first removal), `IdInv` and `OffInv` (a program
in its loop has objects of one incarnation; one that starts has those there are),
`FreshInv` (nothing has happened at a semaphore that a producer is about to set),
`MutexInv` (a mutex that somebody is inside of is 0), `CountInv` (full, empty and
the turns under way add up), `IndexInv`. Without `EpochInv` a program could pair
the mutex of one incarnation with the buffer of another, and without `FreshInv`
the SETVAL could come after somebody's `Down`, which is what `sync_startup` shows of a
free launch. One lemma per call, then one per program.

`ImplementsBuffers` needs the contents as well. In a producer's turn the item is
written first and the index moved after it, so `BufferInv` adds: the write index
is the slot behind the last item (`RearInv`); the objects of an incarnation are made in one order, so that
whoever has one has those before it (`MadeInv`); an index is set before
anybody has the mutex of its incarnation (`LookedInv`, `UntouchedInv`), so a start
never empties a buffer in use; and the items are of the abstract type
(`ItemInv`). The step of the write index is then `Put`, the load under the mutex
is `Take`, and every other step, those of other incarnations and all of start-up
and removal among them, is a stutter of that buffer. The write before `Put` and
the step of the read index after the load are stutters because nobody else is
inside and, by `SlotsAccounted`, the slot written is behind the last item.

Assumptions used: `NAssumption`, `MsgqCapAssumption`, `TimingAssumption`,
`WorkloadsAssumption`, `SchedulerTypeAssumption`, `RQSZAssumption`,
`QuantumAssumption`, `MaxClkAssumption` for the simulator;
`CapacityAssumption`, `NullAssumption`, `PrioritiesAssumption`,
`DepthAssumption`, `RequestsAssumption` for the data structures; `ThreadsAssumption`, `BufSizeAssumption`,
`RoundsAssumption`; `ProgramsAssumption`, `BuffSizeAssumption`,
`BoundsAssumption`, `LaunchAssumption`. All are stated where the constant is
declared and TLC evaluates them on every run.

Model-checked only:

- all liveness (`EverythingEnds`, `EverythingConsumed`, `NobodyLeftBehind`,
  `ItemsFlow`): out of this prover's reach;
- that the schedules in turn can go on to the end: the theorems are about every
  step of such a schedule, `EverythingEnds` in `srtn_in_turn` and `rr_in_turn` that
  there is always a next one.

The properties of the simulator that hold under every timing (`NothingLost`,
`NprocExact`, `NoJobOutlivesScheduler`, `StartNotBeforeArrival`, `SentOnTime`, and
HPF's) are proved of every timing; the others are proved of the schedules in turn.

## Not modelled, and the plan

Left out for good: the parser, the text of the logs and the floating-point
report, which are output only; the failure of IPC calls at start-up, each an
immediate exit; `clearResources` and the clock's `cleanup`, which run when the
simulation is already over; `PreorderTraverse` and `PrintAll`, which print;
a scheduler type outside 0..2 and the undefined quantum that goes with types 0
and 2; calls that fail for want of memory or of permission, in both parts;
`DestroySem` of `producer.c` and `InitSem` of `consumer.c`, which nothing calls.

Order of work, done first:

1. `IPC`, `ProcessGenerator`, `Process`, `Scheduler`, `MarsOS` with the two
   timings; the abstract CPU; the runs above. *Done.*
2. The data structures with their abstract specifications; `Itoa`. *Done.*
3. Type correctness, `FinishAttributed` and `OneChild` for HPF,
   `StartNotBeforeArrival`. *Done.*
4. `Synchronizer`, refined to one bounded buffer per incarnation, and
   `PthreadBuffer`; their invariants and both refinements proved. *Done.*
5. `CreateEntry` as a step of its own, with SIGPF inside it; `ReadyQueue`
   implements `BoundedFIFO`, proved. *Done.*
6. `NothingLost`, `NprocExact` and `SentOnTime` for every algorithm and timing;
   every property of HPF that holds of any timing, `ImplementsCPU` among them;
   every invariant of the schedules in turn, and `ImplementsCPU`, for all three
   algorithms. *Done, proved.*
7. `NoJobOutlivesScheduler` for every algorithm and timing; the heap and the buddy
   memory of every size implement what they promise; what the command line makes
   of a number. *Done, proved.*
8. Not done: a weaker hypothesis than `EndsInTurn` for the preemptive algorithms,
   and whether `OnlyRunningRuns` holds of SRTN under every schedule of a prompt
   clock; a quantum of zero; the parser.
