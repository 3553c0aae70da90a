--------------------------------- MODULE IPC ---------------------------------
(* The kernel objects through which the four programs of scheduler/ talk: the *)
(* emulated clock, the shared word holding a remaining time, two semaphores,  *)
(* the message queue, the pending signals and the zombies.  Nothing here is   *)
(* code of the repository: it is what semop, msgsnd, msgrcv, kill and waitpid *)
(* do in the way src/ uses them (scheduler/headers.h wraps the first).        *)
EXTENDS Integers, Sequences, FiniteSets

CONSTANTS
    N,          \* number of simulated processes, ids 1..N
    MsgqCap,    \* messages the System V queue holds before msgsnd blocks
    Timing      \* "prompt" or "free": see MarsOS

ASSUME NAssumption == N \in Nat
ASSUME MsgqCapAssumption == MsgqCap \in Nat \ {0}
ASSUME TimingAssumption == Timing \in {"prompt", "free"}

Procs == 1 .. N
Sched == 0                \* the scheduler, as an entry of the process table
Null == 0                 \* the NULL pointer (PCBs are named by their ids)
Removed == -1             \* a semaphore after IPC_RMID

Signals == {"SIGMSGQ", "SIGPF"}

VARIABLES
    clk,            \* the word clk.c increments (SHKEY)
    shm,            \* the shared remaining time (PRSHKEY)
    semSchedGen,    \* generator -> scheduler: "this tick's arrivals are sent"
    semSchedProc,   \* process -> scheduler: "this tick is accounted"
    msgq,           \* the message queue, a sequence of process ids
    sigs,           \* signals pending at the scheduler (a set: they coalesce)
    slp,            \* processes with a pending SIGSLP
    exited          \* zombies: ended and not yet waited for

ipcVars == <<clk, shm, semSchedGen, semSchedProc, msgq, sigs, slp, exited>>

IPCTypeOK ==
    /\ clk \in Nat
    /\ shm \in Int
    /\ semSchedGen \in Nat
    /\ semSchedProc \in Nat \cup {Removed}
    /\ msgq \in Seq(Procs)
    /\ sigs \subseteq Signals
    /\ slp \subseteq Procs
    /\ exited \subseteq Procs \cup {Sched}

IPCInit ==
    /\ clk = 0
    /\ shm = 0
    /\ semSchedGen = 0
    /\ semSchedProc = 0
    /\ msgq = <<>>
    /\ sigs = {}
    /\ slp = {}
    /\ exited = {}

------------------------------------------------------------------------------
(* up() and down() of headers.h on a semaphore of value s.  up() on a removed *)
(* semaphore fails; a sleeper takes the token the moment it is there.         *)
Up(s) == IF s = Removed THEN Removed ELSE s + 1
CanDownAtZero(s) == s >= 0          \* mutant: one token too many
CanDown(s) == s > 0
Down(s) == s - 1

(* kill(pid of p, SIGSLP): a zombie keeps its pid, and the signal is lost. *)
Sleep(p) == slp' = IF p \in exited THEN slp ELSE slp \cup {p}

(* clk.c: sleeps a second and increments the shared word. *)
ClockTick ==
    /\ clk' = clk + 1
    /\ UNCHANGED <<shm, semSchedGen, semSchedProc, msgq, sigs, slp, exited>>
==============================================================================
