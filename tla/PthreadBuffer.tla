---------------------------- MODULE PthreadBuffer ----------------------------
(* producer_consumer.c: threads around one buffer, a mutex and two condition  *)
(* variables.  main starts one producer and one consumer; its comment says    *)
(* that they may be any number, and so it is here.                            *)
EXTENDS Ring, FiniteSets

CONSTANTS
    Producers, Consumers,   \* the threads
    BUF_SIZE,
    Rounds,                 \* how many numbers a producer inserts: 20
    NoThread

Threads == Producers \cup Consumers

ASSUME ThreadsAssumption ==
    /\ IsFiniteSet(Threads)
    /\ Producers \cap Consumers = {}
    /\ NoThread \notin Threads
ASSUME BufSizeAssumption == BUF_SIZE \in Nat \ {0}
ASSUME RoundsAssumption == Rounds \in Nat \ {0}

VARIABLES
    buffer, add, rem, num,  \* the globals
    m,                      \* who holds the mutex
    i,                      \* the local i of each thread
    pc,                     \* where each thread is
    exited                  \* some thread has called exit(1)

data == <<buffer, add, rem, num>>
vars == <<data, m, i, pc, exited>>

Slots == 0 .. BUF_SIZE - 1

(* "waiting" is inside pthread_cond_wait before a wake-up, "woken" after it   *)
(* and before the mutex is held again.                                        *)
Places == {"lock", "check", "test", "waiting", "woken", "access", "unlock",
           "signal", "quit"}

Init ==
    /\ buffer = [slot \in Slots |-> 0]
    /\ add = 0 /\ rem = 0 /\ num = 0
    /\ m = NoThread
    /\ i = [t \in Threads |-> IF t \in Producers THEN 1 ELSE 0]
    /\ pc = [t \in Threads |-> "lock"]
    /\ exited = FALSE

At(t, place) == pc[t] = place
Goto(t, place) == pc' = [pc EXCEPT ![t] = place]

------------------------------------------------------------------------------
(* Mutant: the condition is not tested again after a wake-up. *)
LockThenAccess(t) ==
    /\ m = NoThread
    /\ m' = t
    /\ \/ At(t, "lock") /\ Goto(t, "check")
       \/ At(t, "woken") /\ Goto(t, "access")
    /\ UNCHANGED <<data, i, exited>>

(* pthread_mutex_lock, at the head of a round or on the way out of the wait.  *)
Lock(t) ==
    /\ m = NoThread
    /\ m' = t
    /\ \/ At(t, "lock") /\ Goto(t, "check")
       \/ At(t, "woken") /\ Goto(t, "test")
    /\ UNCHANGED <<data, i, exited>>

(* The sanity checks: overflow for a producer, underflow for a consumer. *)
Check(t) ==
    /\ At(t, "check")
    /\ exited' = IF t \in Producers THEN num > BUF_SIZE ELSE num < 0
    /\ Goto(t, "test")
    /\ UNCHANGED <<data, m, i>>

Blocked(t) == IF t \in Producers THEN num = BUF_SIZE ELSE num = 0

(* The while around pthread_cond_wait: the mutex is given up in one step with *)
(* going to sleep.                                                            *)
Test(t) ==
    /\ At(t, "test")
    /\ IF Blocked(t)
       THEN Goto(t, "waiting") /\ m' = NoThread
       ELSE Goto(t, "access") /\ UNCHANGED m
    /\ UNCHANGED <<data, i, exited>>

Insert(t) ==
    /\ buffer' = [buffer EXCEPT ![add] = i[t]]
    /\ add' = (add + 1) % BUF_SIZE
    /\ num' = num + 1
    /\ UNCHANGED <<rem, i>>

(* Mutant: rem is left where it was. *)
TakeSame(t) ==
    /\ i' = [i EXCEPT ![t] = buffer[rem]]
    /\ num' = num - 1
    /\ UNCHANGED <<buffer, add, rem>>

Take(t) ==
    /\ i' = [i EXCEPT ![t] = buffer[rem]]
    /\ rem' = (rem + 1) % BUF_SIZE
    /\ num' = num - 1
    /\ UNCHANGED <<buffer, add>>

Access(t) ==
    /\ At(t, "access")
    /\ IF t \in Producers THEN Insert(t) ELSE Take(t)
    /\ Goto(t, "unlock")
    /\ UNCHANGED <<m, exited>>

Unlock(t) ==
    /\ At(t, "unlock")
    /\ m' = NoThread
    /\ Goto(t, "signal")
    /\ UNCHANGED <<data, i, exited>>

(* The threads asleep on the condition that t signals. *)
Sleepers(t) ==
    {s \in IF t \in Producers THEN Consumers ELSE Producers : At(s, "waiting")}

(* The end of a round: a producer's loop counter decides whether it goes on.  *)
AfterRound(t) ==
    IF t \in Producers /\ i[t] = Rounds THEN "quit" ELSE "lock"

(* Mutant: signals only the change from full or from empty. *)
SignalAtEdge(t) ==
    /\ At(t, "signal")
    /\ LET edge == num = IF t \in Producers THEN 1 ELSE BUF_SIZE - 1
       IN  IF Sleepers(t) = {} \/ ~edge
           THEN pc' = [pc EXCEPT ![t] = AfterRound(t)]
           ELSE \E s \in Sleepers(t) :
                    pc' = [pc EXCEPT ![t] = AfterRound(t), ![s] = "woken"]
    /\ i' = IF t \in Producers THEN [i EXCEPT ![t] = @ + 1] ELSE i
    /\ UNCHANGED <<data, m, exited>>

(* pthread_cond_signal after the mutex is released: one sleeper, if any. *)
Signal(t) ==
    /\ At(t, "signal")
    /\ IF Sleepers(t) = {}
       THEN pc' = [pc EXCEPT ![t] = AfterRound(t)]
       ELSE \E s \in Sleepers(t) :
                pc' = [pc EXCEPT ![t] = AfterRound(t), ![s] = "woken"]
    /\ i' = IF t \in Producers THEN [i EXCEPT ![t] = @ + 1] ELSE i
    /\ UNCHANGED <<data, m, exited>>

(* pthread_cond_wait may return without a signal. *)
SpuriousWakeup(t) ==
    /\ At(t, "waiting")
    /\ Goto(t, "woken")
    /\ UNCHANGED <<data, m, i, exited>>

Step(t) ==
    /\ ~exited
    /\ Lock(t) \/ Check(t) \/ Test(t) \/ Access(t) \/ Unlock(t) \/ Signal(t)

Next == \E t \in Threads : Step(t) \/ (~exited /\ SpuriousWakeup(t))

Spec == Init /\ [][Next]_vars

(* Every thread that can run is scheduled, and only finitely many wake-ups    *)
(* come without a signal.                                                     *)
FairSpec ==
    /\ Spec
    /\ \A t \in Threads : WF_vars(Step(t))
    /\ <>[][\A t \in Threads : ~SpuriousWakeup(t)]_vars

------------------------------------------------------------------------------
TypeOK ==
    /\ buffer \in [Slots -> 0 .. Rounds]
    /\ add \in Slots /\ rem \in Slots
    /\ num \in 0 .. BUF_SIZE
    /\ m \in Threads \cup {NoThread}
    /\ i \in [Threads -> 0 .. Rounds + 1]
    /\ pc \in [Threads -> Places]
    /\ exited \in BOOLEAN

(* The overflow and underflow checks never fire: whatever thread a signal or  *)
(* a spurious wake-up lets go on, it finds room, or an item, or sleeps again. *)
NoOverflow == ~exited

(* The threads that will look at the buffer again before they sleep.          *)
Awake(group) == {t \in group : pc[t] \in {"woken", "test", "access"}}

(* The threads that have changed the buffer and not signalled it yet.         *)
Signalling(group) == {t \in group : pc[t] \in {"unlock", "signal"}}

(* While one of group sleeps, each of n slots or items it could use has       *)
(* somebody to see to it: one of group awake, or one of others about to       *)
(* signal.                                                                    *)
Attended(group, others, n) ==
    (\E t \in group : At(t, "waiting")) =>
        n <= Cardinality(Awake(group)) + Cardinality(Signalling(others))

(* No wake-up is lost: a producer does not sleep beside a free slot that      *)
(* nobody will see to, nor a consumer beside an item.  This is what one       *)
(* signal for each insertion or removal, sent after the mutex is released and *)
(* whether or not anybody sleeps, has to ensure.                              *)
NoLostWakeup ==
    /\ Attended(Producers, Consumers, BUF_SIZE - num)
    /\ Attended(Consumers, Producers, num)

(* The items in the buffer, oldest first. *)
Contents == RingSeq(buffer, rem, num, BUF_SIZE)

(* With any number of threads the ring is a bounded buffer: items are taken   *)
(* once each and in the order of their insertion, and none is overwritten.    *)
Buffer == INSTANCE BoundedBuffer WITH
    Items <- 1 .. Rounds, Takers <- Consumers, Capacity <- BUF_SIZE, Nothing <- 0,
    queue <- Contents, taken <- [c \in Consumers |-> i[c]]

ImplementsBuffer == Buffer!Spec

(* Every producer gets to its last round and everything inserted is consumed. *)
EverythingConsumed == <>[](num = 0 /\ \A p \in Producers : At(p, "quit"))
==============================================================================
