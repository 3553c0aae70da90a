------------------------- MODULE PthreadBufferProofs -------------------------
(* producer_consumer.c with any number of threads, any size of the buffer and *)
(* any number of rounds: the checks never fire and the ring is a bounded      *)
(* buffer.                                                                    *)
EXTENDS PthreadBuffer, Foundations, FiniteSetTheorems

(* The places of a thread that holds the mutex. *)
Inside(t) == pc[t] \in {"check", "test", "access", "unlock"}

(* One thread at a time is inside, and it holds the mutex. *)
MutexInv == \A t \in Threads : Inside(t) <=> m = t

(* Who is about to change the buffer has seen that it may, and nobody else    *)
(* has changed it since.                                                      *)
AccessInv == \A t \in Threads : At(t, "access") => ~Blocked(t)

(* The index to insert at is the one behind the last item. *)
AddInv == add = (rem + num) % BUF_SIZE

(* A producer that has not quit is in one of its rounds. *)
RoundInv == \A p \in Producers : ~At(p, "quit") => i[p] \in 1 .. Rounds

BufferInv == TypeOK /\ MutexInv /\ AccessInv /\ AddInv /\ RoundInv /\ ~exited

LEMMA BufferInit == Init => BufferInv
<1> SUFFICES ASSUME Init PROVE BufferInv
  OBVIOUS
<1>1. TypeOK
  <2>1. i \in [Threads -> 0 .. Rounds + 1]
    <3>1. \A t \in Threads : (IF t \in Producers THEN 1 ELSE 0) \in 0 .. Rounds + 1
      BY RoundsAssumption
    <3> QED  BY <3>1 DEF Init
  <2>2. pc \in [Threads -> Places] /\ m \in Threads \cup {NoThread}
    BY DEF Init, Places
  <2>3. buffer \in [Slots -> 0 .. Rounds] /\ 0 \in Slots /\ 0 \in 0 .. BUF_SIZE
    BY BufSizeAssumption, RoundsAssumption DEF Init, Slots
  <2> QED  BY <2>1, <2>2, <2>3 DEF Init, TypeOK
<1>2. (0 + 0) % BUF_SIZE = 0
  BY BufSizeAssumption, ModOnce
<1>3. AddInv
  BY <1>2 DEF Init, AddInv
<1>4. MutexInv /\ AccessInv
  BY ThreadsAssumption DEF Init, MutexInv, Inside, AccessInv, At
<1>5. RoundInv
  BY RoundsAssumption DEF Init, RoundInv, Threads
<1> QED  BY <1>1, <1>3, <1>4, <1>5 DEF Init, BufferInv

(* A step that leaves the data alone and moves thread t from the outside to   *)
(* the inside with a free mutex, from the inside out, or neither.             *)
LEMMA LockStep ==
    ASSUME BufferInv, NEW t \in Threads, Lock(t)
    PROVE  BufferInv' /\ UNCHANGED <<data, i>>
<1>1. m = NoThread /\ m' = t /\ UNCHANGED <<buffer, add, rem, num, i, exited>>
      /\ pc[t] \in {"lock", "woken"} /\ pc' = [pc EXCEPT ![t] = pc'[t]]
      /\ pc'[t] \in {"check", "test"}
  BY DEF BufferInv, TypeOK, Lock, data, At, Goto
<1>2. TypeOK'
  BY <1>1 DEF BufferInv, TypeOK, Places
<1>3. MutexInv'
  BY <1>1, ThreadsAssumption DEF BufferInv, TypeOK, MutexInv, Inside
<1>4. AccessInv' /\ RoundInv' /\ AddInv'
  BY <1>1 DEF BufferInv, TypeOK, AccessInv, RoundInv, AddInv, At, Blocked, Threads
<1> QED  BY <1>1, <1>2, <1>3, <1>4 DEF BufferInv, data

LEMMA CheckStep ==
    ASSUME BufferInv, NEW t \in Threads, Check(t)
    PROVE  BufferInv' /\ UNCHANGED <<data, i>>
<1>1. UNCHANGED <<buffer, add, rem, num, m, i>> /\ pc[t] = "check"
      /\ pc' = [pc EXCEPT ![t] = "test"]
  BY DEF Check, data, At, Goto
<1>2. exited' = FALSE
  BY BufSizeAssumption DEF Check, BufferInv, TypeOK
<1>3. TypeOK'
  BY <1>1, <1>2 DEF BufferInv, TypeOK, Places
<1>4. MutexInv' /\ AccessInv' /\ RoundInv' /\ AddInv'
  BY <1>1 DEF BufferInv, TypeOK, MutexInv, Inside, AccessInv, RoundInv, AddInv, At, Blocked,
              Threads
<1> QED  BY <1>1, <1>2, <1>3, <1>4 DEF BufferInv, data

LEMMA TestStep ==
    ASSUME BufferInv, NEW t \in Threads, Test(t)
    PROVE  BufferInv' /\ UNCHANGED <<data, i>>
<1>1. UNCHANGED <<buffer, add, rem, num, i, exited>> /\ pc[t] = "test" /\ m = t
  BY DEF BufferInv, MutexInv, Inside, Test, data, At
<1>2. CASE Blocked(t)
  <2>1. m' = NoThread /\ pc' = [pc EXCEPT ![t] = "waiting"]
    BY <1>2 DEF Test, Goto
  <2>2. TypeOK'
    BY <1>1, <2>1 DEF BufferInv, TypeOK, Places
  <2>3. MutexInv'
    BY <1>1, <2>1, ThreadsAssumption DEF BufferInv, TypeOK, MutexInv, Inside
  <2>4. AccessInv' /\ RoundInv' /\ AddInv'
    BY <1>1, <2>1 DEF BufferInv, TypeOK, AccessInv, RoundInv, AddInv, At, Blocked, Threads
  <2> QED  BY <1>1, <2>2, <2>3, <2>4 DEF BufferInv, data
<1>3. CASE ~Blocked(t)
  <2>1. m' = m /\ pc' = [pc EXCEPT ![t] = "access"]
    BY <1>3 DEF Test, Goto
  <2>2. TypeOK' /\ MutexInv'
    BY <1>1, <2>1 DEF BufferInv, TypeOK, Places, MutexInv, Inside
  <2>3. Blocked(t)' = Blocked(t)
    BY <1>1 DEF Blocked
  <2>4. AccessInv' /\ RoundInv' /\ AddInv'
    BY <1>1, <1>3, <2>1, <2>3 DEF BufferInv, TypeOK, AccessInv, RoundInv, AddInv, At, Blocked,
                                  Threads
  <2> QED  BY <1>1, <2>2, <2>4 DEF BufferInv, data
<1> QED  BY <1>2, <1>3

LEMMA UnlockStep ==
    ASSUME BufferInv, NEW t \in Threads, Unlock(t)
    PROVE  BufferInv' /\ UNCHANGED <<data, i>>
<1>1. UNCHANGED <<buffer, add, rem, num, i, exited>> /\ pc[t] = "unlock" /\ m = t
      /\ m' = NoThread /\ pc' = [pc EXCEPT ![t] = "signal"]
  BY DEF BufferInv, MutexInv, Inside, Unlock, data, At, Goto
<1>2. TypeOK'
  BY <1>1 DEF BufferInv, TypeOK, Places
<1>3. MutexInv'
  BY <1>1, ThreadsAssumption DEF BufferInv, TypeOK, MutexInv, Inside
<1>4. AccessInv' /\ RoundInv' /\ AddInv'
  BY <1>1 DEF BufferInv, TypeOK, AccessInv, RoundInv, AddInv, At, Blocked, Threads
<1> QED  BY <1>1, <1>2, <1>3, <1>4 DEF BufferInv, data

(* The one that is woken goes from one place outside to another. *)
LEMMA SignalStep ==
    ASSUME BufferInv, NEW t \in Threads, Signal(t)
    PROVE  BufferInv' /\ UNCHANGED data /\ \A c \in Consumers : i'[c] = i[c]
<1>1. UNCHANGED <<buffer, add, rem, num, m, exited>> /\ pc[t] = "signal"
      /\ i' = IF t \in Producers THEN [i EXCEPT ![t] = @ + 1] ELSE i
  BY DEF Signal, data, At
<1>2. PICK s \in Threads :
        /\ s # t => pc[s] = "waiting"
        /\ pc' = [q \in Threads |-> IF q = t THEN AfterRound(t)
                                    ELSE IF q = s THEN "woken" ELSE pc[q]]
  <2>1. CASE Sleepers(t) = {}
    BY <2>1 DEF Signal, BufferInv, TypeOK
  <2>2. CASE Sleepers(t) # {}
    <3>1. PICK s \in Sleepers(t) : pc' = [pc EXCEPT ![t] = AfterRound(t), ![s] = "woken"]
      BY <2>2 DEF Signal
    <3>2. s \in Threads /\ pc[s] = "waiting" /\ s # t
      BY <1>1 DEF Sleepers, At, Threads
    <3> QED  BY <3>1, <3>2 DEF BufferInv, TypeOK
  <2> QED  BY <2>1, <2>2
<1>3. AfterRound(t) \in {"quit", "lock"} /\ pc \in [Threads -> Places]
  BY DEF AfterRound, BufferInv, TypeOK
<1>4. pc' \in [Threads -> Places]
  BY <1>2, <1>3 DEF Places
<1>5. i' \in [Threads -> 0 .. Rounds + 1]
  <2>1. t \in Producers => i[t] \in 1 .. Rounds
    BY <1>1 DEF BufferInv, RoundInv, At
  <2> QED  BY <1>1, <2>1, RoundsAssumption DEF BufferInv, TypeOK
<1>6. TypeOK'
  BY <1>1, <1>4, <1>5 DEF BufferInv, TypeOK
<1>7. MutexInv' /\ AccessInv'
  BY <1>1, <1>2, <1>3 DEF BufferInv, MutexInv, AccessInv, Inside, At, Blocked
<1>8. RoundInv'
  <2> SUFFICES ASSUME NEW p \in Producers, pc'[p] # "quit" PROVE i'[p] \in 1 .. Rounds
    BY DEF RoundInv, At
  <2>1. p \in Threads /\ i \in [Threads -> 0 .. Rounds + 1]
    BY DEF Threads, BufferInv, TypeOK
  <2>2. CASE p = t
    <3>1. i[t] # Rounds
      BY <1>2, <2>2 DEF AfterRound
    <3>2. i[t] \in 1 .. Rounds
      BY <1>1, <2>2 DEF BufferInv, RoundInv, At
    <3> QED  BY <1>1, <2>1, <2>2, <3>1, <3>2, RoundsAssumption
  <2>3. CASE p # t
    <3>1. i'[p] = i[p] /\ pc[p] # "quit"
      BY <1>1, <1>2, <2>1, <2>3
    <3> QED  BY <3>1 DEF BufferInv, RoundInv, At
  <2> QED  BY <2>2, <2>3
<1>9. AddInv'
  BY <1>1 DEF BufferInv, AddInv
<1>10. \A c \in Consumers : i'[c] = i[c]
  BY <1>1, ThreadsAssumption DEF BufferInv, TypeOK, Threads
<1> QED  BY <1>1, <1>6, <1>7, <1>8, <1>9, <1>10 DEF BufferInv, data

LEMMA SpuriousStep ==
    ASSUME BufferInv, NEW t \in Threads, SpuriousWakeup(t)
    PROVE  BufferInv' /\ UNCHANGED <<data, i>>
<1>1. UNCHANGED <<buffer, add, rem, num, m, i, exited>> /\ pc[t] = "waiting"
      /\ pc' = [pc EXCEPT ![t] = "woken"]
  BY DEF SpuriousWakeup, data, At, Goto
<1>2. TypeOK'
  BY <1>1 DEF BufferInv, TypeOK, Places
<1>3. MutexInv' /\ AccessInv' /\ RoundInv' /\ AddInv'
  BY <1>1 DEF BufferInv, TypeOK, MutexInv, Inside, AccessInv, RoundInv, AddInv, At, Blocked,
              Threads
<1> QED  BY <1>1, <1>2, <1>3 DEF BufferInv, data

(* A producer adds its number behind the last item. *)
LEMMA InsertStep ==
    ASSUME BufferInv, NEW t \in Producers, Access(t)
    PROVE  BufferInv' /\ Buffer!Put(i[t])
<1> USE BufSizeAssumption
<1>1. /\ UNCHANGED <<rem, i, m, exited>> /\ num' = num + 1
      /\ add' = (add + 1) % BUF_SIZE /\ buffer' = [buffer EXCEPT ![add] = i[t]]
      /\ pc[t] = "access" /\ pc' = [pc EXCEPT ![t] = "unlock"] /\ t \in Threads
  BY DEF Access, Insert, At, Goto, Threads
<1>2. /\ num \in 0 .. BUF_SIZE /\ num # BUF_SIZE /\ i[t] \in 1 .. Rounds
      /\ rem \in 0 .. BUF_SIZE - 1 /\ add \in 0 .. BUF_SIZE - 1
      /\ buffer \in [0 .. BUF_SIZE - 1 -> 0 .. Rounds]
  BY <1>1 DEF BufferInv, TypeOK, Slots, AccessInv, RoundInv, At, Blocked
<1>3. (add + 1) % BUF_SIZE \in 0 .. BUF_SIZE - 1
  BY <1>2, ModStep
<1>4. TypeOK'
  BY <1>1, <1>2, <1>3 DEF BufferInv, TypeOK, Slots, Places
<1>5. MutexInv' /\ RoundInv'
  BY <1>1 DEF BufferInv, TypeOK, MutexInv, Inside, RoundInv, At, Threads
<1>6. AccessInv'
  BY <1>1 DEF BufferInv, TypeOK, MutexInv, Inside, AccessInv, At
<1>7. AddInv'
  <2>1. num \in 0 .. BUF_SIZE - 1
    BY <1>2
  <2>2. (((rem + num) % BUF_SIZE) + 1) % BUF_SIZE = (rem + (num + 1)) % BUF_SIZE
    BY <1>2, <2>1, RearAfterAppend
  <2> QED  BY <1>1, <2>2 DEF BufferInv, AddInv
<1>8. BufferInv'
  BY <1>1, <1>4, <1>5, <1>6, <1>7 DEF BufferInv
<1>9. IsRing(buffer, rem, num, BUF_SIZE, 0 .. Rounds)
  BY <1>2 DEF IsRing
<1>10. Len(Contents) = num
  BY <1>9, RingSeqType DEF Contents
<1>11. Contents' = Append(Contents, i[t])
  <2> DEFINE Numbers == 0 .. Rounds
  <2>1. buffer' = Written(buffer, rem, num, BUF_SIZE, i[t])
    BY <1>1 DEF Written, BufferInv, AddInv
  <2>2. /\ i[t] \in Numbers /\ num # BUF_SIZE
        /\ IsRing(buffer, rem, num, BUF_SIZE, Numbers)
    BY <1>2, <1>9
  <2> HIDE DEF Numbers
  <2>3. RingSeq(Written(buffer, rem, num, BUF_SIZE, i[t]), rem, num + 1, BUF_SIZE)
        = Append(RingSeq(buffer, rem, num, BUF_SIZE), i[t])
    BY <2>2, RingAppend
  <2> QED  BY <1>1, <2>1, <2>3 DEF Contents
<1> QED  BY <1>1, <1>2, <1>8, <1>10, <1>11 DEF Buffer!Put

(* A consumer takes the oldest item. *)
LEMMA TakeStep ==
    ASSUME BufferInv, NEW t \in Consumers, Access(t)
    PROVE  BufferInv' /\ Buffer!Take(t)
<1> USE BufSizeAssumption
<1>1. /\ UNCHANGED <<buffer, add, m, exited>> /\ num' = num - 1
      /\ rem' = (rem + 1) % BUF_SIZE /\ i' = [i EXCEPT ![t] = buffer[rem]]
      /\ pc[t] = "access" /\ pc' = [pc EXCEPT ![t] = "unlock"]
      /\ t \in Threads /\ t \notin Producers
  BY ThreadsAssumption DEF Access, Take, At, Goto, Threads
<1>2. /\ num \in 0 .. BUF_SIZE /\ num # 0
      /\ rem \in 0 .. BUF_SIZE - 1 /\ add \in 0 .. BUF_SIZE - 1
      /\ buffer \in [0 .. BUF_SIZE - 1 -> 0 .. Rounds]
  BY <1>1 DEF BufferInv, TypeOK, Slots, AccessInv, At, Blocked
<1>3. (rem + 1) % BUF_SIZE \in 0 .. BUF_SIZE - 1
  BY <1>2, ModStep
<1>4. TypeOK'
  <2>1. buffer[rem] \in 0 .. Rounds + 1
    BY <1>2, RoundsAssumption
  <2> QED  BY <1>1, <1>2, <1>3, <2>1 DEF BufferInv, TypeOK, Slots, Places
<1>5. MutexInv' /\ RoundInv'
  BY <1>1 DEF BufferInv, TypeOK, MutexInv, Inside, RoundInv, At, Threads
<1>6. AccessInv'
  BY <1>1 DEF BufferInv, TypeOK, MutexInv, Inside, AccessInv, At
<1>7. AddInv'
  <2>1. num \in 1 .. BUF_SIZE
    BY <1>2
  <2>2. (((rem + 1) % BUF_SIZE) + (num - 1)) % BUF_SIZE = (rem + num) % BUF_SIZE
    BY <1>2, <2>1, RearAfterTail
  <2> QED  BY <1>1, <2>2 DEF BufferInv, AddInv
<1>8. BufferInv'
  BY <1>1, <1>4, <1>5, <1>6, <1>7 DEF BufferInv
<1>9. IsRing(buffer, rem, num, BUF_SIZE, 0 .. Rounds)
  BY <1>2 DEF IsRing
<1>10. Contents \in Seq(0 .. Rounds) /\ Len(Contents) = num
  BY <1>9, RingSeqType DEF Contents
<1>11. Head(Contents) = buffer[rem] /\ Contents' = Tail(Contents)
  BY <1>1, <1>2, <1>9, RingTail DEF Contents
<1>12. Contents # <<>>
  BY <1>2, <1>10
<1>13. [c \in Consumers |-> i'[c]] = [[c \in Consumers |-> i[c]] EXCEPT ![t] = buffer[rem]]
  BY <1>1 DEF BufferInv, TypeOK, Threads
<1> QED  BY <1>8, <1>11, <1>12, <1>13 DEF Buffer!Take

(* Every step keeps the invariant and is one of the bounded buffer or none.   *)
LEMMA BufferStep ==
    ASSUME BufferInv, [Next]_vars
    PROVE  BufferInv' /\ [Buffer!Next]_(Buffer!vars)
<1>1. ASSUME UNCHANGED data, \A c \in Consumers : i'[c] = i[c]
      PROVE  UNCHANGED Buffer!vars
  BY <1>1 DEF Buffer!vars, Contents, RingSeq, data
<1>2. CASE UNCHANGED vars
  <2>1. BufferInv'
    BY <1>2 DEF vars, data, BufferInv, TypeOK, MutexInv, Inside, AccessInv, AddInv, RoundInv,
                At, Blocked
  <2> QED  BY <1>1, <1>2, <2>1 DEF vars
<1>3. ASSUME NEW t \in Threads, Step(t)
      PROVE  BufferInv' /\ [Buffer!Next]_(Buffer!vars)
  <2>1. CASE Access(t) /\ t \in Producers
    <3>1. i[t] \in 1 .. Rounds
      BY <2>1 DEF Access, At, BufferInv, RoundInv
    <3> QED  BY <2>1, <3>1, InsertStep DEF Buffer!Next
  <2>2. CASE Access(t) /\ t \in Consumers
    BY <2>2, TakeStep DEF Buffer!Next
  <2>3. CASE Lock(t) \/ Check(t) \/ Test(t) \/ Unlock(t) \/ Signal(t)
    BY <1>1, <2>3, LockStep, CheckStep, TestStep, UnlockStep, SignalStep
  <2> QED  BY <1>3, <2>1, <2>2, <2>3 DEF Step, Threads
<1>4. ASSUME NEW t \in Threads, SpuriousWakeup(t)
      PROVE  BufferInv' /\ [Buffer!Next]_(Buffer!vars)
  BY <1>1, <1>4, SpuriousStep
<1> QED  BY <1>2, <1>3, <1>4 DEF Next

(* Who is awake or about to signal is one of finitely many. *)
LEMMA Counted ==
    ASSUME NEW S \in SUBSET Threads, NEW T \in SUBSET Threads
    PROVE  /\ Cardinality(S) \in Nat
           /\ S \subseteq T => Cardinality(S) <= Cardinality(T)
           /\ \A t : t \notin S /\ T = S \cup {t} => Cardinality(T) = Cardinality(S) + 1
           /\ \A t : t \in S /\ T = S \ {t} => Cardinality(T) = Cardinality(S) - 1
<1>1. IsFiniteSet(Threads)
  BY ThreadsAssumption
<1>2. IsFiniteSet(S) /\ IsFiniteSet(T)
  BY <1>1, FS_Subset
<1> QED  BY <1>2, FS_CardinalityType, FS_Subset, FS_AddElement, FS_RemoveElement

(* A group stays attended when nobody falls asleep in it, nobody leaves those *)
(* that attend, and there is no more for it to use.                           *)
LEMMA StillAttended ==
    ASSUME NEW group \in SUBSET Threads, NEW others \in SUBSET Threads,
           NEW n \in Nat, Attended(group, others, n),
           \A t \in group : At(t, "waiting")' => At(t, "waiting"),
           Awake(group) \subseteq Awake(group)',
           Signalling(others) \subseteq Signalling(others)'
    PROVE  Attended(group, others, n)'
<1>1. /\ Awake(group) \in SUBSET Threads /\ Awake(group)' \in SUBSET Threads
      /\ Signalling(others) \in SUBSET Threads /\ Signalling(others)' \in SUBSET Threads
  BY DEF Awake, Signalling
<1> DEFINE a == Cardinality(Awake(group))
           a2 == Cardinality(Awake(group)')
           b == Cardinality(Signalling(others))
           b2 == Cardinality(Signalling(others)')
<1>2. a \in Nat /\ a2 \in Nat /\ b \in Nat /\ b2 \in Nat /\ a <= a2 /\ b <= b2
  BY <1>1, Counted
<1>3. (\E t \in group : At(t, "waiting")) => n <= a + b
  BY DEF Attended
<1>4. (\E t \in group : At(t, "waiting")') => n <= a2 + b2
  <2> HIDE DEF a, a2, b, b2
  <2> QED  BY <1>2, <1>3
<1> QED  BY <1>4 DEF Attended

(* An access takes one from what its group can use, and the thread is awake   *)
(* no more; it adds one to what the others can use, and will signal it.       *)
LEMMA AccessAttends ==
    ASSUME BufferInv, NEW group \in SUBSET Threads, NEW others \in SUBSET Threads,
           group \cap others = {}, NEW t \in group, At(t, "access"),
           pc' = [pc EXCEPT ![t] = "unlock"],
           NEW n \in Int, NEW n2 \in Int, n2 = n - 1, Attended(group, others, n),
           NEW k \in Int, NEW k2 \in Int, k2 = k + 1, Attended(others, group, k)
    PROVE  Attended(group, others, n2)' /\ Attended(others, group, k2)'
<1>1. pc \in [Threads -> Places] /\ t \in Threads /\ pc[t] = "access"
  BY DEF BufferInv, TypeOK, At
<1>2. /\ t \in Awake(group) /\ Awake(group)' = Awake(group) \ {t}
      /\ Awake(others)' = Awake(others)
      /\ t \notin Signalling(group) /\ Signalling(group)' = Signalling(group) \cup {t}
      /\ Signalling(others)' = Signalling(others)
      /\ \A s \in group \cup others : At(s, "waiting")' => At(s, "waiting")
  BY <1>1 DEF Awake, Signalling, At
<1>3. \A S \in {Awake(group), Awake(others), Signalling(group), Signalling(others),
                Awake(group)', Signalling(group)'} : S \in SUBSET Threads
  BY DEF Awake, Signalling
<1>4. /\ Cardinality(Awake(group)') = Cardinality(Awake(group)) - 1
      /\ Cardinality(Signalling(group)') = Cardinality(Signalling(group)) + 1
  BY <1>2, <1>3, Counted
<1>5. \A S \in {Awake(group), Awake(others), Signalling(group), Signalling(others)} :
        Cardinality(S) \in Nat
  BY <1>3, Counted
<1> QED  BY <1>2, <1>4, <1>5 DEF Attended

(* A signal wakes one of the others if there is one asleep, which takes the   *)
(* place of the thread that signals among those who attend.                   *)
LEMMA SignalAttends ==
    ASSUME BufferInv, NEW group \in SUBSET Threads, NEW others \in SUBSET Threads,
           group \cap others = {}, NEW t \in group, At(t, "signal"),
           NEW place \in {"quit", "lock"},
           LET sleepers == {s \in others : At(s, "waiting")}
           IN  IF sleepers = {}
               THEN pc' = [pc EXCEPT ![t] = place]
               ELSE \E s \in sleepers : pc' = [pc EXCEPT ![t] = place, ![s] = "woken"],
           NEW n \in Int, Attended(group, others, n),
           NEW k \in Int, Attended(others, group, k)
    PROVE  Attended(group, others, n)' /\ Attended(others, group, k)'
<1>1. pc \in [Threads -> Places] /\ t \in Threads /\ pc[t] = "signal"
  BY DEF BufferInv, TypeOK, At
<1>2. /\ Awake(group)' = Awake(group)
      /\ Signalling(others)' = Signalling(others)
      /\ \A q \in group : At(q, "waiting")' => At(q, "waiting")
  BY <1>1 DEF Awake, Signalling, At
<1>3. Attended(group, others, n)'
  BY <1>2 DEF Attended
<1>4. Attended(others, group, k)'
  <2>1. CASE \A s \in others : ~At(s, "waiting")
    <3>1. pc' = [pc EXCEPT ![t] = place]
      BY <2>1
    <3>2. \A s \in others : ~At(s, "waiting")'
      BY <1>1, <2>1, <3>1 DEF At
    <3> QED  BY <3>2 DEF Attended
  <2>2. CASE \E s \in others : At(s, "waiting")
    <3>1. PICK s \in others : pc[s] = "waiting" /\ pc' = [pc EXCEPT ![t] = place, ![s] = "woken"]
      BY <2>2 DEF At
    <3>2. /\ s \notin Awake(others) /\ Awake(others)' = Awake(others) \cup {s}
          /\ t \in Signalling(group) /\ Signalling(group)' = Signalling(group) \ {t}
      BY <1>1, <3>1 DEF Awake, Signalling
    <3>3. \A S \in {Awake(others), Signalling(group), Awake(others)', Signalling(group)'} :
            S \in SUBSET Threads
      BY DEF Awake, Signalling
    <3>4. /\ Cardinality(Awake(others)') = Cardinality(Awake(others)) + 1
          /\ Cardinality(Signalling(group)') = Cardinality(Signalling(group)) - 1
      BY <3>2, <3>3, Counted
    <3>5. Cardinality(Awake(others)) \in Nat /\ Cardinality(Signalling(group)) \in Nat
      BY <3>3, Counted
    <3>6. k <= Cardinality(Awake(others)) + Cardinality(Signalling(group))
      BY <2>2 DEF Attended
    <3>7. k <= Cardinality(Awake(others)') + Cardinality(Signalling(group)')
      BY <3>4, <3>5, <3>6
    <3> QED  BY <3>7 DEF Attended
  <2> QED  BY <2>1, <2>2
<1> QED  BY <1>3, <1>4

LEMMA WakeUpInit == Init => NoLostWakeup
<1> SUFFICES ASSUME Init PROVE NoLostWakeup
  OBVIOUS
<1>1. \A t \in Threads : ~At(t, "waiting")
  BY DEF Init, At
<1> QED  BY <1>1 DEF NoLostWakeup, Attended, Threads

LEMMA WakeUpStep ==
    ASSUME BufferInv, NoLostWakeup, [Next]_vars
    PROVE  NoLostWakeup'
<1> DEFINE room == BUF_SIZE - num
<1>1. /\ num \in 0 .. BUF_SIZE /\ room \in Nat /\ pc \in [Threads -> Places]
      /\ Producers \in SUBSET Threads /\ Consumers \in SUBSET Threads
      /\ Producers \cap Consumers = {} /\ Consumers \cap Producers = {}
      /\ Attended(Producers, Consumers, room) /\ Attended(Consumers, Producers, num)
  BY BufSizeAssumption, ThreadsAssumption
     DEF BufferInv, TypeOK, Threads, NoLostWakeup
<1>2. ASSUME UNCHANGED num, Attended(Producers, Consumers, room)',
             Attended(Consumers, Producers, num)'
      PROVE  NoLostWakeup'
  BY <1>2 DEF NoLostWakeup
<1>3. ASSUME UNCHANGED num,
             \A t \in Threads :
                /\ At(t, "waiting")' => At(t, "waiting")
                /\ t \in Awake(Threads) => t \in Awake(Threads)'
                /\ t \in Signalling(Threads) => t \in Signalling(Threads)'
      PROVE  NoLostWakeup'
  <2>1. ASSUME NEW group \in SUBSET Threads
        PROVE  /\ \A t \in group : At(t, "waiting")' => At(t, "waiting")
               /\ Awake(group) \subseteq Awake(group)'
               /\ Signalling(group) \subseteq Signalling(group)'
    BY <1>3, <2>1 DEF Awake, Signalling
  <2>2. ASSUME NEW n \in Nat, Attended(Producers, Consumers, n)
        PROVE  Attended(Producers, Consumers, n)'
    BY <1>1, <2>1, <2>2, StillAttended
  <2>3. ASSUME NEW n \in Nat, Attended(Consumers, Producers, n)
        PROVE  Attended(Consumers, Producers, n)'
    BY <1>1, <2>1, <2>3, StillAttended
  <2> QED  BY <1>1, <1>3, <2>2, <2>3 DEF NoLostWakeup
<1>4. ASSUME UNCHANGED vars PROVE NoLostWakeup'
  BY <1>4 DEF vars, data, NoLostWakeup, Attended, Awake, Signalling, At
<1>5. ASSUME NEW t \in Threads, Step(t) PROVE NoLostWakeup'
  <2>1. CASE Lock(t)
    BY <1>1, <1>3, <2>1 DEF Lock, data, At, Goto, Awake, Signalling
  <2>2. CASE Check(t) \/ Unlock(t)
    BY <1>1, <1>3, <2>2 DEF Check, Unlock, data, At, Goto, Awake, Signalling
  <2>3. CASE Test(t) /\ ~Blocked(t)
    BY <1>1, <1>3, <2>3 DEF Test, data, At, Goto, Awake, Signalling
  <2>4. CASE Test(t) /\ Blocked(t)
    <3>1. UNCHANGED num /\ pc[t] = "test" /\ pc' = [pc EXCEPT ![t] = "waiting"]
      BY <2>4 DEF Test, data, At, Goto
    <3>2. \A S \in SUBSET Threads : Cardinality(Awake(S)') \in Nat /\ Cardinality(Signalling(S)') \in Nat
      BY Counted DEF Awake, Signalling
    <3>3. ASSUME NEW group \in SUBSET Threads, NEW others \in SUBSET Threads
          PROVE  Attended(group, others, 0)'
      <4>1. Cardinality(Awake(group)') \in Nat /\ Cardinality(Signalling(others)') \in Nat
        BY <3>2, <3>3
      <4> QED  BY <4>1 DEF Attended
    <3>4. ASSUME NEW group \in SUBSET Threads, NEW others \in SUBSET Threads, NEW n \in Nat,
                 t \notin group, Attended(group, others, n)
          PROVE  Attended(group, others, n)'
      <4>1. /\ \A q \in group : At(q, "waiting")' => At(q, "waiting")
            /\ Awake(group) \subseteq Awake(group)'
            /\ Signalling(others) \subseteq Signalling(others)'
        BY <1>1, <3>1, <3>4 DEF At, Awake, Signalling
      <4> QED  BY <3>4, <4>1, StillAttended
    <3>5. CASE t \in Producers
      <4>1. room = 0 /\ t \notin Consumers
        BY <1>1, <2>4, <3>5 DEF Blocked
      <4> QED  BY <1>1, <1>2, <3>1, <3>3, <3>4, <4>1
    <3>6. CASE t \in Consumers
      <4>1. num = 0 /\ t \notin Producers
        BY <1>1, <2>4, <3>6 DEF Blocked
      <4> QED  BY <1>1, <1>2, <3>1, <3>3, <3>4, <4>1
    <3> QED  BY <3>5, <3>6 DEF Threads
  <2>5. CASE Access(t)
    <3>1. At(t, "access") /\ pc' = [pc EXCEPT ![t] = "unlock"]
      BY <2>5 DEF Access, Goto
    <3>2. CASE t \in Producers
      <4>1. num' = num + 1
        BY <2>5, <3>2 DEF Access, Insert
      <4>2. \A n2, k2 \in Int : n2 = room - 1 /\ k2 = num + 1 =>
              Attended(Producers, Consumers, n2)' /\ Attended(Consumers, Producers, k2)'
        <5> HIDE DEF room
        <5> TAKE n2, k2 \in Int
        <5> HAVE n2 = room - 1 /\ k2 = num + 1
        <5>1. room \in Int /\ num \in Int
          BY <1>1
        <5> QED  BY <1>1, <3>1, <3>2, <5>1, AccessAttends
      <4>3. Attended(Producers, Consumers, room)' /\ Attended(Consumers, Producers, num)'
        BY <1>1, <4>1, <4>2, BufSizeAssumption DEF Attended
      <4> QED  BY <4>3 DEF NoLostWakeup
    <3>3. CASE t \in Consumers
      <4>1. num' = num - 1
        BY <1>1, <2>5, <3>3 DEF Access, Take
      <4>2. \A n2, k2 \in Int : n2 = num - 1 /\ k2 = room + 1 =>
              Attended(Consumers, Producers, n2)' /\ Attended(Producers, Consumers, k2)'
        <5> HIDE DEF room
        <5> TAKE n2, k2 \in Int
        <5> HAVE n2 = num - 1 /\ k2 = room + 1
        <5>1. room \in Int /\ num \in Int
          BY <1>1
        <5> QED  BY <1>1, <3>1, <3>3, <5>1, AccessAttends
      <4>3. Attended(Producers, Consumers, room)' /\ Attended(Consumers, Producers, num)'
        BY <1>1, <4>1, <4>2, BufSizeAssumption DEF Attended
      <4> QED  BY <4>3 DEF NoLostWakeup
    <3> QED  BY <3>2, <3>3 DEF Threads
  <2>6. CASE Signal(t)
    <3>1. UNCHANGED num /\ At(t, "signal") /\ AfterRound(t) \in {"quit", "lock"}
      BY <2>6 DEF Signal, data, AfterRound
    <3>2. CASE t \in Producers
      <4>1. LET sleepers == {s \in Consumers : At(s, "waiting")}
            IN  IF sleepers = {}
                THEN pc' = [pc EXCEPT ![t] = AfterRound(t)]
                ELSE \E s \in sleepers : pc' = [pc EXCEPT ![t] = AfterRound(t), ![s] = "woken"]
        BY <2>6, <3>2 DEF Signal, Sleepers
      <4>2. \A n, k \in Int :
              Attended(Producers, Consumers, n) /\ Attended(Consumers, Producers, k)
              => Attended(Producers, Consumers, n)' /\ Attended(Consumers, Producers, k)'
        <5> DEFINE place == AfterRound(t)
        <5>1. place \in {"quit", "lock"}
          BY <3>1
        <5> HIDE DEF place
        <5> QED  BY <1>1, <3>1, <3>2, <4>1, <5>1, SignalAttends DEF place
      <4> QED  BY <1>1, <1>2, <3>1, <4>2
    <3>3. CASE t \in Consumers
      <4>1. LET sleepers == {s \in Producers : At(s, "waiting")}
            IN  IF sleepers = {}
                THEN pc' = [pc EXCEPT ![t] = AfterRound(t)]
                ELSE \E s \in sleepers : pc' = [pc EXCEPT ![t] = AfterRound(t), ![s] = "woken"]
        BY <1>1, <2>6, <3>3 DEF Signal, Sleepers
      <4>2. \A n, k \in Int :
              Attended(Consumers, Producers, n) /\ Attended(Producers, Consumers, k)
              => Attended(Consumers, Producers, n)' /\ Attended(Producers, Consumers, k)'
        BY <1>1, <3>1, <3>3, <4>1, SignalAttends
      <4> QED  BY <1>1, <1>2, <3>1, <4>2
    <3> QED  BY <3>2, <3>3 DEF Threads
  <2> QED  BY <1>5, <2>1, <2>2, <2>3, <2>4, <2>5, <2>6 DEF Step
<1>6. ASSUME NEW t \in Threads, SpuriousWakeup(t) PROVE NoLostWakeup'
  BY <1>1, <1>3, <1>6 DEF SpuriousWakeup, data, At, Goto, Awake, Signalling
<1> QED  BY <1>4, <1>5, <1>6 DEF Next

(* The variables keep their types: num stays between 0 and BUF_SIZE.          *)
THEOREM PthreadTypeCorrect == Spec => []TypeOK
<1>1. BufferInv => TypeOK
  BY DEF BufferInv
<1>2. BufferInv /\ [Next]_vars => BufferInv'
  BY BufferStep
<1> QED  BY BufferInit, <1>1, <1>2, PTL DEF Spec

(* No thread ever calls exit(1). *)
THEOREM PthreadNoOverflow == Spec => []NoOverflow
<1>1. BufferInv => NoOverflow
  BY DEF BufferInv, NoOverflow
<1>2. BufferInv /\ [Next]_vars => BufferInv'
  BY BufferStep
<1> QED  BY BufferInit, <1>1, <1>2, PTL DEF Spec

(* The threads around their ring are a bounded buffer. *)
THEOREM PthreadImplementsBuffer == Spec => ImplementsBuffer
<1>1. Init => Buffer!Init
  <2> SUFFICES ASSUME Init PROVE Contents = <<>> /\ [c \in Consumers |-> i[c]] = [c \in Consumers |-> 0]
    BY DEF Buffer!Init
  <2>1. \A c \in Consumers : i[c] = 0
    BY ThreadsAssumption DEF Init, Threads
  <2> QED  BY <2>1 DEF Init, Contents, RingSeq
<1>2. BufferInv /\ [Next]_vars => [Buffer!Next]_(Buffer!vars)
  BY BufferStep
<1>3. BufferInv /\ [Next]_vars => BufferInv'
  BY BufferStep
<1> QED  BY BufferInit, <1>1, <1>2, <1>3, PTL DEF Spec, ImplementsBuffer, Buffer!Spec

(* No wake-up is lost, however many threads there are. *)
THEOREM PthreadNoLostWakeup == Spec => []NoLostWakeup
<1>1. BufferInv /\ [Next]_vars => BufferInv'
  BY BufferStep
<1>2. BufferInv /\ NoLostWakeup /\ [Next]_vars => NoLostWakeup'
  BY WakeUpStep
<1> QED  BY BufferInit, WakeUpInit, <1>1, <1>2, PTL DEF Spec
==============================================================================
