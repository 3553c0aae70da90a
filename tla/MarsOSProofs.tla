----------------------------- MODULE MarsOSProofs -----------------------------
(* Theorems about MarsOS, for every number of processes, workload, algorithm, *)
(* quantum and timing: its types, what the command line makes of a number,    *)
(* and where every process is on its way through the scheduler - none is sent *)
(* late, forked early or lost, nproc counts them, and none outlives the       *)
(* scheduler.  Under highest-priority-first, the schedule itself.             *)
EXTENDS MarsOS, Foundations

------------------------------------------------------------------------------
(* The command line. *)

(* The digits of a number, least significant first, until one of them is 0. *)
LEMMA DigitsAre ==
    /\ Digits \in [Nat -> Seq(0 .. 9)]
    /\ \A n \in Nat : Digits[n] = IF n % 10 = 0 THEN <<>> ELSE <<n % 10>> \o Digits[n \div 10]
<1> DEFINE V == Seq(0 .. 9)
           rank == [n \in Nat |-> n]
           Body(n, f) == IF n % 10 = 0 THEN <<>> ELSE <<n % 10>> \o f[n \div 10]
           G == [n \in Nat |-> [f \in [Nat -> V] |-> Body(n, f)]]
<1>1. \A n \in Nat : n % 10 \in 0 .. 9 /\ n \div 10 \in Nat /\ (n % 10 # 0 => n \div 10 < n)
  OBVIOUS
<1>2. ASSUME NEW n \in Nat, NEW f \in [Nat -> V] PROVE Body(n, f) \in V
  <2>1. <<n % 10>> \in V /\ f[n \div 10] \in V /\ <<>> \in V
    BY <1>1
  <2>2. <<n % 10>> \o f[n \div 10] \in V
    BY <2>1
  <2> HIDE DEF V
  <2> QED  BY <2>1, <2>2
<1>3. G \in [Nat -> [[Nat -> V] -> V]]
  <2> HIDE DEF Body, V
  <2> QED  BY <1>2
<1>4. ASSUME NEW n \in Nat, NEW f \in [Nat -> V], NEW g \in [Nat -> V],
             \A m \in Nat : rank[m] < rank[n] => f[m] = g[m]
      PROVE  Body(n, f) = Body(n, g)
  <2> SUFFICES ASSUME n % 10 # 0 PROVE f[n \div 10] = g[n \div 10]
    OBVIOUS
  <2>1. n \div 10 \in Nat /\ rank[n \div 10] < rank[n]
    BY <1>1
  <2> HIDE DEF rank, V
  <2> QED  BY <1>4, <2>1
<1>5. PICK f \in [Nat -> V] : \A n \in Nat : f[n] = G[n][f]
  <2>1. \A n \in Nat : \A f, g \in [Nat -> V] :
            (\A m \in Nat : rank[m] < rank[n] => f[m] = g[m]) => G[n][f] = G[n][g]
    <3> HIDE DEF rank, Body, V
    <3> QED  BY <1>4
  <2>2. <<>> \in V /\ rank \in [Nat -> Nat]
    OBVIOUS
  <2> DEFINE D == Nat
  <2> HIDE DEF V, G, rank
  <2>5. PICK none \in V : none = <<>>
    BY <2>2
  <2>3. Founded(D, V, rank, G)
    BY <1>3, <2>1, <2>2 DEF Founded
  <2> HIDE DEF D
  <2>4. \E f \in [D -> V] : \A n \in D : f[n] = G[n][f]
    BY <2>5, <2>3, RecursionExists
  <2> QED  BY <2>4 DEF D
<1>6. Digits = [n \in Nat |-> Body(n, Digits)]
  <2>1. f = [n \in Nat |-> Body(n, f)]
    <3> HIDE DEF Body, V
    <3> QED  BY <1>5
  <2> QED  BY <2>1 DEF Digits
<1>7. \A n \in Nat : Digits[n] = Body(n, Digits)
  <2> HIDE DEF Body
  <2> QED  BY <1>6
<1>8. Digits \in [Nat -> V]
  <2> DEFINE P == {n \in Nat : Digits[n] \in V}
  <2>1. ASSUME NEW n \in Nat, \A m \in Nat : rank[m] < rank[n] => m \in P PROVE n \in P
    <3>1. Digits[n] = Body(n, Digits)
      BY <1>7
    <3>2. CASE n % 10 = 0
      <4>1. Body(n, Digits) = <<>> /\ <<>> \in V
        BY <3>2
      <4> QED  BY <3>1, <4>1
    <3>3. CASE n % 10 # 0
      <4>1. n \div 10 \in P /\ n % 10 \in 0 .. 9
        BY <1>1, <2>1, <3>3
      <4>2. <<n % 10>> \o Digits[n \div 10] \in V
        BY <4>1
      <4>3. Body(n, Digits) = <<n % 10>> \o Digits[n \div 10]
        BY <3>3
      <4> QED  BY <3>1, <4>2, <4>3
    <3> QED  BY <3>2, <3>3
  <2>2. rank \in [Nat -> Nat]
    OBVIOUS
  <2> DEFINE D == Nat
  <2> HIDE DEF P, rank
  <2>4. Inductive(D, rank, P)
    BY <2>1, <2>2 DEF Inductive
  <2> HIDE DEF D
  <2>5. D \subseteq P
    BY <2>4, RankInduction
  <2>3. Nat \subseteq P
    BY <2>5 DEF D
  <2> HIDE DEF Body
  <2> QED  BY <1>6, <2>3 DEF P
<1> QED  BY <1>7, <1>8

(* What a string of digits reads as. *)
LEMMA ValueIs ==
    /\ Value \in [Seq(0 .. 9) -> Nat]
    /\ \A s \in Seq(0 .. 9) :
            Value[s] = IF s = <<>> THEN 0
                       ELSE 10 * Value[SubSeq(s, 1, Len(s) - 1)] + s[Len(s)]
<1> DEFINE D == Seq(0 .. 9)
           rank == [s \in D |-> Len(s)]
           But(s) == SubSeq(s, 1, Len(s) - 1)
           Body(s, f) == IF s = <<>> THEN 0 ELSE 10 * f[But(s)] + s[Len(s)]
           G == [s \in D |-> [f \in [D -> Nat] |-> Body(s, f)]]
<1>1. \A s \in D : s # <<>> => But(s) \in D /\ Len(But(s)) < Len(s) /\ s[Len(s)] \in Nat
  OBVIOUS
<1>2. ASSUME NEW s \in D, NEW f \in [D -> Nat] PROVE Body(s, f) \in Nat
  <2> HIDE DEF But, D
  <2> QED  BY <1>1
<1>3. G \in [D -> [[D -> Nat] -> Nat]]
  <2> HIDE DEF Body, D
  <2> QED  BY <1>2
<1>4. ASSUME NEW s \in D, NEW f \in [D -> Nat], NEW g \in [D -> Nat],
             \A t \in D : rank[t] < rank[s] => f[t] = g[t]
      PROVE  Body(s, f) = Body(s, g)
  <2> SUFFICES ASSUME s # <<>> PROVE f[But(s)] = g[But(s)]
    OBVIOUS
  <2>1. But(s) \in D /\ rank[But(s)] < rank[s]
    BY <1>1
  <2> HIDE DEF rank, D, But
  <2> QED  BY <1>4, <2>1
<1>5. rank \in [D -> Nat]
  OBVIOUS
<1>6. PICK f \in [D -> Nat] : \A s \in D : f[s] = G[s][f]
  <2>1. \A s \in D : \A f, g \in [D -> Nat] :
            (\A t \in D : rank[t] < rank[s] => f[t] = g[t]) => G[s][f] = G[s][g]
    <3> HIDE DEF rank, Body, D
    <3> QED  BY <1>4
  <2>2. 0 \in Nat
    OBVIOUS
  <2> HIDE DEF D, G, rank
  <2>3. Founded(D, Nat, rank, G)
    BY <1>3, <1>5, <2>1 DEF Founded
  <2> QED  BY <2>2, <2>3, RecursionExists
<1>7. Value = [s \in D |-> Body(s, Value)]
  <2>1. f = [s \in D |-> Body(s, f)]
    <3> HIDE DEF Body, D
    <3> QED  BY <1>6
  <2> QED  BY <2>1 DEF Value
<1>8. \A s \in D : Value[s] = Body(s, Value)
  <2> HIDE DEF Body, D
  <2> QED  BY <1>7
<1>9. Value \in [D -> Nat]
  <2> DEFINE P == {s \in D : Value[s] \in Nat}
  <2>1. ASSUME NEW s \in D, \A t \in D : rank[t] < rank[s] => t \in P PROVE s \in P
    <3>0. Value[s] = Body(s, Value)
      BY <1>8
    <3>1. CASE s = <<>>
      <4>1. Body(s, Value) = 0
        BY <3>1
      <4> QED  BY <3>0, <4>1
    <3>2. CASE s # <<>>
      <4>1. But(s) \in D /\ rank[But(s)] < rank[s]
        BY <1>1, <3>2
      <4>2. But(s) \in P /\ s[Len(s)] \in Nat
        <5> HIDE DEF But, D, rank, P
        <5>1. But(s) \in P
          BY <2>1, <4>1
        <5> QED  BY <5>1, <1>1, <3>2
      <4>3. 10 * Value[But(s)] + s[Len(s)] \in Nat
        BY <4>2
      <4>4. Body(s, Value) = 10 * Value[But(s)] + s[Len(s)]
        BY <3>2
      <4> HIDE DEF But, D, Body
      <4> QED  BY <3>0, <4>3, <4>4
    <3> QED  BY <3>1, <3>2
  <2> HIDE DEF P, rank
  <2> HIDE DEF D
  <2>3. Inductive(D, rank, P)
    BY <2>1, <1>5 DEF Inductive
  <2>2. D \subseteq P
    BY <2>3, RankInduction
  <2> HIDE DEF Body, D
  <2> QED  BY <1>7, <2>2 DEF P
<1> QED  BY <1>8, <1>9

(* What the scheduler reads is a number, whatever the digits that were lost. *)
LEMMA PassedType == \A n \in Nat : Passed(n) \in Nat
<1>1. ASSUME NEW n \in Nat PROVE myItoa(n) \in Seq(0 .. 9)
  <2>1. Digits[n] \in Seq(0 .. 9) /\ <<0>> \in Seq(0 .. 9)
    BY DigitsAre
  <2> QED  BY <2>1 DEF myItoa
<1> QED  BY <1>1, ValueIs DEF Passed, Atoi

(* A string of these two digits. *)
IsPair(s, b, a) == s \in Seq(0 .. 9) /\ Len(s) = 2 /\ s[1] = b /\ s[2] = a

(* The digits of a number of one digit and of two, none of them zero. *)
LEMMA ShortDigits ==
    /\ Digits[0] = <<>>
    /\ \A a \in 1 .. 9 : Digits[a] = <<a>>
    /\ \A a, b \in 1 .. 9 : IsPair(Digits[10 * a + b], b, a)
<1>1. Digits[0] = <<>>
  <2>1. 0 \in Nat /\ 0 % 10 = 0
    OBVIOUS
  <2> QED  BY <2>1, DigitsAre
<1>2. ASSUME NEW a \in 1 .. 9 PROVE Digits[a] = <<a>>
  <2>1. a % 10 = a /\ a \div 10 = 0 /\ a # 0
    OBVIOUS
  <2>2. a \in Nat /\ <<a>> \o <<>> = <<a>>
    OBVIOUS
  <2>3. Digits[a] = <<a % 10>> \o Digits[a \div 10]
    BY <2>1, <2>2, DigitsAre
  <2> QED  BY <1>1, <2>1, <2>2, <2>3
<1>3. ASSUME NEW a \in 1 .. 9, NEW b \in 1 .. 9 PROVE IsPair(Digits[10 * a + b], b, a)
  <2>1. (10 * a + b) % 10 = b /\ (10 * a + b) \div 10 = a /\ b # 0 /\ 10 * a + b \in Nat
    OBVIOUS
  <2> DEFINE x == <<b>>
             y == <<a>>
             s == x \o y
  <2>2. Digits[10 * a + b] = s
    BY <1>2, <2>1, DigitsAre
  <2>3. x \in Seq(0 .. 9) /\ Len(x) = 1 /\ x[1] = b
    OBVIOUS
  <2>4. y \in Seq(0 .. 9) /\ Len(y) = 1 /\ y[1] = a
    OBVIOUS
  <2> HIDE DEF x, y
  <2>5. /\ s \in Seq(0 .. 9) /\ Len(s) = Len(x) + Len(y)
        /\ \A i \in 1 .. Len(x) + Len(y) : s[i] = IF i <= Len(x) THEN x[i] ELSE y[i - Len(x)]
    BY <2>3, <2>4, ConcatProperties
  <2> HIDE DEF s
  <2>6. Len(s) = 2 /\ s[1] = b /\ s[2] = a
    BY <2>3, <2>4, <2>5
  <2> QED  BY <2>2, <2>5, <2>6 DEF IsPair
<1> QED  BY <1>1, <1>2, <1>3

(* atoi on a string of one digit and on one of two. *)
LEMMA ShortValues ==
    /\ Value[<<>>] = 0
    /\ \A s \in Seq(0 .. 9) : Len(s) = 1 => Value[s] = s[1]
    /\ \A s \in Seq(0 .. 9) : Len(s) = 2 => Value[s] = 10 * s[1] + s[2]
<1>1. Value[<<>>] = 0
  <2>1. <<>> \in Seq(0 .. 9)
    OBVIOUS
  <2> QED  BY <2>1, ValueIs
<1>2. ASSUME NEW s \in Seq(0 .. 9), Len(s) = 1 PROVE Value[s] = s[1]
  <2>1. SubSeq(s, 1, Len(s) - 1) = <<>>
    <3>1. Len(s) - 1 = 0
      BY <1>2
    <3> QED  BY <3>1, SubSeqEmpty
  <2>2. s # <<>> /\ s[1] \in 0 .. 9
    <3>1. 1 \in 1 .. Len(s) /\ Len(<<>>) = 0
      BY <1>2
    <3>2. s[1] \in 0 .. 9
      BY <3>1, ElementOfSeq
    <3>3. ASSUME s = <<>> PROVE FALSE
      <4>1. Len(<<>>) = 1
        BY <1>2, <3>3, Zenon
      <4> QED  BY <4>1
    <3> QED  BY <3>2, <3>3
  <2>3. Value[s] = 10 * Value[<<>>] + s[Len(s)]
    BY <2>1, <2>2, ValueIs
  <2> QED  BY <1>1, <1>2, <2>2, <2>3
<1>3. ASSUME NEW s \in Seq(0 .. 9), Len(s) = 2 PROVE Value[s] = 10 * s[1] + s[2]
  <2> DEFINE t == SubSeq(s, 1, Len(s) - 1)
  <2>1. Len(s) - 1 = 1 /\ s # <<>> /\ s[1] \in 0 .. 9 /\ s[2] \in 0 .. 9
    <3>1. 1 \in 1 .. Len(s) /\ 2 \in 1 .. Len(s) /\ Len(<<>>) = 0 /\ Len(s) - 1 = 1
      BY <1>3
    <3>2. s[1] \in 0 .. 9 /\ s[2] \in 0 .. 9
      BY <3>1, ElementOfSeq
    <3>3. ASSUME s = <<>> PROVE FALSE
      <4>1. Len(<<>>) = 2
        BY <1>3, <3>3, Zenon
      <4> QED  BY <4>1
    <3> QED  BY <3>1, <3>2, <3>3
  <2>2. t \in Seq(0 .. 9) /\ Len(t) = 1 /\ t[1] = s[1]
    <3>1. \A i \in 1 .. 1 : s[i] \in 0 .. 9
      BY <2>1
    <3> DEFINE u == SubSeq(s, 1, 1)
    <3>2. u \in Seq(0 .. 9) /\ Len(u) = 1 /\ u[1] = s[1]
      BY <3>1, SubSeqProperties
    <3>3. t = u
      BY <2>1
    <3> HIDE DEF t, u
    <3> QED  BY <3>2, <3>3
  <2>3. Value[s] = 10 * Value[t] + s[Len(s)]
    BY <2>1, ValueIs
  <2> HIDE DEF t
  <2>4. Value[t] = t[1]
    BY <1>2, <2>2
  <2> QED  BY <1>3, <2>2, <2>3, <2>4
<1> QED  BY <1>1, <1>2, <1>3

(* The numbers of the command line: those of one digit arrive as they were    *)
(* typed, those of two with their digits exchanged, and those that end in     *)
(* zero as nothing (myItoa, process_generator.c:283).                         *)
THEOREM CommandLineNumbers ==
    /\ \A n \in 0 .. 9 : Passed(n) = n
    /\ \A a, b \in 1 .. 9 : Passed(10 * a + b) = 10 * b + a
    /\ \A n \in Nat : n % 10 = 0 => Passed(n) = 0
<1>1. ASSUME NEW n \in 0 .. 9 PROVE Passed(n) = n
  <2>1. myItoa(n) = <<n>>
    <3>1. CASE n = 0
      BY <3>1 DEF myItoa
    <3>2. CASE n # 0
      <4>1. n \in 1 .. 9
        BY <3>2
      <4> QED  BY <3>2, <4>1, ShortDigits DEF myItoa
    <3> QED  BY <3>1, <3>2
  <2>2. <<n>> \in Seq(0 .. 9) /\ Len(<<n>>) = 1 /\ <<n>>[1] = n
    OBVIOUS
  <2>3. Value[<<n>>] = n
    BY <2>2, ShortValues
  <2> QED  BY <2>1, <2>3 DEF Passed, Atoi
<1>2. ASSUME NEW a \in 1 .. 9, NEW b \in 1 .. 9 PROVE Passed(10 * a + b) = 10 * b + a
  <2> DEFINE n == 10 * a + b
             s == Digits[n]
  <2>1. n # 0
    OBVIOUS
  <2>2. s \in Seq(0 .. 9) /\ Len(s) = 2 /\ s[1] = b /\ s[2] = a
    BY ShortDigits DEF IsPair
  <2> HIDE DEF n
  <2>3. Passed(n) = Value[s]
    BY <2>1 DEF Passed, Atoi, myItoa
  <2> HIDE DEF s
  <2>4. Passed(n) = 10 * b + a
    BY <2>2, <2>3, ShortValues
  <2> QED  BY <2>4 DEF n
<1>3. ASSUME NEW n \in Nat, n % 10 = 0 PROVE Passed(n) = 0
  <2>1. myItoa(n) = <<>> \/ myItoa(n) = <<0>>
    BY <1>3, DigitsAre DEF myItoa
  <2>2. Value[<<>>] = 0
    BY ShortValues
  <2>3. <<0>> \in Seq(0 .. 9) /\ Len(<<0>>) = 1 /\ <<0>>[1] = 0
    OBVIOUS
  <2>4. Value[<<0>>] = 0
    BY <2>3, ShortValues
  <2> QED  BY <2>1, <2>2, <2>4 DEF Passed, Atoi
<1> QED  BY <1>1, <1>2, <1>3

(* What the scheduler reads on its command line are numbers. *)
LEMMA ArgumentsRead == numProcesses \in Nat /\ quantum \in Nat
  BY NAssumption, QuantumAssumption, PassedType DEF numProcesses, quantum

------------------------------------------------------------------------------
(* Types.                                                                     *)

(* Taking an element out of a sequence leaves a sequence of the same set. *)
LEMMA RemoveAtType ==
    ASSUME NEW S, NEW q \in Seq(S), NEW i \in 1 .. Len(q)
    PROVE  RemoveAt(q, i) \in Seq(S)
<1>1. SubSeq(q, 1, i - 1) \in Seq(S) /\ SubSeq(q, i + 1, Len(q)) \in Seq(S)
  OBVIOUS
<1> QED  BY <1>1 DEF RemoveAt

(* Where the elements of a sequence are once one was taken out. *)
LEMMA RemoveAtIndex ==
    ASSUME NEW S, NEW q \in Seq(S), NEW i \in 1 .. Len(q)
    PROVE  /\ DOMAIN RemoveAt(q, i) = 1 .. Len(q) - 1
           /\ \A k \in 1 .. Len(q) - 1 : RemoveAt(q, i)[k] = IF k < i THEN q[k] ELSE q[k + 1]
<1> DEFINE a == SubSeq(q, 1, i - 1)
           b == SubSeq(q, i + 1, Len(q))
<1>1. a \in Seq(S) /\ b \in Seq(S)
  OBVIOUS
<1>2. Len(a) = i - 1 /\ \A k \in 1 .. Len(a) : a[k] = q[k]
  OBVIOUS
<1>3. Len(b) = Len(q) - i /\ \A k \in 1 .. Len(b) : b[k] = q[k + i]
  OBVIOUS
<1> HIDE DEF a, b
<1>4. /\ Len(a \o b) = Len(a) + Len(b)
      /\ DOMAIN (a \o b) = 1 .. Len(a \o b)
      /\ \A k \in 1 .. Len(a \o b) :
            (a \o b)[k] = IF k <= Len(a) THEN a[k] ELSE b[k - Len(a)]
  BY <1>1
<1>5. Len(q) \in Nat /\ Len(a) = i - 1 /\ Len(b) = Len(q) - i
  BY <1>2, <1>3
<1>6. \A k \in 1 .. Len(a \o b) : (a \o b)[k] = IF k < i THEN q[k] ELSE q[k + 1]
  <2> SUFFICES ASSUME NEW k \in 1 .. Len(a \o b)
               PROVE  (a \o b)[k] = IF k < i THEN q[k] ELSE q[k + 1]
    OBVIOUS
  <2>1. CASE k < i
    BY <1>2, <1>4, <1>5, <2>1
  <2>2. CASE k >= i
    <3>1. k - Len(a) \in 1 .. Len(b) /\ ~(k <= Len(a)) /\ k - Len(a) + i = k + 1
      BY <1>4, <1>5, <2>2
    <3>2. (a \o b)[k] = b[k - Len(a)]
      BY <1>4, <3>1
    <3>3. b[k - Len(a)] = q[k - Len(a) + i]
      BY <1>3, <3>1
    <3>4. ~(k < i)
      BY <1>5, <2>2
    <3> QED  BY <3>1, <3>2, <3>3, <3>4
  <2> QED  BY <2>1, <2>2
<1>7. RemoveAt(q, i) = a \o b
  BY DEF RemoveAt, a, b
<1>8. Len(a \o b) = Len(q) - 1
  BY <1>4, <1>5
<1> QED  BY <1>4, <1>6, <1>7, <1>8

(* Each update the scheduler makes to one PCB leaves a table of PCBs. *)
LEMMA PCBUpdates ==
    ASSUME NEW table \in [Procs -> PCB], NEW p \in Procs, NEW v \in Int
    PROVE  /\ [table EXCEPT ![p].remainingTime = v] \in [Procs -> PCB]
           /\ [table EXCEPT ![p].waitingTime = v] \in [Procs -> PCB]
           /\ [table EXCEPT ![p].state = "freed"] \in [Procs -> PCB]
           /\ [table EXCEPT ![p].state = "new"] \in [Procs -> PCB]
           /\ [table EXCEPT ![p].pid = TRUE] \in [Procs -> PCB]
<1>1. table[p] \in PCB
  OBVIOUS
<1>2. [table[p] EXCEPT !.remainingTime = v] \in PCB
  BY <1>1 DEF PCB
<1>3. [table[p] EXCEPT !.waitingTime = v] \in PCB
  BY <1>1 DEF PCB
<1>4. [table[p] EXCEPT !.state = "freed"] \in PCB
  BY <1>1 DEF PCB
<1>5. [table[p] EXCEPT !.pid = TRUE] \in PCB
  BY <1>1 DEF PCB
<1>6. [table[p] EXCEPT !.state = "new"] \in PCB
  BY <1>1 DEF PCB
<1> QED  BY <1>2, <1>3, <1>4, <1>5, <1>6

(* Losing or regaining the CPU leaves a PCB. *)
LEMMA StoppedType ==
    ASSUME TypeOK, NEW entry \in PCB
    PROVE  Stopped(entry) \in PCB /\ Resumed(entry) \in PCB
<1>1. entry.waitingTime + clk - entry.waitStart \in Int /\ clk \in Int
  BY DEF PCB, TypeOK, IPCTypeOK
<1>2. Stopped(entry) \in PCB
  BY <1>1 DEF Stopped, PCB
<1>3. Resumed(entry) \in PCB
  BY <1>1 DEF Resumed, PCB
<1> QED  BY <1>2, <1>3

(* The initial states are well typed. *)
LEMMA InitTypeOK == Init => TypeOK
<1> SUFFICES ASSUME Init PROVE TypeOK
  OBVIOUS
<1>1. IPCTypeOK
  BY DEF Init, IPCInit, IPCTypeOK, Removed, Signals
<1>2. GenTypeOK
  BY WorkloadsAssumption DEF Init, GenInit, GenTypeOK
<1>3. ProcTypeOK
  BY DEF Init, ProcInit, ProcTypeOK, ProcPoints
<1>4. SchedTypeOK
  <2>1. pcb \in [Procs -> PCB]
    BY DEF Init, SchedInit, PCB
  <2>2. readyQueue \in Seq(Procs) /\ ta \in [Procs -> Int] /\ allocated \subseteq Procs
    BY DEF Init, SchedInit
  <2>3. nproc \in Int /\ currQuantum \in Int /\ totalTime \in Nat /\ idleTime \in Nat
    BY ArgumentsRead DEF Init, SchedInit
  <2>4. /\ spc \in MainPoints /\ hpc \in {"main", "reap"} /\ scur \in Nat \cup {-1}
        /\ procGenFinished \in BOOLEAN /\ running \in Procs \cup {Null}
    BY DEF Init, SchedInit, MainPoints
  <2> QED  BY <2>1, <2>2, <2>3, <2>4 DEF SchedTypeOK
<1> QED  BY <1>1, <1>2, <1>3, <1>4 DEF TypeOK

(* Each action of the generator preserves the types. *)
LEMMA GeneratorType == TypeOK /\ Generator => TypeOK'
<1> SUFFICES ASSUME TypeOK, Generator PROVE TypeOK'
  OBVIOUS
<1> USE DEF TypeOK
<1>1. ProcTypeOK' /\ SchedTypeOK'
  BY DEF Generator, ProcTypeOK, SchedTypeOK, procVars, schedVars
<1> USE DEF IPCTypeOK, GenTypeOK
<1>2. CASE GenNewTick
  BY <1>1, <1>2 DEF GenNewTick, ipcVars
<1>3. CASE GenSend
  BY <1>1, <1>3 DEF GenSend, Due
<1>4. CASE GenTickDone
  BY <1>1, <1>4 DEF GenTickDone, Up, Removed
<1>5. CASE GenSignalEnd
  BY <1>1, <1>5 DEF GenSignalEnd, Signals
<1>6. CASE GenLastUp
  BY <1>1, <1>6 DEF GenLastUp, Up, Removed
<1>7. CASE GenReap
  BY <1>1, <1>7 DEF GenReap
<1> QED  BY <1>2, <1>3, <1>4, <1>5, <1>6, <1>7 DEF Generator, GenNext

(* Each action of a job preserves the types. *)
LEMMA JobType == ASSUME NEW p \in Procs PROVE TypeOK /\ Job(p) => TypeOK'
<1> SUFFICES ASSUME TypeOK, Job(p) PROVE TypeOK'
  OBVIOUS
<1> USE DEF TypeOK
<1>1. GenTypeOK' /\ SchedTypeOK'
  BY DEF Job, GenTypeOK, SchedTypeOK, genVars, schedVars
<1> USE DEF IPCTypeOK, ProcTypeOK, ProcPoints
<1>2. CASE ProcBind(p)
  BY <1>1, <1>2 DEF ProcBind, ipcVars
<1>3. CASE ProcSigEarly(p)
  <2>1. IPCTypeOK'
    BY <1>3 DEF ProcSigEarly
  <2>2. ProcTypeOK'
    BY <1>3 DEF ProcSigEarly
  <2> QED  BY <1>1, <2>1, <2>2
<1>4. CASE ProcRead(p)
  <2>1. IPCTypeOK'
    BY <1>4 DEF ProcRead
  <2>2. ProcTypeOK'
    BY <1>4 DEF ProcRead
  <2> QED  BY <1>1, <2>1, <2>2
<1>5. CASE ProcTick(p)
  <2>1. remainingtime[p] - 1 \in Int
    OBVIOUS
  <2>2. ppc' \in [Procs -> ProcPoints] /\ UNCHANGED blocked
    BY <1>5 DEF ProcTick
  <2>3. remainingtime' \in [Procs -> Int] /\ curTime' \in [Procs -> Nat]
    BY <1>5, <2>1 DEF ProcTick
  <2>4. IPCTypeOK'
    BY <1>5, <2>1 DEF ProcTick
  <2> QED  BY <1>1, <2>2, <2>3, <2>4
<1>6. CASE ProcUp(p)
  <2>1. IPCTypeOK'
    BY <1>6 DEF ProcUp, Up, Removed
  <2>2. ProcTypeOK'
    BY <1>6 DEF ProcUp, Looping
  <2> QED  BY <1>1, <2>1, <2>2
<1>7. CASE ProcSettle(p)
  BY <1>1, <1>7 DEF ProcSettle, ipcVars
<1>8. CASE SigSleepHandler(p)
  <2>1. IPCTypeOK'
    BY <1>8 DEF SigSleepHandler
  <2>2. blocked' \in [Procs -> BOOLEAN] /\ curTime' \in [Procs -> Nat]
    BY <1>8 DEF SigSleepHandler
  <2>3. ppc' \in [Procs -> ProcPoints] /\ UNCHANGED remainingtime
    BY <1>8 DEF SigSleepHandler, Looping
  <2> QED  BY <1>1, <2>1, <2>2, <2>3
<1>9. CASE ProcKill(p)
  <2>1. IPCTypeOK'
    BY <1>9 DEF ProcKill, Signals
  <2>2. ProcTypeOK'
    BY <1>9 DEF ProcKill
  <2> QED  BY <1>1, <2>1, <2>2
<1>10. CASE ProcLast(p)
  <2>1. IPCTypeOK'
    BY <1>10 DEF ProcLast, Up, Removed
  <2>2. ProcTypeOK'
    BY <1>10 DEF ProcLast
  <2> QED  BY <1>1, <2>1, <2>2
<1> QED  BY <1>2, <1>3, <1>4, <1>5, <1>6, <1>7, <1>8, <1>9, <1>10 DEF Job, ProcNext

(* A fault only moves spc, hpc and the zombies. *)
LEMMA FaultType == TypeOK /\ Fault /\ UNCHANGED genVars => TypeOK'
<1> SUFFICES ASSUME TypeOK, Fault, UNCHANGED genVars PROVE TypeOK'
  OBVIOUS
<1>1. GenTypeOK' /\ ProcTypeOK'
  BY DEF Fault, TypeOK, GenTypeOK, ProcTypeOK, genVars, procVars
<1>2. IPCTypeOK'
  BY DEF Fault, TypeOK, IPCTypeOK
<1>3. SchedTypeOK'
  BY DEF Fault, TypeOK, SchedTypeOK, MainPoints
<1> QED  BY <1>1, <1>2, <1>3 DEF TypeOK

(* Each action of the scheduler preserves the types. *)
LEMMA SchedulingType == TypeOK /\ Scheduling => TypeOK'
<1> SUFFICES ASSUME TypeOK, Scheduling PROVE TypeOK'
  OBVIOUS
<1> USE DEF TypeOK
<1>1. UNCHANGED genVars /\ GenTypeOK'
  BY DEF Scheduling, GenTypeOK, genVars
<1>2. CASE Fault
  BY <1>1, <1>2, FaultType
<1> USE DEF MainPoints
<1>3. CASE SchedBoot
  <2>1. IPCTypeOK' /\ ProcTypeOK'
    BY <1>3 DEF SchedBoot, IPCTypeOK, ProcTypeOK, procVars
  <2>2. SchedTypeOK'
    BY <1>3 DEF SchedBoot, SchedTypeOK, HandlerUnchanged
  <2> QED  BY <1>1, <2>1, <2>2
<1>4. CASE SchedKilledEarly
  BY <1>2, <1>4 DEF SchedKilledEarly
<1>5. CASE SchedNewTick
  <2>1. IPCTypeOK' /\ ProcTypeOK'
    BY <1>5 DEF SchedNewTick, IPCTypeOK, ProcTypeOK, procVars, ipcVars
  <2>2. SchedTypeOK'
    BY <1>5 DEF SchedNewTick, SchedTypeOK, HandlerUnchanged, IPCTypeOK
  <2> QED  BY <1>1, <2>1, <2>2
<1>6. CASE SchedExit
  <2>1. IPCTypeOK' /\ ProcTypeOK'
    BY <1>6 DEF SchedExit, IPCTypeOK, ProcTypeOK, procVars
  <2>2. SchedTypeOK'
    BY <1>6 DEF SchedExit, SchedTypeOK, HandlerUnchanged
  <2> QED  BY <1>1, <2>1, <2>2
<1>7. CASE DownGen
  <2>1. IPCTypeOK' /\ ProcTypeOK'
    BY <1>7 DEF DownGen, IPCTypeOK, ProcTypeOK, procVars, CanDown, Down
  <2>2. SchedTypeOK'
    BY <1>7 DEF DownGen, SchedTypeOK, HandlerUnchanged
  <2> QED  BY <1>1, <2>1, <2>2
<1>8. CASE CheckRunning
  <2>1. IPCTypeOK' /\ ProcTypeOK'
    BY <1>8 DEF CheckRunning, IPCTypeOK, ProcTypeOK, procVars, ipcVars
  <2>2. SchedTypeOK'
    BY <1>8 DEF CheckRunning, SchedTypeOK, HandlerUnchanged
  <2> QED  BY <1>1, <2>1, <2>2
<1>9. CASE DownProc
  <2>1. IPCTypeOK' /\ ProcTypeOK'
    BY <1>9 DEF DownProc, IPCTypeOK, ProcTypeOK, procVars, CanDown, Down, Removed
  <2>2. SchedTypeOK'
    BY <1>9 DEF DownProc, SchedTypeOK, HandlerUnchanged
  <2> QED  BY <1>1, <2>1, <2>2
<1>10. CASE ReadMSGQ
  <2> SUFFICES ASSUME ~Fault PROVE TypeOK'
    BY <1>2
  <2>1. Head(msgq) \in Procs /\ Tail(msgq) \in Seq(Procs)
    BY <1>10 DEF ReadMSGQ, IPCTypeOK
  <2>2. IPCTypeOK' /\ ProcTypeOK'
    BY <1>10, <2>1 DEF ReadMSGQ, IPCTypeOK, ProcTypeOK, procVars
  <2>3. pcb' \in [Procs -> PCB]
    <3>1. pcb' = [pcb EXCEPT ![Head(msgq)].state = "new"]
      BY <1>10 DEF ReadMSGQ
    <3> QED  BY <2>1, <3>1, PCBUpdates DEF SchedTypeOK
  <2>4. SchedTypeOK'
    BY <1>10, <2>3 DEF ReadMSGQ, SchedTypeOK, HandlerUnchanged
  <2> QED  BY <1>1, <2>2, <2>4
<1>11. CASE CreateEntry
  <2>1. PICK p \in Procs : EntryRefused(p) \/ EntryCreated(p)
    BY <1>11 DEF CreateEntry
  <2>2. IPCTypeOK' /\ ProcTypeOK'
    BY <1>11 DEF CreateEntry, IPCTypeOK, ProcTypeOK, procVars, ipcVars
  <2>3. CASE EntryRefused(p)
    <3>1. pcb' \in [Procs -> PCB]
      BY <2>3, PCBUpdates DEF EntryRefused, SchedTypeOK
    <3> QED  BY <1>1, <1>11, <2>2, <2>3, <3>1
             DEF CreateEntry, EntryRefused, SchedTypeOK, HandlerUnchanged
  <2>4. CASE EntryCreated(p)
    <3>1. /\ processes[p].runTime \in Int
          /\ processes[p].priority \in Int
      BY DEF GenTypeOK, process_t
    <3>2. pcb' \in [Procs -> PCB]
      BY <2>4, <3>1 DEF EntryCreated, SchedTypeOK, PCB
    <3>3. readyQueue' \in Seq(Procs) /\ allocated' \subseteq Procs
      BY <2>4 DEF EntryCreated, SchedTypeOK, Inserted
    <3> QED  BY <1>1, <1>11, <2>2, <2>4, <3>2, <3>3
             DEF CreateEntry, EntryCreated, SchedTypeOK, HandlerUnchanged
  <2> QED  BY <2>1, <2>3, <2>4
<1>12. CASE ReadDone
  <2>1. IPCTypeOK' /\ ProcTypeOK'
    BY <1>12 DEF ReadDone, IPCTypeOK, ProcTypeOK, procVars, ipcVars
  <2>2. SchedTypeOK'
    BY <1>12 DEF ReadDone, SchedTypeOK, HandlerUnchanged
  <2> QED  BY <1>1, <2>1, <2>2
<1>13. CASE Schedule
  <2>1. IPCTypeOK' /\ ProcTypeOK'
    BY <1>13 DEF Schedule, AlgorithmPath, IPCTypeOK, ProcTypeOK, procVars, ipcVars
  <2>2. SchedTypeOK'
    BY <1>13 DEF Schedule, AlgorithmPath, SchedTypeOK, HandlerUnchanged
  <2> QED  BY <1>1, <2>1, <2>2
<1>14. CASE Charge
  <2> SUFFICES ASSUME ~Fault PROVE TypeOK'
    BY <1>2
  <2>1. running \in Procs /\ shm \in Int /\ clk \in Int
    BY <1>14 DEF Charge, SchedTypeOK, IPCTypeOK
  <2>2. IPCTypeOK' /\ ProcTypeOK'
    BY <1>14 DEF Charge, IPCTypeOK, ProcTypeOK, procVars, ipcVars
  <2>3. Inserted(readyQueue, running) \in Seq(Procs)
    BY <2>1 DEF SchedTypeOK, Inserted
  <2>4. pcb' \in [Procs -> PCB] /\ readyQueue' \in Seq(Procs) /\ currQuantum' \in Int
        /\ spc' \in MainPoints
    <3>1. CASE HPFSheduler
      BY <2>1, <3>1, PCBUpdates DEF HPFSheduler, SchedTypeOK
    <3>2. CASE SRTNSheduler
      <4>1. pcb[running] \in PCB
        BY <2>1 DEF SchedTypeOK
      <4>2. [pcb[running] EXCEPT !.remainingTime = shm, !.priority = shm] \in PCB
        BY <2>1, <4>1 DEF PCB
      <4>3. Stopped([pcb[running] EXCEPT !.remainingTime = shm, !.priority = shm]) \in PCB
        BY <4>2, StoppedType
      <4> QED  BY <2>1, <2>3, <3>2, <4>2, <4>3 DEF SRTNSheduler, SchedTypeOK
    <3>3. CASE RRSheduler
      <4>1. pcb' \in [Procs -> PCB]
        BY <2>1, <3>3, PCBUpdates DEF RRSheduler, SchedTypeOK
      <4> QED  BY <2>3, <3>3, <4>1 DEF RRSheduler, SchedTypeOK
    <3> QED  BY <1>14, <3>1, <3>2, <3>3 DEF Charge
  <2>5. SchedTypeOK'
    BY <1>14, <2>4 DEF Charge, SchedTypeOK, HandlerUnchanged
  <2> QED  BY <1>1, <2>2, <2>5
<1>15. CASE StopRunning
  <2> SUFFICES ASSUME ~Fault PROVE TypeOK'
    BY <1>2
  <2>1. running \in Procs /\ clk \in Int
    BY <1>15 DEF StopRunning, SchedTypeOK, IPCTypeOK
  <2>2. IPCTypeOK' /\ ProcTypeOK'
    BY <1>15, <2>1 DEF StopRunning, ToggleRunning, Sleep, IPCTypeOK, ProcTypeOK, procVars
  <2>3. pcb' \in [Procs -> PCB]
    <3>1. pcb' = pcb \/ pcb' = [pcb EXCEPT ![running] = Stopped(pcb[running])]
      BY <1>15 DEF StopRunning
    <3> QED  BY <2>1, <3>1, StoppedType DEF SchedTypeOK
  <2>4. SchedTypeOK'
    BY <1>15, <2>3 DEF StopRunning, SchedTypeOK, HandlerUnchanged
  <2> QED  BY <1>1, <2>2, <2>4
<1>16. CASE Pick
  <2> SUFFICES ASSUME ~Fault PROVE TypeOK'
    BY <1>2
  <2>1. IPCTypeOK' /\ ProcTypeOK'
    BY <1>16 DEF Pick, IPCTypeOK, ProcTypeOK, procVars, ipcVars
  <2>2. PICK i \in First(readyQueue) :
           /\ running' = readyQueue[i]
           /\ readyQueue' = RemoveAt(readyQueue, i)
           /\ currQuantum' = IF SchedulerType = 1 THEN quantum ELSE currQuantum
           /\ spc' \in MainPoints
           /\ UNCHANGED <<scur, pcb, nproc, totalTime, idleTime, allocated>>
           /\ HandlerUnchanged
    BY <1>16 DEF Pick
  <2>3. i \in 1 .. Len(readyQueue) /\ readyQueue[i] \in Procs
    BY <2>2 DEF First, SchedTypeOK
  <2>4. RemoveAt(readyQueue, i) \in Seq(Procs)
    BY <2>3, RemoveAtType DEF SchedTypeOK
  <2>5. SchedTypeOK'
    BY <2>2, <2>3, <2>4, ArgumentsRead DEF SchedTypeOK, HandlerUnchanged
  <2> QED  BY <1>1, <2>1, <2>5
<1>17. CASE StartRunning
  <2> SUFFICES ASSUME ~Fault PROVE TypeOK'
    BY <1>2
  <2>1. running \in Procs
    BY <1>17 DEF StartRunning, SchedTypeOK
  <2>2. /\ pcb[running].remainingTime \in Int
        /\ clk - processes[running].arrivalTime \in Int
    BY <2>1 DEF SchedTypeOK, PCB, GenTypeOK, process_t, IPCTypeOK
  <2>3. IPCTypeOK'
    BY <1>17, <2>2 DEF StartRunning, IPCTypeOK
  <2>4. ProcTypeOK'
    BY <1>17 DEF StartRunning, ProcTypeOK, ProcPoints
  <2>5. pcb' \in [Procs -> PCB]
    <3>1. pcb' = [pcb EXCEPT ![running].waitingTime = clk - processes[running].arrivalTime]
      BY <1>17 DEF StartRunning
    <3> QED  BY <2>1, <2>2, <3>1, PCBUpdates DEF SchedTypeOK
  <2>6. SchedTypeOK'
    BY <1>17, <2>5 DEF StartRunning, SchedTypeOK, HandlerUnchanged
  <2> QED  BY <1>1, <2>3, <2>4, <2>6
<1>18. CASE AssignPid
  <2> SUFFICES ASSUME ~Fault PROVE TypeOK'
    BY <1>2
  <2>1. IPCTypeOK' /\ ProcTypeOK'
    BY <1>18 DEF AssignPid, IPCTypeOK, ProcTypeOK, procVars, ipcVars
  <2>2. pcb' \in [Procs -> PCB]
    <3>1. running # Null /\ pcb' = [pcb EXCEPT ![running].pid = TRUE]
      BY <1>18 DEF AssignPid
    <3> QED  BY <3>1, PCBUpdates DEF SchedTypeOK
  <2>3. SchedTypeOK'
    BY <1>18, <2>2 DEF AssignPid, SchedTypeOK, HandlerUnchanged
  <2> QED  BY <1>1, <2>1, <2>3
<1>19. CASE ResumeRunning
  <2> SUFFICES ASSUME ~Fault PROVE TypeOK'
    BY <1>2
  <2>1. running \in Procs
    BY <1>19 DEF ResumeRunning, SchedTypeOK
  <2>2. pcb[running] \in PCB
    BY <2>1 DEF SchedTypeOK
  <2>4. IPCTypeOK' /\ ProcTypeOK'
    BY <1>19, <2>1 DEF ResumeRunning, ToggleRunning, Sleep, IPCTypeOK, ProcTypeOK, procVars
  <2>6. pcb' \in [Procs -> PCB]
    <3>1. pcb' = [pcb EXCEPT ![running] = Resumed(pcb[running])]
      BY <1>19 DEF ResumeRunning
    <3> QED  BY <2>1, <2>2, <3>1, StoppedType DEF SchedTypeOK
  <2>7. SchedTypeOK'
    BY <1>19, <2>6 DEF ResumeRunning, SchedTypeOK, HandlerUnchanged
  <2> QED  BY <1>1, <2>4, <2>7
<1>20. CASE ReadProcess
  <2>1. IPCTypeOK' /\ ProcTypeOK'
    BY <1>20 DEF ReadProcess, IPCTypeOK, ProcTypeOK, procVars
  <2>2. SchedTypeOK'
    BY <1>20 DEF ReadProcess, SchedTypeOK
  <2> QED  BY <1>1, <2>1, <2>2
<1>21. CASE ProcFinished
  <2> SUFFICES ASSUME ~Fault PROVE TypeOK'
    BY <1>2
  <2>1. running \in Procs
    BY <1>21 DEF ProcFinished, SchedTypeOK
  <2>2. shm \in Int /\ clk - processes[running].arrivalTime \in Int
    BY <2>1 DEF GenTypeOK, process_t, IPCTypeOK
  <2>3. IPCTypeOK' /\ ProcTypeOK'
    BY <1>21 DEF ProcFinished, IPCTypeOK, ProcTypeOK, procVars
  <2>4. pcb' \in [Procs -> PCB] /\ ta' \in [Procs -> Int]
    <3>1. pcb' = [pcb EXCEPT ![running].remainingTime = shm]
      BY <1>21 DEF ProcFinished
    <3>2. pcb' \in [Procs -> PCB]
      BY <2>1, <2>2, <3>1, PCBUpdates DEF SchedTypeOK
    <3>3. ta' \in [Procs -> Int]
      BY <1>21, <2>2 DEF ProcFinished, SchedTypeOK
    <3> QED  BY <3>2, <3>3
  <2>5. SchedTypeOK'
    BY <1>21, <2>4 DEF ProcFinished, SchedTypeOK
  <2> QED  BY <1>1, <2>3, <2>5
<1>22. CASE ProcReaped
  <2>1. IPCTypeOK' /\ ProcTypeOK'
    BY <1>22 DEF ProcReaped, Waitpid, IPCTypeOK, ProcTypeOK, procVars
  <2>2. pcb' \in [Procs -> PCB]
    <3>1. CASE running \in Procs
      BY <1>22, <3>1, PCBUpdates DEF ProcReaped, Waitpid, SchedTypeOK
    <3>2. CASE running \notin Procs
      BY <1>22, <3>2 DEF ProcReaped, Waitpid, SchedTypeOK
    <3> QED  BY <3>1, <3>2
  <2>3. SchedTypeOK'
    BY <1>22, <2>2 DEF ProcReaped, Waitpid, SchedTypeOK
  <2> QED  BY <1>1, <2>1, <2>3
<1> QED
  BY <1>3, <1>4, <1>5, <1>6, <1>7, <1>8, <1>9, <1>10, <1>11, <1>12, <1>13, <1>14, <1>15,
     <1>16, <1>17, <1>18, <1>19, <1>20, <1>21, <1>22 DEF Scheduling, SchedNext

(* The clock counts up from a natural number. *)
LEMMA ClockType == TypeOK /\ Clock => TypeOK'
<1> SUFFICES ASSUME TypeOK, Clock PROVE TypeOK'
  OBVIOUS
<1>1. GenTypeOK' /\ ProcTypeOK' /\ SchedTypeOK'
  BY DEF Clock, TypeOK, GenTypeOK, ProcTypeOK, SchedTypeOK, genVars, procVars, schedVars
<1>2. IPCTypeOK'
  BY DEF Clock, ClockTick, TypeOK, IPCTypeOK
<1> QED  BY <1>1, <1>2 DEF TypeOK

(* Nothing moves, nothing loses its type. *)
LEMMA StutterType == TypeOK /\ UNCHANGED vars => TypeOK'
  BY DEF TypeOK, IPCTypeOK, GenTypeOK, ProcTypeOK, SchedTypeOK,
         vars, ipcVars, genVars, procVars, schedVars

(* Every reachable state is well typed. *)
THEOREM TypeCorrect == Spec => []TypeOK
<1>1. TypeOK /\ [Next]_vars => TypeOK'
  BY GeneratorType, JobType, SchedulingType, ClockType, StutterType
     DEF Next, Terminated
<1> QED  BY InitTypeOK, <1>1, PTL DEF Spec

------------------------------------------------------------------------------
(* Nobody early: arrivals, waits.                                             *)

(* Whoever was sent had arrived by then, and only what was sent goes on: to   *)
(* the message queue, CreateEntry, the ready queue, the CPU and fork().       *)
SentOnly ==
    /\ gcur <= clk
    /\ \A p \in arrived : processes[p].arrivalTime <= clk
    /\ \A i \in DOMAIN msgq : msgq[i] \in arrived
    /\ \A p \in Procs : pcb[p].state = "new" => p \in arrived
    /\ \A i \in DOMAIN readyQueue : readyQueue[i] \in arrived
    /\ running # Null => running \in arrived
    /\ \A p \in Procs : ppc[p] # "none" => p \in arrived

(* Waits begin in the past and have not lasted a negative time. *)
WaitsOK == \A p \in Procs : pcb[p].waitStart <= clk /\ pcb[p].waitingTime >= 0

ArrivalInv == SentOnly /\ WaitsOK

(* Initially nothing was sent and nothing waited. *)
LEMMA ArrivalInit == Init => ArrivalInv
<1> SUFFICES ASSUME Init PROVE ArrivalInv
  OBVIOUS
<1>1. SentOnly
  BY DEF Init, IPCInit, GenInit, ProcInit, SchedInit, SentOnly
<1>2. WaitsOK
  BY DEF Init, IPCInit, SchedInit, WaitsOK
<1> QED  BY <1>1, <1>2 DEF ArrivalInv

(* Time only helps. *)
LEMMA ArrivalClock == ASSUME TypeOK, ArrivalInv, Clock PROVE ArrivalInv'
<1>1. /\ clk \in Int /\ clk' = clk + 1
      /\ UNCHANGED <<gcur, arrived, processes, msgq, readyQueue, running, ppc, pcb>>
  BY DEF Clock, ClockTick, genVars, procVars, schedVars, TypeOK, IPCTypeOK
<1>2. \A p \in arrived : processes[p].arrivalTime \in Int
  BY DEF TypeOK, GenTypeOK, process_t
<1>3. gcur \in Int /\ \A p \in Procs : pcb[p].waitStart \in Int
  BY DEF TypeOK, GenTypeOK, SchedTypeOK, PCB
<1>4. SentOnly'
  BY <1>1, <1>2, <1>3 DEF ArrivalInv, SentOnly
<1>5. WaitsOK'
  BY <1>1, <1>3 DEF ArrivalInv, WaitsOK
<1> QED  BY <1>4, <1>5 DEF ArrivalInv

(* The generator sends only what is due. *)
LEMMA ArrivalGenerator == ASSUME TypeOK, ArrivalInv, Generator PROVE ArrivalInv'
<1>1. UNCHANGED <<clk, readyQueue, running, ppc, pcb, processes>>
  BY DEF Generator, GenNext, GenNewTick, GenSend, GenTickDone, GenSignalEnd,
         GenLastUp, GenReap, ipcVars, procVars, schedVars
<1>2. WaitsOK'
  BY <1>1 DEF ArrivalInv, WaitsOK
<1>3. SentOnly'
  <2>1. CASE GenSend
    <3>1. PICK i \in Due : arrived' = arrived \cup {i} /\ msgq' = Append(msgq, i)
      BY <2>1 DEF GenSend
    <3>2. i \in Procs /\ processes[i].arrivalTime <= gcur /\ gcur' = gcur
      BY <2>1, <3>1 DEF GenSend, Due
    <3>3. processes[i].arrivalTime \in Int /\ gcur \in Int /\ clk \in Int
      BY <3>2 DEF TypeOK, GenTypeOK, process_t, IPCTypeOK
    <3>4. processes[i].arrivalTime <= clk
      BY <3>2, <3>3 DEF ArrivalInv, SentOnly
    <3>5. \A k \in DOMAIN msgq' : msgq'[k] \in arrived'
      BY <3>1, <3>2 DEF ArrivalInv, SentOnly, TypeOK, IPCTypeOK
    <3> QED  BY <1>1, <3>1, <3>2, <3>4, <3>5 DEF ArrivalInv, SentOnly
  <2>2. CASE GenNewTick
    BY <1>1, <2>2 DEF GenNewTick, ipcVars, ArrivalInv, SentOnly, TypeOK, IPCTypeOK
  <2>3. CASE GenTickDone \/ GenSignalEnd \/ GenLastUp \/ GenReap
    BY <1>1, <2>3 DEF GenTickDone, GenSignalEnd, GenLastUp, GenReap, ArrivalInv, SentOnly
  <2> QED  BY <2>1, <2>2, <2>3 DEF Generator, GenNext
<1> QED  BY <1>2, <1>3 DEF ArrivalInv

(* A job steps only once it is forked. *)
LEMMA ArrivalJob ==
    ASSUME TypeOK, ArrivalInv, NEW p \in Procs, Job(p)
    PROVE  ArrivalInv'
<1>1. UNCHANGED <<gcur, arrived, processes, readyQueue, running, pcb>>
  BY DEF Job, genVars, schedVars
<1>2. UNCHANGED <<clk, msgq>> /\ ppc[p] # "none" /\ \A q \in Procs : q # p => ppc'[q] = ppc[q]
  BY DEF Job, ProcNext, ProcBind, ProcSigEarly, ProcRead, ProcTick, ProcUp, ProcSettle,
         SigSleepHandler, ProcKill, ProcLast, ipcVars, TypeOK, ProcTypeOK
<1> QED  BY <1>1, <1>2 DEF ArrivalInv, SentOnly, WaitsOK

(* RemoveAt keeps only elements of the sequence. *)
LEMMA RemoveAtElements ==
    ASSUME NEW S, NEW q \in Seq(S), NEW i \in 1 .. Len(q)
    PROVE  \A k \in DOMAIN RemoveAt(q, i) : \E j \in DOMAIN q : RemoveAt(q, i)[k] = q[j]
<1>1. \A k \in 1 .. Len(q) - 1 : k \in DOMAIN q /\ k + 1 \in DOMAIN q
  OBVIOUS
<1> QED  BY <1>1, RemoveAtIndex

(* Append adds one element. *)
LEMMA AppendElements ==
    ASSUME NEW S, NEW T, NEW q \in Seq(S), NEW e \in S \cap T,
           \A i \in DOMAIN q : q[i] \in T
    PROVE  \A i \in DOMAIN Append(q, e) : Append(q, e)[i] \in T
  OBVIOUS

(* The steps of the scheduler that leave queues, CPU and PCBs alone. *)
LEMMA ArrivalFrame ==
    ASSUME ArrivalInv,
           UNCHANGED <<clk, gcur, arrived, processes, msgq, readyQueue, running, ppc, pcb>>
    PROVE  ArrivalInv'
  BY DEF ArrivalInv, SentOnly, WaitsOK

(* Only ReadMSGQ begins a PCB: no other update to a PCB makes it new. *)
LEMMA NoNewEntry ==
    ASSUME TypeOK, ~Fault,
           Charge \/ StopRunning \/ StartRunning \/ AssignPid \/ ResumeRunning
           \/ ProcFinished \/ ProcReaped
    PROVE  \A q \in Procs : pcb'[q].state = "new" => pcb[q].state = "new"
<1>1. pcb \in [Procs -> PCB]
  BY DEF TypeOK, SchedTypeOK
<1>2. CASE Charge
  <2>1. CASE HPFSheduler \/ RRSheduler
    BY <1>1, <2>1 DEF HPFSheduler, RRSheduler, PCB
  <2>2. CASE SRTNSheduler
    <3> DEFINE left == [pcb[running] EXCEPT !.remainingTime = shm, !.priority = shm]
    <3>1. running \in Procs
      BY <1>2 DEF Charge, TypeOK, SchedTypeOK
    <3>2. pcb' = [pcb EXCEPT ![running] = Stopped(left)] \/ pcb' = [pcb EXCEPT ![running] = left]
      BY <2>2 DEF SRTNSheduler
    <3>3. left.state = pcb[running].state /\ Stopped(left).state # "new"
      BY <1>1, <3>1 DEF Stopped, PCB
    <3> HIDE DEF left
    <3> QED  BY <1>1, <3>1, <3>2, <3>3
  <2> QED  BY <1>2, <2>1, <2>2 DEF Charge
<1>3. CASE StopRunning
  <2>1. pcb' = pcb \/ pcb' = [pcb EXCEPT ![running] = Stopped(pcb[running])]
    BY <1>3 DEF StopRunning
  <2>2. running \in Procs /\ Stopped(pcb[running]).state # "new"
    BY <1>1, <1>3 DEF StopRunning, Stopped, TypeOK, SchedTypeOK, PCB
  <2> QED  BY <1>1, <2>1, <2>2
<1>4. CASE StartRunning \/ AssignPid
  <2>1. \/ pcb' = [pcb EXCEPT ![running].waitingTime = clk - processes[running].arrivalTime]
        \/ pcb' = [pcb EXCEPT ![running].pid = TRUE]
    BY <1>4 DEF StartRunning, AssignPid
  <2> QED  BY <1>1, <2>1 DEF PCB
<1>5. CASE ResumeRunning
  <2>1. pcb' = [pcb EXCEPT ![running] = Resumed(pcb[running])] /\ running \in Procs
    BY <1>5 DEF ResumeRunning, TypeOK, SchedTypeOK
  <2>2. Resumed(pcb[running]).state # "new"
    BY <1>1, <2>1 DEF Resumed, PCB
  <2> QED  BY <1>1, <2>1, <2>2
<1>6. CASE ProcFinished \/ ProcReaped
  <2>1. \/ pcb' = [pcb EXCEPT ![running].remainingTime = shm]
        \/ pcb' = [pcb EXCEPT ![running].state = "freed"]
    BY <1>6 DEF ProcFinished, ProcReaped
  <2> QED  BY <1>1, <2>1 DEF PCB
<1> QED  BY <1>2, <1>3, <1>4, <1>5, <1>6

(* The scheduler moves processes along and stamps the waits with the clock. *)
LEMMA ArrivalScheduling == ASSUME TypeOK, ArrivalInv, Scheduling PROVE ArrivalInv'
<1>1. UNCHANGED <<clk, gcur, arrived, processes>> /\ clk \in Nat
  BY DEF Scheduling, SchedNext, genVars, ipcVars, SchedBoot, SchedKilledEarly, Fault,
         SchedNewTick, SchedExit, DownGen, CheckRunning, DownProc, ReadMSGQ, CreateEntry, ReadDone,
         Schedule, Charge, StopRunning, Pick, StartRunning, AssignPid, ResumeRunning,
         ReadProcess, ProcFinished, ProcReaped, TypeOK, IPCTypeOK
<1>2. /\ \A p \in Procs : pcb[p] \in PCB
      /\ \A p \in Procs : processes[p].arrivalTime \in Nat
      /\ pcb \in [Procs -> PCB] /\ readyQueue \in Seq(Procs) /\ msgq \in Seq(Procs)
      /\ arrived \subseteq Procs
  BY DEF TypeOK, SchedTypeOK, GenTypeOK, process_t, IPCTypeOK
<1>3. CASE Fault
  BY <1>1, <1>3, ArrivalFrame DEF Fault, procVars
<1>4. CASE \/ SchedBoot \/ SchedNewTick \/ SchedExit \/ DownGen \/ CheckRunning
           \/ DownProc \/ ReadDone \/ Schedule \/ ReadProcess
  BY <1>1, <1>4, ArrivalFrame
     DEF SchedBoot, SchedNewTick, SchedExit, DownGen, CheckRunning, DownProc, ReadDone,
         Schedule, ReadProcess, ipcVars, procVars
<1>5. CASE SchedKilledEarly
  BY <1>3, <1>5 DEF SchedKilledEarly
<1>6. CASE ReadMSGQ
  <2> SUFFICES ASSUME ~Fault PROVE ArrivalInv'
    BY <1>3
  <2>1. Head(msgq) \in arrived /\ Head(msgq) \in Procs
        /\ \A i \in DOMAIN Tail(msgq) : Tail(msgq)[i] \in arrived
    BY <1>2, <1>6 DEF ReadMSGQ, ArrivalInv, SentOnly
  <2>2. pcb' = [pcb EXCEPT ![Head(msgq)].state = "new"] /\ msgq' = Tail(msgq)
        /\ UNCHANGED <<readyQueue, running, ppc>>
    BY <1>6 DEF ReadMSGQ, procVars
  <2>3. \A p \in Procs : /\ pcb'[p].waitStart = pcb[p].waitStart
                         /\ pcb'[p].waitingTime = pcb[p].waitingTime
                         /\ pcb'[p].state = "new" => pcb[p].state = "new" \/ p = Head(msgq)
    BY <1>2, <2>1, <2>2 DEF PCB
  <2>4. SentOnly'
    BY <1>1, <2>1, <2>2, <2>3 DEF ArrivalInv, SentOnly
  <2>5. WaitsOK'
    BY <1>1, <2>3 DEF ArrivalInv, WaitsOK
  <2> QED  BY <2>4, <2>5 DEF ArrivalInv
<1>7. CASE CreateEntry
  <2>1. PICK p \in Procs : pcb[p].state = "new" /\ (EntryRefused(p) \/ EntryCreated(p))
    BY <1>7 DEF CreateEntry
  <2>2. UNCHANGED <<msgq, running, ppc>> /\ p \in arrived
    BY <1>7, <2>1 DEF CreateEntry, ipcVars, procVars, ArrivalInv, SentOnly
  <2>3. \A i \in DOMAIN readyQueue' : readyQueue'[i] \in arrived
    <3>1. readyQueue' = readyQueue \/ readyQueue' = Append(readyQueue, p)
      BY <2>1 DEF EntryRefused, EntryCreated, Inserted
    <3> QED  BY <1>2, <2>2, <3>1, AppendElements DEF ArrivalInv, SentOnly
  <2>4. \A q \in Procs : pcb'[q].state = "new" => pcb[q].state = "new"
    BY <1>2, <2>1 DEF EntryRefused, EntryCreated
  <2>5. SentOnly'
    BY <1>1, <2>2, <2>3, <2>4 DEF ArrivalInv, SentOnly
  <2>6. WaitsOK'
    <3>1. CASE EntryRefused(p)
      BY <1>1, <1>2, <3>1 DEF EntryRefused, PCB, ArrivalInv, WaitsOK
    <3>2. CASE EntryCreated(p)
      BY <1>1, <1>2, <3>2 DEF EntryCreated, ArrivalInv, WaitsOK
    <3> QED  BY <2>1, <3>1, <3>2
  <2> QED  BY <2>5, <2>6 DEF ArrivalInv
<1>8. CASE Charge
  <2> SUFFICES ASSUME ~Fault PROVE ArrivalInv'
    BY <1>3
  <2>1. running \in Procs /\ running \in arrived
    BY <1>8 DEF Charge, ArrivalInv, SentOnly, TypeOK, SchedTypeOK
  <2>2. \A i \in DOMAIN readyQueue' : readyQueue'[i] \in arrived
    <3>1. readyQueue' = readyQueue \/ readyQueue' = Append(readyQueue, running)
      BY <1>8 DEF Charge, HPFSheduler, SRTNSheduler, RRSheduler, Inserted
    <3> QED  BY <1>2, <2>1, <3>1, AppendElements DEF ArrivalInv, SentOnly
  <2>3. SentOnly'
    BY <1>1, <1>8, <2>2, NoNewEntry DEF Charge, ipcVars, procVars, ArrivalInv, SentOnly
  <2>4. WaitsOK'
    <3>1. CASE HPFSheduler \/ RRSheduler
      BY <1>1, <1>2, <2>1, <3>1 DEF HPFSheduler, RRSheduler, PCB, ArrivalInv, WaitsOK
    <3>2. CASE SRTNSheduler
      <4> DEFINE left == [pcb[running] EXCEPT !.remainingTime = shm, !.priority = shm]
      <4>1. pcb' = [pcb EXCEPT ![running] = Stopped(left)] \/ pcb' = [pcb EXCEPT ![running] = left]
        BY <3>2 DEF SRTNSheduler
      <4>2. /\ left.waitStart = pcb[running].waitStart
            /\ left.waitingTime = pcb[running].waitingTime
        BY <1>2, <2>1 DEF PCB
      <4>3. /\ Stopped(left).waitStart = clk
            /\ Stopped(left).waitingTime = pcb[running].waitingTime
        BY <1>2, <2>1 DEF Stopped, PCB
      <4> HIDE DEF left
      <4> QED  BY <1>1, <1>2, <2>1, <4>1, <4>2, <4>3 DEF ArrivalInv, WaitsOK
    <3> QED  BY <1>8, <3>1, <3>2 DEF Charge
  <2> QED  BY <2>3, <2>4 DEF ArrivalInv
<1>9. CASE StopRunning
  <2> SUFFICES ASSUME ~Fault PROVE ArrivalInv'
    BY <1>3
  <2>1. running \in Procs
    BY <1>9 DEF StopRunning, TypeOK, SchedTypeOK
  <2>2. SentOnly'
    BY <1>1, <1>9, NoNewEntry DEF StopRunning, procVars, ArrivalInv, SentOnly
  <2>3. pcb' = pcb \/ pcb' = [pcb EXCEPT ![running] = Stopped(pcb[running])]
    BY <1>9 DEF StopRunning
  <2>4. /\ Stopped(pcb[running]).waitStart = clk
        /\ Stopped(pcb[running]).waitingTime = pcb[running].waitingTime
    BY <1>2, <2>1 DEF Stopped, PCB
  <2>5. WaitsOK'
    BY <1>1, <1>2, <2>1, <2>3, <2>4 DEF ArrivalInv, WaitsOK
  <2> QED  BY <2>2, <2>5 DEF ArrivalInv
<1>10. CASE Pick
  <2> SUFFICES ASSUME ~Fault PROVE ArrivalInv'
    BY <1>3
  <2>1. PICK i \in First(readyQueue) :
           running' = readyQueue[i] /\ readyQueue' = RemoveAt(readyQueue, i)
    BY <1>10 DEF Pick
  <2>2. i \in 1 .. Len(readyQueue) /\ DOMAIN readyQueue = 1 .. Len(readyQueue)
    BY <1>2, <2>1 DEF First
  <2>3. \A k \in DOMAIN readyQueue' : readyQueue'[k] \in arrived
    BY <1>2, <2>1, <2>2, RemoveAtElements DEF ArrivalInv, SentOnly
  <2>4. running' \in arrived /\ UNCHANGED <<msgq, ppc, pcb>>
    BY <1>10, <2>1, <2>2 DEF Pick, ipcVars, procVars, ArrivalInv, SentOnly
  <2> QED  BY <1>1, <2>3, <2>4 DEF ArrivalInv, SentOnly, WaitsOK
<1>11. CASE StartRunning
  <2> SUFFICES ASSUME ~Fault PROVE ArrivalInv'
    BY <1>3
  <2>1. running \in Procs /\ running \in arrived
    BY <1>11 DEF StartRunning, ArrivalInv, SentOnly, TypeOK, SchedTypeOK
  <2>2. clk - processes[running].arrivalTime >= 0
    BY <1>1, <1>2, <2>1 DEF ArrivalInv, SentOnly
  <2>3. SentOnly'
    BY <1>1, <1>11, <2>1, NoNewEntry DEF StartRunning, ArrivalInv, SentOnly, TypeOK, ProcTypeOK
  <2>4. pcb' = [pcb EXCEPT ![running].waitingTime = clk - processes[running].arrivalTime]
    BY <1>11 DEF StartRunning
  <2>5. WaitsOK'
    BY <1>1, <1>2, <2>1, <2>2, <2>4 DEF PCB, ArrivalInv, WaitsOK
  <2> QED  BY <2>3, <2>5 DEF ArrivalInv
<1>12. CASE AssignPid
  <2> SUFFICES ASSUME ~Fault PROVE ArrivalInv'
    BY <1>3
  <2>1. SentOnly'
    BY <1>1, <1>12, NoNewEntry DEF AssignPid, ipcVars, procVars, ArrivalInv, SentOnly
  <2>2. WaitsOK'
    <3>1. pcb' = [pcb EXCEPT ![running].pid = TRUE]
      BY <1>12 DEF AssignPid
    <3>2. \A p \in Procs : /\ pcb'[p].waitStart = pcb[p].waitStart
                           /\ pcb'[p].waitingTime = pcb[p].waitingTime
      BY <1>2, <3>1 DEF PCB
    <3> QED  BY <1>1, <3>2 DEF ArrivalInv, WaitsOK
  <2> QED  BY <2>1, <2>2 DEF ArrivalInv
<1>13. CASE ResumeRunning
  <2> SUFFICES ASSUME ~Fault PROVE ArrivalInv'
    BY <1>3
  <2>1. running \in Procs
    BY <1>13 DEF ResumeRunning, TypeOK, SchedTypeOK
  <2>2. /\ Resumed(pcb[running]).waitStart = pcb[running].waitStart
        /\ Resumed(pcb[running]).waitingTime
             = pcb[running].waitingTime + clk - pcb[running].waitStart
        /\ pcb[running].waitStart \in Int /\ pcb[running].waitingTime \in Int
    BY <1>2, <2>1 DEF Resumed, PCB
  <2>3. pcb' = [pcb EXCEPT ![running] = Resumed(pcb[running])]
    BY <1>13 DEF ResumeRunning
  <2>4. Resumed(pcb[running]).waitingTime >= 0
    BY <1>1, <2>1, <2>2 DEF ArrivalInv, WaitsOK
  <2>5. WaitsOK'
    BY <1>1, <1>2, <2>1, <2>2, <2>3, <2>4 DEF ArrivalInv, WaitsOK
  <2>6. SentOnly'
    BY <1>1, <1>13, NoNewEntry DEF ResumeRunning, procVars, ArrivalInv, SentOnly
  <2> QED  BY <2>5, <2>6 DEF ArrivalInv
<1>14. CASE ProcFinished
  <2> SUFFICES ASSUME ~Fault PROVE ArrivalInv'
    BY <1>3
  <2>1. SentOnly'
    BY <1>1, <1>14, NoNewEntry DEF ProcFinished, procVars, ArrivalInv, SentOnly
  <2>2. WaitsOK'
    <3>1. pcb' = [pcb EXCEPT ![running].remainingTime = shm]
      BY <1>14 DEF ProcFinished
    <3>2. \A p \in Procs : /\ pcb'[p].waitStart = pcb[p].waitStart
                           /\ pcb'[p].waitingTime = pcb[p].waitingTime
      BY <1>2, <3>1 DEF PCB
    <3> QED  BY <1>1, <1>14, <3>2 DEF ProcFinished, ArrivalInv, WaitsOK
  <2> QED  BY <2>1, <2>2 DEF ArrivalInv
<1>15. CASE ProcReaped
  <2>1. SentOnly'
    BY <1>1, <1>15, NoNewEntry DEF ProcReaped, Waitpid, procVars, ArrivalInv, SentOnly
  <2>2. WaitsOK'
    <3>1. pcb' = [pcb EXCEPT ![running].state = "freed"]
      BY <1>15 DEF ProcReaped, Waitpid
    <3>2. \A p \in Procs : /\ pcb'[p].waitStart = pcb[p].waitStart
                           /\ pcb'[p].waitingTime = pcb[p].waitingTime
      BY <1>2, <3>1 DEF PCB
    <3> QED  BY <1>1, <3>2 DEF ArrivalInv, WaitsOK
  <2> QED  BY <2>1, <2>2 DEF ArrivalInv
<1> QED
  BY <1>4, <1>5, <1>6, <1>7, <1>8, <1>9, <1>10, <1>11, <1>12, <1>13, <1>14, <1>15
  DEF Scheduling, SchedNext

(* ArrivalInv is inductive together with TypeOK: at every reachable state only *)
(* what has arrived was sent on, and every wait began in the past.            *)
THEOREM ArrivalInvariant == Spec => []ArrivalInv
<1>1. ArrivalInv /\ UNCHANGED vars => ArrivalInv'
  BY ArrivalFrame DEF vars, ipcVars, genVars, procVars, schedVars
<1>2. TypeOK /\ ArrivalInv /\ [Next]_vars => ArrivalInv'
  BY <1>1, ArrivalClock, ArrivalGenerator, ArrivalJob, ArrivalScheduling
     DEF Next, Terminated
<1> QED  BY ArrivalInit, <1>2, TypeCorrect, PTL DEF Spec

(* No process is forked before the time it arrives at, and no waiting time is *)
(* negative, whatever the algorithm and the timing.                           *)
THEOREM NoEarlyStart == Spec => []StartNotBeforeArrival
<1>1. ArrivalInv => StartNotBeforeArrival
  BY DEF ArrivalInv, SentOnly, WaitsOK, StartNotBeforeArrival, Forked
<1> QED  BY <1>1, ArrivalInvariant, PTL

------------------------------------------------------------------------------
(* Sequences without repetitions.                                             *)

Holds(q, p) == \E k \in DOMAIN q : q[k] = p

(* What Append, Tail and RemoveAt do to a sequence without repetitions.       *)
LEMMA AppendHolds ==
    ASSUME NEW q \in Seq(Procs), IsInjective(q), NEW e \in Procs, ~Holds(q, e)
    PROVE  /\ IsInjective(Append(q, e))
           /\ \A p : Holds(Append(q, e), p) <=> Holds(q, p) \/ p = e
<1>1. /\ DOMAIN q = 1 .. Len(q) /\ Len(q) \in Nat
      /\ DOMAIN Append(q, e) = 1 .. Len(q) + 1
      /\ Append(q, e)[Len(q) + 1] = e
      /\ \A k \in 1 .. Len(q) : Append(q, e)[k] = q[k]
  OBVIOUS
<1>2. \A k \in 1 .. Len(q) + 1 : k \in 1 .. Len(q) \/ k = Len(q) + 1
  BY <1>1
<1>3. IsInjective(Append(q, e))
  BY <1>1, <1>2 DEF IsInjective, Holds
<1>4. \A p : Holds(Append(q, e), p) => Holds(q, p) \/ p = e
  BY <1>1, <1>2 DEF Holds
<1>5. \A p : Holds(q, p) => Holds(Append(q, e), p)
  <2>1. \A k \in 1 .. Len(q) : k \in 1 .. Len(q) + 1
    BY <1>1
  <2> QED  BY <1>1, <2>1 DEF Holds
<1>6. Holds(Append(q, e), e)
  <2>1. Len(q) + 1 \in 1 .. Len(q) + 1
    BY <1>1
  <2> QED  BY <1>1, <2>1 DEF Holds
<1> QED  BY <1>3, <1>4, <1>5, <1>6

(* A queue of distinct processes without the entry at i.                      *)
LEMMA RemoveHolds ==
    ASSUME NEW q \in Seq(Procs), IsInjective(q), NEW i \in 1 .. Len(q)
    PROVE  /\ IsInjective(RemoveAt(q, i))
           /\ \A p : Holds(RemoveAt(q, i), p) <=> Holds(q, p) /\ p # q[i]
<1>1. /\ DOMAIN q = 1 .. Len(q) /\ Len(q) \in Nat
      /\ DOMAIN RemoveAt(q, i) = 1 .. Len(q) - 1
      /\ \A k \in 1 .. Len(q) - 1 : RemoveAt(q, i)[k] = IF k < i THEN q[k] ELSE q[k + 1]
  BY RemoveAtIndex
<1> DEFINE from(k) == IF k < i THEN k ELSE k + 1
<1>2. \A k \in 1 .. Len(q) - 1 : from(k) \in 1 .. Len(q) /\ from(k) # i
  BY <1>1
<1>3. \A k, l \in 1 .. Len(q) - 1 : from(k) = from(l) => k = l
  BY <1>1
<1>4. \A j \in 1 .. Len(q) : j # i => \E k \in 1 .. Len(q) - 1 : from(k) = j
  <2> SUFFICES ASSUME NEW j \in 1 .. Len(q), j # i
               PROVE  \E k \in 1 .. Len(q) - 1 : from(k) = j
    OBVIOUS
  <2>1. CASE j < i
    <3>1. j \in 1 .. Len(q) - 1
      BY <1>1, <2>1
    <3> QED  BY <2>1, <3>1
  <2>2. CASE j > i
    <3>1. j - 1 \in 1 .. Len(q) - 1 /\ ~(j - 1 < i) /\ j - 1 + 1 = j
      BY <1>1, <2>2
    <3> QED  BY <3>1
  <2> QED  BY <1>1, <2>1, <2>2
<1>5. \A k \in 1 .. Len(q) - 1 : RemoveAt(q, i)[k] = q[from(k)]
  BY <1>1
<1> HIDE DEF from
<1>6. IsInjective(RemoveAt(q, i))
  BY <1>1, <1>2, <1>3, <1>5 DEF IsInjective
<1>7. \A p : Holds(RemoveAt(q, i), p) => Holds(q, p) /\ p # q[i]
  BY <1>1, <1>2, <1>5 DEF IsInjective, Holds
<1>8. ASSUME NEW p, Holds(q, p), p # q[i]
      PROVE  Holds(RemoveAt(q, i), p)
  <2>1. PICK j \in DOMAIN q : q[j] = p /\ j # i
    BY <1>8 DEF Holds
  <2>2. PICK k \in 1 .. Len(q) - 1 : from(k) = j
    BY <1>1, <1>4, <2>1
  <2>3. RemoveAt(q, i)[k] = p
    BY <1>5, <2>1, <2>2
  <2> QED  BY <1>1, <2>3 DEF Holds
<1> QED  BY <1>6, <1>7, <1>8

(* A queue of distinct processes without its first entry.                     *)
LEMMA TailHolds ==
    ASSUME NEW q \in Seq(Procs), IsInjective(q), q # <<>>
    PROVE  /\ IsInjective(Tail(q)) /\ Head(q) = q[1] /\ Holds(q, Head(q))
           /\ \A p : Holds(Tail(q), p) <=> Holds(q, p) /\ p # Head(q)
<1>1. /\ DOMAIN q = 1 .. Len(q) /\ Len(q) \in Nat \ {0} /\ Head(q) = q[1]
      /\ DOMAIN Tail(q) = 1 .. Len(q) - 1
      /\ \A k \in 1 .. Len(q) - 1 : Tail(q)[k] = q[k + 1]
  OBVIOUS
<1>2. \A k \in 1 .. Len(q) - 1 : k + 1 \in 1 .. Len(q) /\ k + 1 # 1
  BY <1>1
<1>3. IsInjective(Tail(q))
  BY <1>1, <1>2 DEF IsInjective
<1>4. \A p : Holds(Tail(q), p) => Holds(q, p) /\ p # Head(q)
  <2>1. 1 \in 1 .. Len(q)
    BY <1>1
  <2> QED  BY <1>1, <1>2, <2>1 DEF IsInjective, Holds
<1>5. \A p : Holds(q, p) /\ p # Head(q) => Holds(Tail(q), p)
  <2> SUFFICES ASSUME NEW j \in 1 .. Len(q), j # 1 PROVE Holds(Tail(q), q[j])
    BY <1>1 DEF Holds
  <2>1. j - 1 \in 1 .. Len(q) - 1 /\ j - 1 + 1 = j
    BY <1>1
  <2> QED  BY <1>1, <2>1 DEF Holds
<1>6. Holds(q, Head(q))
  <2>1. 1 \in 1 .. Len(q)
    BY <1>1
  <2> QED  BY <1>1, <2>1 DEF Holds
<1> QED  BY <1>1, <1>3, <1>4, <1>5, <1>6

(* Distinct processes, one of them missing, are fewer than there are. *)
LEMMA OneMissing ==
    ASSUME NEW q \in Seq(Procs), IsInjective(q), NEW e \in Procs, ~Holds(q, e)
    PROVE  Len(q) < N
<1> SUFFICES ASSUME Len(q) >= N PROVE FALSE
  BY NAssumption
<1>1. IsFiniteSet(Procs) /\ Cardinality(Procs) = N
  BY NAssumption, FS_Interval DEF Procs
<1>2. IsFiniteSet(Procs \ {e}) /\ Cardinality(Procs \ {e}) = N - 1
  BY <1>1, FS_RemoveElement
<1>3. IsFiniteSet(1 .. Len(q)) /\ Cardinality(1 .. Len(q)) = Len(q)
  BY FS_Interval
<1>4. q \in [1 .. Len(q) -> Procs \ {e}]
  BY DEF Holds
<1>5. N - 1 < Len(q)
  BY NAssumption
<1>6. \E x, y \in 1 .. Len(q) : x # y /\ q[x] = q[y]
  BY <1>2, <1>3, <1>4, <1>5, FS_PigeonHole
<1> QED  BY <1>6 DEF IsInjective

(* A queue with a slot for each process drops nobody. *)
LEMMA RoomForAll ==
    ASSUME RQSZ >= N, NEW q \in Seq(Procs), IsInjective(q), NEW e \in Procs, ~Holds(q, e)
    PROVE  Inserted(q, e) = Append(q, e)
  BY OneMissing, NAssumption, RQSZAssumption DEF Inserted

------------------------------------------------------------------------------
(* Nobody late: what the generator has sent at the end of a pass.             *)

(* What waits in the message queue was sent, once; every pass over the table  *)
(* sends all that was due at its tick; and the generator goes on to its end   *)
(* only when everything was sent.                                             *)
SendInv ==
    /\ \A i \in DOMAIN msgq : msgq[i] \in arrived
    /\ IsInjective(msgq)
    /\ gpc = "spin" => \A p \in Procs : processes[p].arrivalTime <= gcur => p \in arrived
    /\ exitFlag \/ gpc \in {"lastUp", "wait"} => arrived = Procs

(* Nothing was sent yet.                                                      *)
LEMMA SendInit == Init => SendInv
<1> SUFFICES ASSUME Init PROVE SendInv
  OBVIOUS
<1>1. /\ msgq = <<>> /\ gpc = "spin" /\ gcur = -1 /\ exitFlag = FALSE
      /\ processes \in [Procs -> process_t]
  BY WorkloadsAssumption DEF Init, GenInit, IPCInit
<1>2. \A p \in Procs : ~(processes[p].arrivalTime <= -1)
  BY <1>1 DEF process_t
<1>3. IsInjective(msgq)
  BY <1>1 DEF IsInjective
<1> QED  BY <1>1, <1>2, <1>3 DEF SendInv

(* A tick read, a process sent, a pass over: what is due is sent in its tick. *)
LEMMA SendGenerator == ASSUME TypeOK, SendInv, Generator PROVE SendInv'
<1>1. CASE GenSend
  <2>1. PICK i \in Due : arrived' = arrived \cup {i} /\ msgq' = Append(msgq, i)
    BY <1>1 DEF GenSend
  <2>2. i \in Procs \ arrived /\ msgq \in Seq(Procs) /\ arrived \subseteq Procs
    BY <2>1 DEF Due, TypeOK, IPCTypeOK, GenTypeOK
  <2>3. ~Holds(msgq, i)
    BY <2>2 DEF Holds, SendInv
  <2>4. IsInjective(Append(msgq, i))
    BY <2>2, <2>3, AppendHolds DEF SendInv
  <2>5. \A k \in DOMAIN msgq' : msgq'[k] \in arrived'
    BY <2>1, <2>2 DEF SendInv
  <2>6. arrived = Procs => arrived' = Procs
    BY <2>1, <2>2
  <2> QED  BY <1>1, <2>1, <2>4, <2>5, <2>6 DEF GenSend, SendInv
<1>2. CASE GenTickDone
  <2>1. \A p \in Procs : processes[p].arrivalTime <= gcur => p \in arrived
    BY <1>2 DEF GenTickDone, Due
  <2> QED  BY <1>2, <2>1 DEF GenTickDone, SendInv
<1>3. CASE GenNewTick \/ GenSignalEnd \/ GenLastUp \/ GenReap
  BY <1>3 DEF GenNewTick, GenSignalEnd, GenLastUp, GenReap, ipcVars, SendInv
<1> QED  BY <1>1, <1>2, <1>3 DEF Generator, GenNext

(* The scheduler only takes from the message queue. *)
LEMMA SendOthers ==
    ASSUME TypeOK, SendInv, Clock \/ (\E p \in Procs : Job(p)) \/ Scheduling \/ UNCHANGED vars
    PROVE  SendInv'
<1>1. UNCHANGED genVars
  BY DEF Clock, Job, Scheduling, vars
<1>2. CASE Clock \/ UNCHANGED vars
  <2>1. UNCHANGED msgq
    BY <1>2 DEF Clock, ClockTick, vars, ipcVars
  <2> QED  BY <1>1, <2>1 DEF SendInv, genVars
<1>3. CASE \E p \in Procs : Job(p)
  <2>1. UNCHANGED msgq
    BY <1>3 DEF Job, ProcNext, ProcBind, ProcSigEarly, ProcRead, ProcTick, ProcUp, ProcSettle,
                SigSleepHandler, ProcKill, ProcLast, ipcVars
  <2> QED  BY <1>1, <2>1 DEF SendInv, genVars
<1>4. CASE Scheduling
  <2>1. CASE UNCHANGED msgq
    BY <1>1, <2>1 DEF SendInv, genVars
  <2>2. CASE ReadMSGQ
    <3>1. msgq \in Seq(Procs) /\ (UNCHANGED msgq \/ (msgq # <<>> /\ msgq' = Tail(msgq)))
      BY <2>2 DEF ReadMSGQ, Fault, TypeOK, IPCTypeOK
    <3>2. CASE msgq # <<>> /\ msgq' = Tail(msgq)
      <4>1. IsInjective(msgq')
        BY <3>1, <3>2, TailHolds DEF SendInv
      <4>2. \A i \in DOMAIN msgq' : i + 1 \in DOMAIN msgq /\ msgq'[i] = msgq[i + 1]
        BY <3>1, <3>2
      <4> QED  BY <1>1, <4>1, <4>2 DEF SendInv, genVars
    <3> QED  BY <2>1, <3>1, <3>2
  <2>3. CASE ~ReadMSGQ
    <3>1. UNCHANGED msgq
      BY <1>4, <2>3
         DEF Scheduling, SchedNext, SchedBoot, SchedKilledEarly, SchedNewTick, SchedExit,
             DownGen, CheckRunning, DownProc, CreateEntry, ReadDone, Schedule,
             Charge, StopRunning, Pick, StartRunning, AssignPid, ResumeRunning, ReadProcess,
             ProcFinished, ProcReaped, Fault, ipcVars
    <3> QED  BY <2>1, <3>1
  <2> QED  BY <2>2, <2>3
<1> QED  BY <1>2, <1>3, <1>4

(* The message queue holds distinct processes the generator has sent, and no  *)
(* process due is left out of its pass: SendInv in every reachable state.     *)
THEOREM SendInvariant == Spec => []SendInv
<1>1. TypeOK /\ SendInv /\ [Next]_vars => SendInv'
  BY SendGenerator, SendOthers DEF Next, Terminated
<1> QED  BY SendInit, <1>1, TypeCorrect, PTL DEF Spec

(* Once every program has done its work of the tick, all that have arrived    *)
(* were sent, for every algorithm and timing, provided the message queue has  *)
(* room for all processes (otherwise the generator may be waiting for room).  *)
THEOREM EverythingSentOnTime == ASSUME MsgqCap >= N PROVE Spec => []SentOnTime
<1>1. TypeOK /\ SendInv => SentOnTime
  <2> SUFFICES ASSUME TypeOK, SendInv, Quiescent,
                      NEW p \in Procs, processes[p].arrivalTime <= clk, p \notin arrived
               PROVE  FALSE
    BY DEF SentOnTime
  <2>1. gpc = "send" /\ Len(msgq) >= MsgqCap
    BY DEF Quiescent, GenWaits, SendInv
  <2>2. msgq \in Seq(Procs) /\ ~Holds(msgq, p)
    BY DEF TypeOK, IPCTypeOK, Holds, SendInv
  <2>3. Len(msgq) < N
    BY <2>2, OneMissing DEF SendInv
  <2> QED  BY <2>1, <2>2, <2>3, NAssumption, MsgqCapAssumption
<1> QED  BY <1>1, SendInvariant, TypeCorrect, PTL

------------------------------------------------------------------------------
(* Nobody lost: places and counts.                                            *)

IsNew(p) == pcb[p].state = "new"
IsFreed(p) == pcb[p].state = "freed"

(* Whoever was sent is somewhere, and in few places at once. *)
PlaceInv ==
    /\ \A p \in Procs : p \in arrived <=> \/ Holds(msgq, p) \/ IsNew(p) \/ Holds(readyQueue, p)
                                          \/ p = running \/ IsFreed(p)
    /\ \A p \in Procs : Holds(msgq, p) \/ IsNew(p) =>
            ~Holds(readyQueue, p) /\ p # running /\ ~IsFreed(p)
    /\ \A p \in Procs : ~(Holds(msgq, p) /\ IsNew(p))
    /\ \A p, q \in Procs : IsNew(p) /\ IsNew(q) => p = q
    /\ IsInjective(msgq) /\ IsInjective(readyQueue)

(* The process in running has a PCB; it is in the ready queue, too, exactly   *)
(* while it is being preempted.  Nobody is new outside CreateEntry.           *)
RunningInv ==
    /\ running # Null => ~IsFreed(running)
    /\ running # Null /\ spc # "fault" =>
            (Holds(readyQueue, running) <=> spc \in {"sleep", "pick"})
    /\ hpc = "reap" => running # Null
    /\ spc \notin {"create", "fault"} => \A p \in Procs : ~IsNew(p)

CountInv ==
    /\ nproc = numProcesses - Cardinality(Freed)
    /\ spc = "exit" => nproc = 0 /\ hpc = "main"

AccountInv == PlaceInv /\ RunningInv /\ CountInv

(* One process more is freed. *)
LEMMA OneMoreFreed ==
    ASSUME TypeOK, CountInv, NEW e \in Procs, ~IsFreed(e),
           \A p \in Procs : IsFreed(p)' <=> IsFreed(p) \/ p = e, nproc' = nproc - 1
    PROVE  nproc' = numProcesses - Cardinality(Freed')
<1>1. Freed' = Freed \cup {e} /\ e \notin Freed
  BY DEF Freed, IsFreed
<1>2. IsFiniteSet(Freed)
  <2>1. IsFiniteSet(Procs) /\ Freed \in SUBSET Procs
    BY NAssumption, FS_Interval DEF Freed, Procs
  <2> QED  BY <2>1, FS_Subset
<1>3. Cardinality(Freed) \in Nat /\ Cardinality(Freed \cup {e}) = Cardinality(Freed) + 1
  BY <1>1, <1>2, FS_AddElement, FS_CardinalityType
<1> QED  BY <1>1, <1>3, ArgumentsRead DEF CountInv

(* Freed is a set of processes, and moves with their states only.             *)
LEMMA SameFreed ==
    ASSUME \A p \in Procs : IsFreed(p)' <=> IsFreed(p)
    PROVE  Freed' = Freed
  BY DEF Freed, IsFreed

(* Nothing of the account moves but perhaps the scheduler's place. *)
LEMMA AccountFrame ==
    ASSUME AccountInv,
           UNCHANGED <<arrived, msgq, readyQueue, running, nproc>>,
           \A p \in Procs : (IsFreed(p)' <=> IsFreed(p)) /\ (IsNew(p)' <=> IsNew(p)),
           running # Null => running \in Procs,
           running # Null /\ spc' # "fault" =>
                spc # "fault" /\ (spc' \in {"sleep", "pick"} <=> spc \in {"sleep", "pick"}),
           hpc' = "reap" => running # Null,
           spc \in {"create", "fault"} => spc' \in {"create", "fault"},
           spc' = "exit" => nproc = 0 /\ hpc' = "main"
    PROVE  AccountInv'
<1>1. PlaceInv'
  BY DEF AccountInv, PlaceInv
<1>2. RunningInv'
  BY DEF AccountInv, RunningInv
<1>3. CountInv'
  BY SameFreed DEF AccountInv, CountInv
<1> QED  BY <1>1, <1>2, <1>3 DEF AccountInv

(* Everybody is still to be sent.                                             *)
LEMMA AccountInit == Init => AccountInv
<1> SUFFICES ASSUME Init PROVE AccountInv
  OBVIOUS
<1>1. msgq = <<>> /\ readyQueue = <<>> /\ arrived = {} /\ running = Null
      /\ (\A p \in Procs : ~IsNew(p) /\ ~IsFreed(p)) /\ spc = "boot" /\ hpc = "main"
      /\ nproc = numProcesses
  BY DEF Init, IPCInit, GenInit, SchedInit, IsNew, IsFreed
<1>2. PlaceInv
  BY <1>1 DEF PlaceInv, Holds, IsInjective, Procs, Null
<1>3. Freed = {}
  BY <1>1 DEF Freed, IsFreed
<1>4. CountInv
  BY <1>1, <1>3, FS_EmptySet, ArgumentsRead DEF CountInv
<1> QED  BY <1>1, <1>2, <1>4 DEF AccountInv, RunningInv

(* The clock and the jobs move nobody. *)
LEMMA AccountOthers ==
    ASSUME TypeOK, AccountInv, Clock \/ (\E p \in Procs : Job(p)) \/ UNCHANGED vars
    PROVE  AccountInv'
<1>1. UNCHANGED <<arrived, msgq, schedVars>>
  BY DEF Clock, ClockTick, Job, ProcNext, ProcBind, ProcSigEarly, ProcRead, ProcTick, ProcUp,
         ProcSettle, SigSleepHandler, ProcKill, ProcLast, genVars, vars, ipcVars
<1> QED
  BY <1>1, AccountFrame DEF schedVars, IsFreed, IsNew, TypeOK, SchedTypeOK, AccountInv, RunningInv, CountInv

(* The generator sends who was not sent before. *)
LEMMA AccountGenerator == ASSUME TypeOK, AccountInv, Generator PROVE AccountInv'
<1>1. UNCHANGED schedVars /\ msgq \in Seq(Procs)
  BY DEF Generator, TypeOK, IPCTypeOK
<1>2. CASE GenSend
  <2>1. PICK i \in Due : arrived' = arrived \cup {i} /\ msgq' = Append(msgq, i)
    BY <1>2 DEF GenSend
  <2>2. i \in Procs /\ i \notin arrived
    BY <2>1 DEF Due
  <2>3. ~Holds(msgq, i) /\ IsInjective(msgq)
    BY <2>2 DEF AccountInv, PlaceInv
  <2>4. IsInjective(msgq') /\ \A p : Holds(msgq', p) <=> Holds(msgq, p) \/ p = i
    BY <1>1, <2>1, <2>2, <2>3, AppendHolds
  <2>5. PlaceInv'
    BY <1>1, <2>1, <2>2, <2>4 DEF AccountInv, PlaceInv, schedVars, IsNew, IsFreed
  <2>6. RunningInv' /\ CountInv'
    BY <1>1 DEF AccountInv, RunningInv, CountInv, schedVars, IsNew, IsFreed, Freed
  <2> QED  BY <2>5, <2>6 DEF AccountInv
<1>3. CASE ~GenSend
  <2>1. UNCHANGED <<arrived, msgq>>
    BY <1>3 DEF Generator, GenNext, GenNewTick, GenTickDone, GenSignalEnd, GenLastUp, GenReap, ipcVars
  <2> QED
    BY <1>1, <2>1, AccountFrame DEF schedVars, IsFreed, IsNew, TypeOK, SchedTypeOK, AccountInv, RunningInv, CountInv
<1> QED  BY <1>2, <1>3

------------------------------------------------------------------------------
(* The updates of the PCB in running neither free it nor make it new. *)
LEMMA RunningUpdate ==
    ASSUME TypeOK, AccountInv, running # Null, NEW entry, entry.state \notin {"new", "freed"},
           pcb' = [pcb EXCEPT ![running] = entry]
    PROVE  \A p \in Procs : (IsFreed(p)' <=> IsFreed(p)) /\ (IsNew(p)' <=> IsNew(p))
<1>1. running \in Procs /\ pcb \in [Procs -> PCB]
  BY DEF TypeOK, SchedTypeOK
<1>2. ~IsFreed(running) /\ ~IsNew(running)
  BY <1>1 DEF AccountInv, PlaceInv, RunningInv
<1>3. \A p \in Procs : pcb'[p] = IF p = running THEN entry ELSE pcb[p]
  BY <1>1
<1> QED  BY <1>1, <1>2, <1>3 DEF IsFreed, IsNew

(* The state of the PCB in running and of those written back to it. *)
LEMMA RunningStates ==
    ASSUME TypeOK, AccountInv, running # Null, NEW v \in Int
    PROVE  /\ [pcb[running] EXCEPT !.remainingTime = v].state \notin {"new", "freed"}
           /\ [pcb[running] EXCEPT !.waitingTime = v].state \notin {"new", "freed"}
           /\ [pcb[running] EXCEPT !.pid = TRUE].state \notin {"new", "freed"}
           /\ [pcb[running] EXCEPT !.remainingTime = v, !.priority = v].state \notin {"new", "freed"}
           /\ Stopped(pcb[running]).state \notin {"new", "freed"}
           /\ Stopped([pcb[running] EXCEPT !.remainingTime = v, !.priority = v]).state
                \notin {"new", "freed"}
           /\ Resumed(pcb[running]).state \notin {"new", "freed"}
<1>1. running \in Procs /\ pcb[running] \in PCB
  BY DEF TypeOK, SchedTypeOK
<1>2. pcb[running].state \notin {"new", "freed"}
  BY <1>1 DEF AccountInv, PlaceInv, RunningInv, IsFreed, IsNew
<1> QED  BY <1>1, <1>2 DEF PCB, Stopped, Resumed

(* A preempted process goes into the ready queue. *)
LEMMA AccountPreempt ==
    ASSUME TypeOK, AccountInv, RQSZ >= N, running # Null, spc = "charge",
           readyQueue' = Inserted(readyQueue, running), spc' = "sleep",
           UNCHANGED <<arrived, msgq, running, nproc, hpc>>,
           \A p \in Procs : (IsFreed(p)' <=> IsFreed(p)) /\ (IsNew(p)' <=> IsNew(p))
    PROVE  AccountInv'
<1>1. running \in Procs /\ readyQueue \in Seq(Procs)
  BY DEF TypeOK, SchedTypeOK
<1>2. ~Holds(readyQueue, running) /\ IsInjective(readyQueue)
  BY DEF AccountInv, PlaceInv, RunningInv
<1>3. /\ IsInjective(readyQueue')
      /\ \A p : Holds(readyQueue', p) <=> Holds(readyQueue, p) \/ p = running
  <2>1. readyQueue' = Append(readyQueue, running)
    BY <1>1, <1>2, RoomForAll
  <2>2. /\ IsInjective(Append(readyQueue, running))
        /\ \A p : Holds(Append(readyQueue, running), p) <=> Holds(readyQueue, p) \/ p = running
    BY <1>1, <1>2, AppendHolds
  <2> QED  BY <2>1, <2>2
<1>4. PlaceInv'
  BY <1>1, <1>3 DEF AccountInv, PlaceInv
<1>5. RunningInv'
  BY <1>1, <1>3 DEF AccountInv, RunningInv
<1>6. CountInv'
  BY SameFreed DEF AccountInv, CountInv
<1> QED  BY <1>4, <1>5, <1>6 DEF AccountInv

(* The three algorithms move the process in running to the queue or leave it  *)
(* where it is.                                                               *)
LEMMA AccountCharge ==
    ASSUME TypeOK, AccountInv, RQSZ >= N, Charge, ~Fault, UNCHANGED arrived
    PROVE  AccountInv'
<1>1. /\ running # Null /\ running \in Procs /\ spc = "charge" /\ shm \in Int
      /\ UNCHANGED <<running, nproc, msgq, hpc>>
      /\ HPFSheduler \/ SRTNSheduler \/ RRSheduler
  BY DEF Charge, Main, HandlerUnchanged, ipcVars, TypeOK, SchedTypeOK, IPCTypeOK
<1>2. \A p \in Procs : (IsFreed(p)' <=> IsFreed(p)) /\ (IsNew(p)' <=> IsNew(p))
  <2>1. CASE HPFSheduler \/ RRSheduler
    <3>1. pcb' = [pcb EXCEPT ![running] = [pcb[running] EXCEPT !.remainingTime = shm]]
      BY <2>1 DEF HPFSheduler, RRSheduler
    <3> QED  BY <1>1, <3>1, RunningStates, RunningUpdate
  <2>2. CASE SRTNSheduler
    <3> DEFINE left == [pcb[running] EXCEPT !.remainingTime = shm, !.priority = shm]
    <3>1. pcb' = [pcb EXCEPT ![running] = Stopped(left)] \/ pcb' = [pcb EXCEPT ![running] = left]
      BY <2>2 DEF SRTNSheduler
    <3>2. left.state \notin {"new", "freed"} /\ Stopped(left).state \notin {"new", "freed"}
      BY <1>1, RunningStates
    <3> HIDE DEF left
    <3> QED  BY <1>1, <3>1, <3>2, RunningUpdate
  <2> QED  BY <1>1, <2>1, <2>2
<1>3. \/ spc' = "spin" /\ UNCHANGED readyQueue
      \/ spc' = "sleep" /\ readyQueue' = Inserted(readyQueue, running)
  BY <1>1 DEF HPFSheduler, SRTNSheduler, RRSheduler
<1>4. CASE spc' = "spin" /\ UNCHANGED readyQueue
  BY <1>1, <1>2, <1>4, AccountFrame DEF AccountInv, RunningInv
<1>5. CASE spc' = "sleep" /\ readyQueue' = Inserted(readyQueue, running)
  BY <1>1, <1>2, <1>5, AccountPreempt
<1> QED  BY <1>3, <1>4, <1>5

(* The next process leaves the ready queue for running; a preempted one stays *)
(* in the queue.                                                              *)
LEMMA AccountPick ==
    ASSUME TypeOK, AccountInv, Pick, ~Fault, UNCHANGED arrived
    PROVE  AccountInv'
<1>1. PICK i \in First(readyQueue) :
         /\ pcb[readyQueue[i]].state # "freed"
         /\ running' = readyQueue[i] /\ readyQueue' = RemoveAt(readyQueue, i)
         /\ spc = "pick" /\ spc' \in {"start", "resume"}
         /\ UNCHANGED <<pcb, nproc, hpc, msgq>> /\ hpc = "main"
  BY DEF Pick, Main, HandlerUnchanged, ipcVars
<1>2. readyQueue \in Seq(Procs) /\ IsInjective(readyQueue)
      /\ i \in 1 .. Len(readyQueue) /\ readyQueue[i] \in Procs /\ running \in Procs \cup {Null}
  BY <1>1 DEF First, TypeOK, SchedTypeOK, AccountInv, PlaceInv
<1>3. /\ IsInjective(RemoveAt(readyQueue, i))
      /\ \A p : Holds(RemoveAt(readyQueue, i), p) <=> Holds(readyQueue, p) /\ p # readyQueue[i]
  BY <1>2, RemoveHolds
<1>4. Holds(readyQueue, running') /\ running' # Null /\ running' \in Procs
  BY <1>1, <1>2, NAssumption DEF Holds, Procs, Null
<1>5. /\ IsInjective(readyQueue')
      /\ \A p : Holds(readyQueue', p) <=> Holds(readyQueue, p) /\ p # running'
  BY <1>1, <1>3
<1>6. running # Null => Holds(readyQueue, running)
  BY <1>1 DEF AccountInv, RunningInv
<1>7. \A p \in Procs : Holds(readyQueue, p) \/ p = running <=> Holds(readyQueue', p) \/ p = running'
  BY <1>2, <1>4, <1>5, <1>6, NAssumption DEF Procs, Null
<1>8. \A p \in Procs : (IsFreed(p)' <=> IsFreed(p)) /\ (IsNew(p)' <=> IsNew(p))
  BY <1>1 DEF IsFreed, IsNew
<1>9. PlaceInv'
  BY <1>1, <1>5, <1>7, <1>8 DEF AccountInv, PlaceInv
<1>10. RunningInv'
  BY <1>1, <1>4, <1>5, <1>8 DEF AccountInv, RunningInv, IsFreed
<1>11. CountInv'
  BY <1>1, <1>8, SameFreed DEF AccountInv, CountInv
<1> QED  BY <1>9, <1>10, <1>11 DEF AccountInv

(* A message becomes a new PCB. *)
LEMMA AccountRead ==
    ASSUME TypeOK, AccountInv, ReadMSGQ, ~Fault, UNCHANGED arrived
    PROVE  AccountInv'
<1>1. /\ spc = "read" /\ hpc = "main" /\ spc' = "create" /\ msgq # <<>> /\ msgq' = Tail(msgq)
      /\ pcb' = [pcb EXCEPT ![Head(msgq)].state = "new"]
      /\ UNCHANGED <<readyQueue, running, nproc, hpc>>
  BY DEF ReadMSGQ, Main, HandlerUnchanged
<1>2. msgq \in Seq(Procs) /\ IsInjective(msgq) /\ pcb \in [Procs -> PCB]
      /\ running \in Procs \cup {Null}
  BY DEF TypeOK, IPCTypeOK, SchedTypeOK, AccountInv, PlaceInv
<1>3. /\ IsInjective(Tail(msgq)) /\ Holds(msgq, Head(msgq)) /\ Head(msgq) \in Procs
      /\ \A p : Holds(Tail(msgq), p) <=> Holds(msgq, p) /\ p # Head(msgq)
  BY <1>1, <1>2, TailHolds
<1>4. \A p \in Procs : ~IsNew(p)
  BY <1>1 DEF AccountInv, RunningInv
<1>5. ~IsFreed(Head(msgq)) /\ ~Holds(readyQueue, Head(msgq)) /\ Head(msgq) # running
  BY <1>3 DEF AccountInv, PlaceInv
<1>6. \A p \in Procs : (IsFreed(p)' <=> IsFreed(p)) /\ (IsNew(p)' <=> p = Head(msgq))
  BY <1>1, <1>2, <1>3, <1>4, <1>5 DEF IsFreed, IsNew, PCB
<1>7. IsInjective(msgq') /\ \A p : Holds(msgq', p) <=> Holds(msgq, p) /\ p # Head(msgq)
  BY <1>1, <1>3
<1>8. PlaceInv'
  BY <1>1, <1>3, <1>4, <1>5, <1>6, <1>7 DEF AccountInv, PlaceInv
<1>9. RunningInv'
  BY <1>1, <1>2, <1>6 DEF AccountInv, RunningInv
<1>10. CountInv'
  BY <1>1, <1>6, SameFreed DEF AccountInv, CountInv
<1> QED  BY <1>8, <1>9, <1>10 DEF AccountInv

(* The new PCB is refused and counted out, or queued. *)
LEMMA AccountCreate ==
    ASSUME TypeOK, AccountInv, RQSZ >= N, CreateEntry, UNCHANGED arrived
    PROVE  AccountInv'
<1>1. PICK e \in Procs : IsNew(e) /\ (EntryRefused(e) \/ EntryCreated(e))
  BY DEF CreateEntry, IsNew
<1>2. /\ spc = "create" /\ spc' = "read" /\ hpc = "main"
      /\ UNCHANGED <<msgq, running, hpc>>
  BY DEF CreateEntry, Main, HandlerUnchanged, ipcVars
<1>3. pcb \in [Procs -> PCB] /\ readyQueue \in Seq(Procs) /\ running \in Procs \cup {Null}
  BY DEF TypeOK, SchedTypeOK
<1>4. /\ ~Holds(msgq, e) /\ ~Holds(readyQueue, e) /\ e # running /\ ~IsFreed(e)
      /\ IsInjective(readyQueue) /\ \A p \in Procs : IsNew(p) <=> p = e
  BY <1>1 DEF AccountInv, PlaceInv
<1>5. CASE EntryRefused(e)
  <2>1. /\ nproc' = nproc - 1 /\ UNCHANGED readyQueue
        /\ pcb' = [pcb EXCEPT ![e].state = "freed"]
    BY <1>5 DEF EntryRefused
  <2>2. \A p \in Procs : (IsFreed(p)' <=> IsFreed(p) \/ p = e) /\ ~IsNew(p)'
    BY <1>3, <1>4, <2>1 DEF IsFreed, IsNew, PCB
  <2>3. PlaceInv'
    BY <1>2, <1>4, <2>1, <2>2 DEF AccountInv, PlaceInv
  <2>4. RunningInv'
    BY <1>2, <1>3, <1>4, <2>1, <2>2 DEF AccountInv, RunningInv
  <2>5. CountInv'
    BY <1>2, <1>4, <2>1, <2>2, OneMoreFreed DEF AccountInv, CountInv
  <2> QED  BY <2>3, <2>4, <2>5 DEF AccountInv
<1>6. CASE EntryCreated(e)
  <2>1. readyQueue' = Append(readyQueue, e) /\ UNCHANGED nproc
    BY <1>3, <1>4, <1>6, RoomForAll DEF EntryCreated
  <2>2. /\ IsInjective(Append(readyQueue, e))
        /\ \A p : Holds(Append(readyQueue, e), p) <=> Holds(readyQueue, p) \/ p = e
    BY <1>3, <1>4, AppendHolds
  <2>3. /\ IsInjective(readyQueue')
        /\ \A p : Holds(readyQueue', p) <=> Holds(readyQueue, p) \/ p = e
    BY <2>1, <2>2
  <2>4. \A p \in Procs : (IsFreed(p)' <=> IsFreed(p)) /\ ~IsNew(p)'
    BY <1>3, <1>4, <1>6 DEF EntryCreated, IsFreed, IsNew
  <2>5. PlaceInv'
    BY <1>2, <1>4, <2>3, <2>4 DEF AccountInv, PlaceInv
  <2>6. RunningInv'
    BY <1>2, <1>3, <1>4, <2>3, <2>4 DEF AccountInv, RunningInv
  <2>7. CountInv'
    BY <1>2, <2>1, <2>4, SameFreed DEF AccountInv, CountInv
  <2> QED  BY <2>5, <2>6, <2>7 DEF AccountInv
<1> QED  BY <1>1, <1>5, <1>6

(* The handler frees the process in running and counts it out. *)
LEMMA AccountReaped ==
    ASSUME TypeOK, AccountInv, ProcReaped, UNCHANGED arrived
    PROVE  AccountInv'
<1>1. /\ hpc = "reap" /\ hpc' = "main" /\ running' = Null /\ nproc' = nproc - 1
      /\ pcb' = [pcb EXCEPT ![running].state = "freed"]
      /\ UNCHANGED <<spc, readyQueue, msgq>>
  BY DEF ProcReaped
<1>2. running \in Procs /\ pcb \in [Procs -> PCB] /\ Null \notin Procs
  BY <1>1, NAssumption DEF TypeOK, SchedTypeOK, AccountInv, RunningInv, Procs, Null
<1>3. ~IsFreed(running) /\ ~IsNew(running)
  BY <1>2 DEF AccountInv, RunningInv, PlaceInv
<1>4. \A p \in Procs : (IsFreed(p)' <=> IsFreed(p) \/ p = running) /\ (IsNew(p)' <=> IsNew(p))
  BY <1>1, <1>2, <1>3 DEF IsFreed, IsNew, PCB
<1>5. PlaceInv'
  BY <1>1, <1>2, <1>4 DEF AccountInv, PlaceInv
<1>6. RunningInv'
  BY <1>1, <1>4 DEF AccountInv, RunningInv
<1>7. CountInv'
  BY <1>1, <1>2, <1>3, <1>4, OneMoreFreed DEF AccountInv, CountInv
<1> QED  BY <1>5, <1>6, <1>7 DEF AccountInv

(* The steps of the scheduler. *)
LEMMA AccountScheduling ==
    ASSUME TypeOK, AccountInv, RQSZ >= N, Scheduling
    PROVE  AccountInv'
<1>1. UNCHANGED arrived /\ running \in Procs \cup {Null}
  BY DEF Scheduling, genVars, TypeOK, SchedTypeOK
<1>2. ASSUME UNCHANGED pcb PROVE \A p \in Procs : (IsFreed(p)' <=> IsFreed(p)) /\ (IsNew(p)' <=> IsNew(p))
  BY <1>2 DEF IsFreed, IsNew
<1>3. CASE Fault
  <2>1. UNCHANGED <<msgq, readyQueue, running, nproc, pcb>> /\ hpc' = "main" /\ spc' = "fault"
    BY <1>3 DEF Fault
  <2> QED  BY <1>1, <1>2, <2>1, AccountFrame
<1>4. CASE \/ SchedBoot \/ SchedNewTick \/ SchedExit \/ DownGen \/ CheckRunning \/ DownProc
           \/ ReadDone \/ Schedule
  <2>1. /\ UNCHANGED <<msgq, readyQueue, running, nproc, pcb, hpc>> /\ hpc = "main"
        /\ spc' = "exit" => nproc = 0
        /\ spc' = "pick" => running = Null
        /\ spc \notin {"create", "fault", "sleep", "pick"} /\ spc' \notin {"fault", "sleep"}
    BY <1>4 DEF SchedBoot, SchedNewTick, SchedExit, DownGen, CheckRunning, DownProc, ReadDone,
                Schedule, AlgorithmPath, Main, HandlerUnchanged, ipcVars
  <2> QED  BY <1>1, <1>2, <2>1, AccountFrame
<1>5. CASE SchedKilledEarly
  BY <1>3, <1>5 DEF SchedKilledEarly
<1>6. CASE ReadMSGQ \/ CreateEntry \/ Charge \/ Pick \/ ProcReaped
  BY <1>1, <1>3, <1>6, AccountRead, AccountCreate, AccountCharge, AccountPick, AccountReaped
<1>7. CASE StopRunning
  <2> SUFFICES ASSUME ~Fault PROVE AccountInv'
    BY <1>3
  <2>1. /\ UNCHANGED <<msgq, readyQueue, running, nproc, hpc>> /\ hpc = "main" /\ running # Null
        /\ spc = "sleep" /\ spc' = "pick"
        /\ pcb' = pcb \/ pcb' = [pcb EXCEPT ![running] = Stopped(pcb[running])]
    BY <1>7 DEF StopRunning, Main, HandlerUnchanged
  <2>2. running \in Procs /\ pcb[running] \in PCB
    BY <2>1 DEF TypeOK, SchedTypeOK
  <2>3. Stopped(pcb[running]).state \notin {"new", "freed"}
    BY <2>2 DEF PCB, Stopped
  <2>4. \A p \in Procs : (IsFreed(p)' <=> IsFreed(p)) /\ (IsNew(p)' <=> IsNew(p))
    BY <1>2, <2>1, <2>3, RunningUpdate
  <2> QED  BY <1>1, <2>1, <2>4, AccountFrame
<1>8. CASE StartRunning \/ AssignPid \/ ResumeRunning
  <2> SUFFICES ASSUME ~Fault PROVE AccountInv'
    BY <1>3
  <2>1. /\ UNCHANGED <<msgq, readyQueue, running, nproc, hpc>> /\ hpc = "main" /\ running # Null
        /\ spc \in {"start", "pid", "resume"} /\ spc' \in {"pid", "spin"}
    BY <1>8 DEF StartRunning, AssignPid, ResumeRunning, Main, HandlerUnchanged, ipcVars
  <2>2. clk - processes[running].arrivalTime \in Int
    BY <1>1, <2>1 DEF TypeOK, IPCTypeOK, GenTypeOK, process_t
  <2>3. \/ pcb' = [pcb EXCEPT ![running] = [pcb[running] EXCEPT !.waitingTime =
                                                clk - processes[running].arrivalTime]]
        \/ pcb' = [pcb EXCEPT ![running] = [pcb[running] EXCEPT !.pid = TRUE]]
        \/ pcb' = [pcb EXCEPT ![running] = Resumed(pcb[running])]
    BY <1>8 DEF StartRunning, AssignPid, ResumeRunning
  <2>4. \A p \in Procs : (IsFreed(p)' <=> IsFreed(p)) /\ (IsNew(p)' <=> IsNew(p))
    <3> DEFINE waited == [pcb[running] EXCEPT !.waitingTime = clk - processes[running].arrivalTime]
               known == [pcb[running] EXCEPT !.pid = TRUE]
               resumed == Resumed(pcb[running])
    <3>1. /\ waited.state \notin {"new", "freed"} /\ known.state \notin {"new", "freed"}
          /\ resumed.state \notin {"new", "freed"}
      BY <2>1, <2>2, RunningStates
    <3>2. \/ pcb' = [pcb EXCEPT ![running] = waited]
          \/ pcb' = [pcb EXCEPT ![running] = known]
          \/ pcb' = [pcb EXCEPT ![running] = resumed]
      BY <2>3
    <3> HIDE DEF waited, known, resumed
    <3> QED  BY <2>1, <3>1, <3>2, RunningUpdate
  <2> QED  BY <1>1, <2>1, <2>4, AccountFrame
<1>9. CASE ReadProcess
  <2>1. UNCHANGED <<msgq, readyQueue, running, nproc, pcb, hpc, spc>>
    BY <1>9 DEF ReadProcess
  <2> QED  BY <1>1, <1>2, <2>1, AccountFrame DEF AccountInv, RunningInv, CountInv
<1>10. CASE ProcFinished
  <2> SUFFICES ASSUME ~Fault PROVE AccountInv'
    BY <1>3
  <2>1. /\ UNCHANGED <<msgq, readyQueue, running, nproc, spc>> /\ running # Null
        /\ spc \notin {"exit", "fault"} /\ shm \in Int
        /\ pcb' = [pcb EXCEPT ![running] = [pcb[running] EXCEPT !.remainingTime = shm]]
    BY <1>10 DEF ProcFinished, UserMode, TypeOK, IPCTypeOK
  <2>2. \A p \in Procs : (IsFreed(p)' <=> IsFreed(p)) /\ (IsNew(p)' <=> IsNew(p))
    BY <2>1, RunningStates, RunningUpdate
  <2> QED  BY <1>1, <2>1, <2>2, AccountFrame
<1> QED
  BY <1>4, <1>5, <1>6, <1>7, <1>8, <1>9, <1>10 DEF Scheduling, SchedNext

------------------------------------------------------------------------------
(* AccountInv is inductive together with TypeOK. *)
THEOREM AccountInvariant == ASSUME RQSZ >= N PROVE Spec => []AccountInv
<1>1. TypeOK /\ AccountInv /\ [Next]_vars => AccountInv'
  BY AccountOthers, AccountGenerator, AccountScheduling DEF Next, Terminated
<1> QED  BY AccountInit, <1>1, TypeCorrect, PTL DEF Spec

(* Every process sent is in exactly one of the places it should be in, for    *)
(* every algorithm and timing, misattributed finishes and faults included,    *)
(* when the ready queue has a slot for each process.                          *)
THEOREM NothingIsLost == ASSUME RQSZ >= N PROVE Spec => []NothingLost
<1>1. TypeOK /\ AccountInv => NothingLost
  <2> SUFFICES ASSUME TypeOK, AccountInv PROVE NothingLost
    OBVIOUS
  <2>1. /\ arrived \subseteq Procs /\ msgq \in Seq(Procs) /\ readyQueue \in Seq(Procs)
        /\ running \in Procs \cup {Null} /\ Null \notin Procs
    BY NAssumption DEF TypeOK, IPCTypeOK, GenTypeOK, SchedTypeOK, Procs, Null
  <2>2. /\ \A p : p \in ToSet(msgq) <=> p \in Procs /\ Holds(msgq, p)
        /\ \A p : p \in Queued <=> p \in Procs /\ Holds(readyQueue, p)
        /\ \A p : p \in Created <=> p \in Procs /\ IsNew(p)
        /\ \A p : p \in Freed <=> p \in Procs /\ IsFreed(p)
    BY <2>1 DEF ToSet, Queued, Created, Freed, Holds, IsNew, IsFreed
  <2>3. arrived = ToSet(msgq) \cup Created \cup Queued \cup ({running} \ {Null}) \cup Freed
    BY <2>1, <2>2 DEF AccountInv, PlaceInv
  <2>4. (ToSet(msgq) \cup Created) \cap (Queued \cup {running} \cup Freed) = {}
    BY <2>1, <2>2 DEF AccountInv, PlaceInv
  <2>5. ToSet(msgq) \cap Created = {}
    BY <2>2 DEF AccountInv, PlaceInv
  <2>6. Cardinality(Created) <= 1
    <3>1. Created = {} \/ \E p : Created = {p}
      BY <2>2 DEF AccountInv, PlaceInv
    <3>2. Cardinality(Created) \in {0, 1}
      <4>1. CASE Created = {}
        BY <4>1, FS_EmptySet, Zenon
      <4>2. CASE \E p : Created = {p}
        <5>1. PICK p : Created = {p}
          BY <4>2
        <5>2. Cardinality({p}) = 1
          BY FS_Singleton
        <5> QED  BY <5>1, <5>2, Zenon
      <4> QED  BY <3>1, <4>1, <4>2
    <3> QED  BY <3>2
  <2> QED  BY <2>3, <2>4, <2>5, <2>6 DEF NothingLost, AccountInv, PlaceInv
<1> QED  BY <1>1, AccountInvariant, TypeCorrect, PTL

(* When nproc is 0 every process was freed; the scheduler exits only then. *)
LEMMA AllFreed ==
    ASSUME numProcesses = N, AccountInv, nproc = 0
    PROVE  Freed = Procs
<1>1. IsFiniteSet(Procs) /\ Cardinality(Procs) = N /\ Freed \in SUBSET Procs
  BY NAssumption, FS_Interval DEF Procs, Freed
<1>2. /\ IsFiniteSet(Freed)
      /\ Cardinality(Procs) = Cardinality(Freed) => Procs = Freed
  BY <1>1, FS_Subset
<1>3. Cardinality(Freed) \in Nat
  BY <1>2, FS_CardinalityType
<1> QED  BY <1>1, <1>2, <1>3, NAssumption DEF AccountInv, CountInv

(* The loop of the scheduler is over when every process was freed.            *)
LEMMA ExitWhenFreed ==
    ASSUME numProcesses = N, AccountInv, spc = "exit"
    PROVE  Freed = Procs
  BY AllFreed DEF AccountInv, CountInv

(* nproc counts the processes not yet freed and the scheduler exits when all  *)
(* are, if the scheduler was told their number (see itoa_roundtrip) and the   *)
(* ready queue has a slot for each.                                           *)
THEOREM NprocCounts ==
    ASSUME RQSZ >= N, numProcesses = N
    PROVE  Spec => []NprocExact
<1>1. AccountInv => NprocExact
  BY ExitWhenFreed DEF NprocExact, AccountInv, CountInv
<1> QED  BY <1>1, AccountInvariant, PTL

------------------------------------------------------------------------------
(* Nobody outlives the scheduler.                                             *)

(* Only who has ended is a zombie; who was forked has long left the message   *)
(* queue and CreateEntry; the scheduler knows the pid of everybody it forked  *)
(* and has not freed, but for the one just forked; and who is freed was       *)
(* waited for, unless the handler came before the pid was stored, which the   *)
(* next step of the scheduler trips over.                                     *)
Leave(p) ==
    /\ p \in exited => ppc[p] = "end"
    /\ ppc[p] # "none" => p \in arrived /\ ~Holds(msgq, p) /\ ~IsNew(p)
    /\ ppc[p] # "none" /\ ~IsFreed(p) /\ ~pcb[p].pid =>
            spc = "fault" \/ (spc = "pid" /\ running = p)
    /\ ppc[p] # "none" /\ IsFreed(p) /\ ppc[p] # "end" =>
            spc = "fault" \/ (spc = "pid" /\ running = Null)

LeaveInv ==
    /\ semSchedProc = Removed => spc = "exit"
    /\ \A p \in Procs : Leave(p)

(* No process is forked twice: who waits in the ready queue after its fork is *)
(* marked as stopped, but in round robin only once it was told.               *)
ForkInv ==
    /\ spc = "start" /\ running # Null => ppc[running] = "none"
    /\ \A p \in Procs :
            Holds(readyQueue, p) /\ ppc[p] # "none" /\ ~IsFreed(p) =>
                \/ pcb[p].state = "BLOCKED"
                \/ spc = "fault"
                \/ spc = "sleep" /\ running = p /\ SchedulerType = 1

(* Nobody was forked. *)
LEMMA LeaveInit == Init => LeaveInv /\ ForkInv
  BY DEF Init, IPCInit, ProcInit, SchedInit, LeaveInv, Leave, ForkInv, Removed

(* Steps that fork, free and read nobody. *)
LEMMA LeaveFrame ==
    ASSUME LeaveInv, UNCHANGED ppc,
           \A p \in Procs : /\ p \in exited' => p \in exited
                            /\ p \in arrived => p \in arrived'
                            /\ Holds(msgq, p)' => Holds(msgq, p) \/ p \notin arrived
                            /\ IsNew(p)' => IsNew(p)
                            /\ IsFreed(p)' <=> IsFreed(p)
                            /\ pcb[p].pid => pcb'[p].pid,
           spc = "fault" => spc' = "fault",
           spc = "pid" => spc' = "fault" \/ (spc' = "pid" /\ running' = running),
           semSchedProc' = Removed => spc' = "exit"
    PROVE  LeaveInv'
<1>1. ASSUME NEW p \in Procs PROVE Leave(p)'
  BY DEF LeaveInv, Leave
<1> QED  BY <1>1 DEF LeaveInv

(* The clock, the generator and the jobs; a job only goes on to its end. *)
LEMMA LeaveOthers ==
    ASSUME TypeOK, LeaveInv,
           Clock \/ Generator \/ (\E p \in Procs : Job(p)) \/ UNCHANGED vars
    PROVE  LeaveInv'
<1>1. Null \notin Procs /\ Sched \notin Procs
  BY NAssumption DEF Procs, Null, Sched
<1>2. CASE Clock \/ UNCHANGED vars
  <2>1. UNCHANGED <<exited, arrived, msgq, pcb, spc, running, semSchedProc, ppc>>
    BY <1>2 DEF Clock, ClockTick, genVars, procVars, schedVars, vars, ipcVars
  <2>2. \A p \in Procs : (Holds(msgq, p)' <=> Holds(msgq, p)) /\ (IsNew(p)' <=> IsNew(p))
                         /\ (IsFreed(p)' <=> IsFreed(p))
    BY <2>1 DEF Holds, IsNew, IsFreed
  <2> QED  BY <2>1, <2>2, LeaveFrame DEF LeaveInv
<1>3. CASE Generator
  <2>1. /\ UNCHANGED <<pcb, spc, running, semSchedProc, ppc>>
        /\ exited' = exited \/ exited' = exited \ {Sched}
        /\ \/ UNCHANGED <<arrived, msgq>>
           \/ \E p \in Procs : p \notin arrived /\ msgq' = Append(msgq, p)
                               /\ arrived' = arrived \cup {p}
    BY <1>3 DEF Generator, GenNext, GenNewTick, GenSend, GenTickDone, GenSignalEnd,
                GenLastUp, GenReap, Due, procVars, ipcVars, schedVars
  <2>2. \A p \in Procs : (IsNew(p)' <=> IsNew(p)) /\ (IsFreed(p)' <=> IsFreed(p))
    BY <2>1 DEF IsNew, IsFreed
  <2>3. \A p \in Procs : /\ p \in arrived => p \in arrived'
                         /\ Holds(msgq, p)' => Holds(msgq, p) \/ p \notin arrived
    <3>1. CASE UNCHANGED <<arrived, msgq>>
      BY <3>1 DEF Holds
    <3>2. ASSUME NEW e \in Procs, e \notin arrived, msgq' = Append(msgq, e),
                 arrived' = arrived \cup {e}
          PROVE  \A p \in Procs : /\ p \in arrived => p \in arrived'
                                  /\ Holds(msgq, p)' => Holds(msgq, p) \/ p \notin arrived
      BY <3>2 DEF Holds, TypeOK, IPCTypeOK
    <3> QED  BY <2>1, <3>1, <3>2
  <2> QED  BY <1>1, <2>1, <2>2, <2>3, LeaveFrame DEF LeaveInv
<1>4. ASSUME NEW p \in Procs, Job(p) PROVE LeaveInv'
  <2>1. /\ UNCHANGED <<arrived, msgq, pcb, spc, running>>
        /\ ppc[p] \notin {"none", "end"} /\ ppc'[p] # "none"
        /\ \A q \in Procs : q # p => ppc'[q] = ppc[q]
        /\ exited' = exited \/ (exited' = exited \cup {p} /\ ppc'[p] = "end")
    BY <1>4 DEF Job, ProcNext, ProcBind, ProcSigEarly, ProcRead, ProcTick, ProcUp, ProcSettle,
                SigSleepHandler, Looping, ProcKill, ProcLast, TypeOK, ProcTypeOK, genVars, schedVars, ipcVars
  <2>2. semSchedProc' = Removed => semSchedProc = Removed
    BY <1>4 DEF Job, ProcNext, ProcBind, ProcSigEarly, ProcRead, ProcTick, ProcUp, ProcSettle,
                SigSleepHandler, ProcKill, ProcLast, TypeOK, IPCTypeOK, ipcVars, Up, Removed
  <2>3. ASSUME NEW q \in Procs PROVE Leave(q)'
    BY <2>1, <2>3 DEF LeaveInv, Leave, Holds, IsNew, IsFreed
  <2> QED  BY <2>1, <2>2, <2>3 DEF LeaveInv
<1> QED  BY <1>2, <1>3, <1>4

(* The PCB in running is written back with the pid it had. *)
LEMMA RunningPids ==
    ASSUME TypeOK, running # Null, NEW v \in Int
    PROVE  /\ [pcb[running] EXCEPT !.remainingTime = v].pid = pcb[running].pid
           /\ [pcb[running] EXCEPT !.remainingTime = v, !.priority = v].pid = pcb[running].pid
           /\ Stopped(pcb[running]).pid = pcb[running].pid
           /\ Stopped([pcb[running] EXCEPT !.remainingTime = v, !.priority = v]).pid
                = pcb[running].pid
           /\ Resumed(pcb[running]).pid = pcb[running].pid
<1>1. running \in Procs /\ pcb[running] \in PCB
  BY DEF TypeOK, SchedTypeOK
<1> QED  BY <1>1 DEF PCB, Stopped, Resumed

(* A step that writes the PCB in running back and forks nobody. *)
LEMMA LeaveUpdate ==
    ASSUME TypeOK, AccountInv, LeaveInv, semSchedProc # Removed, running # Null,
           NEW entry, entry.state \notin {"new", "freed"}, entry.pid = pcb[running].pid,
           pcb' = [pcb EXCEPT ![running] = entry],
           UNCHANGED <<ppc, arrived, msgq, exited, running, semSchedProc>>,
           spc' = spc \/ spc \notin {"pid", "fault"}
    PROVE  LeaveInv'
<1>1. running \in Procs /\ pcb \in [Procs -> PCB]
  BY DEF TypeOK, SchedTypeOK
<1>2. \A p \in Procs : (IsFreed(p)' <=> IsFreed(p)) /\ (IsNew(p)' <=> IsNew(p))
  BY RunningUpdate
<1>3. \A p \in Procs : pcb'[p].pid = pcb[p].pid
  BY <1>1
<1>4. \A p \in Procs : Holds(msgq, p)' <=> Holds(msgq, p)
  BY DEF Holds
<1> QED  BY <1>2, <1>3, <1>4, LeaveFrame

(* The steps of the scheduler. *)
LEMMA LeaveScheduling ==
    ASSUME TypeOK, AccountInv, ForkInv, LeaveInv, Scheduling
    PROVE  LeaveInv'
<1>0. shm \in Int
  BY DEF TypeOK, IPCTypeOK
<1>1. /\ UNCHANGED arrived /\ pcb \in [Procs -> PCB] /\ shm \in Int
      /\ running \in Procs \cup {Null} /\ ppc \in [Procs -> ProcPoints]
      /\ msgq \in Seq(Procs) /\ Null \notin Procs /\ Sched \notin Procs
  BY NAssumption DEF Scheduling, genVars, TypeOK, SchedTypeOK, ProcTypeOK, IPCTypeOK,
                     Procs, Null, Sched
<1>2. spc # "exit" /\ semSchedProc # Removed
  BY DEF Scheduling, SchedNext, SchedBoot, SchedKilledEarly, SchedNewTick, SchedExit, DownGen,
         CheckRunning, DownProc, ReadMSGQ, CreateEntry, ReadDone, Schedule, Charge, StopRunning,
         Pick, StartRunning, AssignPid, ResumeRunning, ReadProcess, ProcFinished, ProcReaped,
         UserMode, Main, AccountInv, CountInv, LeaveInv
<1>3. \A p \in Procs : Leave(p)
  BY DEF LeaveInv
<1>4. ASSUME UNCHANGED <<ppc, msgq, pcb>>, exited' \subseteq exited \cup {Sched},
             spc = "fault" => spc' = "fault",
             spc = "pid" => spc' = "fault" \/ (spc' = "pid" /\ running' = running),
             semSchedProc' = Removed => spc' = "exit"
      PROVE  LeaveInv'
  <2>1. \A p \in Procs : (Holds(msgq, p)' <=> Holds(msgq, p)) /\ (IsNew(p)' <=> IsNew(p))
                         /\ (IsFreed(p)' <=> IsFreed(p)) /\ (p \in exited' => p \in exited)
    BY <1>1, <1>4 DEF Holds, IsNew, IsFreed
  <2> QED  BY <1>1, <1>4, <2>1, LeaveFrame
<1>5. CASE Fault
  <2>1. UNCHANGED <<ppc, msgq, pcb, semSchedProc>> /\ spc' = "fault"
        /\ exited' = exited \cup {Sched}
    BY <1>5 DEF Fault, procVars
  <2> QED  BY <1>2, <1>4, <2>1
<1>6. CASE SchedBoot \/ SchedNewTick \/ SchedExit \/ DownGen \/ CheckRunning \/ DownProc
           \/ ReadDone \/ Schedule \/ ReadProcess
  <2>1. /\ UNCHANGED <<ppc, msgq, pcb, running>> /\ exited' \subseteq exited \cup {Sched}
        /\ spc' = spc \/ spc \notin {"pid", "fault"}
    BY <1>6 DEF SchedBoot, SchedNewTick, SchedExit, DownGen, CheckRunning, DownProc, ReadDone,
                Schedule, ReadProcess, Main, ipcVars, procVars
  <2>2. semSchedProc' = Removed => spc' = "exit"
    BY <1>2, <1>6 DEF SchedBoot, SchedNewTick, SchedExit, DownGen, CheckRunning, DownProc, ReadDone,
                Schedule, ReadProcess, Removed, CanDown, Down, ipcVars, TypeOK, IPCTypeOK
  <2> QED  BY <1>4, <2>1, <2>2
<1>7. CASE Pick
  <2> SUFFICES ASSUME ~Fault PROVE LeaveInv'
    BY <1>5
  <2>1. UNCHANGED <<ppc, msgq, pcb, exited, semSchedProc>> /\ spc = "pick"
    BY <1>7 DEF Pick, Main, ipcVars, procVars
  <2> QED  BY <1>2, <1>4, <2>1
<1>8. CASE Charge
  <2> SUFFICES ASSUME ~Fault PROVE LeaveInv'
    BY <1>5
  <2>1. /\ running # Null /\ spc = "charge"
        /\ UNCHANGED <<ppc, msgq, exited, running, semSchedProc>>
        /\ HPFSheduler \/ SRTNSheduler \/ RRSheduler
    BY <1>8 DEF Charge, Main, ipcVars, procVars
  <2>2. CASE HPFSheduler \/ RRSheduler
    <3> DEFINE kept == [pcb[running] EXCEPT !.remainingTime = shm]
    <3>1. pcb' = [pcb EXCEPT ![running] = kept]
      BY <2>2 DEF HPFSheduler, RRSheduler
    <3>2. kept.state \notin {"new", "freed"} /\ kept.pid = pcb[running].pid
      BY <2>1, <1>0, RunningStates, RunningPids, Zenon
    <3> HIDE DEF kept
    <3> QED  BY <1>1, <1>2, <2>1, <3>1, <3>2, LeaveUpdate
  <2>3. CASE SRTNSheduler
    <3> DEFINE left == [pcb[running] EXCEPT !.remainingTime = shm, !.priority = shm]
    <3>1. pcb' = [pcb EXCEPT ![running] = Stopped(left)] \/ pcb' = [pcb EXCEPT ![running] = left]
      BY <2>3 DEF SRTNSheduler
    <3>2. /\ left.state \notin {"new", "freed"} /\ Stopped(left).state \notin {"new", "freed"}
          /\ left.pid = pcb[running].pid /\ Stopped(left).pid = pcb[running].pid
      BY <2>1, <1>0, RunningStates, RunningPids, Zenon
    <3> HIDE DEF left
    <3> QED  BY <1>1, <1>2, <2>1, <3>1, <3>2, LeaveUpdate
  <2> QED  BY <2>1, <2>2, <2>3
<1>9. CASE StopRunning \/ ResumeRunning
  <2> SUFFICES ASSUME ~Fault PROVE LeaveInv'
    BY <1>5
  <2>1. /\ running # Null /\ spc \in {"sleep", "resume"}
        /\ UNCHANGED <<ppc, msgq, exited, running, semSchedProc>>
        /\ \/ UNCHANGED pcb
           \/ pcb' = [pcb EXCEPT ![running] = Stopped(pcb[running])]
           \/ pcb' = [pcb EXCEPT ![running] = Resumed(pcb[running])]
    BY <1>9 DEF StopRunning, ResumeRunning, Main, procVars
  <2>2. CASE UNCHANGED pcb
    BY <1>2, <1>4, <2>1, <2>2
  <2>3. /\ Stopped(pcb[running]).state \notin {"new", "freed"}
        /\ Resumed(pcb[running]).state \notin {"new", "freed"}
        /\ Stopped(pcb[running]).pid = pcb[running].pid
        /\ Resumed(pcb[running]).pid = pcb[running].pid
    BY <2>1, <1>0, RunningStates, RunningPids, Zenon
  <2>4. CASE pcb' = [pcb EXCEPT ![running] = Stopped(pcb[running])]
    BY <1>1, <1>2, <2>1, <2>3, <2>4, LeaveUpdate
  <2>5. CASE pcb' = [pcb EXCEPT ![running] = Resumed(pcb[running])]
    BY <1>1, <1>2, <2>1, <2>3, <2>5, LeaveUpdate
  <2> QED  BY <2>1, <2>2, <2>4, <2>5
<1>10. CASE ProcFinished
  <2> SUFFICES ASSUME ~Fault PROVE LeaveInv'
    BY <1>5
  <2> DEFINE kept == [pcb[running] EXCEPT !.remainingTime = shm]
  <2>1. /\ running # Null /\ pcb' = [pcb EXCEPT ![running] = kept]
        /\ UNCHANGED <<ppc, msgq, exited, running, semSchedProc, spc>>
    BY <1>10 DEF ProcFinished, procVars
  <2>2. kept.state \notin {"new", "freed"} /\ kept.pid = pcb[running].pid
    BY <2>1, <1>0, RunningStates, RunningPids, Zenon
  <2> HIDE DEF kept
  <2> QED  BY <1>1, <1>2, <2>1, <2>2, LeaveUpdate
<1>11. CASE AssignPid
  <2> SUFFICES ASSUME ~Fault PROVE LeaveInv'
    BY <1>5
  <2>1. /\ spc = "pid" /\ spc' = "spin" /\ running \in Procs
        /\ pcb' = [pcb EXCEPT ![running].pid = TRUE]
        /\ UNCHANGED <<ppc, msgq, exited, running, semSchedProc>>
    BY <1>1, <1>11 DEF AssignPid, Main, ipcVars, procVars
  <2>2. /\ pcb'[running].pid /\ pcb'[running].state = pcb[running].state
        /\ \A p \in Procs : p # running => pcb'[p] = pcb[p]
    BY <1>1, <2>1 DEF PCB
  <2>3. ASSUME NEW p \in Procs PROVE Leave(p)'
    BY <1>1, <1>3, <2>1, <2>2 DEF Leave, Holds, IsNew, IsFreed
  <2> QED  BY <1>2, <2>1, <2>3 DEF LeaveInv
<1>12. CASE StartRunning
  <2> SUFFICES ASSUME ~Fault PROVE LeaveInv'
    BY <1>5
  <2>1. /\ spc = "start" /\ spc' = "pid" /\ running \in Procs
        /\ pcb' = [pcb EXCEPT ![running].waitingTime = clk - processes[running].arrivalTime]
        /\ ppc' = [ppc EXCEPT ![running] = "exec"]
        /\ UNCHANGED <<msgq, exited, running, semSchedProc>>
    BY <1>1, <1>12 DEF StartRunning, Main
  <2>2. \A p \in Procs : pcb'[p].state = pcb[p].state /\ pcb'[p].pid = pcb[p].pid
    BY <1>1, <2>1 DEF PCB
  <2>3. running \in arrived /\ ~Holds(msgq, running) /\ ~IsNew(running) /\ ~IsFreed(running)
    BY <1>1, <2>1 DEF AccountInv, PlaceInv, RunningInv
  <2>4. running \notin exited
    <3>1. ppc[running] = "none" /\ Leave(running)
      BY <1>1, <1>3, <2>1 DEF ForkInv
    <3> QED  BY <3>1 DEF Leave
  <2>5. ASSUME NEW p \in Procs PROVE Leave(p)'
    BY <1>1, <1>3, <2>1, <2>2, <2>3, <2>4 DEF Leave, Holds, IsNew, IsFreed
  <2> QED  BY <1>2, <2>1, <2>5 DEF LeaveInv
<1>13. CASE ReadMSGQ
  <2> SUFFICES ASSUME ~Fault PROVE LeaveInv'
    BY <1>5
  <2> DEFINE h == Head(msgq)
  <2>1. /\ spc = "read" /\ spc' = "create" /\ msgq # <<>> /\ msgq' = Tail(msgq)
        /\ pcb' = [pcb EXCEPT ![h].state = "new"]
        /\ UNCHANGED <<ppc, exited, running, semSchedProc>>
    BY <1>13 DEF ReadMSGQ, Main, procVars
  <2>2. /\ Holds(msgq, h) /\ h \in Procs
        /\ \A p : Holds(msgq', p) <=> Holds(msgq, p) /\ p # h
    BY <1>1, <2>1, TailHolds DEF AccountInv, PlaceInv
  <2> HIDE DEF h
  <2>3. ppc[h] = "none"
    BY <1>3, <2>2 DEF Leave
  <2>4. h \notin exited
    BY <1>3, <2>2, <2>3 DEF Leave
  <2>5. ASSUME NEW p \in Procs PROVE Leave(p)'
    <3>1. CASE p = h
      BY <2>1, <2>3, <2>4, <3>1 DEF Leave
    <3>2. CASE p # h
      BY <1>1, <1>3, <2>1, <2>2, <3>2 DEF Leave, IsNew, IsFreed
    <3> QED  BY <3>1, <3>2
  <2> QED  BY <1>2, <2>1, <2>5 DEF LeaveInv
<1>14. CASE CreateEntry
  <2>1. PICK e \in Procs : IsNew(e) /\ (EntryRefused(e) \/ EntryCreated(e))
    BY <1>14 DEF CreateEntry, IsNew
  <2>2. /\ spc = "create" /\ spc' = "read"
        /\ UNCHANGED <<ppc, msgq, exited, running, semSchedProc>>
    BY <1>14 DEF CreateEntry, Main, ipcVars, procVars
  <2>3. \A p \in Procs : p # e => pcb'[p] = pcb[p]
    BY <1>1, <2>1 DEF EntryRefused, EntryCreated
  <2>4. ppc[e] = "none" /\ e \notin exited
    BY <1>3, <2>1 DEF Leave
  <2>5. ASSUME NEW p \in Procs PROVE Leave(p)'
    <3>1. CASE p = e
      BY <2>2, <2>4, <3>1 DEF Leave
    <3>2. CASE p # e
      BY <1>1, <1>3, <2>2, <2>3, <3>2 DEF Leave, Holds, IsNew, IsFreed
    <3> QED  BY <3>1, <3>2
  <2> QED  BY <1>2, <2>2, <2>5 DEF LeaveInv
<1>15. CASE ProcReaped
  <2>1. /\ hpc = "reap" /\ running' = Null /\ pcb' = [pcb EXCEPT ![running].state = "freed"]
        /\ UNCHANGED <<ppc, msgq, spc, semSchedProc>> /\ Waitpid
    BY <1>15 DEF ProcReaped, procVars
  <2>2. running \in Procs /\ ~IsFreed(running) /\ ~IsNew(running)
    BY <1>1, <2>1 DEF AccountInv, RunningInv, PlaceInv
  <2>3. exited' \subseteq exited /\ (running \in exited \/ ~pcb[running].pid)
    BY <2>1 DEF Waitpid
  <2>4. ppc[running] \in {"none", "end"} \/ spc \in {"pid", "fault"}
    BY <1>3, <2>2, <2>3 DEF Leave
  <2>5. /\ pcb'[running].state = "freed"
        /\ \A p \in Procs : p # running => pcb'[p] = pcb[p]
    BY <1>1, <2>1, <2>2 DEF PCB
  <2>6. ASSUME NEW p \in Procs PROVE Leave(p)'
    <3>1. CASE p = running
      BY <1>1, <1>3, <2>1, <2>2, <2>3, <2>4, <2>5, <3>1 DEF Leave, Holds, IsNew, IsFreed
    <3>2. CASE p # running
      BY <1>1, <1>3, <2>1, <2>2, <2>3, <2>5, <3>2 DEF Leave, Holds, IsNew, IsFreed
    <3> QED  BY <3>1, <3>2
  <2> QED  BY <1>2, <2>1, <2>6 DEF LeaveInv
<1> QED
  BY <1>5, <1>6, <1>7, <1>8, <1>9, <1>10, <1>11, <1>12, <1>13, <1>14, <1>15
  DEF Scheduling, SchedNext, SchedKilledEarly

(* Only the scheduler queues and forks. *)
LEMMA ForkOthers ==
    ASSUME TypeOK, ForkInv, Clock \/ Generator \/ (\E p \in Procs : Job(p)) \/ UNCHANGED vars
    PROVE  ForkInv'
<1>1. running \in Procs \cup {Null} /\ UNCHANGED <<pcb, spc, running, readyQueue>>
  BY DEF Clock, Generator, Job, genVars, procVars, schedVars, vars, TypeOK, SchedTypeOK
<1>2. \A p \in Procs : ppc'[p] = "none" <=> ppc[p] = "none"
  <2>1. CASE Clock \/ Generator \/ UNCHANGED vars
    BY <2>1 DEF Clock, Generator, procVars, vars
  <2>2. ASSUME NEW p \in Procs, Job(p) PROVE \A q \in Procs : ppc'[q] = "none" <=> ppc[q] = "none"
    BY <2>2 DEF Job, ProcNext, ProcBind, ProcSigEarly, ProcRead, ProcTick, ProcUp, ProcSettle,
                SigSleepHandler, Looping, ProcKill, ProcLast, TypeOK, ProcTypeOK
  <2> QED  BY <2>1, <2>2
<1> QED  BY <1>1, <1>2 DEF ForkInv, Holds, IsFreed

(* The steps of the scheduler. *)
LEMMA ForkScheduling ==
    ASSUME TypeOK, AccountInv, LeaveInv, ForkInv, Scheduling
    PROVE  ForkInv'
<1>1. /\ pcb \in [Procs -> PCB] /\ shm \in Int /\ readyQueue \in Seq(Procs)
      /\ running \in Procs \cup {Null} /\ ppc \in [Procs -> ProcPoints] /\ Null \notin Procs
      /\ IsInjective(readyQueue)
  BY NAssumption DEF TypeOK, SchedTypeOK, ProcTypeOK, IPCTypeOK, AccountInv, PlaceInv, Procs, Null
<1>2. CASE Fault
  BY <1>2 DEF Fault, ForkInv
<1>3. CASE SchedBoot \/ SchedNewTick \/ SchedExit \/ DownGen \/ CheckRunning \/ DownProc
           \/ ReadDone \/ Schedule \/ ReadProcess
  <2>1. /\ UNCHANGED <<ppc, pcb, running, readyQueue>>
        /\ spc' = spc \/ (spc \notin {"sleep", "fault"} /\ spc' # "start")
    BY <1>3 DEF SchedBoot, SchedNewTick, SchedExit, DownGen, CheckRunning, DownProc,
                ReadDone, Schedule, ReadProcess, AlgorithmPath, Main, procVars
  <2> QED  BY <1>1, <2>1 DEF ForkInv, Holds, IsFreed
<1>4. CASE ReadMSGQ \/ CreateEntry
  <2> SUFFICES ASSUME ~Fault PROVE ForkInv'
    BY <1>2
  <2>1. /\ UNCHANGED ppc /\ spc \in {"read", "create"} /\ spc' \in {"read", "create"}
        /\ \E e \in Procs : /\ Holds(msgq, e) \/ IsNew(e)
                            /\ \A p \in Procs : p # e => pcb'[p] = pcb[p]
                            /\ \A p \in Procs : Holds(readyQueue', p) => Holds(readyQueue, p) \/ p = e
    <3>1. CASE ReadMSGQ
      <4>1. /\ spc = "read" /\ spc' = "create" /\ msgq # <<>>
            /\ pcb' = [pcb EXCEPT ![Head(msgq)].state = "new"] /\ UNCHANGED <<readyQueue, ppc>>
        BY <3>1 DEF ReadMSGQ, Main, procVars
      <4>2. Holds(msgq, Head(msgq)) /\ Head(msgq) \in Procs
        BY <4>1, TailHolds DEF AccountInv, PlaceInv, TypeOK, IPCTypeOK
      <4> QED  BY <1>1, <4>1, <4>2 DEF Holds
    <3>2. CASE CreateEntry
      <4>1. PICK e \in Procs : IsNew(e) /\ (EntryRefused(e) \/ EntryCreated(e))
        BY <3>2 DEF CreateEntry, IsNew
      <4>2. \A p \in Procs : p # e => pcb'[p] = pcb[p]
        BY <1>1, <4>1 DEF EntryRefused, EntryCreated
      <4>3. readyQueue' = readyQueue \/ readyQueue' = Append(readyQueue, e)
        BY <4>1 DEF EntryRefused, EntryCreated, Inserted
      <4>4. \A p \in Procs : Holds(readyQueue', p) => Holds(readyQueue, p) \/ p = e
        BY <1>1, <4>3 DEF Holds
      <4> QED  BY <3>2, <4>1, <4>2, <4>4 DEF CreateEntry, Main, procVars
    <3> QED  BY <1>4, <3>1, <3>2
  <2>2. PICK e \in Procs : /\ Holds(msgq, e) \/ IsNew(e)
                           /\ \A p \in Procs : p # e => pcb'[p] = pcb[p]
                           /\ \A p \in Procs : Holds(readyQueue', p) => Holds(readyQueue, p) \/ p = e
    BY <2>1
  <2>3. ppc[e] = "none"
    BY <2>2 DEF LeaveInv, Leave
  <2> QED  BY <1>1, <2>1, <2>2, <2>3 DEF ForkInv, IsFreed
<1>5. CASE Charge
  <2> SUFFICES ASSUME ~Fault PROVE ForkInv'
    BY <1>2
  <2>1. /\ running # Null /\ running \in Procs /\ spc = "charge"
        /\ UNCHANGED <<ppc, running>> /\ (HPFSheduler \/ SRTNSheduler \/ RRSheduler)
    BY <1>1, <1>5 DEF Charge, Main, procVars
  <2>2. \A p \in Procs : p # running => pcb'[p] = pcb[p]
    BY <1>1, <2>1 DEF HPFSheduler, SRTNSheduler, RRSheduler
  <2>3. \/ spc' = "spin" /\ readyQueue' = readyQueue
        \/ /\ spc' = "sleep"
           /\ readyQueue' = readyQueue \/ readyQueue' = Append(readyQueue, running)
           /\ pcb'[running].state = "BLOCKED" \/ SchedulerType = 1
    BY <1>1, <2>1 DEF HPFSheduler, SRTNSheduler, RRSheduler, Inserted, Stopped, PCB
  <2>4. \A p \in Procs : Holds(readyQueue', p) => Holds(readyQueue, p) \/ (p = running /\ spc' = "sleep")
    BY <1>1, <2>1, <2>3 DEF Holds
  <2>5. ~Holds(readyQueue, running)
    BY <2>1 DEF AccountInv, RunningInv
  <2> QED  BY <1>1, <2>1, <2>2, <2>3, <2>4, <2>5 DEF ForkInv, IsFreed
<1>6. CASE StopRunning
  <2> SUFFICES ASSUME ~Fault PROVE ForkInv'
    BY <1>2
  <2>1. /\ running # Null /\ running \in Procs /\ spc = "sleep" /\ spc' = "pick"
        /\ UNCHANGED <<ppc, readyQueue, running>>
        /\ pcb' = IF SchedulerType = 1 THEN [pcb EXCEPT ![running] = Stopped(pcb[running])] ELSE pcb
    BY <1>1, <1>6 DEF StopRunning, Main, procVars
  <2>2. CASE SchedulerType = 1
    <3>1. pcb'[running].state = "BLOCKED" /\ \A p \in Procs : p # running => pcb'[p] = pcb[p]
      BY <1>1, <2>1, <2>2 DEF Stopped, PCB
    <3> QED  BY <1>1, <2>1, <3>1 DEF ForkInv, Holds, IsFreed
  <2>3. CASE SchedulerType # 1
    BY <1>1, <2>1, <2>3 DEF ForkInv, Holds, IsFreed
  <2> QED  BY <2>2, <2>3
<1>7. CASE Pick
  <2> SUFFICES ASSUME ~Fault PROVE ForkInv'
    BY <1>2
  <2>1. PICK i \in First(readyQueue) :
          /\ spc = "pick" /\ running' = readyQueue[i] /\ readyQueue' = RemoveAt(readyQueue, i)
          /\ spc' = IF pcb[readyQueue[i]].state = "READY" THEN "start" ELSE "resume"
          /\ pcb[readyQueue[i]].state # "freed" /\ UNCHANGED <<pcb, ppc>>
    BY <1>7 DEF Pick, Main, procVars
  <2>2. i \in 1 .. Len(readyQueue) /\ readyQueue[i] \in Procs
    BY <1>1, <2>1 DEF First
  <2>3. \A p \in Procs : Holds(readyQueue', p) => Holds(readyQueue, p)
    BY <1>1, <2>1, <2>2, RemoveHolds
  <2>4. Holds(readyQueue, running') /\ running' \in Procs
    BY <1>1, <2>1, <2>2 DEF Holds
  <2>5. spc' = "start" => ppc[running'] = "none"
    BY <2>1, <2>4 DEF ForkInv, IsFreed
  <2> QED  BY <1>1, <2>1, <2>3, <2>5 DEF ForkInv, IsFreed
<1>8. CASE StartRunning \/ AssignPid \/ ResumeRunning
  <2> SUFFICES ASSUME ~Fault PROVE ForkInv'
    BY <1>2
  <2>1. /\ running # Null /\ running \in Procs /\ spc \in {"start", "pid", "resume"}
        /\ spc' \in {"pid", "spin"} /\ UNCHANGED <<readyQueue, running>>
        /\ \A p \in Procs : p # running => pcb'[p] = pcb[p] /\ ppc'[p] = ppc[p]
    BY <1>1, <1>8 DEF StartRunning, AssignPid, ResumeRunning, Main, procVars
  <2>2. ~Holds(readyQueue, running)
    BY <2>1 DEF AccountInv, RunningInv
  <2> QED  BY <1>1, <2>1, <2>2 DEF ForkInv, Holds, IsFreed
<1>9. CASE ProcFinished
  <2> SUFFICES ASSUME ~Fault PROVE ForkInv'
    BY <1>2
  <2>1. /\ running \in Procs /\ pcb' = [pcb EXCEPT ![running].remainingTime = shm]
        /\ UNCHANGED <<ppc, readyQueue, running, spc>>
    BY <1>1, <1>9 DEF ProcFinished, procVars
  <2>2. \A p \in Procs : pcb'[p].state = pcb[p].state
    BY <1>1, <2>1 DEF PCB
  <2> QED  BY <1>1, <2>1, <2>2 DEF ForkInv, Holds, IsFreed
<1>10. CASE ProcReaped
  <2>1. /\ running' = Null /\ pcb' = [pcb EXCEPT ![running].state = "freed"]
        /\ UNCHANGED <<ppc, readyQueue, spc>> /\ hpc = "reap"
    BY <1>10 DEF ProcReaped, procVars
  <2>2. running \in Procs
    BY <1>1, <2>1 DEF AccountInv, RunningInv
  <2>3. pcb'[running].state = "freed" /\ \A p \in Procs : p # running => pcb'[p] = pcb[p]
    BY <1>1, <2>1, <2>2 DEF PCB
  <2> QED  BY <1>1, <2>1, <2>2, <2>3 DEF ForkInv, Holds, IsFreed
<1> QED
  BY <1>2, <1>3, <1>4, <1>5, <1>6, <1>7, <1>8, <1>9, <1>10
  DEF Scheduling, SchedNext, SchedKilledEarly

(* The scheduler removes semSchedProc and exits only when every process it    *)
(* forked has ended, whatever the algorithm and the timing: also when the     *)
(* handler charges the wrong one it waits for whom it frees.                  *)
THEOREM NoJobOutlives ==
    ASSUME RQSZ >= N, numProcesses = N
    PROVE  Spec => []NoJobOutlivesScheduler
<1>1. AccountInv /\ LeaveInv => NoJobOutlivesScheduler
  <2> SUFFICES ASSUME AccountInv, LeaveInv, semSchedProc = Removed,
                      NEW p \in Procs, ppc[p] # "none"
               PROVE  ppc[p] = "end"
    BY DEF NoJobOutlivesScheduler, Forked
  <2>1. spc = "exit" /\ p \in Freed
    BY ExitWhenFreed DEF LeaveInv
  <2> QED  BY <2>1 DEF LeaveInv, Leave, Freed, IsFreed
<1>2. TypeOK /\ AccountInv /\ LeaveInv /\ ForkInv /\ [Next]_vars => (LeaveInv /\ ForkInv)'
  BY LeaveOthers, LeaveScheduling, ForkOthers, ForkScheduling DEF Next, Terminated
<1> QED  BY LeaveInit, <1>1, <1>2, TypeCorrect, AccountInvariant, PTL DEF Spec

------------------------------------------------------------------------------
(* Steps as the abstract CPU sees them.                                       *)

StatusOf(p) == CASE pcb[p].state \in {"none", "new"} -> "new"
                 [] pcb[p].state = "freed" -> "done"
                 [] p = running /\ ~Holds(readyQueue, p) -> "cpu"
                 [] OTHER -> "waiting"

(* The status the abstract CPU sees of a process.                             *)
LEMMA CPUStatus == ASSUME TypeOK PROVE cpuStatus = [p \in Procs |-> StatusOf(p)]
<1>1. readyQueue \in Seq(Procs)
  BY DEF TypeOK, SchedTypeOK
<1>2. \A p \in Procs : p \in Queued <=> Holds(readyQueue, p)
  BY <1>1 DEF Queued, ToSet, Holds
<1> QED  BY <1>2 DEF cpuStatus, StatusOf

(* Initial states map to initial states of the abstract CPU.                  *)
LEMMA CPUInit == Init => CPU!Init
<1> SUFFICES ASSUME Init PROVE CPU!Init
  OBVIOUS
<1>1. cpuStatus = [p \in Procs |-> "new"]
  <2>1. \A p \in Procs : pcb[p].state = "none"
    BY DEF Init, SchedInit
  <2>2. running \notin Procs
    BY NAssumption DEF Init, SchedInit, Procs, Null
  <2> QED  BY <2>1, <2>2 DEF cpuStatus
<1>2. [p \in Procs |-> Owed(p)] = [p \in Procs |-> processes[p].runTime]
  BY DEF Init, ProcInit, Owed
<1>3. processes \in Workloads
  BY DEF Init, GenInit
<1> QED  BY <1>1, <1>2, <1>3 DEF CPU!Init

(* The two shapes of a step of the abstract CPU. *)
LEMMA CPUStutters ==
    ASSUME cpuStatus = [p \in Procs |-> StatusOf(p)], cpuStatus' = [p \in Procs |-> StatusOf(p)'],
           \A p \in Procs : StatusOf(p)' = StatusOf(p) /\ Owed(p)' = Owed(p)
    PROVE  UNCHANGED CPU!vars
<1>1. cpuStatus' = cpuStatus
  BY Zenon
<1>2. [p \in Procs |-> Owed(p)]' = [p \in Procs |-> Owed(p)]
  BY Zenon
<1> QED  BY <1>1, <1>2 DEF CPU!vars

(* A step that changes the status of one process is a step of the abstract    *)
(* CPU if that change is.                                                     *)
LEMMA CPUMoves ==
    ASSUME NEW j \in Procs, NEW to,
           cpuStatus = [p \in Procs |-> StatusOf(p)], cpuStatus' = [p \in Procs |-> StatusOf(p)'],
           StatusOf(j)' = to,
           \A p \in Procs : (p # j => StatusOf(p)' = StatusOf(p)) /\ Owed(p)' = Owed(p)
    PROVE  CPU!Moves(j, StatusOf(j), to)
<1>1. cpuStatus[j] = StatusOf(j)
  OBVIOUS
<1>2. cpuStatus' = [cpuStatus EXCEPT ![j] = to]
  OBVIOUS
<1>3. [p \in Procs |-> Owed(p)]' = [p \in Procs |-> Owed(p)]
  BY Zenon
<1> QED  BY <1>1, <1>2, <1>3 DEF CPU!Moves

(* A second of service is Serve of the abstract CPU.                          *)
LEMMA CPUServes ==
    ASSUME NEW j \in Procs,
           cpuStatus = [p \in Procs |-> StatusOf(p)], cpuStatus' = [p \in Procs |-> StatusOf(p)'],
           StatusOf(j) = "cpu", Owed(j) > 0, Owed(j)' = Owed(j) - 1,
           \A p \in Procs : StatusOf(p)' = StatusOf(p) /\ (p # j => Owed(p)' = Owed(p))
    PROVE  CPU!Serve(j)
<1>1. cpuStatus' = cpuStatus /\ cpuStatus[j] = "cpu"
  OBVIOUS
<1> DEFINE owed == [p \in Procs |-> Owed(p)]
<1>2. owed[j] > 0 /\ owed' = [owed EXCEPT ![j] = @ - 1]
  OBVIOUS
<1> QED  BY <1>1, <1>2 DEF CPU!Serve

(* The steps that leave the PCBs' states, the queue, running and what is owed *)
(* alone.                                                                     *)
LEMMA CPUFrame ==
    ASSUME cpuStatus = [p \in Procs |-> StatusOf(p)], cpuStatus' = [p \in Procs |-> StatusOf(p)'],
           UNCHANGED <<processes, running, readyQueue>>, UNCHANGED procVars,
           \A p \in Procs : pcb'[p].state = pcb[p].state
    PROVE  UNCHANGED CPU!vars
<1>1. \A p \in Procs : Holds(readyQueue, p)' <=> Holds(readyQueue, p)
  BY DEF Holds
<1>2. \A p \in Procs : StatusOf(p)' = StatusOf(p) /\ Owed(p)' = Owed(p)
  BY <1>1 DEF StatusOf, Owed, procVars
<1> QED  BY <1>2, CPUStutters

------------------------------------------------------------------------------
(* Under HPF a child never shares the CPU and SIGPF always comes from the     *)
(* process in running, whatever the timing: nothing between fork() and        *)
(* waitpid() lets the scheduler put another process there.                    *)

(* Forked and not yet past its kill(getppid(), SIGPF). *)
Unannounced(p) == ppc[p] \in {"exec", "bound", "loop", "up", "blk", "kill"}

(* The process in running has told the scheduler that it is finished. *)
RunningAnnounced == running # Null /\ ppc[running] \in {"last", "end"}

(* The inductive invariant: ExtractMin is reached with the CPU free only, who *)
(* has not announced its end is in running, and a pending or half-handled     *)
(* SIGPF is that of the process in running.                                   *)
HPFInv ==
    /\ spc # "sleep"
    /\ spc = "pick" => running = Null
    /\ \A p \in Procs : Unannounced(p) => p = running /\ hpc = "main" /\ "SIGPF" \notin sigs
    /\ "SIGPF" \in sigs => RunningAnnounced /\ hpc = "main"
    /\ hpc = "reap" => RunningAnnounced

(* Initially nothing runs and nothing is signalled. *)
LEMMA HPFInit == Init => HPFInv
  BY DEF Init, IPCInit, ProcInit, SchedInit, HPFInv, Unannounced, RunningAnnounced

(* The steps of a job: only ProcKill raises SIGPF, and its sender is running. *)
LEMMA HPFJob ==
    ASSUME TypeOK, HPFInv, NEW p \in Procs, Job(p)
    PROVE  HPFInv'
<1>1. UNCHANGED <<spc, hpc, running>> /\ ppc \in [Procs -> ProcPoints] /\ p # Null
  BY NAssumption DEF Job, schedVars, TypeOK, ProcTypeOK, Procs, Null
<1>2. CASE ProcKill(p)
  <2>1. p = running /\ hpc = "main" /\ ppc' = [ppc EXCEPT ![p] = "last"]
        /\ sigs' \subseteq sigs \cup {"SIGPF"}
    BY <1>2 DEF ProcKill, HPFInv, Unannounced
  <2>2. \A q \in Procs : Unannounced(q)' => Unannounced(q) /\ q # p
    BY <1>1, <2>1 DEF Unannounced
  <2>3. RunningAnnounced'
    BY <1>1, <2>1 DEF RunningAnnounced
  <2> QED  BY <1>1, <2>1, <2>2, <2>3 DEF HPFInv
<1>3. CASE ~ProcKill(p)
  <2>1. UNCHANGED sigs
    BY <1>3 DEF Job, ProcNext, ProcBind, ProcSigEarly, ProcRead, ProcTick, ProcUp,
                ProcSettle, SigSleepHandler, ProcLast, ipcVars
  <2>2. \A q \in Procs : q # p => ppc'[q] = ppc[q]
    BY <1>1, <1>3 DEF Job, ProcNext, ProcBind, ProcSigEarly, ProcRead, ProcTick, ProcUp,
                ProcSettle, SigSleepHandler, ProcLast
  <2>3. Unannounced(p)' => Unannounced(p)
    BY <1>1, <1>3 DEF Job, ProcNext, ProcBind, ProcSigEarly, ProcRead, ProcTick, ProcUp,
                ProcSettle, SigSleepHandler, ProcLast, Unannounced
  <2>4. ppc[p] \in {"last", "end"} => ppc'[p] \in {"last", "end"}
    BY <1>1, <1>3 DEF Job, ProcNext, ProcBind, ProcSigEarly, ProcRead, ProcTick, ProcUp,
                ProcSettle, SigSleepHandler, ProcLast
  <2>5. \A q \in Procs : Unannounced(q)' => Unannounced(q)
    BY <2>2, <2>3 DEF Unannounced
  <2>6. RunningAnnounced => RunningAnnounced'
    BY <1>1, <2>2, <2>4 DEF RunningAnnounced, TypeOK, SchedTypeOK
  <2> QED  BY <1>1, <2>1, <2>5, <2>6 DEF HPFInv
<1> QED  BY <1>2, <1>3

(* The steps of the scheduler. *)
LEMMA HPFScheduling ==
    ASSUME SchedulerType = 2, TypeOK, HPFInv, Scheduling
    PROVE  HPFInv'
<1> USE DEF HPFInv
<1>1. ASSUME UNCHANGED <<ppc, running, sigs, hpc>>, spc' \notin {"sleep", "pick"}
      PROVE  HPFInv'
  BY <1>1 DEF Unannounced, RunningAnnounced
<1>2. CASE Fault
  <2>1. UNCHANGED <<ppc, running, sigs>> /\ hpc' = "main" /\ spc' = "fault"
    BY <1>2 DEF Fault, procVars
  <2> QED  BY <2>1 DEF Unannounced, RunningAnnounced
<1>3. CASE SchedBoot \/ SchedNewTick \/ SchedExit \/ DownGen \/ CheckRunning \/ DownProc
           \/ ReadMSGQ \/ CreateEntry \/ ReadDone
  BY <1>1, <1>2, <1>3 DEF SchedBoot, SchedNewTick, SchedExit, DownGen, CheckRunning, DownProc,
                    ReadMSGQ, CreateEntry, ReadDone, Main, HandlerUnchanged, procVars, ipcVars
<1>4. CASE SchedKilledEarly
  BY <1>2, <1>4 DEF SchedKilledEarly
<1>5. CASE Schedule
  BY <1>5 DEF Schedule, AlgorithmPath, HandlerUnchanged, procVars, ipcVars, Unannounced, RunningAnnounced
<1>6. CASE Charge
  BY <1>1, <1>2, <1>6 DEF Charge, HPFSheduler, SRTNSheduler, RRSheduler,
                          HandlerUnchanged, procVars, ipcVars
<1>7. CASE StopRunning
  BY <1>2, <1>7 DEF StopRunning, Main
<1>8. CASE Pick
  <2> SUFFICES ASSUME ~Fault PROVE HPFInv'
    BY <1>2
  <2>1. /\ running = Null /\ sigs = {} /\ hpc = "main"
        /\ UNCHANGED <<ppc, sigs, hpc>> /\ spc' \in {"start", "resume"}
    BY <1>8 DEF Pick, Main, HandlerUnchanged, procVars, ipcVars
  <2>2. \A p \in Procs : ~Unannounced(p)
    BY <2>1, NAssumption DEF Procs, Null
  <2> QED  BY <2>1, <2>2 DEF Unannounced
<1>9. CASE StartRunning
  <2> SUFFICES ASSUME ~Fault PROVE HPFInv'
    BY <1>2
  <2>1. /\ running \in Procs /\ sigs = {} /\ hpc = "main" /\ spc' = "pid"
        /\ ppc' = [ppc EXCEPT ![running] = "exec"]
        /\ UNCHANGED <<running, sigs, hpc>>
    BY <1>9 DEF StartRunning, Main, HandlerUnchanged, TypeOK, SchedTypeOK
  <2>2. \A p \in Procs : Unannounced(p)' => p = running
    BY <2>1 DEF Unannounced, TypeOK, ProcTypeOK
  <2> QED  BY <2>1, <2>2
<1>10. CASE AssignPid
  BY <1>1, <1>2, <1>10 DEF AssignPid, HandlerUnchanged, procVars, ipcVars
<1>11. CASE ResumeRunning
  BY <1>1, <1>2, <1>11 DEF ResumeRunning, HandlerUnchanged, procVars
<1>12. CASE ReadProcess
  <2>1. UNCHANGED <<spc, hpc, running, ppc>> /\ sigs' = sigs \ {"SIGMSGQ"}
    BY <1>12 DEF ReadProcess, procVars
  <2> QED  BY <2>1 DEF Unannounced, RunningAnnounced
<1>13. CASE ProcFinished
  <2> SUFFICES ASSUME ~Fault PROVE HPFInv'
    BY <1>2
  <2>1. /\ UNCHANGED <<spc, running, ppc>> /\ sigs' = sigs \ {"SIGPF"} /\ hpc' = "reap"
        /\ "SIGPF" \in sigs
    BY <1>13 DEF ProcFinished, procVars
  <2>2. RunningAnnounced' /\ \A p \in Procs : ~Unannounced(p)'
    BY <2>1 DEF RunningAnnounced, Unannounced
  <2> QED  BY <2>1, <2>2
<1>14. CASE ProcReaped
  <2>1. /\ UNCHANGED <<spc, ppc, sigs>> /\ hpc = "reap" /\ hpc' = "main" /\ running' = Null
    BY <1>14 DEF ProcReaped, Waitpid, procVars
  <2>2. "SIGPF" \notin sigs' /\ \A p \in Procs : ~Unannounced(p)'
    BY <2>1 DEF Unannounced
  <2> QED  BY <2>1, <2>2
<1> QED
  BY <1>3, <1>4, <1>5, <1>6, <1>7, <1>8, <1>9, <1>10, <1>11, <1>12, <1>13, <1>14
  DEF Scheduling, SchedNext

(* The clock and the generator neither schedule nor raise SIGPF. *)
LEMMA HPFOthers ==
    ASSUME HPFInv, Clock \/ Generator \/ UNCHANGED vars
    PROVE  HPFInv'
<1>1. /\ UNCHANGED <<spc, hpc, running, ppc>>
      /\ "SIGPF" \in sigs' <=> "SIGPF" \in sigs
  BY DEF Clock, ClockTick, Generator, GenNext, GenNewTick, GenSend, GenTickDone,
         GenSignalEnd, GenLastUp, GenReap, vars, ipcVars, procVars, schedVars
<1> QED  BY <1>1 DEF HPFInv, Unannounced, RunningAnnounced

(* HPFInv is inductive together with TypeOK: it holds of every reachable     *)
(* state of the scheduler under HPF.                                          *)
THEOREM HPFInvariant == ASSUME SchedulerType = 2 PROVE Spec => []HPFInv
<1>1. TypeOK /\ HPFInv /\ [Next]_vars => HPFInv'
  BY HPFJob, HPFScheduling, HPFOthers DEF Next, Terminated
<1> QED  BY HPFInit, <1>1, TypeCorrect, PTL DEF Spec

(* ProcFinished reports, frees and waits for the process that sent SIGPF, and *)
(* never runs with running cleared, under HPF and any timing.                 *)
THEOREM HPFFinishAttributed == ASSUME SchedulerType = 2 PROVE Spec => []FinishAttributed
<1>1. HPFInv => FinishAttributed
  BY DEF HPFInv, FinishAttributed, RunningAnnounced
<1> QED  BY <1>1, HPFInvariant, PTL

(* At most one child works at any time, under HPF and any timing. *)
THEOREM HPFOneChild == ASSUME SchedulerType = 2 PROVE Spec => []OneChild
<1>1. HPFInv => OneChild
  BY DEF HPFInv, OneChild, Working, Unannounced
<1> QED  BY <1>1, HPFInvariant, PTL

------------------------------------------------------------------------------
(* What a process has behind it, from its arrival to its end.                 *)

(* A queued process was not forked; a forked one stays in running until it is *)
(* freed, was given its run time through the shared word and is owed nothing  *)
(* once it stops working; its memory is held until then; and it is freed      *)
(* before its exit only when the handler finds no pid, which is followed by a *)
(* fault.                                                                     *)
Career(p) ==
    /\ pcb[p].state # "BLOCKED"
    /\ p \in exited => ppc[p] = "end"
    /\ Holds(readyQueue, p) => ppc[p] = "none" /\ pcb[p].state = "READY"
    /\ pcb[p].state \in {"none", "new"} => ppc[p] = "none"
    /\ ppc[p] # "none" /\ pcb[p].state # "freed" => p = running
    /\ p = running => pcb[p].state = "READY" /\ (spc = "start" <=> ppc[p] = "none")
    /\ p = running /\ ppc[p] # "none" /\ ~pcb[p].pid => spc \in {"pid", "fault"}
    /\ pcb[p].state = "freed" => ppc[p] \in {"none", "last", "end"}
    /\ pcb[p].state = "freed" /\ ppc[p] = "last" =>
            spc = "fault" \/ (spc = "pid" /\ running = Null)
    /\ pcb[p].state = "READY" => Holds(readyQueue, p) \/ p = running
    /\ pcb[p].state = "READY" => p \in allocated \/ (p = running /\ ppc[p] \in {"last", "end"})
    /\ pcb[p].state = "READY" /\ ppc[p] = "none" => pcb[p].remainingTime = processes[p].runTime
    /\ ppc[p] \in {"exec", "bound"} => shm = processes[p].runTime
    /\ ppc[p] \in {"loop", "up"} => remainingtime[p] > 0
    /\ ppc[p] \in {"kill", "last", "end"} => remainingtime[p] = 0
    /\ ppc[p] # "blk"

(* Nobody is ever stopped or woken. *)
NoSleep == slp = {} /\ (\A p \in Procs : ~blocked[p]) /\ spc # "resume"

CareerInv ==
    /\ NoSleep
    /\ semSchedProc = Removed => spc = "exit"
    /\ \A p \in Procs : Career(p)

(* No career has begun.                                                       *)
LEMMA CareerInit == Init => CareerInv
  BY DEF Init, IPCInit, ProcInit, SchedInit, CareerInv, Career, NoSleep, Removed, Holds, Procs, Null

(* Steps that only move the scheduler on. *)
LEMMA CareerFrame ==
    ASSUME CareerInv,
           UNCHANGED <<processes, shm, slp, pcb, readyQueue, allocated, running>>,
           UNCHANGED procVars,
           \A p \in Procs : p \in exited' => p \in exited,
           semSchedProc' = Removed => spc' = "exit",
           spc' # "resume",
           running # Null => (spc' = "start" <=> spc = "start"),
           spc \in {"pid", "fault"} => spc' \in {spc, "fault"}
    PROVE  CareerInv'
<1>1. NoSleep'
  BY DEF CareerInv, NoSleep, procVars
<1>2. \A p \in Procs : Career(p)'
  <2> TAKE p \in Procs
  <2>1. Career(p) /\ Holds(readyQueue, p)' = Holds(readyQueue, p)
    BY DEF CareerInv, Holds
  <2>2. p # Null
    BY NAssumption DEF Procs, Null
  <2> QED  BY <2>1, <2>2 DEF Career, procVars
<1> QED  BY <1>1, <1>2 DEF CareerInv

(* The clock and the generator do not touch what Career speaks of. *)
LEMMA CareerOthers ==
    ASSUME TypeOK, CareerInv, Clock \/ Generator \/ UNCHANGED vars
    PROVE  CareerInv'
<1>1. CASE Clock \/ UNCHANGED vars
  BY <1>1, CareerFrame DEF Clock, ClockTick, genVars, procVars, schedVars, vars, ipcVars, CareerInv, NoSleep
<1>2. CASE Generator
  <2>1. /\ UNCHANGED <<processes, shm, slp, pcb, readyQueue, allocated, running, spc, semSchedProc>>
        /\ UNCHANGED procVars
        /\ exited' = exited \/ exited' = exited \ {Sched}
    BY <1>2 DEF Generator, GenNext, GenNewTick, GenSend, GenTickDone, GenSignalEnd,
                GenLastUp, GenReap, ipcVars, schedVars
  <2>2. \A p \in Procs : p \in exited' <=> p \in exited
    BY <2>1, NAssumption DEF Procs, Sched
  <2>3. \A p \in Procs : Career(p)'
    BY <2>1, <2>2 DEF CareerInv, Career, Holds, procVars
  <2> QED  BY <2>1, <2>3 DEF CareerInv, NoSleep, procVars
<1> QED  BY <1>1, <1>2

(* A job that works is in running, so the shared word is its own. *)
LEMMA CareerJob ==
    ASSUME TypeOK, HPFInv, AccountInv, CareerInv, numProcesses = N,
           NEW p \in Procs, Job(p)
    PROVE  CareerInv'
<1>1. /\ UNCHANGED <<processes, pcb, readyQueue, allocated, running, spc>>
      /\ ppc \in [Procs -> ProcPoints] /\ remainingtime \in [Procs -> Int]
      /\ blocked \in [Procs -> BOOLEAN] /\ shm \in Int /\ exited \subseteq Procs \cup {Sched}
      /\ slp = {} /\ \A q \in Procs : ~blocked[q]
  BY DEF Job, genVars, schedVars, TypeOK, ProcTypeOK, IPCTypeOK, CareerInv, NoSleep
<1>2. Unannounced(p) => semSchedProc # Removed
  <2> SUFFICES ASSUME semSchedProc = Removed, Unannounced(p) PROVE FALSE
    OBVIOUS
  <2>1. p \in Freed
    BY ExitWhenFreed DEF CareerInv
  <2> QED  BY <2>1 DEF Freed, CareerInv, Career, Unannounced
<1>3. Unannounced(p) => p = running /\ \A q \in Procs : Unannounced(q) => q = p
  BY DEF HPFInv
<1>4. Career(p) /\ \A q \in Procs : Career(q)
  BY DEF CareerInv
<1>5. processes[p].runTime \in Nat
  BY DEF TypeOK, GenTypeOK, process_t
<1>6. ppc[p] # "blk" /\ ~ProcSigEarly(p) /\ ~SigSleepHandler(p) /\ ~ProcSettle(p)
  BY <1>1, <1>4 DEF ProcSigEarly, SigSleepHandler, ProcSettle, Career
<1>7. CASE ProcBind(p)
  <2>1. /\ ppc[p] = "exec" /\ ppc' = [ppc EXCEPT ![p] = "bound"]
        /\ UNCHANGED <<remainingtime, blocked, shm, semSchedProc, slp, exited>>
    BY <1>7 DEF ProcBind, ipcVars
  <2> QED  BY <1>1, <1>4, <2>1 DEF CareerInv, Career, NoSleep, Holds
<1>8. CASE ProcRead(p)
  <2>1. /\ ppc[p] = "bound" /\ semSchedProc # Removed
        /\ remainingtime' = [remainingtime EXCEPT ![p] = shm]
        /\ ppc' = [ppc EXCEPT ![p] = IF shm > 0 THEN "loop" ELSE "kill"]
        /\ UNCHANGED <<blocked, shm, semSchedProc, slp, exited>>
    BY <1>2, <1>8 DEF ProcRead, Unannounced
  <2>2. shm = processes[p].runTime
    BY <1>4, <2>1 DEF Career
  <2>3. \A q \in Procs : Career(q)'
    BY <1>1, <1>4, <1>5, <2>1, <2>2 DEF Career, Holds
  <2> QED  BY <1>1, <2>1, <2>3 DEF CareerInv, NoSleep
<1>9. CASE ProcTick(p)
  <2>1. /\ ppc[p] = "loop" /\ shm' = remainingtime[p] - 1
        /\ remainingtime' = [remainingtime EXCEPT ![p] = @ - 1]
        /\ ppc' = [ppc EXCEPT ![p] = IF LastTick(p) THEN "kill" ELSE "up"]
        /\ UNCHANGED <<blocked, semSchedProc, slp, exited>>
    BY <1>9 DEF ProcTick
  <2>2. \A q \in Procs : q # p => ppc[q] \notin {"exec", "bound"}
    BY <1>3, <2>1 DEF Unannounced
  <2>3. remainingtime[p] \in Int /\ remainingtime[p] > 0
    BY <1>1, <1>4, <2>1 DEF Career
  <2>4. \A q \in Procs : Career(q)'
    BY <1>1, <1>4, <2>1, <2>2, <2>3 DEF Career, Holds, LastTick
  <2> QED  BY <1>1, <2>1, <2>4 DEF CareerInv, NoSleep
<1>10. CASE ProcUp(p)
  <2>1. /\ ppc[p] = "up" /\ semSchedProc # Removed
        /\ semSchedProc' = semSchedProc + 1
        /\ ppc' = [ppc EXCEPT ![p] = "loop"]
        /\ UNCHANGED <<remainingtime, blocked, shm, slp, exited>>
    BY <1>1, <1>2, <1>4, <1>10 DEF ProcUp, Looping, Career, Unannounced, Up
  <2>2. semSchedProc' # Removed
    BY <2>1 DEF TypeOK, IPCTypeOK, Removed
  <2>3. \A q \in Procs : Career(q)'
    BY <1>1, <1>4, <2>1 DEF Career, Holds
  <2> QED  BY <1>1, <2>1, <2>2, <2>3 DEF CareerInv, NoSleep
<1>11. CASE ProcKill(p)
  <2>1. /\ ppc[p] = "kill" /\ ppc' = [ppc EXCEPT ![p] = "last"]
        /\ UNCHANGED <<remainingtime, blocked, shm, semSchedProc, slp, exited>>
    BY <1>11 DEF ProcKill
  <2> QED  BY <1>1, <1>4, <2>1 DEF CareerInv, Career, NoSleep, Holds
<1>12. CASE ProcLast(p)
  <2>1. /\ ppc[p] = "last" /\ ppc' = [ppc EXCEPT ![p] = "end"]
        /\ semSchedProc' = Up(semSchedProc) /\ exited' = exited \cup {p}
        /\ UNCHANGED <<remainingtime, blocked, shm, slp>>
    BY <1>12 DEF ProcLast
  <2>2. semSchedProc' = Removed => semSchedProc = Removed
    BY <2>1 DEF Up, TypeOK, IPCTypeOK, Removed
  <2>3. \A q \in Procs : Career(q)'
    BY <1>1, <1>4, <2>1 DEF Career, Holds
  <2> QED  BY <1>1, <2>1, <2>2, <2>3 DEF CareerInv, NoSleep
<1> QED  BY <1>6, <1>7, <1>8, <1>9, <1>10, <1>11, <1>12 DEF Job, ProcNext

(* The steps of the scheduler: a process picked was never forked, is published *)
(* and forked at once, and leaves running only when it has announced its end. *)
LEMMA CareerScheduling ==
    ASSUME SchedulerType = 2, RQSZ >= N,
           TypeOK, HPFInv, AccountInv, CareerInv, Scheduling
    PROVE  CareerInv'
<1>1. /\ UNCHANGED processes /\ pcb \in [Procs -> PCB] /\ readyQueue \in Seq(Procs)
      /\ running \in Procs \cup {Null} /\ ppc \in [Procs -> ProcPoints]
      /\ Null \notin Procs /\ Sched \notin Procs /\ \A q \in Procs : pcb[q] \in PCB
  BY NAssumption DEF Scheduling, genVars, TypeOK, SchedTypeOK, ProcTypeOK, Procs, Null, Sched
<1>2. spc # "exit" /\ semSchedProc # Removed
  BY DEF Scheduling, SchedNext, SchedBoot, SchedKilledEarly, SchedNewTick, SchedExit, DownGen,
         CheckRunning, DownProc, ReadMSGQ, CreateEntry, ReadDone, Schedule, Charge, StopRunning,
         Pick, StartRunning, AssignPid, ResumeRunning, ReadProcess, ProcFinished, ProcReaped,
         UserMode, Main, AccountInv, CountInv, CareerInv
<1>3. NoSleep /\ spc # "sleep" /\ \A q \in Procs : Career(q)
  BY DEF CareerInv, HPFInv
<1>4. ASSUME Fault, running = Null \/ spc # "start" PROVE CareerInv'
  <2>1. /\ UNCHANGED <<shm, slp, pcb, readyQueue, allocated, running, semSchedProc>>
        /\ UNCHANGED procVars /\ spc' = "fault" /\ exited' = exited \cup {Sched}
    BY <1>4 DEF Fault
  <2> QED  BY <1>1, <1>2, <1>4, <2>1, CareerFrame
<1>5. CASE SchedBoot \/ SchedNewTick \/ SchedExit \/ DownGen \/ CheckRunning \/ DownProc
           \/ ReadDone \/ Schedule \/ ReadProcess
  <2>1. /\ UNCHANGED <<shm, slp, pcb, readyQueue, allocated, running>> /\ UNCHANGED procVars
        /\ exited' \subseteq exited \cup {Sched}
        /\ spc' = spc \/ (spc \notin {"start", "pid", "fault"} /\ spc' \notin {"start", "resume"})
    BY <1>5 DEF SchedBoot, SchedNewTick, SchedExit, DownGen, CheckRunning, DownProc, ReadDone,
                Schedule, ReadProcess, AlgorithmPath, Main, ipcVars
  <2>2. semSchedProc' = Removed => spc' = "exit"
    BY <1>2, <1>5 DEF SchedBoot, SchedNewTick, SchedExit, DownGen, CheckRunning, DownProc, ReadDone,
                Schedule, ReadProcess, Removed, CanDown, Down, ipcVars, TypeOK, IPCTypeOK
  <2> QED  BY <1>1, <1>3, <2>1, <2>2, CareerFrame DEF NoSleep
<1>6. CASE SchedKilledEarly
  BY <1>4, <1>6 DEF SchedKilledEarly
<1>7. CASE ReadMSGQ
  <2> SUFFICES ASSUME ~Fault PROVE CareerInv'
    BY <1>4, <1>7 DEF ReadMSGQ, Main
  <2> DEFINE h == Head(msgq)
  <2>1. /\ spc = "read" /\ spc' = "create" /\ msgq # <<>>
        /\ pcb' = [pcb EXCEPT ![h].state = "new"]
        /\ UNCHANGED <<shm, slp, exited, readyQueue, allocated, running, semSchedProc>>
        /\ UNCHANGED procVars
    BY <1>7 DEF ReadMSGQ, Main
  <2>2. h \in Procs /\ Holds(msgq, h)
    BY <2>1, TailHolds DEF TypeOK, IPCTypeOK, AccountInv, PlaceInv
  <2> HIDE DEF h
  <2>3. h # running /\ ~Holds(readyQueue, h) /\ pcb[h].state # "freed"
    BY <2>2 DEF AccountInv, PlaceInv, IsFreed
  <2>4. ppc[h] = "none"
    BY <1>3, <2>2, <2>3 DEF Career
  <2>5. \A q \in Procs : Career(q)'
    <3> TAKE q \in Procs
    <3>1. CASE q = h
      BY <1>1, <1>3, <2>1, <2>2, <2>3, <2>4, <3>1 DEF Career, Holds, PCB, procVars
    <3>2. CASE q # h
      BY <1>1, <1>3, <2>1, <2>2, <3>2 DEF Career, Holds, procVars
    <3> QED  BY <3>1, <3>2
  <2> QED  BY <1>2, <1>3, <2>1, <2>5 DEF CareerInv, NoSleep, procVars
<1>8. CASE CreateEntry
  <2>1. PICK e \in Procs : pcb[e].state = "new" /\ (EntryRefused(e) \/ EntryCreated(e))
    BY <1>8 DEF CreateEntry
  <2>2. /\ spc = "create" /\ spc' = "read"
        /\ UNCHANGED <<shm, slp, exited, running, semSchedProc>> /\ UNCHANGED procVars
    BY <1>8 DEF CreateEntry, Main, ipcVars
  <2>3. e # running /\ ~Holds(readyQueue, e) /\ ppc[e] = "none" /\ IsInjective(readyQueue)
    BY <1>3, <2>1 DEF AccountInv, PlaceInv, IsNew, Career
  <2>4. CASE EntryRefused(e)
    <3>1. \A q \in Procs : Career(q)'
      <4> TAKE q \in Procs
      <4>1. CASE q = e
        BY <1>1, <1>3, <2>1, <2>2, <2>3, <2>4, <4>1 DEF EntryRefused, Career, Holds, PCB, procVars
      <4>2. CASE q # e
        BY <1>1, <1>3, <2>1, <2>2, <2>4, <4>2 DEF EntryRefused, Career, Holds, procVars
      <4> QED  BY <4>1, <4>2
    <3> QED  BY <1>2, <1>3, <2>2, <3>1 DEF CareerInv, NoSleep, procVars
  <2>5. CASE EntryCreated(e)
    <3>1. \A q : Holds(readyQueue', q) <=> Holds(readyQueue, q) \/ q = e
      <4>1. readyQueue' = Append(readyQueue, e)
        BY <1>1, <2>3, <2>5, RoomForAll DEF EntryCreated
      <4> QED  BY <1>1, <2>3, <4>1, AppendHolds
    <3>2. \A q \in Procs : Career(q)'
      <4> TAKE q \in Procs
      <4>1. CASE q = e
        BY <1>1, <1>3, <2>2, <2>3, <2>5, <3>1, <4>1 DEF EntryCreated, Career, procVars
      <4>2. CASE q # e
        BY <1>1, <1>3, <2>2, <2>5, <3>1, <4>2 DEF EntryCreated, Career, procVars
      <4> QED  BY <4>1, <4>2
    <3> QED  BY <1>2, <1>3, <2>2, <3>2 DEF CareerInv, NoSleep, procVars
  <2> QED  BY <2>1, <2>4, <2>5
<1>9. CASE Charge
  <2> SUFFICES ASSUME ~Fault PROVE CareerInv'
    BY <1>4, <1>9 DEF Charge, Main
  <2>1. /\ spc = "charge" /\ spc' = "spin" /\ running # Null
        /\ pcb' = [pcb EXCEPT ![running].remainingTime = shm]
        /\ UNCHANGED <<shm, slp, exited, readyQueue, allocated, running, semSchedProc>>
        /\ UNCHANGED procVars
    BY <1>9 DEF Charge, HPFSheduler, SRTNSheduler, RRSheduler, Main, ipcVars
  <2>2. /\ pcb'[running].state = pcb[running].state
        /\ \A q \in Procs : q # running => pcb'[q] = pcb[q]
    BY <1>1, <2>1 DEF PCB
  <2>3. \A q \in Procs : Holds(readyQueue, q)' <=> Holds(readyQueue, q)
    BY <2>1 DEF Holds
  <2>4. Career(running)'
    BY <1>1, <1>3, <2>1, <2>2, <2>3 DEF Career, procVars
  <2>5. \A q \in Procs : q # running => Career(q)'
    BY <1>1, <1>3, <2>1, <2>2, <2>3 DEF Career, procVars
  <2> QED  BY <1>2, <1>3, <2>1, <2>4, <2>5 DEF CareerInv, NoSleep, procVars
<1>10. CASE StopRunning \/ ResumeRunning
  BY <1>3, <1>10 DEF StopRunning, ResumeRunning, Main, NoSleep
<1>11. CASE Pick
  <2> SUFFICES ASSUME ~Fault PROVE CareerInv'
    BY <1>4, <1>11 DEF Pick, Main
  <2>1. PICK i \in First(readyQueue) :
          /\ spc = "pick" /\ running' = readyQueue[i] /\ readyQueue' = RemoveAt(readyQueue, i)
          /\ spc' = IF pcb[readyQueue[i]].state = "READY" THEN "start" ELSE "resume"
          /\ UNCHANGED <<shm, slp, exited, pcb, allocated, semSchedProc>> /\ UNCHANGED procVars
    BY <1>11 DEF Pick, Main, ipcVars
  <2>2. running = Null /\ i \in 1 .. Len(readyQueue) /\ readyQueue[i] \in Procs
    BY <1>1, <2>1 DEF HPFInv, First
  <2>3. \A q : Holds(readyQueue', q) <=> Holds(readyQueue, q) /\ q # running'
    BY <1>1, <2>1, <2>2, RemoveHolds DEF AccountInv, PlaceInv
  <2>4. Holds(readyQueue, running') /\ running' \in Procs
    BY <1>1, <2>1, <2>2 DEF Holds
  <2>5. pcb[running'].state = "READY" /\ ppc[running'] = "none" /\ spc' = "start"
    BY <1>3, <2>1, <2>4 DEF Career
  <2>6. \A q \in Procs : Career(q)'
    BY <1>1, <1>3, <2>1, <2>2, <2>3, <2>4, <2>5 DEF Career, procVars
  <2> QED  BY <1>2, <1>3, <2>1, <2>5, <2>6 DEF CareerInv, NoSleep, procVars
<1>12. CASE StartRunning
  <2> SUFFICES ASSUME ~Fault PROVE CareerInv'
    BY <1>4, <1>12 DEF StartRunning, Fault
  <2>1. /\ spc = "start" /\ spc' = "pid" /\ running \in Procs
        /\ shm' = pcb[running].remainingTime
        /\ pcb' = [pcb EXCEPT ![running].waitingTime = clk - processes[running].arrivalTime]
        /\ ppc' = [ppc EXCEPT ![running] = "exec"]
        /\ UNCHANGED <<slp, exited, readyQueue, allocated, running, semSchedProc, remainingtime, blocked>>
    BY <1>1, <1>12 DEF StartRunning, Main
  <2>2. Career(running) /\ pcb[running].state = "READY" /\ ppc[running] = "none"
    BY <1>3, <2>1 DEF Career
  <2>3. \A q \in Procs : q # running => ppc[q] \notin {"exec", "bound"}
    BY DEF HPFInv, Unannounced
  <2>4. \A q \in Procs : Career(q)'
    <3> TAKE q \in Procs
    <3>1. CASE q = running
      <4>1. /\ pcb'[q].state = "READY" /\ pcb'[q].remainingTime = pcb[q].remainingTime
            /\ ppc'[q] = "exec" /\ shm' = processes'[q].runTime
        <5>1. pcb[q].remainingTime = processes[q].runTime
          BY <2>2, <3>1 DEF Career
        <5>2. pcb'[q] = [pcb[q] EXCEPT !.waitingTime = clk - processes[q].arrivalTime]
          BY <1>1, <2>1, <3>1
        <5>3. pcb'[q].state = pcb[q].state /\ pcb'[q].remainingTime = pcb[q].remainingTime
          BY <1>1, <5>2 DEF PCB
        <5>4. shm' = pcb[q].remainingTime /\ processes' = processes
          BY <1>1, <2>1, <3>1
        <5>5. ppc'[q] = "exec" /\ pcb[q].state = "READY"
          BY <1>1, <2>1, <2>2, <3>1
        <5> QED  BY <5>1, <5>3, <5>4, <5>5
      <4>2. q \in allocated' /\ q \notin exited' /\ ~Holds(readyQueue', q)
        BY <1>1, <2>1, <2>2, <3>1 DEF Career, Holds, AccountInv, RunningInv
      <4> QED  BY <2>1, <3>1, <4>1, <4>2 DEF Career
    <3>2. CASE q # running
      BY <1>1, <1>3, <2>1, <2>3, <3>2 DEF Career, Holds
    <3> QED  BY <3>1, <3>2
  <2> QED  BY <1>2, <1>3, <2>1, <2>4 DEF CareerInv, NoSleep
<1>13. CASE AssignPid
  <2> SUFFICES ASSUME ~Fault PROVE CareerInv'
    BY <1>4, <1>13 DEF AssignPid, Main
  <2>1. /\ spc = "pid" /\ spc' = "spin" /\ running \in Procs
        /\ pcb' = [pcb EXCEPT ![running].pid = TRUE]
        /\ UNCHANGED <<shm, slp, exited, readyQueue, allocated, running, semSchedProc>>
        /\ UNCHANGED procVars
    BY <1>1, <1>13 DEF AssignPid, Main, ipcVars
  <2>2. /\ pcb'[running].state = pcb[running].state
        /\ pcb'[running].remainingTime = pcb[running].remainingTime
        /\ \A q \in Procs : q # running => pcb'[q] = pcb[q]
    BY <1>1, <2>1 DEF PCB
  <2>3. \A q \in Procs : Holds(readyQueue, q)' <=> Holds(readyQueue, q)
    BY <2>1 DEF Holds
  <2>4. \A q \in Procs : Career(q)'
    BY <1>1, <1>3, <2>1, <2>2, <2>3 DEF Career, procVars
  <2> QED  BY <1>2, <1>3, <2>1, <2>4 DEF CareerInv, NoSleep, procVars
<1>14. CASE ProcFinished
  <2>1. "SIGPF" \in sigs /\ RunningAnnounced /\ spc # "start"
    BY <1>1, <1>3, <1>14 DEF ProcFinished, HPFInv, RunningAnnounced, Career
  <2> SUFFICES ASSUME ~Fault PROVE CareerInv'
    BY <1>4, <2>1
  <2>2. /\ UNCHANGED <<spc, shm, slp, exited, readyQueue, running, semSchedProc>>
        /\ UNCHANGED procVars /\ allocated' = allocated \ {running}
        /\ pcb' = [pcb EXCEPT ![running].remainingTime = shm]
    BY <1>14 DEF ProcFinished
  <2>3. running \in Procs /\ pcb'[running].state = pcb[running].state
        /\ \A q \in Procs : q # running => pcb'[q] = pcb[q]
    BY <1>1, <2>1, <2>2 DEF RunningAnnounced, PCB
  <2>4. \A q \in Procs : Holds(readyQueue, q)' <=> Holds(readyQueue, q)
    BY <2>2 DEF Holds
  <2>5. Career(running)'
    BY <1>1, <1>3, <2>1, <2>2, <2>3, <2>4 DEF RunningAnnounced, Career, procVars
  <2>6. \A q \in Procs : q # running => Career(q)'
    BY <1>1, <1>3, <2>1, <2>2, <2>3, <2>4 DEF Career, procVars
  <2> QED  BY <1>2, <1>3, <2>2, <2>5, <2>6 DEF CareerInv, NoSleep, procVars
<1>15. CASE ProcReaped
  <2>1. /\ UNCHANGED <<spc, shm, slp, readyQueue, allocated, semSchedProc>> /\ UNCHANGED procVars
        /\ running' = Null /\ pcb' = [pcb EXCEPT ![running].state = "freed"]
        /\ Waitpid /\ RunningAnnounced /\ running \in Procs
    BY <1>1, <1>15 DEF ProcReaped, HPFInv, RunningAnnounced
  <2>2. exited' \subseteq exited /\ (running \in exited \/ ~pcb[running].pid)
    BY <2>1 DEF Waitpid
  <2>3. ppc[running] = "end" \/ (ppc[running] = "last" /\ spc \in {"pid", "fault"})
    BY <1>3, <2>1, <2>2 DEF Career, RunningAnnounced
  <2>4. ~Holds(readyQueue, running)
    BY <1>3, <2>1, <2>3 DEF Career
  <2>5. \A q \in Procs : Career(q)'
    <3> TAKE q \in Procs
    <3>1. CASE q = running
      BY <1>1, <1>3, <2>1, <2>2, <2>3, <2>4, <3>1 DEF Career, Holds, PCB, procVars
    <3>2. CASE q # running
      BY <1>1, <1>3, <2>1, <2>2, <3>2 DEF Career, Holds, procVars
    <3> QED  BY <3>1, <3>2
  <2> QED  BY <1>2, <1>3, <2>1, <2>5 DEF CareerInv, NoSleep, procVars
<1> QED
  BY <1>5, <1>6, <1>7, <1>8, <1>9, <1>10, <1>11, <1>12, <1>13, <1>14, <1>15
  DEF Scheduling, SchedNext

(* CareerInv is inductive together with the earlier invariants. *)
THEOREM CareerInvariant ==
    ASSUME SchedulerType = 2, RQSZ >= N, numProcesses = N
    PROVE  Spec => []CareerInv
<1>1. TypeOK /\ HPFInv /\ AccountInv /\ CareerInv /\ [Next]_vars => CareerInv'
  BY CareerJob, CareerScheduling, CareerOthers DEF Next, Terminated
<1> QED  BY CareerInit, <1>1, TypeCorrect, HPFInvariant, AccountInvariant, PTL DEF Spec

(* Under HPF and any timing a job finds its memory, the semaphore and the     *)
(* shared word as long as it works: ProcFinished deallocates only for who has *)
(* announced its end.                                                         *)
THEOREM HPFMemoryHeld ==
    ASSUME SchedulerType = 2, RQSZ >= N, numProcesses = N
    PROVE  Spec => []MemoryHeldWhileWorking
<1>1. HPFInv /\ CareerInv => MemoryHeldWhileWorking
  <2> SUFFICES ASSUME HPFInv, CareerInv, NEW p \in Procs, p \in Working
               PROVE  p \in allocated
    BY DEF MemoryHeldWhileWorking, Working
  <2>1. ppc[p] \in {"exec", "bound", "loop", "up", "blk"} /\ p = running
    BY DEF Working, HPFInv, Unannounced
  <2> QED  BY <2>1 DEF CareerInv, Career
<1> QED  BY <1>1, CareerInvariant, HPFInvariant, PTL

(* Under HPF nobody but the process in running executes its loop, at any      *)
(* time, between two ticks included.                                          *)
THEOREM HPFOnlyRunningRuns == ASSUME SchedulerType = 2 PROVE Spec => []OnlyRunningRuns
<1>1. HPFInv => OnlyRunningRuns
  BY DEF HPFInv, Unannounced, OnlyRunningRuns
<1> QED  BY <1>1, HPFInvariant, PTL

------------------------------------------------------------------------------
(* HPF implements the abstract CPU.                                           *)

(* Who is dispatched has left the ready queue, so the one in running holds    *)
(* the abstract CPU.                                                          *)
HolderOut == running # Null => ~Holds(readyQueue, running)

(* Under HPF the process in running is never in the queue as well.            *)
LEMMA HPFHolderOut == ASSUME AccountInv, CareerInv, TypeOK PROVE HolderOut
<1>1. running # Null => running \in Procs
  BY DEF TypeOK, SchedTypeOK
<1> QED  BY <1>1 DEF HolderOut, CareerInv, Career, AccountInv, RunningInv

(* A job's tick is the service of the process in running; its other steps do  *)
(* not show.                                                                  *)
LEMMA CPUJob ==
    ASSUME TypeOK, HPFInv, AccountInv, CareerInv, HolderOut, numProcesses = N,
           cpuStatus = [p \in Procs |-> StatusOf(p)], cpuStatus' = [p \in Procs |-> StatusOf(p)'],
           NEW j \in Procs, Job(j)
    PROVE  CPU!Next \/ UNCHANGED CPU!vars
<1>1. /\ UNCHANGED <<processes, pcb, running>> /\ ppc \in [Procs -> ProcPoints]
      /\ remainingtime \in [Procs -> Int] /\ slp = {} /\ Career(j)
      /\ \A p \in Procs : StatusOf(p)' = StatusOf(p)
  BY DEF Job, genVars, schedVars, TypeOK, ProcTypeOK, CareerInv, NoSleep, StatusOf, Holds
<1>2. Unannounced(j) => j = running /\ semSchedProc # Removed
  BY ExitWhenFreed DEF HPFInv, CareerInv, Career, Freed, Unannounced
<1>3. CASE ProcTick(j)
  <2>1. /\ ppc[j] = "loop" /\ remainingtime' = [remainingtime EXCEPT ![j] = @ - 1]
        /\ ppc' = [ppc EXCEPT ![j] = IF LastTick(j) THEN "kill" ELSE "up"]
    BY <1>3 DEF ProcTick
  <2>2. Owed(j) = remainingtime[j] /\ Owed(j)' = remainingtime[j] - 1 /\ remainingtime[j] > 0
    BY <1>1, <2>1 DEF Owed, Career
  <2>3. \A p \in Procs : p # j => Owed(p)' = Owed(p)
    BY <1>1, <2>1 DEF Owed
  <2>4. StatusOf(j) = "cpu"
    <3>1. j # Null
      BY NAssumption DEF Procs, Null
    <3> QED  BY <1>1, <1>2, <2>1, <3>1 DEF StatusOf, Career, Unannounced, HolderOut
  <2> QED  BY <1>1, <2>2, <2>3, <2>4, CPUServes DEF CPU!Next
<1>4. CASE ~ProcTick(j)
  <2>1. \A p \in Procs : p # j => ppc'[p] = ppc[p] /\ remainingtime'[p] = remainingtime[p]
    BY <1>1, <1>4 DEF Job, ProcNext, ProcBind, ProcSigEarly, ProcRead, ProcUp, ProcSettle,
                      SigSleepHandler, ProcKill, ProcLast
  <2>2. Owed(j)' = Owed(j)
    BY <1>1, <1>2, <1>4 DEF Job, ProcNext, ProcBind, ProcSigEarly, ProcRead, ProcUp, ProcSettle,
                      SigSleepHandler, Looping, ProcKill, ProcLast, Owed, Career, Unannounced
  <2>3. \A p \in Procs : Owed(p)' = Owed(p)
    BY <1>1, <2>1, <2>2 DEF Owed
  <2> QED  BY <1>1, <2>3, CPUStutters
<1> QED  BY <1>3, <1>4

(* CreateEntry admits or rejects, Pick dispatches, ProcReaped retires. *)
LEMMA CPUScheduling ==
    ASSUME SchedulerType = 2, TypeOK, HPFInv, AccountInv, CareerInv, HolderOut, HolderOut',
           cpuStatus = [p \in Procs |-> StatusOf(p)], cpuStatus' = [p \in Procs |-> StatusOf(p)'],
           Scheduling
    PROVE  CPU!Next \/ UNCHANGED CPU!vars
<1>1. /\ UNCHANGED processes /\ pcb \in [Procs -> PCB] /\ readyQueue \in Seq(Procs)
      /\ running \in Procs \cup {Null} /\ ppc \in [Procs -> ProcPoints]
      /\ Null \notin Procs /\ \A q \in Procs : pcb[q] \in PCB /\ Career(q)
  BY NAssumption DEF Scheduling, genVars, TypeOK, SchedTypeOK, ProcTypeOK, Procs, Null, CareerInv
<1>2. CASE Fault
  BY <1>1, <1>2, CPUFrame DEF Fault
<1>3. CASE SchedBoot \/ SchedKilledEarly \/ SchedNewTick \/ SchedExit \/ DownGen \/ CheckRunning
           \/ DownProc \/ ReadDone \/ Schedule \/ ReadProcess
  BY <1>1, <1>2, <1>3, CPUFrame
     DEF SchedBoot, SchedKilledEarly, SchedNewTick, SchedExit, DownGen, CheckRunning,
         DownProc, ReadDone, Schedule, ReadProcess
<1>4. CASE Charge \/ StopRunning \/ AssignPid \/ ResumeRunning \/ ProcFinished
  <2> SUFFICES ASSUME ~Fault PROVE UNCHANGED CPU!vars
    BY <1>2, <1>4
  <2>1. UNCHANGED <<running, readyQueue>> /\ UNCHANGED procVars
    BY <1>4 DEF Charge, HPFSheduler, SRTNSheduler, RRSheduler, StopRunning, AssignPid, ResumeRunning,
                ProcFinished
  <2>2. \/ pcb' = [pcb EXCEPT ![running].remainingTime = shm]
        \/ pcb' = [pcb EXCEPT ![running].pid = TRUE]
    BY <1>4 DEF Charge, HPFSheduler, SRTNSheduler, RRSheduler, StopRunning, AssignPid,
                ResumeRunning, ProcFinished, Main, CareerInv, NoSleep, HPFInv
  <2>3. \A p \in Procs : pcb'[p].state = pcb[p].state
    <3>1. CASE pcb' = [pcb EXCEPT ![running].remainingTime = shm]
      BY <1>1, <3>1 DEF PCB
    <3>2. CASE pcb' = [pcb EXCEPT ![running].pid = TRUE]
      BY <1>1, <3>2 DEF PCB
    <3> QED  BY <2>2, <3>1, <3>2
  <2> QED  BY <1>1, <2>1, <2>3, CPUFrame
<1>5. CASE StartRunning
  <2> SUFFICES ASSUME ~Fault PROVE UNCHANGED CPU!vars
    BY <1>2, <1>5
  <2>1. /\ UNCHANGED <<running, readyQueue, remainingtime>> /\ running \in Procs /\ spc = "start"
        /\ pcb' = [pcb EXCEPT ![running].waitingTime = clk - processes[running].arrivalTime]
        /\ ppc' = [ppc EXCEPT ![running] = "exec"]
    BY <1>1, <1>5 DEF StartRunning, Main
  <2>2. \A p \in Procs : pcb'[p].state = pcb[p].state
    BY <1>1, <2>1 DEF PCB
  <2>3. ppc[running] = "none"
    BY <1>1, <2>1 DEF Career
  <2>4. \A p \in Procs : StatusOf(p)' = StatusOf(p) /\ Owed(p)' = Owed(p)
    BY <1>1, <2>1, <2>2, <2>3 DEF StatusOf, Owed, Holds
  <2> QED  BY <2>4, CPUStutters
<1>6. CASE ReadMSGQ
  <2> SUFFICES ASSUME ~Fault PROVE UNCHANGED CPU!vars
    BY <1>2, <1>6
  <2>1. /\ msgq # <<>> /\ UNCHANGED <<running, readyQueue>> /\ UNCHANGED procVars
        /\ pcb' = [pcb EXCEPT ![Head(msgq)].state = "new"]
    BY <1>6 DEF ReadMSGQ
  <2>2. Head(msgq) \in Procs /\ Holds(msgq, Head(msgq))
    BY <2>1, TailHolds DEF TypeOK, IPCTypeOK, AccountInv, PlaceInv
  <2>3. pcb[Head(msgq)].state \in {"none", "new"}
    BY <1>1, <2>2 DEF AccountInv, PlaceInv, IsFreed, Career, PCB
  <2>4. \A p \in Procs : StatusOf(p)' = StatusOf(p) /\ Owed(p)' = Owed(p)
    BY <1>1, <2>1, <2>2, <2>3 DEF StatusOf, Owed, procVars, PCB, Holds
  <2> QED  BY <2>4, CPUStutters
<1>7. CASE CreateEntry
  <2>1. PICK e \in Procs : pcb[e].state = "new" /\ (EntryRefused(e) \/ EntryCreated(e))
    BY <1>7 DEF CreateEntry
  <2>2. UNCHANGED running /\ UNCHANGED procVars /\ e # running
    BY <1>7, <2>1 DEF CreateEntry, AccountInv, PlaceInv, IsNew
  <2>3. StatusOf(e) = "new" /\ \A p \in Procs : Owed(p)' = Owed(p)
    BY <1>1, <2>1, <2>2 DEF StatusOf, Owed, procVars
  <2>4. CASE EntryRefused(e)
    <3>1. StatusOf(e)' = "done" /\ \A p \in Procs : p # e => StatusOf(p)' = StatusOf(p)
      BY <1>1, <2>2, <2>4 DEF EntryRefused, StatusOf, PCB, Holds
    <3> QED  BY <2>3, <3>1, CPUMoves DEF CPU!Next, CPU!Reject
  <2>5. CASE EntryCreated(e)
    <3>1. StatusOf(e)' = "waiting" /\ \A p \in Procs : p # e => StatusOf(p)' = StatusOf(p)
      BY <1>1, <2>2, <2>5 DEF EntryCreated, StatusOf, HolderOut
    <3> QED  BY <2>3, <3>1, CPUMoves DEF CPU!Next, CPU!Admit
  <2> QED  BY <2>1, <2>4, <2>5
<1>8. CASE Pick
  <2> SUFFICES ASSUME ~Fault PROVE CPU!Next
    BY <1>2, <1>8
  <2>1. PICK i \in First(readyQueue) :
          /\ spc = "pick" /\ running' = readyQueue[i] /\ UNCHANGED pcb /\ UNCHANGED procVars
    BY <1>8 DEF Pick, Main
  <2>2. running = Null /\ readyQueue[i] \in Procs /\ Holds(readyQueue, readyQueue[i])
    BY <1>1, <2>1 DEF HPFInv, First, Holds
  <2> PICK j \in Procs : j = readyQueue[i]
    BY <2>2
  <2>3. StatusOf(j) = "waiting" /\ StatusOf(j)' = "cpu"
    BY <1>1, <2>1, <2>2 DEF StatusOf, Career, HolderOut
  <2>4. \A p \in Procs : (p # j => StatusOf(p)' = StatusOf(p)) /\ Owed(p)' = Owed(p)
    BY <1>1, <2>1, <2>2 DEF StatusOf, Owed, procVars, HolderOut
  <2>5. \A p \in Procs : StatusOf(p) # "cpu"
    BY <1>1, <2>2 DEF StatusOf
  <2>6. CPU!CPUFree
    BY <2>5 DEF CPU!CPUFree
  <2> QED  BY <2>3, <2>4, <2>6, CPUMoves DEF CPU!Next, CPU!Dispatch
<1>9. CASE ProcReaped
  <2>1. /\ UNCHANGED procVars /\ running' = Null /\ running \in Procs
        /\ pcb' = [pcb EXCEPT ![running].state = "freed"] /\ RunningAnnounced
    BY <1>1, <1>9 DEF ProcReaped, HPFInv, RunningAnnounced
  <2> PICK j \in Procs : j = running
    BY <2>1
  <2>2. StatusOf(j) = "cpu" /\ Owed(j) = 0
    BY <1>1, <2>1 DEF StatusOf, Owed, Career, RunningAnnounced
  <2>3. StatusOf(j)' = "done"
    <3>1. pcb'[j].state = "freed"
      BY <1>1, <2>1 DEF PCB
    <3> QED  BY <1>1, <2>1, <3>1 DEF StatusOf
  <2>4. \A p \in Procs : (p # j => StatusOf(p)' = StatusOf(p)) /\ Owed(p)' = Owed(p)
    BY <1>1, <2>1 DEF StatusOf, Owed, procVars
  <2> QED  BY <2>2, <2>3, <2>4, CPUMoves DEF CPU!Next, CPU!Retire
<1> QED
  BY <1>3, <1>4, <1>5, <1>6, <1>7, <1>8, <1>9 DEF Scheduling, SchedNext

(* Every step of the simulator is a step of the abstract CPU or a stutter:    *)
(* under HPF and any timing one process at a time is served, keeps the CPU,   *)
(* and leaves it exactly when nothing is owed to it.                          *)
THEOREM HPFImplementsCPU ==
    ASSUME SchedulerType = 2, RQSZ >= N, numProcesses = N
    PROVE  Spec => ImplementsCPU
<1> DEFINE Inv == TypeOK /\ HPFInv /\ AccountInv /\ CareerInv /\ HolderOut
                  /\ cpuStatus = [p \in Procs |-> StatusOf(p)]
<1>2. Inv /\ Inv' /\ [Next]_vars => [CPU!Next]_(CPU!vars)
  <2> SUFFICES ASSUME Inv, Inv', [Next]_vars PROVE CPU!Next \/ UNCHANGED CPU!vars
    OBVIOUS
  <2>1. cpuStatus = [p \in Procs |-> StatusOf(p)]
    OBVIOUS
  <2>2. cpuStatus' = [p \in Procs |-> StatusOf(p)']
    OBVIOUS
  <2>3. CASE Clock \/ Generator \/ UNCHANGED vars
    <3>1. UNCHANGED <<processes, running, readyQueue, pcb>> /\ UNCHANGED procVars
      BY <2>3 DEF Clock, Generator, GenNext, GenNewTick, GenSend, GenTickDone, GenSignalEnd,
                  GenLastUp, GenReap, vars, genVars, schedVars
    <3> QED  BY <2>1, <2>2, <3>1, CPUFrame
  <2> QED  BY <2>1, <2>2, <2>3, CPUJob, CPUScheduling DEF Next, Terminated
<1>3. TypeOK /\ HPFInv /\ AccountInv /\ CareerInv => Inv
  BY HPFHolderOut, CPUStatus
<1>4. Spec => []Inv
  BY <1>3, TypeCorrect, HPFInvariant, AccountInvariant, CareerInvariant, PTL
<1> QED  BY CPUInit, <1>2, <1>4, PTL DEF Spec, ImplementsCPU, CPU!Spec
==============================================================================
