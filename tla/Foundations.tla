---------------------------- MODULE Foundations ----------------------------
(* Lemmas about the data of several components: what a write behind the last  *)
(* item and a removal of the first one do to the sequence that a ring holds,  *)
(* induction and recursion over the natural numbers, and powers of two.       *)
EXTENDS Ring, SequenceTheorems, FiniteSetTheorems, FunctionTheorems,
        WellFoundedInduction, TLAPS

------------------------------------------------------------------------------
(* Rings of any size. *)

(* The remainder of an index that is at most once too large. *)
LEMMA ModOnce ==
    ASSUME NEW c \in Nat \ {0}, NEW x \in 0 .. 2 * c - 1
    PROVE  x % c = IF x < c THEN x ELSE x - c
<1>1. CASE x < c
  BY <1>1
<1>2. CASE x >= c
  <2>1. x \div c = 1
    BY <1>2
  <2> QED  BY <2>1, <1>2
<1> QED  BY <1>1, <1>2

(* A step around the ring stays in the ring. *)
LEMMA ModStep ==
    ASSUME NEW c \in Nat \ {0}, NEW x \in 0 .. c - 1
    PROVE  /\ (x + 1) % c = IF x = c - 1 THEN 0 ELSE x + 1
           /\ (x + 1) % c \in 0 .. c - 1
<1> DEFINE y == x + 1
<1>1. y \in 1 .. c /\ y \in 0 .. 2 * c - 1
  OBVIOUS
<1> HIDE DEF y
<1>2. y % c = IF y < c THEN y ELSE y - c
  BY <1>1, ModOnce
<1> QED  BY <1>1, <1>2 DEF y

(* The sequence of a ring is one of n items, each of them from a slot.        *)
LEMMA RingSeqType ==
    ASSUME NEW slots, NEW first, NEW n, NEW c, NEW S,
           IsRing(slots, first, n, c, S)
    PROVE  /\ RingSeq(slots, first, n, c) \in Seq(S)
           /\ Len(RingSeq(slots, first, n, c)) = n
<1> SUFFICES ASSUME c \in Nat \ {0}, slots \in [0 .. c - 1 -> S],
                    first \in 0 .. c - 1, n \in 0 .. c
             PROVE  RingSeq(slots, first, n, c) \in Seq(S) /\ Len(RingSeq(slots, first, n, c)) = n
  BY DEF IsRing
<1>1. \A k \in 1 .. n : (first + k - 1) % c \in 0 .. c - 1
  <2> TAKE k \in 1 .. n
  <2>1. first + k - 1 \in 0 .. 2 * c - 1
    OBVIOUS
  <2> QED  BY <2>1, ModOnce
<1>2. RingSeq(slots, first, n, c) \in [1 .. n -> S]
  BY <1>1 DEF RingSeq
<1> QED  BY <1>2

(* A write into the slot behind the last item appends. *)
LEMMA RingAppend ==
    ASSUME NEW slots, NEW first, NEW n, NEW c, NEW S, NEW x \in S,
           IsRing(slots, first, n, c, S), n # c
    PROVE  RingSeq(Written(slots, first, n, c, x), first, n + 1, c)
           = Append(RingSeq(slots, first, n, c), x)
<1> SUFFICES ASSUME c \in Nat \ {0}, slots \in [0 .. c - 1 -> S],
                    first \in 0 .. c - 1, n \in 0 .. c - 1
             PROVE  RingSeq(Written(slots, first, n, c, x), first, n + 1, c)
                    = Append(RingSeq(slots, first, n, c), x)
  BY DEF IsRing
<1> DEFINE new == Written(slots, first, n, c, x)
           old == RingSeq(slots, first, n, c)
<1>1. \A k \in 1 .. n + 1 : (first + k - 1) % c =
          IF first + k - 1 < c THEN first + k - 1 ELSE first + k - 1 - c
  <2> TAKE k \in 1 .. n + 1
  <2> DEFINE y == first + k - 1
  <2>1. y \in 0 .. 2 * c - 1
    OBVIOUS
  <2> HIDE DEF y
  <2>2. y % c = IF y < c THEN y ELSE y - c
    BY <2>1, ModOnce
  <2> QED  BY <2>2 DEF y
<1>2. (first + n) % c = IF first + n < c THEN first + n ELSE first + n - c
  <2> DEFINE y == first + n
  <2>1. y \in 0 .. 2 * c - 1
    OBVIOUS
  <2> HIDE DEF y
  <2>2. y % c = IF y < c THEN y ELSE y - c
    BY <2>1, ModOnce
  <2> QED  BY <2>2 DEF y
<1>3. new[(first + n) % c] = x /\ new \in [0 .. c - 1 -> S]
  BY <1>2 DEF Written
<1>4. \A k \in 1 .. n : (first + k - 1) % c # (first + n) % c
                        /\ (first + k - 1) % c \in 0 .. c - 1
  BY <1>1, <1>2
<1>5. \A k \in 1 .. n : new[(first + k - 1) % c] = slots[(first + k - 1) % c]
  BY <1>4, <1>2 DEF Written
<1>6. old \in Seq(S) /\ Len(old) = n
  BY RingSeqType
<1>7. Append(old, x) = [k \in 1 .. n + 1 |-> IF k = n + 1 THEN x ELSE old[k]]
  <2> HIDE DEF old, new
  <2>1. Append(old, x) = [k \in 1 .. Len(old) + 1 |-> IF k = Len(old) + 1 THEN x ELSE old[k]]
    BY <1>6, SMTT(30)
  <2> QED  BY <1>6, <2>1
<1>8. \A k \in 1 .. n + 1 : new[(first + k - 1) % c] = IF k = n + 1 THEN x ELSE old[k]
  <2> TAKE k \in 1 .. n + 1
  <2>1. CASE k = n + 1
    BY <2>1, <1>3
  <2>2. CASE k # n + 1
    <3>1. old[k] = slots[(first + k - 1) % c]
      BY <2>2 DEF RingSeq
    <3>2. k \in 1 .. n
      BY <2>2
    <3>3. new[(first + k - 1) % c] = slots[(first + k - 1) % c]
      BY <3>2, <1>5
    <3> HIDE DEF new, old
    <3> QED  BY <2>2, <3>1, <3>3
  <2> QED  BY <2>1, <2>2
<1>9. RingSeq(new, first, n + 1, c) = [k \in 1 .. n + 1 |-> new[(first + k - 1) % c]]
  BY DEF RingSeq
<1> HIDE DEF new, old
<1>10. RingSeq(new, first, n + 1, c) = Append(old, x)
  BY <1>7, <1>8, <1>9
<1> QED  BY <1>10 DEF new, old

(* A write behind the last item changes none. *)
LEMMA RingBehind ==
    ASSUME NEW slots, NEW first, NEW n, NEW c, NEW S, NEW x \in S,
           IsRing(slots, first, n, c, S), n # c
    PROVE  RingSeq(Written(slots, first, n, c, x), first, n, c) = RingSeq(slots, first, n, c)
<1> DEFINE new == Written(slots, first, n, c, x)
<1>1. c \in Nat \ {0} /\ first \in 0 .. c - 1 /\ n \in 0 .. c - 1
      /\ slots \in [0 .. c - 1 -> S]
  BY DEF IsRing
<1>2. ASSUME NEW y \in 0 .. 2 * c - 1 PROVE y % c = IF y < c THEN y ELSE y - c
  BY <1>1, <1>2, ModOnce
<1>3. ASSUME NEW k \in 1 .. n PROVE new[(first + k - 1) % c] = slots[(first + k - 1) % c]
  <2>1. PICK y \in 0 .. 2 * c - 1 : y = first + k - 1
    BY <1>1
  <2>2. PICK z \in 0 .. 2 * c - 1 : z = first + n
    BY <1>1
  <2>3. z - y \in 1 .. c - 1
    BY <1>1, <2>1, <2>2
  <2>4. y % c \in 0 .. c - 1 /\ y % c # z % c
    <3>1. y % c = (IF y < c THEN y ELSE y - c) /\ z % c = (IF z < c THEN z ELSE z - c)
      BY <1>2
    <3> QED  BY <1>1, <2>3, <3>1
  <2>5. new = [slots EXCEPT ![z % c] = x]
    BY <2>2 DEF Written
  <2> HIDE DEF new
  <2>6. new[y % c] = slots[y % c]
    BY <1>1, <2>4, <2>5
  <2> QED  BY <2>1, <2>6
<1> HIDE DEF new
<1>4. RingSeq(new, first, n, c) = RingSeq(slots, first, n, c)
  BY <1>3 DEF RingSeq
<1> QED  BY <1>4 DEF new

(* To step on from the first item is to drop it. *)
LEMMA RingTail ==
    ASSUME NEW slots, NEW first, NEW n, NEW c, NEW S,
           IsRing(slots, first, n, c, S), n # 0
    PROVE  /\ Head(RingSeq(slots, first, n, c)) = slots[first]
           /\ RingSeq(slots, (first + 1) % c, n - 1, c) = Tail(RingSeq(slots, first, n, c))
<1> SUFFICES ASSUME c \in Nat \ {0}, slots \in [0 .. c - 1 -> S],
                    first \in 0 .. c - 1, n \in 1 .. c
             PROVE  /\ Head(RingSeq(slots, first, n, c)) = slots[first]
                    /\ RingSeq(slots, (first + 1) % c, n - 1, c) = Tail(RingSeq(slots, first, n, c))
  BY DEF IsRing
<1> DEFINE old == RingSeq(slots, first, n, c)
           next == (first + 1) % c
<1>1. old \in Seq(S) /\ Len(old) = n
  BY RingSeqType
<1>2. first % c = first
  BY ModOnce
<1>3. Head(old) = slots[first]
  BY <1>1, <1>2 DEF RingSeq
<1>4. next = (IF first = c - 1 THEN 0 ELSE first + 1) /\ next \in 0 .. c - 1
  BY ModStep
<1>5. \A k \in 1 .. n - 1 : (next + k - 1) % c = (first + (k + 1) - 1) % c
  <2> TAKE k \in 1 .. n - 1
  <2> DEFINE y == next + k - 1
             z == first + (k + 1) - 1
  <2>1. y \in 0 .. 2 * c - 1 /\ z \in 0 .. 2 * c - 1
    BY <1>4
  <2>2. z = IF first = c - 1 THEN y + c ELSE y
    BY <1>4
  <2>3. first = c - 1 => y < c
    BY <1>4
  <2> HIDE DEF y, z
  <2>4. y % c = (IF y < c THEN y ELSE y - c) /\ z % c = (IF z < c THEN z ELSE z - c)
    BY <2>1, ModOnce
  <2>5. y % c = z % c
    BY <2>1, <2>2, <2>3, <2>4
  <2> QED  BY <2>5 DEF y, z
<1>6. Tail(old) \in Seq(S) /\ Len(Tail(old)) = n - 1
      /\ \A k \in 1 .. n - 1 : Tail(old)[k] = old[k + 1]
  <2> HIDE DEF old
  <2>1. old # <<>>
    BY <1>1
  <2> QED  BY <1>1, <2>1, HeadTailProperties
<1>7. \A k \in 1 .. n - 1 : RingSeq(slots, next, n - 1, c)[k] = old[k + 1]
  <2> TAKE k \in 1 .. n - 1
  <2>1. old[k + 1] = slots[(first + (k + 1) - 1) % c]
    BY DEF RingSeq
  <2>2. RingSeq(slots, next, n - 1, c)[k] = slots[(next + k - 1) % c]
    BY DEF RingSeq
  <2> QED  BY <2>1, <2>2, <1>5
<1>8. RingSeq(slots, next, n - 1, c) \in Seq(S) /\ Len(RingSeq(slots, next, n - 1, c)) = n - 1
  <2>1. IsRing(slots, next, n - 1, c, S)
    BY <1>4 DEF IsRing
  <2> QED  BY <2>1, RingSeqType
<1> HIDE DEF next, old
<1>9. RingSeq(slots, next, n - 1, c) = Tail(old)
  BY <1>6, <1>7, <1>8, SeqEqual
<1> QED  BY <1>3, <1>9 DEF next, old

(* The slot behind the last item moves on with each item that is added, ...   *)
LEMMA RearAfterAppend ==
    ASSUME NEW c \in Nat \ {0}, NEW first \in 0 .. c - 1, NEW n \in 0 .. c - 1
    PROVE  (((first + n) % c) + 1) % c = (first + (n + 1)) % c
<1> DEFINE y == first + n
           z == first + (n + 1)
           w == y % c
           v == w + 1
<1>1. y \in 0 .. 2 * c - 1 /\ z \in 0 .. 2 * c - 1 /\ z = y + 1
  OBVIOUS
<1> HIDE DEF y, z
<1>2. y % c = (IF y < c THEN y ELSE y - c) /\ z % c = (IF z < c THEN z ELSE z - c)
  BY <1>1, ModOnce
<1>3. w = (IF y < c THEN y ELSE y - c) /\ w \in 0 .. c - 1
  BY <1>1, <1>2
<1> HIDE DEF w
<1>4. v \in 0 .. 2 * c - 1 /\ v = w + 1
  BY <1>3
<1> HIDE DEF v
<1>5. v % c = IF v < c THEN v ELSE v - c
  BY <1>4, ModOnce
<1>6. v % c = z % c
  BY <1>1, <1>2, <1>3, <1>4, <1>5
<1> QED  BY <1>6 DEF v, w, y, z

(* ... and stays where it is when the first one is removed.                   *)
LEMMA RearAfterTail ==
    ASSUME NEW c \in Nat \ {0}, NEW first \in 0 .. c - 1, NEW n \in 1 .. c
    PROVE  (((first + 1) % c) + (n - 1)) % c = (first + n) % c
<1> DEFINE next == (first + 1) % c
           y == next + (n - 1)
           z == first + n
<1>1. next = (IF first = c - 1 THEN 0 ELSE first + 1) /\ next \in 0 .. c - 1
  BY ModStep
<1> HIDE DEF next
<1>2. y \in 0 .. 2 * c - 1 /\ z \in 0 .. 2 * c - 1
      /\ z = IF first = c - 1 THEN y + c ELSE y
  BY <1>1
<1>3. first = c - 1 => y < c
  BY <1>1
<1> HIDE DEF y, z
<1>4. y % c = (IF y < c THEN y ELSE y - c) /\ z % c = (IF z < c THEN z ELSE z - c)
  BY <1>2, ModOnce
<1>5. y % c = z % c
  BY <1>2, <1>3, <1>4
<1> QED  BY <1>5 DEF y, z, next

------------------------------------------------------------------------------
(* Induction and recursion.  No operator is a parameter: a set stands for a   *)
(* property and a function for a measure.                                     *)

(* A set of natural numbers has a least element. *)
LEMMA LeastNumber ==
    ASSUME NEW T \in SUBSET Nat, T # {}
    PROVE  \E n \in T : \A m \in T : n <= m
<1>1. IsWellFoundedOn(OpToRel(<, Nat), Nat)
  BY NatLessThanWellFounded
<1>2. PICK n \in T : \A m \in T : <<m, n>> \notin OpToRel(<, Nat)
  BY <1>1, WFMin
<1>3. \A m \in T : ~(m < n)
  BY <1>2 DEF OpToRel
<1> QED  BY <1>3

(* An element of S is in P if those of smaller rank are.                      *)
Inductive(S, rank, P) ==
    /\ rank \in [S -> Nat]
    /\ \A x \in S : (\A y \in S : rank[y] < rank[x] => y \in P) => x \in P

(* Then all of them are. *)
LEMMA RankInduction ==
    ASSUME NEW S, NEW rank, NEW P, Inductive(S, rank, P)
    PROVE  S \subseteq P
<1> USE DEF Inductive
<1> DEFINE T == {rank[x] : x \in {y \in S : y \notin P}}
<1>1. SUFFICES ASSUME T # {} PROVE FALSE
  OBVIOUS
<1>2. T \in SUBSET Nat
  OBVIOUS
<1> HIDE DEF T
<1>3. PICK n \in T : \A m \in T : n <= m
  BY <1>1, <1>2, LeastNumber
<1> USE DEF T
<1>4. PICK x \in S : x \notin P /\ rank[x] = n
  BY <1>3
<1>5. PICK y \in S : rank[y] < rank[x] /\ y \notin P
  BY <1>4
<1>6. rank[y] \in T /\ n \in Nat /\ rank[y] \in Nat /\ rank[y] < n
  BY <1>2, <1>4, <1>5
<1> HIDE DEF T
<1>7. n <= rank[y]
  BY <1>3, <1>6
<1> QED  BY <1>6, <1>7

(* A set with 0 and the successor of each of its numbers.                     *)
Hereditary(P) == 0 \in P /\ \A n \in Nat : n \in P => n + 1 \in P

(* It has all the numbers. *)
LEMMA SetInduction ==
    ASSUME NEW P, Hereditary(P)
    PROVE  Nat \subseteq P
<1> DEFINE rank == [n \in Nat |-> n]
<1>1. ASSUME NEW n \in Nat, \A m \in Nat : rank[m] < rank[n] => m \in P
      PROVE  n \in P
  <2>1. CASE n = 0
    BY <2>1 DEF Hereditary
  <2>2. CASE n # 0
    <3>1. n - 1 \in Nat /\ n - 1 < n
      BY <2>2
    <3>2. n - 1 \in P
      BY <1>1, <3>1
    <3>3. n - 1 + 1 \in P
      BY <3>1, <3>2 DEF Hereditary
    <3>4. n - 1 + 1 = n
      OBVIOUS
    <3> QED  BY <3>3, <3>4
  <2> QED  BY <2>1, <2>2
<1>2. rank \in [Nat -> Nat]
  OBVIOUS
<1>3. Inductive(Nat, rank, P)
  <2> HIDE DEF rank
  <2> QED  BY <1>1, <1>2 DEF Inductive
<1> QED  BY <1>3, RankInduction

(* G gives the value of a recursive function at an argument from the whole    *)
(* function: it is founded if arguments of smaller rank are all it asks for.  *)
Founded(D, V, rank, G) ==
    /\ rank \in [D -> Nat]
    /\ G \in [D -> [[D -> V] -> V]]
    /\ \A x \in D : \A f, g \in [D -> V] :
            (\A y \in D : rank[y] < rank[x] => f[y] = g[y]) => G[x][f] = G[x][g]

(* A founded recursive definition has a solution.                             *)
LEMMA RecursionExists ==
    ASSUME NEW D, NEW V, NEW v0 \in V, NEW rank, NEW G, Founded(D, V, rank, G)
    PROVE  \E f \in [D -> V] : \A x \in D : f[x] = G[x][f]
<1> USE DEF Founded
<1> DEFINE Good(n, f) == \A x \in D : rank[x] < n => f[x] = G[x][f]
<1>1. ASSUME NEW n \in Nat, NEW f \in [D -> V], NEW g \in [D -> V], Good(n, f), Good(n, g)
      PROVE  \A x \in D : rank[x] < n => f[x] = g[x]
  <2> DEFINE P == {x \in D : rank[x] < n => f[x] = g[x]}
  <2>1. ASSUME NEW x \in D, \A y \in D : rank[y] < rank[x] => y \in P PROVE x \in P
    <3> SUFFICES ASSUME rank[x] < n PROVE f[x] = g[x]
      OBVIOUS
    <3>1. \A y \in D : rank[y] < rank[x] => f[y] = g[y]
      BY <2>1
    <3>2. G[x][f] = G[x][g]
      BY <3>1
    <3> QED  BY <1>1, <3>2
  <2> HIDE DEF P
  <2>2. D \subseteq P
    BY <2>1, RankInduction DEF Inductive
  <2> QED  BY <2>2 DEF P
<1>2. \A n \in Nat : \E f \in [D -> V] : Good(n, f)
  <2> DEFINE T == {n \in Nat : ~ \E f \in [D -> V] : Good(n, f)}
  <2> SUFFICES ASSUME T # {} PROVE FALSE
    OBVIOUS
  <2>1. PICK n \in T : \A m \in T : n <= m
    <3>1. T \in SUBSET Nat
      OBVIOUS
    <3> HIDE DEF T
    <3> QED  BY <3>1, LeastNumber
  <2>2. n # 0
    <3>1. [x \in D |-> v0] \in [D -> V]
      OBVIOUS
    <3>2. Good(0, [x \in D |-> v0])
      OBVIOUS
    <3> QED  BY <3>1, <3>2
  <2>3. PICK f \in [D -> V] : Good(n - 1, f)
    <3>1. n - 1 \in Nat /\ n - 1 \notin T
      <4>1. n \in Nat \ {0} /\ ~(n <= n - 1)
        BY <2>2
      <4> HIDE DEF T
      <4> QED  BY <2>1, <4>1
    <3> HIDE DEF Good
    <3> QED  BY <3>1
  <2> DEFINE g == [x \in D |-> G[x][f]]
  <2>4. g \in [D -> V]
    OBVIOUS
  <2>5. ASSUME NEW x \in D, rank[x] < n PROVE g[x] = G[x][g]
    <3>1. \A y \in D : rank[y] < rank[x] => f[y] = g[y]
      BY <2>3, <2>5
    <3> HIDE DEF g
    <3>2. G[x][f] = G[x][g]
      BY <2>4, <3>1
    <3> QED  BY <3>2 DEF g
  <2>6. Good(n, g)
    BY <2>5
  <2> HIDE DEF g, Good
  <2> QED  BY <2>1, <2>4, <2>6
<1> DEFINE h == [n \in Nat |-> CHOOSE f \in [D -> V] : Good(n, f)]
           sol == [x \in D |-> h[rank[x] + 1][x]]
<1>3. \A n \in Nat : h[n] \in [D -> V] /\ Good(n, h[n])
  <2> HIDE DEF Good
  <2> QED  BY <1>2
<1>4. sol \in [D -> V]
  <2> HIDE DEF h
  <2>1. \A x \in D : h[rank[x] + 1] \in [D -> V]
    BY <1>3
  <2> QED  BY <2>1
<1>5. ASSUME NEW x \in D PROVE sol[x] = G[x][sol]
  <2> HIDE DEF h
  <2> DEFINE n == rank[x] + 1
  <2>1. n \in Nat /\ h[n] \in [D -> V] /\ Good(n, h[n])
    BY <1>3
  <2>2. ASSUME NEW y \in D, rank[y] < rank[x] PROVE h[n][y] = sol[y]
    <3> DEFINE m == rank[y] + 1
    <3>1. m \in Nat /\ h[m] \in [D -> V] /\ Good(m, h[m]) /\ m <= n
      BY <1>3, <2>2
    <3>2. Good(m, h[n])
      BY <2>1, <3>1
    <3>3. rank[y] < m
      OBVIOUS
    <3>4. h[m][y] = h[n][y]
      <4> HIDE DEF m, n, Good
      <4> QED  BY <1>1, <2>1, <3>1, <3>2, <3>3
    <3> QED  BY <3>4
  <2>3. h[n][x] = G[x][h[n]]
    BY <2>1
  <2>4. G[x][h[n]] = G[x][sol]
    <3> HIDE DEF n, sol
    <3> QED  BY <2>1, <2>2, <1>4
  <2> QED  BY <2>3, <2>4
<1> HIDE DEF sol
<1> QED  BY <1>4, <1>5

------------------------------------------------------------------------------
(* Powers of two. *)

(* Powers of two count subsets; this is where their equations come from. *)
LEMMA PowersOfTwo ==
    \A n \in Nat : /\ 2 ^ n \in Nat \ {0}
                   /\ 2 ^ (n + 1) = 2 * 2 ^ n
                   /\ n = 0 => 2 ^ n = 1
<1>1. ASSUME NEW n \in Nat
      PROVE  /\ IsFiniteSet(SUBSET (1 .. n))
             /\ Cardinality(SUBSET (1 .. n)) = 2 ^ n
             /\ 2 ^ n \in Nat
  <2>1. IsFiniteSet(1 .. n) /\ Cardinality(1 .. n) = n
    <3>1. Cardinality(1 .. n) = IF 1 > n THEN 0 ELSE n - 1 + 1
      BY FS_Interval
    <3> QED  BY <3>1, FS_Interval
  <2>2. IsFiniteSet(SUBSET (1 .. n)) /\ Cardinality(SUBSET (1 .. n)) = 2 ^ n
    BY <2>1, FS_SUBSET
  <2> QED  BY <2>2, FS_CardinalityType
<1>2. ASSUME NEW n \in Nat PROVE 2 ^ (n + 1) = 2 ^ n + 2 ^ n
  <2> DEFINE S == SUBSET (1 .. n)
             T == {A \cup {n + 1} : A \in S}
             U == SUBSET (1 .. n + 1)
             f == [A \in S |-> A \cup {n + 1}]
  <2>1. \A A \in S : n + 1 \notin A
    OBVIOUS
  <2>2. ExistsBijection(S, T)
    <3>1. f \in [S -> T] /\ \A B \in T : \E A \in S : f[A] = B
      OBVIOUS
    <3>2. \A A, B \in S : f[A] = f[B] => A = B
      <4> SUFFICES ASSUME NEW A \in S, NEW B \in S, A \cup {n + 1} = B \cup {n + 1}
                   PROVE  A = B
        OBVIOUS
      <4>1. n + 1 \notin A /\ n + 1 \notin B
        BY <2>1
      <4> QED  BY <4>1
    <3> HIDE DEF f, S, T
    <3>3. f \in Bijection(S, T)
      BY <3>1, <3>2, Fun_IsBij
    <3> QED  BY <3>3, Fun_ExistsBij
  <2>3. U = S \cup T
    <3>1. U \subseteq S \cup T
      <4> SUFFICES ASSUME NEW B \in U, B \notin S PROVE B \in T
        OBVIOUS
      <4>1. B \ {n + 1} \in S
        OBVIOUS
      <4>2. n + 1 \in B
        OBVIOUS
      <4>3. B = (B \ {n + 1}) \cup {n + 1}
        BY <4>2
      <4> QED  BY <4>1, <4>3
    <3>2. S \subseteq U
      OBVIOUS
    <3>3. T \subseteq U
      <4> SUFFICES ASSUME NEW A \in S PROVE A \cup {n + 1} \subseteq 1 .. n + 1
        OBVIOUS
      <4> QED  OBVIOUS
    <3> HIDE DEF S, T, U
    <3> QED  BY <3>1, <3>2, <3>3
  <2>4. S \cap T = {}
    BY <2>1
  <2>5. IsFiniteSet(S) /\ Cardinality(S) = 2 ^ n /\ 2 ^ n \in Nat
    BY <1>1
  <2>6. Cardinality(U) = 2 ^ (n + 1)
    <3>1. n + 1 \in Nat
      OBVIOUS
    <3> QED  BY <1>1, <3>1
  <2> HIDE DEF S, T, U
  <2>7. IsFiniteSet(T) /\ Cardinality(T) = 2 ^ n
    BY <2>2, <2>5, FS_Bijection
  <2>8. Cardinality(S \cup T) = Cardinality(S) + Cardinality(T) - Cardinality(S \cap T)
    BY <2>5, <2>7, FS_Union
  <2>9. Cardinality(S \cap T) = 0
    BY <2>4, FS_EmptySet
  <2> QED  BY <2>3, <2>5, <2>6, <2>7, <2>8, <2>9
<1>3. ASSUME NEW n \in Nat PROVE 2 ^ n # 0
  <2>1. SUBSET (1 .. n) # {}
    OBVIOUS
  <2> QED  BY <1>1, <2>1, FS_EmptySet
<1>4. ASSUME NEW n \in Nat, n = 0 PROVE 2 ^ n = 1
  <2>1. SUBSET (1 .. n) = {{}}
    BY <1>4
  <2> QED  BY <1>1, <2>1, FS_Singleton
<1> QED
  <2> SUFFICES ASSUME NEW n \in Nat
               PROVE  2 ^ n \in Nat \ {0} /\ 2 ^ (n + 1) = 2 * 2 ^ n /\ (n = 0 => 2 ^ n = 1)
    OBVIOUS
  <2>1. 2 ^ n \in Nat /\ 2 ^ n # 0 /\ 2 ^ (n + 1) = 2 ^ n + 2 ^ n
    BY <1>1, <1>2, <1>3
  <2> QED  BY <1>4, <2>1
(* Powers grow with the exponent, ... *)
LEMMA PowersGrow == \A k \in Nat : \A j \in 0 .. k : 2 ^ j <= 2 ^ k
<1> DEFINE P == {k \in Nat : \A j \in 0 .. k : 2 ^ j <= 2 ^ k}
<1>1. 0 \in P
  <2>1. ASSUME NEW j \in 0 .. 0 PROVE 2 ^ j <= 2 ^ 0
    <3>1. j = 0 /\ 2 ^ 0 \in Nat
      BY PowersOfTwo
    <3> QED  BY <3>1
  <2> QED  BY <2>1
<1>2. ASSUME NEW k \in Nat, k \in P PROVE k + 1 \in P
  <2> SUFFICES ASSUME NEW j \in 0 .. k + 1 PROVE 2 ^ j <= 2 ^ (k + 1)
    OBVIOUS
  <2>1. 2 ^ (k + 1) = 2 * 2 ^ k /\ 2 ^ k \in Nat \ {0} /\ 2 ^ j \in Nat
    BY PowersOfTwo
  <2>2. CASE j = k + 1
    BY <2>1, <2>2
  <2>3. CASE j \in 0 .. k
    <3>1. 2 ^ j <= 2 ^ k
      BY <1>2, <2>3
    <3> QED  BY <2>1, <3>1
  <2> QED  BY <2>2, <2>3
<1> HIDE DEF P
<1>3. Nat \subseteq P
  BY <1>1, <1>2, SetInduction DEF Hereditary
<1> QED  BY <1>3 DEF P

(* ... and faster than it. *)
LEMMA PowersAbove == \A k \in Nat : 2 ^ k > k
<1> DEFINE P == {k \in Nat : 2 ^ k > k}
<1>1. 0 \in P
  BY PowersOfTwo
<1>2. ASSUME NEW k \in Nat, k \in P PROVE k + 1 \in P
  <2>1. 2 ^ (k + 1) = 2 * 2 ^ k /\ 2 ^ k \in Nat \ {0} /\ 2 ^ k > k
    BY <1>2, PowersOfTwo
  <2> QED  BY <2>1
<1> HIDE DEF P
<1>3. Nat \subseteq P
  BY <1>1, <1>2, SetInduction DEF Hereditary
<1> QED  BY <1>3 DEF P
(* A sum of exponents is a product of powers. *)
LEMMA PowersAdd == \A j \in Nat : \A k \in Nat : 2 ^ (j + k) = 2 ^ j * 2 ^ k
<1> SUFFICES ASSUME NEW j \in Nat PROVE \A k \in Nat : 2 ^ (j + k) = 2 ^ j * 2 ^ k
  OBVIOUS
<1> DEFINE P == {k \in Nat : 2 ^ (j + k) = 2 ^ j * 2 ^ k}
<1>1. 0 \in P
  <2>1. 2 ^ 0 = 1 /\ 2 ^ j \in Nat /\ j + 0 = j
    BY PowersOfTwo
  <2> QED  BY <2>1
<1>2. ASSUME NEW k \in Nat, k \in P PROVE k + 1 \in P
  <2>1. 2 ^ (j + k) \in Nat /\ 2 ^ j \in Nat /\ 2 ^ k \in Nat
    BY PowersOfTwo
  <2>2. 2 ^ (k + 1) = 2 * 2 ^ k
    BY PowersOfTwo
  <2>3. 2 ^ (j + (k + 1)) = 2 * 2 ^ (j + k)
    <3> DEFINE m == j + k
    <3>1. m \in Nat /\ j + (k + 1) = m + 1
      OBVIOUS
    <3> HIDE DEF m
    <3>2. 2 ^ (m + 1) = 2 * 2 ^ m
      BY <3>1, PowersOfTwo
    <3>3. 2 ^ (j + (k + 1)) = 2 * 2 ^ m
      BY <3>1, <3>2
    <3> QED  BY <3>3 DEF m
  <2>4. 2 ^ (j + k) = 2 ^ j * 2 ^ k
    BY <1>2
  <2>5. \A x, a, b \in Nat : x = a * b => 2 * x = a * (2 * b)
    OBVIOUS
  <2>6. 2 * 2 ^ (j + k) = 2 ^ j * (2 * 2 ^ k)
    BY <2>1, <2>4, <2>5
  <2> QED  BY <2>2, <2>3, <2>6
<1> HIDE DEF P
<1>3. Nat \subseteq P
  BY <1>1, <1>2, SetInduction DEF Hereditary
<1> QED  BY <1>3 DEF P

(* What is left of a power on division by a smaller one. *)
LEMMA PowersDivide ==
    ASSUME NEW k \in Nat, NEW j \in 0 .. k
    PROVE  2 ^ k \div 2 ^ j = 2 ^ (k - j)
<1>1. k - j \in Nat /\ (k - j) + j = k
  OBVIOUS
<1>2. 2 ^ k = 2 ^ (k - j) * 2 ^ j
  <2> DEFINE i == k - j
  <2>1. i \in Nat /\ i + j = k
    BY <1>1
  <2> HIDE DEF i
  <2>2. 2 ^ (i + j) = 2 ^ i * 2 ^ j
    BY <2>1, PowersAdd
  <2>3. 2 ^ k = 2 ^ i * 2 ^ j
    BY <2>1, <2>2
  <2> QED  BY <2>3 DEF i
<1>3. 2 ^ (k - j) \in Nat /\ 2 ^ j \in Nat \ {0}
  BY <1>1, PowersOfTwo
<1>4. \A a \in Nat : \A p \in Nat \ {0} : (a * p) \div p = a
  OBVIOUS
<1> QED  BY <1>2, <1>3, <1>4
=============================================================================
