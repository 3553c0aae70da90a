------------------------------ MODULE BuddyProofs ------------------------------
(* The buddy memory of any size: its tree is what the blocks held need, and   *)
(* it implements the abstract memory, so that blocks never overlap and a      *)
(* request is refused only when no block of its size is free.  A node is      *)
(* known by its level and its way up to the root; each recursion of the code  *)
(* is first shown to be the equation it is written as.                        *)
EXTENDS MCStructures, Foundations

(* The levels of the tree, in powers of two. *)
LEMMA LevelFacts ==
    ASSUME NEW l \in Memory!Levels
    PROVE  /\ l \in Nat /\ l <= Depth + 1
           /\ 2 ^ l \in Nat \ {0}
           /\ Memory!Level(l) = 2 ^ l .. 2 * 2 ^ l - 1
           /\ 2 ^ (l + 1) = 2 * 2 ^ l
<1>1. l \in Nat /\ l <= Depth + 1
  BY DepthAssumption DEF Memory!Levels
<1>2. 2 ^ l \in Nat \ {0} /\ 2 ^ (l + 1) = 2 * 2 ^ l
  BY <1>1, PowersOfTwo
<1> QED  BY <1>1, <1>2 DEF Memory!Level

(* Every node has a level. *)
LEMMA NodeLevel ==
    ASSUME NEW n \in Memory!Nodes
    PROVE  Memory!LevelOf(n) \in Memory!Levels /\ n \in Memory!Level(Memory!LevelOf(n))
<1>1. \E l \in Memory!Levels : n \in Memory!Level(l)
  BY DEF Memory!Nodes
<1> QED  BY <1>1 DEF Memory!LevelOf

(* Nodes are numbered from 1. *)
LEMMA NodeNumber == \A n \in Memory!Nodes : n \in Nat \ {0}
<1> SUFFICES ASSUME NEW n \in Memory!Nodes PROVE n \in Nat \ {0}
  OBVIOUS
<1>1. PICK l \in Memory!Levels : n \in Memory!Level(l)
  BY DEF Memory!Nodes
<1> DEFINE p == 2 ^ l
<1>2. l \in Nat /\ p \in Nat \ {0} /\ n \in p .. 2 * p - 1
  BY <1>1, LevelFacts
<1> HIDE DEF p
<1> QED  BY <1>2

(* A node is on one level. *)
LEMMA LevelUnique ==
    ASSUME NEW l \in Memory!Levels, NEW n \in Memory!Level(l)
    PROVE  n \in Memory!Nodes /\ Memory!LevelOf(n) = l
<1>1. n \in Memory!Nodes
  BY DEF Memory!Nodes
<1>2. ASSUME NEW j \in Memory!Levels, NEW k \in Memory!Levels, j < k,
             n \in Memory!Level(j), n \in Memory!Level(k)
      PROVE  FALSE
  <2>0. j \in Nat /\ k \in Nat
    BY <1>2, LevelFacts
  <2>1. j + 1 \in 0 .. k
    BY <1>2, <2>0
  <2>2. 2 ^ (j + 1) <= 2 ^ k
    BY <2>0, <2>1, PowersGrow
  <2>3. n \in 2 ^ j .. 2 * 2 ^ j - 1 /\ 2 ^ (j + 1) = 2 * 2 ^ j /\ 2 ^ j \in Nat
    BY <1>2, LevelFacts
  <2>4. n \in 2 ^ k .. 2 * 2 ^ k - 1 /\ 2 ^ k \in Nat
    BY <1>2, LevelFacts
  <2> QED  BY <2>2, <2>3, <2>4
<1>3. Memory!LevelOf(n) \in Memory!Levels /\ n \in Memory!Level(Memory!LevelOf(n))
  BY <1>1, NodeLevel
<1>4. l \in Nat /\ Memory!LevelOf(n) \in Nat
  BY <1>3, LevelFacts
<1> QED  BY <1>1, <1>2, <1>3, <1>4

(* The root is on the first level. *)
LEMMA RootLevel == 1 \in Memory!Nodes /\ Memory!LevelOf(1) = 0
<1>1. 0 \in Memory!Levels
  BY DepthAssumption DEF Memory!Levels
<1>2. 1 \in Memory!Level(0)
  <2>1. Memory!Level(0) = 2 ^ 0 .. 2 * 2 ^ 0 - 1
    BY <1>1, LevelFacts
  <2>2. 2 ^ 0 = 1
    BY PowersOfTwo
  <2> QED  BY <2>1, <2>2
<1> QED  BY <1>1, <1>2, LevelUnique

(* The parent of a node is one level up. *)
LEMMA ParentLevel ==
    ASSUME NEW n \in Memory!Nodes, n # 1
    PROVE  /\ n \div 2 \in Memory!Nodes /\ n \div 2 < n
           /\ n = Memory!Left(n \div 2) \/ n = Memory!Right(n \div 2)
           /\ Memory!LevelOf(n) = Memory!LevelOf(n \div 2) + 1
<1> DEFINE l == Memory!LevelOf(n)
           p == 2 ^ l
<1>1. l \in Memory!Levels /\ n \in Memory!Level(l)
  BY NodeLevel
<1>2. l \in Nat /\ l <= Depth + 1 /\ p \in Nat \ {0} /\ n \in p .. 2 * p - 1
  BY <1>1, LevelFacts
<1>3. l # 0
  <2>1. ASSUME l = 0 PROVE FALSE
    <3>1. p = 1
      BY <1>2, <2>1, PowersOfTwo
    <3> HIDE DEF p, l
    <3> QED  BY <1>2, <3>1
  <2> QED  BY <2>1
<1>4. l - 1 \in Memory!Levels
  <2> HIDE DEF l
  <2> QED  BY <1>2, <1>3, DepthAssumption DEF Memory!Levels
<1> DEFINE q == 2 ^ (l - 1)
<1>5. q \in Nat \ {0} /\ p = 2 * q /\ Memory!Level(l - 1) = q .. 2 * q - 1
  <2>1. l - 1 + 1 = l
    BY <1>2
  <2> QED  BY <1>4, <2>1, LevelFacts
<1>6. n \div 2 \in Memory!Level(l - 1)
  <2>1. n \div 2 \in q .. 2 * q - 1
    <3> HIDE DEF p, q
    <3> QED  BY <1>2, <1>5
  <2> QED  BY <1>5, <2>1
<1>7. n \div 2 \in Memory!Nodes /\ Memory!LevelOf(n \div 2) = l - 1
  BY <1>4, <1>6, LevelUnique
<1>8. n \div 2 < n /\ (n = 2 * (n \div 2) \/ n = 2 * (n \div 2) + 1)
  BY NodeNumber
<1> QED  BY <1>2, <1>7, <1>8 DEF Memory!Left, Memory!Right

(* The children of a node are one level down, unless it is on the last level. *)
LEMMA ChildLevel ==
    ASSUME NEW n \in Memory!Nodes
    PROVE  /\ Memory!LevelOf(n) <= Depth =>
                /\ Memory!Left(n) \in Memory!Nodes /\ Memory!Right(n) \in Memory!Nodes
                /\ Memory!LevelOf(Memory!Left(n)) = Memory!LevelOf(n) + 1
                /\ Memory!LevelOf(Memory!Right(n)) = Memory!LevelOf(n) + 1
           /\ Memory!Left(n) \in Memory!Nodes => Memory!LevelOf(n) <= Depth
           /\ Memory!Right(n) \in Memory!Nodes => Memory!LevelOf(n) <= Depth
<1> DEFINE l == Memory!LevelOf(n)
           p == 2 ^ l
<1>1. l \in Memory!Levels /\ n \in Memory!Level(l)
  BY NodeLevel
<1>2. l \in Nat /\ l <= Depth + 1 /\ p \in Nat \ {0} /\ n \in p .. 2 * p - 1
      /\ 2 ^ (l + 1) = 2 * p
  BY <1>1, LevelFacts
<1>3. ASSUME l <= Depth
      PROVE  /\ Memory!Left(n) \in Memory!Nodes /\ Memory!Right(n) \in Memory!Nodes
             /\ Memory!LevelOf(Memory!Left(n)) = l + 1
             /\ Memory!LevelOf(Memory!Right(n)) = l + 1
  <2>1. l + 1 \in Memory!Levels
    <3> HIDE DEF l
    <3> QED  BY <1>2, <1>3, DepthAssumption DEF Memory!Levels
  <2>2. Memory!Level(l + 1) = 2 * p .. 2 * (2 * p) - 1
    BY <1>2, <2>1, LevelFacts
  <2>3. 2 * n \in 2 * p .. 2 * (2 * p) - 1 /\ 2 * n + 1 \in 2 * p .. 2 * (2 * p) - 1
    <3> HIDE DEF p
    <3> QED  BY <1>2
  <2>4. Memory!Left(n) \in Memory!Level(l + 1) /\ Memory!Right(n) \in Memory!Level(l + 1)
    BY <2>2, <2>3 DEF Memory!Left, Memory!Right
  <2> QED  BY <2>1, <2>4, LevelUnique
<1>4. ASSUME NEW c \in {2 * n, 2 * n + 1}, c \in Memory!Nodes PROVE l <= Depth
  <2>1. n \in Nat \ {0}
    <3> HIDE DEF p
    <3> QED  BY <1>2
  <2>2. c # 1 /\ c \div 2 = n
    BY <2>1
  <2>3. Memory!LevelOf(c) = l + 1
    BY <1>4, <2>2, ParentLevel
  <2>4. Memory!LevelOf(c) <= Depth + 1
    BY <1>4, NodeLevel, LevelFacts
  <2> HIDE DEF l
  <2> QED  BY <1>2, <2>3, <2>4, DepthAssumption
<1> QED  BY <1>3, <1>4 DEF Memory!Left, Memory!Right

(* All nodes are below some number. *)
LEMMA NodeBounds == \E bound \in Nat : \A n \in Memory!Nodes : n \in 1 .. bound
<1> DEFINE bound == 2 * 2 ^ (Depth + 1)
<1>1. Depth + 1 \in Nat /\ 2 ^ (Depth + 1) \in Nat
  BY DepthAssumption, PowersOfTwo
<1>2. ASSUME NEW n \in Memory!Nodes PROVE n \in 1 .. bound
  <2>1. PICK l \in Memory!Levels : n \in Memory!Level(l)
    BY DEF Memory!Nodes
  <2>2. l \in 0 .. Depth + 1 /\ 2 ^ l \in Nat \ {0} /\ n \in 2 ^ l .. 2 * 2 ^ l - 1
    BY <2>1, LevelFacts DEF Memory!Levels
  <2>3. 2 ^ l <= 2 ^ (Depth + 1)
    BY <1>1, <2>2, PowersGrow
  <2> QED  BY <1>1, <2>2, <2>3
<1> QED  BY <1>1, <1>2
(* The sizes of the nodes, by how far they are from the last level.           *)
Bytes(e) == IF e = 0 THEN 0 ELSE 2 ^ (e - 1)

(* The order of the sizes is that of the distances. *)
LEMMA BytesOrder ==
    ASSUME NEW d \in Nat, NEW e \in Nat
    PROVE  /\ Bytes(d) \in Nat
           /\ Bytes(d) > Bytes(e) <=> d > e
           /\ Bytes(d) = 2 * Bytes(e) <=> (e > 0 /\ d = e + 1) \/ (e = 0 /\ d = 0)
           /\ Bytes(d) > 2 * Bytes(e) <=> (e > 0 /\ d > e + 1) \/ (e = 0 /\ d > 0)
<1>1. \A k \in Nat : /\ Bytes(k) \in Nat
                     /\ k = 0 <=> Bytes(k) = 0
                     /\ k > 0 => Bytes(k + 1) = 2 * Bytes(k)
  <2> SUFFICES ASSUME NEW k \in Nat
               PROVE  /\ Bytes(k) \in Nat
                      /\ k = 0 <=> Bytes(k) = 0
                      /\ k > 0 => Bytes(k + 1) = 2 * Bytes(k)
    OBVIOUS
  <2>1. CASE k = 0
    BY <2>1 DEF Bytes
  <2>2. CASE k > 0
    <3> DEFINE m == k - 1
    <3>1. m \in Nat /\ k = m + 1 /\ k + 1 # 0 /\ k + 1 - 1 = m + 1
      BY <2>2
    <3> HIDE DEF m
    <3>2. 2 ^ m \in Nat \ {0} /\ 2 ^ (m + 1) = 2 * 2 ^ m
      BY <3>1, PowersOfTwo
    <3>3. Bytes(k + 1) = 2 ^ (m + 1)
      BY <3>1 DEF Bytes
    <3>4. Bytes(k) = 2 ^ m
      <4>1. k - 1 = m /\ k # 0
        BY <2>2, <3>1
      <4> QED  BY <4>1 DEF Bytes
    <3> QED  BY <2>2, <3>2, <3>3, <3>4
  <2> QED  BY <2>1, <2>2
<1>2. \A j, k \in Nat : j <= k => Bytes(j) <= Bytes(k)
  <2> SUFFICES ASSUME NEW j \in Nat, NEW k \in Nat, j <= k PROVE Bytes(j) <= Bytes(k)
    OBVIOUS
  <2>1. CASE j = 0
    BY <1>1, <2>1
  <2>2. CASE j > 0
    <3>1. k - 1 \in Nat /\ j - 1 \in 0 .. k - 1 /\ k # 0 /\ j # 0
      BY <2>2
    <3>2. 2 ^ (j - 1) <= 2 ^ (k - 1)
      BY <3>1, PowersGrow
    <3> QED  BY <3>1, <3>2 DEF Bytes
  <2> QED  BY <2>1, <2>2
<1>3. \A j, k \in Nat : j < k => Bytes(j) < Bytes(k) /\ (j > 0 => 2 * Bytes(j) <= Bytes(k))
  <2> SUFFICES ASSUME NEW j \in Nat, NEW k \in Nat, j < k
               PROVE  Bytes(j) < Bytes(k) /\ (j > 0 => 2 * Bytes(j) <= Bytes(k))
    OBVIOUS
  <2>1. Bytes(j + 1) <= Bytes(k)
    BY <1>2
  <2> QED  BY <1>1, <2>1
<1>4. CASE e = 0
  <2>1. Bytes(e) = 0 /\ Bytes(d) \in Nat /\ (d = 0 <=> Bytes(d) = 0)
    BY <1>1, <1>4
  <2> QED  BY <1>4, <2>1
<1>5. CASE e > 0 /\ d <= e
  BY <1>1, <1>2, <1>5
<1>6. CASE e > 0 /\ d > e + 1
  <2>1. 2 * Bytes(e + 1) <= Bytes(d) /\ Bytes(e + 1) = 2 * Bytes(e)
    BY <1>1, <1>3, <1>6
  <2> QED  BY <1>1, <1>6, <2>1
<1>7. CASE e > 0 /\ d = e + 1
  BY <1>1, <1>7
<1> QED  BY <1>4, <1>5, <1>6, <1>7

(* How far a node is from the last level. *)
Exp(n) == Depth + 1 - Memory!LevelOf(n)

(* It gives the size of the node, and tells whether the node can be split.    *)
LEMMA ExpFacts ==
    ASSUME NEW n \in Memory!Nodes
    PROVE  /\ Exp(n) \in 0 .. Depth + 1
           /\ Memory!Data(n) = Bytes(Exp(n))
           /\ Memory!Left(n) \in Memory!Nodes <=> Exp(n) > 0
           /\ Memory!Right(n) \in Memory!Nodes <=> Exp(n) > 0
           /\ Exp(n) > 0 => /\ Exp(Memory!Left(n)) = Exp(n) - 1
                            /\ Exp(Memory!Right(n)) = Exp(n) - 1
<1> DEFINE l == Memory!LevelOf(n)
<1>1. l \in 0 .. Depth + 1
  BY NodeLevel DEF Memory!Levels
<1>2. Exp(n) = Depth + 1 - l
  BY DEF Exp
<1>3. Exp(n) \in 0 .. Depth + 1
  <2> HIDE DEF l
  <2> QED  BY <1>1, <1>2, DepthAssumption
<1>4. Memory!Data(n) = 2 ^ Depth \div 2 ^ l
  BY DEF Memory!Data, Memory!MEM_MAX_SIZE
<1>5. Memory!Data(n) = Bytes(Exp(n))
  <2> HIDE DEF l
  <2>1. CASE l = Depth + 1
    <3>1. 2 ^ Depth \in Nat \ {0} /\ 2 ^ (Depth + 1) = 2 * 2 ^ Depth
      BY DepthAssumption, PowersOfTwo
    <3>2. \A x \in Nat \ {0} : x \div (2 * x) = 0
      OBVIOUS
    <3>3. Memory!Data(n) = 0
      BY <1>4, <2>1, <3>1, <3>2
    <3>4. Exp(n) = 0
      BY <1>2, <2>1, DepthAssumption
    <3> QED  BY <3>3, <3>4 DEF Bytes
  <2>2. CASE l # Depth + 1
    <3>1. l \in 0 .. Depth /\ Exp(n) # 0 /\ Exp(n) - 1 = Depth - l
      BY <1>1, <1>2, <2>2, DepthAssumption
    <3>2. 2 ^ Depth \div 2 ^ l = 2 ^ (Depth - l)
      BY <3>1, DepthAssumption, PowersDivide
    <3> QED  BY <1>4, <3>1, <3>2 DEF Bytes
  <2> QED  BY <2>1, <2>2
<1>6. l <= Depth <=> Exp(n) > 0
  <2> HIDE DEF l
  <2> QED  BY <1>1, <1>2, DepthAssumption
<1>7. Exp(n) > 0 => Exp(Memory!Left(n)) = Exp(n) - 1 /\ Exp(Memory!Right(n)) = Exp(n) - 1
  <2> SUFFICES ASSUME Exp(n) > 0
               PROVE  Exp(Memory!Left(n)) = Exp(n) - 1 /\ Exp(Memory!Right(n)) = Exp(n) - 1
    OBVIOUS
  <2>1. Memory!LevelOf(Memory!Left(n)) = l + 1 /\ Memory!LevelOf(Memory!Right(n)) = l + 1
    BY <1>6, ChildLevel
  <2>2. \A x, y \in Int : x - (y + 1) = x - y - 1
    OBVIOUS
  <2> HIDE DEF l
  <2> QED  BY <1>1, <1>2, <2>1, DepthAssumption DEF Exp
<1> QED  BY <1>3, <1>5, <1>6, <1>7, ChildLevel

(* Allocate rounds a request up to the size of a node. *)
LEMMA BlockSizeIs ==
    ASSUME NEW bytes \in Nat
    PROVE  \E b \in Nat : /\ Memory!BlockSize(bytes) = Bytes(b)
                          /\ b = 0 <=> bytes = 0
                          /\ b > 0 => /\ 2 ^ (b - 1) >= bytes
                                      /\ \A j \in 0 .. b - 2 : 2 ^ j < bytes
<1>1. CASE bytes = 0
  <2>1. Memory!BlockSize(bytes) = Bytes(0)
    BY <1>1 DEF Memory!BlockSize, Bytes
  <2> QED  BY <1>1, <2>1
<1>2. CASE bytes # 0
  <2> DEFINE T == {k \in Nat : 2 ^ k >= bytes}
             Good(k) == 2 ^ k >= bytes /\ \A j \in 0 .. k - 1 : 2 ^ j < bytes
  <2>1. bytes \in T
    BY PowersAbove, PowersOfTwo
  <2>2. PICK n \in T : \A m \in T : n <= m
    <3>1. T \in SUBSET Nat
      OBVIOUS
    <3> HIDE DEF T
    <3> QED  BY <2>1, <3>1, LeastNumber
  <2>3. n \in 0 .. bytes
    <3>1. n <= bytes /\ n \in Nat
      BY <2>1, <2>2
    <3> QED  BY <3>1
  <2>4. Good(n)
    <3>1. ASSUME NEW j \in 0 .. n - 1 PROVE 2 ^ j < bytes
      <4>1. j \in Nat /\ n \in Nat /\ ~(n <= j)
        BY <2>3
      <4>2. j \notin T
        <5> HIDE DEF T
        <5> QED  BY <2>2, <4>1
      <4>3. 2 ^ j \in Nat /\ ~(2 ^ j >= bytes)
        BY <4>1, <4>2, PowersOfTwo
      <4> QED  BY <4>3
    <3> QED  BY <2>2, <3>1
  <2> DEFINE k == CHOOSE i \in 0 .. bytes : Good(i)
  <2>5. k \in 0 .. bytes /\ Good(k)
    <3> HIDE DEF Good
    <3> QED  BY <2>3, <2>4
  <2>6. Memory!BlockSize(bytes) = 2 ^ k
    BY <1>2 DEF Memory!BlockSize
  <2> HIDE DEF k
  <2> DEFINE b == k + 1
  <2>7. b \in Nat /\ b > 0 /\ b # 0 /\ b - 1 = k /\ b - 2 = k - 1
    BY <2>5
  <2> HIDE DEF b
  <2>8. Memory!BlockSize(bytes) = Bytes(b)
    BY <2>6, <2>7 DEF Bytes
  <2>9. 2 ^ (b - 1) >= bytes /\ \A j \in 0 .. b - 2 : 2 ^ j < bytes
    BY <2>5, <2>7
  <2> QED  BY <1>2, <2>7, <2>8, <2>9
<1> QED  BY <1>1, <1>2
------------------------------------------------------------------------------
(* A node is in P if its parent is. *)
Inherited(P) ==
    \A n \in Memory!Nodes : (n # 1 => n \div 2 \in P) => n \in P

(* What nodes inherit all of them have. *)
LEMMA NodeInduction ==
    ASSUME NEW P, Inherited(P)
    PROVE  Memory!Nodes \subseteq P
<1> DEFINE rank == [n \in Memory!Nodes |-> n]
<1>1. rank \in [Memory!Nodes -> Nat]
  BY NodeNumber
<1>2. ASSUME NEW n \in Memory!Nodes, \A m \in Memory!Nodes : rank[m] < rank[n] => m \in P
      PROVE  n \in P
  <2>1. ASSUME n # 1 PROVE n \div 2 \in P
    BY <1>2, <2>1, ParentLevel
  <2> QED  BY <2>1 DEF Inherited
<1>3. Inductive(Memory!Nodes, rank, P)
  <2> HIDE DEF rank
  <2> QED  BY <1>1, <1>2 DEF Inductive
<1> QED  BY <1>3, RankInduction

(* The parent of a node is a node or there is none. *)
LEMMA Upward ==
    ASSUME NEW n \in Memory!Nodes
    PROVE  n \div 2 \in Memory!Nodes \cup {Memory!NULL} /\ n \div 2 < n
           /\ n # Memory!NULL
<1>1. CASE n = 1
  BY <1>1 DEF Memory!NULL
<1>2. CASE n # 1
  BY <1>2, ParentLevel, NodeNumber DEF Memory!NULL
<1> QED  BY <1>1, <1>2

(* The way up from a node is the recursion it is written as. *)
LEMMA PathIs ==
    /\ Memory!PathTo \in [Memory!Nodes \cup {Memory!NULL} -> SUBSET Memory!Nodes]
    /\ Memory!PathTo[Memory!NULL] = {}
    /\ \A n \in Memory!Nodes : Memory!PathTo[n] = {n} \cup Memory!PathTo[n \div 2]
<1> DEFINE D == Memory!Nodes \cup {Memory!NULL}
           V == SUBSET Memory!Nodes
           rank == [n \in D |-> n]
           Body(n, f) == IF n = Memory!NULL THEN {} ELSE {n} \cup f[n \div 2]
           G == [n \in D |-> [f \in [D -> V] |-> Body(n, f)]]
<1>1. rank \in [D -> Nat]
  BY NodeNumber DEF Memory!NULL
<1>2. G \in [D -> [[D -> V] -> V]]
  <2>1. ASSUME NEW n \in D, NEW f \in [D -> V] PROVE Body(n, f) \in V
    <3>1. CASE n = Memory!NULL
      BY <3>1
    <3>2. CASE n # Memory!NULL
      BY <3>2, Upward
    <3> QED  BY <3>1, <3>2
  <2> HIDE DEF Body, V, D
  <2> QED  BY <2>1
<1>3. ASSUME NEW n \in D, NEW f \in [D -> V], NEW g \in [D -> V],
             \A m \in D : rank[m] < rank[n] => f[m] = g[m]
      PROVE  Body(n, f) = Body(n, g)
  <2> SUFFICES ASSUME n # Memory!NULL PROVE f[n \div 2] = g[n \div 2]
    OBVIOUS
  <2>1. n \div 2 \in D /\ rank[n \div 2] < rank[n]
    BY Upward
  <2> HIDE DEF rank, D, V
  <2> QED  BY <1>3, <2>1
<1>4. PICK f \in [D -> V] : \A n \in D : f[n] = G[n][f]
  <2>1. \A n \in D : \A f, g \in [D -> V] :
            (\A m \in D : rank[m] < rank[n] => f[m] = g[m]) => G[n][f] = G[n][g]
    <3> HIDE DEF rank, Body, D, V
    <3> QED  BY <1>3
  <2>2. {} \in V
    OBVIOUS
  <2> HIDE DEF D, V, G, rank
  <2>3. Founded(D, V, rank, G)
    BY <1>1, <1>2, <2>1 DEF Founded
  <2> QED  BY <2>2, <2>3, RecursionExists
<1>5. Memory!PathTo = [n \in D |-> Body(n, Memory!PathTo)]
  <2>1. f = [n \in D |-> Body(n, f)]
    BY <1>4
  <2> QED  BY <2>1 DEF Memory!PathTo
<1>6. Memory!PathTo \in [D -> V]
  <2> DEFINE P == {n \in Memory!Nodes : Memory!PathTo[n] \in V}
  <2>1. Memory!PathTo[Memory!NULL] = {}
    BY <1>5
  <2>2. \A n \in Memory!Nodes : Memory!PathTo[n] = {n} \cup Memory!PathTo[n \div 2]
    BY <1>5, Upward
  <2>3. Inherited(P)
    <3> SUFFICES ASSUME NEW n \in Memory!Nodes, n # 1 => n \div 2 \in P PROVE n \in P
      BY DEF Inherited
    <3>1. CASE n = 1
      <4>1. n \div 2 = Memory!NULL
        BY <3>1 DEF Memory!NULL
      <4> QED  BY <2>1, <2>2, <4>1
    <3>2. CASE n # 1
      BY <2>2, <3>2
    <3> QED  BY <3>1, <3>2
  <2> HIDE DEF P
  <2>4. Memory!Nodes \subseteq P
    BY <2>3, NodeInduction
  <2> QED  BY <1>5, <2>1, <2>4 DEF P
<1>7. Memory!PathTo[Memory!NULL] = {}
  BY <1>5
<1>8. \A n \in Memory!Nodes : Memory!PathTo[n] = {n} \cup Memory!PathTo[n \div 2]
  BY <1>5, Upward
<1> QED  BY <1>6, <1>7, <1>8

(* The way up from n starts there, ends at the root, leads on along the way   *)
(* up from every node that it passes, and reached that by one of its children. *)
UpFrom(n) ==
    /\ n \in Memory!PathTo[n]
    /\ 1 \in Memory!PathTo[n]
    /\ \A k \in Memory!PathTo[n] :
            /\ k \in Memory!Nodes
            /\ Memory!PathTo[k] \subseteq Memory!PathTo[n]
            /\ k # n => /\ Exp(n) < Exp(k)
                        /\ Memory!Left(k) \in Memory!PathTo[n]
                            \/ Memory!Right(k) \in Memory!PathTo[n]

(* It is so for every node. *)
LEMMA PathFacts == \A n \in Memory!Nodes : UpFrom(n)
<1> DEFINE P == {n \in Memory!Nodes : UpFrom(n)}
<1>1. Inherited(P)
  <2> SUFFICES ASSUME NEW n \in Memory!Nodes, n # 1 => n \div 2 \in P PROVE UpFrom(n)
    BY DEF Inherited
  <2>1. Memory!PathTo[n] = {n} \cup Memory!PathTo[n \div 2]
    BY PathIs
  <2>2. CASE n = 1
    <3>1. n \div 2 = Memory!NULL
      BY <2>2 DEF Memory!NULL
    <3>2. Memory!PathTo[n] = {n}
      BY <2>1, <3>1, PathIs
    <3> QED  BY <2>2, <3>2 DEF UpFrom
  <2>3. CASE n # 1
    <3> DEFINE p == n \div 2
    <3>1. p \in Memory!Nodes /\ UpFrom(p) /\ (n = Memory!Left(p) \/ n = Memory!Right(p))
      BY <2>3, ParentLevel
    <3>2. Exp(n) < Exp(p)
      <4>1. Memory!LevelOf(n) = Memory!LevelOf(p) + 1
        BY <2>3, ParentLevel
      <4>2. Memory!LevelOf(p) \in Nat
        BY <3>1, NodeLevel, LevelFacts
      <4> HIDE DEF p
      <4> QED  BY <4>1, <4>2, DepthAssumption DEF Exp
    <3>3. Exp(n) \in Nat /\ \A k \in Memory!Nodes : Exp(k) \in Nat
      BY ExpFacts
    <3> HIDE DEF p
    <3>4. Memory!PathTo[n] = {n} \cup Memory!PathTo[p]
      BY <2>1 DEF p
    <3>5. ASSUME NEW k \in Memory!PathTo[p]
          PROVE  /\ k \in Memory!Nodes
                 /\ Memory!PathTo[k] \subseteq Memory!PathTo[n]
                 /\ Exp(n) < Exp(k)
                 /\ Memory!Left(k) \in Memory!PathTo[n] \/ Memory!Right(k) \in Memory!PathTo[n]
      <4>1. CASE k = p
        BY <3>1, <3>2, <3>4, <4>1
      <4>2. CASE k # p
        <5>1. k \in Memory!Nodes /\ Memory!PathTo[k] \subseteq Memory!PathTo[p] /\ Exp(p) < Exp(k)
          BY <3>1, <3>5, <4>2 DEF UpFrom
        <5>2. Memory!Left(k) \in Memory!PathTo[p] \/ Memory!Right(k) \in Memory!PathTo[p]
          BY <3>1, <3>5, <4>2 DEF UpFrom
        <5>3. Exp(n) < Exp(k)
          BY <3>1, <3>2, <3>3, <5>1
        <5> QED  BY <3>4, <5>1, <5>2, <5>3
      <4> QED  BY <4>1, <4>2
    <3>6. 1 \in Memory!PathTo[p]
      BY <3>1 DEF UpFrom
    <3> QED  BY <3>4, <3>5, <3>6 DEF UpFrom
  <2> QED  BY <2>2, <2>3
<1> HIDE DEF P
<1>2. Memory!Nodes \subseteq P
  BY <1>1, NodeInduction
<1> QED  BY <1>2 DEF P
------------------------------------------------------------------------------
(* A node with more than no bytes can be split. *)
LEMMA DataSplits ==
    ASSUME NEW n \in Memory!Nodes
    PROVE  /\ Memory!Data(n) \in Nat
           /\ \A s \in Nat : Memory!Data(n) > s =>
                /\ Memory!Left(n) \in Memory!Nodes /\ Memory!Right(n) \in Memory!Nodes
                /\ Exp(Memory!Left(n)) < Exp(n) /\ Exp(Memory!Right(n)) < Exp(n)
<1>1. Exp(n) \in Nat /\ Memory!Data(n) = Bytes(Exp(n))
  BY ExpFacts
<1>2. Memory!Data(n) \in Nat
  BY <1>1, BytesOrder
<1>3. ASSUME NEW s \in Nat, Memory!Data(n) > s PROVE Exp(n) > 0
  <2>1. Exp(n) # 0
    <3>1. ASSUME Exp(n) = 0 PROVE FALSE
      <4>1. Memory!Data(n) = 0
        BY <1>1, <3>1 DEF Bytes
      <4> QED  BY <1>3, <4>1
    <3> QED  BY <3>1
  <2> QED  BY <1>1, <2>1
<1>4. Exp(n) > 0 =>
        /\ Memory!Left(n) \in Memory!Nodes /\ Memory!Right(n) \in Memory!Nodes
        /\ Exp(Memory!Left(n)) = Exp(n) - 1 /\ Exp(Memory!Right(n)) = Exp(n) - 1
  BY ExpFacts
<1> QED  BY <1>1, <1>2, <1>3, <1>4

(* alloc1 is the recursion it is written as. *)
LEMMA Alloc1Equation ==
    ASSUME NEW s \in Nat
    PROVE  \A n \in Memory!Nodes :
               /\ Memory!alloc1(n, s) \in Memory!Nodes
               /\ Memory!alloc1(n, s) = IF Memory!Data(n) > s
                                        THEN Memory!alloc1(Memory!Left(n), s) ELSE n
<1> DEFINE D == Memory!Nodes
           rank == [n \in D |-> Exp(n)]
           Body(n, f) == IF Memory!Data(n) > s THEN f[Memory!Left(n)] ELSE n
           G == [n \in D |-> [f \in [D -> D] |-> Body(n, f)]]
<1>1. rank \in [D -> Nat]
  BY ExpFacts
<1>2. G \in [D -> [[D -> D] -> D]]
  <2>1. ASSUME NEW n \in D, NEW f \in [D -> D] PROVE Body(n, f) \in D
    BY DataSplits
  <2> HIDE DEF Body, D
  <2> QED  BY <2>1
<1>3. ASSUME NEW n \in D, NEW f \in [D -> D], NEW g \in [D -> D],
             \A m \in D : rank[m] < rank[n] => f[m] = g[m]
      PROVE  Body(n, f) = Body(n, g)
  <2> SUFFICES ASSUME Memory!Data(n) > s PROVE f[Memory!Left(n)] = g[Memory!Left(n)]
    OBVIOUS
  <2>1. Memory!Left(n) \in D /\ rank[Memory!Left(n)] < rank[n]
    BY DataSplits
  <2> HIDE DEF rank, D
  <2> QED  BY <1>3, <2>1
<1>4. PICK f \in [D -> D] : \A n \in D : f[n] = G[n][f]
  <2>1. \A n \in D : \A f, g \in [D -> D] :
            (\A m \in D : rank[m] < rank[n] => f[m] = g[m]) => G[n][f] = G[n][g]
    <3> HIDE DEF rank, Body, D
    <3> QED  BY <1>3
  <2>2. 1 \in D
    BY RootLevel
  <2> HIDE DEF D, G, rank
  <2>3. Founded(D, D, rank, G)
    BY <1>1, <1>2, <2>1 DEF Founded
  <2> QED  BY <2>2, <2>3, RecursionExists
<1> DEFINE spine == CHOOSE g : g = [n \in D |-> Body(n, g)]
<1>5. spine = [n \in D |-> Body(n, spine)]
  <2>1. f = [n \in D |-> Body(n, f)]
    BY <1>4
  <2> HIDE DEF Body, D
  <2> QED  BY <2>1
<1>6. \A n \in D : Memory!alloc1(n, s) = spine[n]
  BY DEF Memory!alloc1
<1> HIDE DEF spine
<1>7. \A n \in D : spine[n] = IF Memory!Data(n) > s THEN spine[Memory!Left(n)] ELSE n
  BY <1>5
<1> DEFINE P == {n \in D : spine[n] \in D}
<1>8. ASSUME NEW n \in D, \A m \in D : rank[m] < rank[n] => m \in P
      PROVE  n \in P
  <2>1. ASSUME Memory!Data(n) > s PROVE spine[Memory!Left(n)] \in D
    <3>1. Memory!Left(n) \in D /\ rank[Memory!Left(n)] < rank[n]
      BY <2>1, DataSplits
    <3> HIDE DEF rank, D
    <3> QED  BY <1>8, <3>1
  <2> QED  BY <1>7, <2>1
<1>9. D \subseteq P
  <2>1. Inductive(D, rank, P)
    <3> HIDE DEF P, rank, D
    <3> QED  BY <1>1, <1>8 DEF Inductive
  <2> HIDE DEF P, rank, D
  <2> QED  BY <2>1, RankInduction
<1>10. ASSUME NEW n \in D, Memory!Data(n) > s PROVE Memory!Left(n) \in D
  BY <1>10, DataSplits
<1> QED  BY <1>6, <1>7, <1>9, <1>10

(* What alloc2 returns at a node if f is what it returns further down.        *)
AtNode(f, s, root) ==
    LET left == Memory!Left(root) \in tree
        right == Memory!Right(root) \in tree
    IN  CASE ~left /\ ~right -> Memory!NULL
          [] left # right /\ Memory!Data(root) = 2 * s ->
                IF left THEN Memory!Right(root) ELSE Memory!Left(root)
          [] left /\ right /\ Memory!Data(root) > 2 * s ->
                IF f[Memory!Left(root)] # Memory!NULL
                THEN f[Memory!Left(root)] ELSE f[Memory!Right(root)]
          [] left /\ ~right /\ Memory!Data(root) > 2 * s ->
                IF f[Memory!Left(root)] # Memory!NULL
                THEN f[Memory!Left(root)] ELSE Memory!alloc1(Memory!Right(root), s)
          [] ~left /\ right /\ Memory!Data(root) > 2 * s ->
                IF f[Memory!Right(root)] # Memory!NULL
                THEN f[Memory!Right(root)] ELSE Memory!alloc1(Memory!Left(root), s)
          [] OTHER -> Memory!NULL

(* The search of alloc2: what it returns at each node, and at the root.       *)
IsBelow(f, s) ==
    /\ f \in [Memory!Nodes -> Memory!Nodes \cup {Memory!NULL}]
    /\ Memory!alloc2(s) = f[1]
    /\ \A root \in Memory!Nodes : f[root] = AtNode(f, s, root)

(* alloc2 is the recursion it is written as. *)
LEMMA Alloc2Equation ==
    ASSUME tree \subseteq Memory!Nodes, NEW s \in Nat
    PROVE  \E f : IsBelow(f, s)
<1> DEFINE D == Memory!Nodes
           V == Memory!Nodes \cup {Memory!NULL}
           rank == [n \in D |-> Exp(n)]
           Body(root, f) == AtNode(f, s, root)
           G == [n \in D |-> [f \in [D -> V] |-> Body(n, f)]]
<1>1. rank \in [D -> Nat]
  BY ExpFacts
<1>2. ASSUME NEW n \in D
      PROVE  /\ Memory!Left(n) \in D <=> Memory!Right(n) \in D
             /\ Memory!Left(n) \in D => Exp(Memory!Left(n)) < Exp(n)
             /\ Memory!Right(n) \in D => Exp(Memory!Right(n)) < Exp(n)
             /\ Memory!Left(n) \in D => Memory!alloc1(Memory!Left(n), s) \in D
             /\ Memory!Right(n) \in D => Memory!alloc1(Memory!Right(n), s) \in D
  BY ExpFacts, Alloc1Equation
<1>3. ASSUME NEW n \in D, NEW f \in [D -> V] PROVE Body(n, f) \in V
  <2>1. Memory!Left(n) \in D => f[Memory!Left(n)] \in V
    OBVIOUS
  <2>2. Memory!Right(n) \in D => f[Memory!Right(n)] \in V
    OBVIOUS
  <2> QED  BY <1>2, <2>1, <2>2 DEF AtNode
<1>4. G \in [D -> [[D -> V] -> V]]
  <2> HIDE DEF Body, D, V
  <2> QED  BY <1>3
<1>5. ASSUME NEW n \in D, NEW f \in [D -> V], NEW g \in [D -> V],
             \A m \in D : rank[m] < rank[n] => f[m] = g[m]
      PROVE  Body(n, f) = Body(n, g)
  <2>1. Memory!Left(n) \in D => f[Memory!Left(n)] = g[Memory!Left(n)]
    BY <1>2, <1>5
  <2>2. Memory!Right(n) \in D => f[Memory!Right(n)] = g[Memory!Right(n)]
    BY <1>2, <1>5
  <2> HIDE DEF rank
  <2> QED  BY <1>2, <2>1, <2>2 DEF AtNode
<1>6. PICK f \in [D -> V] : \A n \in D : f[n] = G[n][f]
  <2>1. \A n \in D : \A f, g \in [D -> V] :
            (\A m \in D : rank[m] < rank[n] => f[m] = g[m]) => G[n][f] = G[n][g]
    <3> HIDE DEF rank, Body, D, V
    <3> QED  BY <1>5
  <2>2. 1 \in V
    BY RootLevel
  <2> HIDE DEF D, V, G, rank
  <2>3. Founded(D, V, rank, G)
    BY <1>1, <1>4, <2>1 DEF Founded
  <2> QED  BY <2>2, <2>3, RecursionExists
<1> DEFINE below[root \in Memory!Nodes] ==
            LET left == Memory!Left(root) \in tree
                right == Memory!Right(root) \in tree
            IN  CASE ~left /\ ~right -> Memory!NULL
                  [] left # right /\ Memory!Data(root) = 2 * s ->
                        IF left THEN Memory!Right(root) ELSE Memory!Left(root)
                  [] left /\ right /\ Memory!Data(root) > 2 * s ->
                        IF below[Memory!Left(root)] # Memory!NULL
                        THEN below[Memory!Left(root)] ELSE below[Memory!Right(root)]
                  [] left /\ ~right /\ Memory!Data(root) > 2 * s ->
                        IF below[Memory!Left(root)] # Memory!NULL
                        THEN below[Memory!Left(root)] ELSE Memory!alloc1(Memory!Right(root), s)
                  [] ~left /\ right /\ Memory!Data(root) > 2 * s ->
                        IF below[Memory!Right(root)] # Memory!NULL
                        THEN below[Memory!Right(root)] ELSE Memory!alloc1(Memory!Left(root), s)
                  [] OTHER -> Memory!NULL
<1>7. below = [n \in D |-> Body(n, below)]
  <2>1. f = [n \in D |-> Body(n, f)]
    BY <1>6
  <2> QED  BY <2>1 DEF AtNode
<1>8. Memory!alloc2(s) = below[1]
  BY DEF Memory!alloc2
<1> HIDE DEF below
<1>9. \A n \in D : below[n] = Body(n, below)
  <2> HIDE DEF Body
  <2> QED  BY <1>7
<1> DEFINE P == {n \in D : below[n] \in V}
<1>10. ASSUME NEW n \in D, \A m \in D : rank[m] < rank[n] => m \in P
       PROVE  n \in P
  <2>1. Memory!Left(n) \in D => below[Memory!Left(n)] \in V
    BY <1>2, <1>10
  <2>2. Memory!Right(n) \in D => below[Memory!Right(n)] \in V
    BY <1>2, <1>10
  <2> HIDE DEF rank
  <2> QED  BY <1>2, <1>9, <2>1, <2>2 DEF AtNode
<1>11. D \subseteq P
  <2>1. Inductive(D, rank, P)
    <3> HIDE DEF P, rank, D
    <3> QED  BY <1>1, <1>10 DEF Inductive
  <2> HIDE DEF P, rank, D
  <2> QED  BY <2>1, RankInduction
<1>12. below \in [D -> V]
  <2> HIDE DEF Body, V
  <2> QED  BY <1>7, <1>11
<1> WITNESS below
<1> QED  BY <1>8, <1>9, <1>12 DEF IsBelow
(* DeallocateUtil is the recursion it is written as. *)
LEMMA DeallocateUtilEquation ==
    \A S \in SUBSET Memory!Nodes :
        /\ Memory!DeallocateUtil[Memory!NULL][S] = S
        /\ \A n \in Memory!Nodes : Memory!DeallocateUtil[n][S] =
                IF Memory!Left(n) \in S \/ Memory!Right(n) \in S THEN S
                ELSE Memory!DeallocateUtil[n \div 2][S \ {n}]
<1> DEFINE D == Memory!Nodes \cup {Memory!NULL}
           A == SUBSET Memory!Nodes
           V == [A -> A]
           rank == [n \in D |-> n]
           Body(n, f) == [nodes \in A |->
                IF n = Memory!NULL \/ Memory!Left(n) \in nodes \/ Memory!Right(n) \in nodes
                THEN nodes ELSE f[n \div 2][nodes \ {n}]]
           G == [n \in D |-> [f \in [D -> V] |-> Body(n, f)]]
<1>1. rank \in [D -> Nat]
  BY NodeNumber DEF Memory!NULL
<1>2. ASSUME NEW n \in D, NEW f \in [D -> V] PROVE Body(n, f) \in V
  <2>1. CASE n = Memory!NULL
    BY <2>1
  <2>2. CASE n # Memory!NULL
    <3>1. n \div 2 \in D
      BY <2>2, Upward
    <3>2. f[n \div 2] \in V
      BY <3>1
    <3> QED  BY <2>2, <3>2
  <2> QED  BY <2>1, <2>2
<1>3. G \in [D -> [[D -> V] -> V]]
  <2> HIDE DEF Body, D, V
  <2> QED  BY <1>2
<1>4. ASSUME NEW n \in D, NEW f \in [D -> V], NEW g \in [D -> V],
             \A m \in D : rank[m] < rank[n] => f[m] = g[m]
      PROVE  Body(n, f) = Body(n, g)
  <2>1. CASE n = Memory!NULL
    BY <2>1
  <2>2. CASE n # Memory!NULL
    <3>1. n \div 2 \in D /\ rank[n \div 2] < rank[n]
      BY <2>2, Upward
    <3>2. f[n \div 2] = g[n \div 2]
      <4> HIDE DEF rank, D, V
      <4> QED  BY <1>4, <3>1
    <3> QED  BY <3>2
  <2> QED  BY <2>1, <2>2
<1>5. PICK f \in [D -> V] : \A n \in D : f[n] = G[n][f]
  <2>1. \A n \in D : \A f, g \in [D -> V] :
            (\A m \in D : rank[m] < rank[n] => f[m] = g[m]) => G[n][f] = G[n][g]
    <3> HIDE DEF rank, Body, D, V
    <3> QED  BY <1>4
  <2>2. PICK v0 \in V : TRUE
    <3>1. [nodes \in A |-> nodes] \in V
      OBVIOUS
    <3> QED  BY <3>1
  <2> HIDE DEF D, V, G, rank
  <2>3. Founded(D, V, rank, G)
    BY <1>1, <1>3, <2>1 DEF Founded
  <2> QED  BY <2>2, <2>3, RecursionExists
<1>6. Memory!DeallocateUtil = [n \in D |-> Body(n, Memory!DeallocateUtil)]
  <2>1. f = [n \in D |-> Body(n, f)]
    BY <1>5
  <2> QED  BY <2>1 DEF Memory!DeallocateUtil
<1>7. \A n \in D : Memory!DeallocateUtil[n] = Body(n, Memory!DeallocateUtil)
  <2> HIDE DEF Body
  <2> QED  BY <1>6
<1> TAKE S \in SUBSET Memory!Nodes
<1>8. Memory!DeallocateUtil[Memory!NULL][S] = S
  <2>1. Memory!DeallocateUtil[Memory!NULL] = Body(Memory!NULL, Memory!DeallocateUtil)
    <3> HIDE DEF Body
    <3> QED  BY <1>7
  <2>2. Body(Memory!NULL, Memory!DeallocateUtil)[S] = S
    OBVIOUS
  <2> QED  BY <2>1, <2>2
<1>9. ASSUME NEW n \in Memory!Nodes
      PROVE  Memory!DeallocateUtil[n][S] =
                IF Memory!Left(n) \in S \/ Memory!Right(n) \in S THEN S
                ELSE Memory!DeallocateUtil[n \div 2][S \ {n}]
  <2>1. n # Memory!NULL
    BY Upward
  <2>2. Memory!DeallocateUtil[n] = Body(n, Memory!DeallocateUtil)
    <3> HIDE DEF Body
    <3> QED  BY <1>7
  <2>3. Body(n, Memory!DeallocateUtil)[S] =
                IF Memory!Left(n) \in S \/ Memory!Right(n) \in S THEN S
                ELSE Memory!DeallocateUtil[n \div 2][S \ {n}]
    BY <2>1
  <2> QED  BY <2>2, <2>3
<1> QED  BY <1>8, <1>9

------------------------------------------------------------------------------
(* What the blocks of H need of the tree. *)
Span(H) == UNION {Memory!PathTo[n] : n \in H}

(* No block is part of another one. *)
BlocksApart == \A n, m \in held : n \in Memory!PathTo[m] => n = m

MemoryInv == Memory!TypeOK /\ Memory!TreeIsWhatIsHeld /\ BlocksApart

(* A node that neither is part of a block nor has one as a part. *)
Free(n) ==
    /\ n \in Memory!Nodes
    /\ n \notin tree
    /\ \A m \in held : m \notin Memory!PathTo[n]

(* Deallocate frees what no other block needs: going up from k, in a tree of  *)
(* what the blocks of H need and the way up from k.                           *)
LEMMA DeallocateUtilIs ==
    ASSUME NEW H \in SUBSET Memory!Nodes, NEW k \in Memory!Nodes,
           H \cap Memory!PathTo[k] = {}
    PROVE  Memory!DeallocateUtil[k][Span(H) \cup Memory!PathTo[k]] = Span(H)
<1> DEFINE U == Span(H)
           Freed(n) == H \cap Memory!PathTo[n] = {} =>
                        Memory!DeallocateUtil[n][U \cup Memory!PathTo[n]] = U
           P == {n \in Memory!Nodes : Freed(n)}
<1>1. U \subseteq Memory!Nodes
  BY PathIs DEF Span
<1>2. ASSUME NEW n \in Memory!Nodes, n # 1 => n \div 2 \in P,
             H \cap Memory!PathTo[n] = {}
      PROVE  Memory!DeallocateUtil[n][U \cup Memory!PathTo[n]] = U
  <2> DEFINE S == U \cup Memory!PathTo[n]
             p == n \div 2
  <2>1. S \in SUBSET Memory!Nodes /\ UpFrom(n) /\ n # Memory!NULL
    BY <1>1, PathIs, PathFacts, Upward
  <2>2. Memory!DeallocateUtil[n][S] =
            IF Memory!Left(n) \in S \/ Memory!Right(n) \in S THEN S
            ELSE Memory!DeallocateUtil[p][S \ {n}]
    BY <2>1, DeallocateUtilEquation
  <2>3. ASSUME NEW c \in {Memory!Left(n), Memory!Right(n)}, c \in Memory!Nodes
        PROVE  c \notin Memory!PathTo[n] /\ n \in Memory!PathTo[c]
    <3>1. Exp(c) < Exp(n) /\ Exp(c) \in Nat /\ Exp(n) \in Nat
      BY <2>3, ExpFacts
    <3>2. c \notin Memory!PathTo[n]
      BY <2>1, <3>1 DEF UpFrom
    <3>3. c \div 2 = n
      BY <2>3, NodeNumber DEF Memory!Left, Memory!Right
    <3>4. Memory!PathTo[c] = {c} \cup Memory!PathTo[n]
      BY <2>3, <3>3, PathIs
    <3> QED  BY <2>1, <3>2, <3>4 DEF UpFrom
  <2>4. CASE Memory!Left(n) \in S \/ Memory!Right(n) \in S
    <3>1. PICK c \in {Memory!Left(n), Memory!Right(n)} : c \in S
      BY <2>4
    <3>2. c \in Memory!Nodes
      BY <2>1, <3>1
    <3>3. c \in U /\ n \in Memory!PathTo[c]
      BY <2>3, <3>1, <3>2
    <3>4. PICK m \in H : c \in Memory!PathTo[m]
      BY <3>3 DEF Span
    <3>5. Memory!PathTo[n] \subseteq Memory!PathTo[c] /\ Memory!PathTo[c] \subseteq Memory!PathTo[m]
      BY <3>2, <3>3, <3>4, PathFacts DEF UpFrom
    <3>6. Memory!PathTo[n] \subseteq U
      BY <3>4, <3>5 DEF Span
    <3> QED  BY <2>2, <2>4, <3>6
  <2>5. CASE ~(Memory!Left(n) \in S \/ Memory!Right(n) \in S)
    <3>1. n \notin U
      <4> SUFFICES ASSUME NEW m \in H, n \in Memory!PathTo[m] PROVE FALSE
        BY DEF Span
      <4>1. m # n
        BY <1>2, <2>1 DEF UpFrom
      <4>2. Memory!Left(n) \in Memory!PathTo[m] \/ Memory!Right(n) \in Memory!PathTo[m]
        BY <4>1, PathFacts DEF UpFrom
      <4>3. Memory!PathTo[m] \subseteq U
        BY DEF Span
      <4> QED  BY <2>5, <4>2, <4>3
    <3>2. Memory!PathTo[n] = {n} \cup Memory!PathTo[p]
      BY PathIs
    <3>3. n \notin Memory!PathTo[p]
      <4>1. CASE p = Memory!NULL
        BY <4>1, PathIs
      <4>2. CASE p # Memory!NULL
        <5>1. n # 1 /\ p \in Memory!Nodes
          BY <4>2, Upward DEF Memory!NULL
        <5>2. Memory!LevelOf(n) = Memory!LevelOf(p) + 1 /\ Memory!LevelOf(p) \in Nat
          BY <5>1, ParentLevel, NodeLevel, LevelFacts
        <5>3. Exp(n) < Exp(p)
          <6> HIDE DEF p
          <6> QED  BY <5>2, DepthAssumption DEF Exp
        <5>4. Exp(n) \in Nat /\ Exp(p) \in Nat
          BY <5>1, ExpFacts
        <5>5. \A j \in Memory!PathTo[p] : j # p => Exp(p) < Exp(j)
          BY <5>1, PathFacts DEF UpFrom
        <5> HIDE DEF p
        <5> QED  BY <5>3, <5>4, <5>5
      <4> QED  BY <4>1, <4>2
    <3>4. S \ {n} = U \cup Memory!PathTo[p]
      BY <3>1, <3>2, <3>3
    <3>5. Memory!DeallocateUtil[p][U \cup Memory!PathTo[p]] = U
      <4>1. CASE n = 1
        <5>1. p = Memory!NULL
          BY <4>1 DEF Memory!NULL
        <5>2. Memory!PathTo[p] = {}
          BY <5>1, PathIs
        <5>3. Memory!DeallocateUtil[p][U] = U
          BY <1>1, <5>1, DeallocateUtilEquation
        <5>4. U \cup Memory!PathTo[p] = U
          BY <5>2
        <5> QED  BY <5>3, <5>4
      <4>2. CASE n # 1
        <5>1. Freed(p)
          BY <1>2, <4>2
        <5>2. H \cap Memory!PathTo[p] = {}
          BY <1>2, <3>2
        <5> QED  BY <5>1, <5>2
      <4> QED  BY <4>1, <4>2
    <3> QED  BY <2>2, <2>5, <3>4, <3>5
  <2> QED  BY <2>4, <2>5
<1>3. Inherited(P)
  <2> SUFFICES ASSUME NEW n \in Memory!Nodes, n # 1 => n \div 2 \in P,
                      H \cap Memory!PathTo[n] = {}
               PROVE  Memory!DeallocateUtil[n][U \cup Memory!PathTo[n]] = U
    BY DEF Inherited
  <2> HIDE DEF U
  <2> QED  BY <1>2
<1> HIDE DEF P
<1>4. Memory!Nodes \subseteq P
  BY <1>3, NodeInduction
<1> QED  BY <1>4 DEF P
(* Up from the parent of a node that is needed there is no block, ... *)
LEMMA NoBlockAbove ==
    ASSUME MemoryInv, NEW root \in Memory!Nodes,
           NEW c \in {Memory!Left(root), Memory!Right(root)}, c \in tree
    PROVE  /\ root \in tree
           /\ \A m \in held : m \notin Memory!PathTo[root]
<1>1. held \subseteq Memory!Nodes /\ tree \subseteq Memory!Nodes /\ tree = Span(held)
  BY DEF MemoryInv, Memory!TypeOK, Memory!TreeIsWhatIsHeld, Span
<1>2. c \in Memory!Nodes /\ c \div 2 = root
  BY <1>1, NodeNumber DEF Memory!Left, Memory!Right
<1>3. PICK n \in held : c \in Memory!PathTo[n]
  BY <1>1 DEF Span
<1>4. Memory!PathTo[c] = {c} \cup Memory!PathTo[root] /\ UpFrom(c) /\ UpFrom(root) /\ UpFrom(n)
  BY <1>1, <1>2, PathIs, PathFacts
<1>5. Memory!PathTo[root] \subseteq Memory!PathTo[n] /\ root \in Memory!PathTo[root]
  BY <1>3, <1>4 DEF UpFrom
<1>6. root \in tree
  BY <1>1, <1>5 DEF Span
<1>7. ASSUME NEW m \in held, m \in Memory!PathTo[root] PROVE FALSE
  <2>1. m = n
    BY <1>5, <1>7 DEF MemoryInv, BlocksApart
  <2>2. Memory!PathTo[m] \subseteq Memory!PathTo[root]
    BY <1>4, <1>7 DEF UpFrom
  <2>3. c \in Memory!PathTo[root]
    BY <1>3, <2>1, <2>2
  <2>4. Exp(c) < Exp(root) /\ Exp(c) \in Nat /\ Exp(root) \in Nat
    BY <1>2, ExpFacts
  <2>5. c # root => Exp(root) < Exp(c)
    BY <1>4, <2>3 DEF UpFrom
  <2> QED  BY <2>4, <2>5
<1> QED  BY <1>6, <1>7

(* ... and a node of the tree without children is a block. *)
LEMMA LeafIsBlock ==
    ASSUME MemoryInv, NEW n \in tree,
           Memory!Left(n) \notin tree, Memory!Right(n) \notin tree
    PROVE  n \in held
<1>1. held \subseteq Memory!Nodes /\ tree = Span(held)
  BY DEF MemoryInv, Memory!TypeOK, Memory!TreeIsWhatIsHeld, Span
<1>2. PICK m \in held : n \in Memory!PathTo[m]
  BY <1>1 DEF Span
<1>3. UpFrom(m) /\ Memory!PathTo[m] \subseteq tree
  BY <1>1, <1>2, PathFacts DEF Span
<1> QED  BY <1>2, <1>3 DEF UpFrom

(* The parts of a free node are free. *)
LEMMA FreeChild ==
    ASSUME MemoryInv, NEW n, Free(n),
           NEW c \in {Memory!Left(n), Memory!Right(n)}, c \in Memory!Nodes
    PROVE  Free(c)
<1>1. n \in Memory!Nodes /\ held \subseteq tree
  <2>1. held \subseteq Memory!Nodes /\ tree = Span(held)
    BY DEF MemoryInv, Memory!TypeOK, Memory!TreeIsWhatIsHeld, Span
  <2>2. \A m \in held : m \in Memory!PathTo[m]
    BY <2>1, PathFacts DEF UpFrom
  <2> QED  BY <2>1, <2>2 DEF Free, Span
<1>2. c \notin tree
  BY <1>1, NoBlockAbove DEF Free
<1>3. c \div 2 = n
  BY <1>1, NodeNumber DEF Memory!Left, Memory!Right
<1>4. Memory!PathTo[c] = {c} \cup Memory!PathTo[n]
  BY <1>3, PathIs
<1> QED  BY <1>1, <1>2, <1>4 DEF Free

(* alloc1 finds a free node of the size in a free node. *)
LEMMA Alloc1Free ==
    ASSUME MemoryInv, NEW b \in Nat, NEW n \in Memory!Nodes, Free(n), Exp(n) >= b
    PROVE  Free(Memory!alloc1(n, Bytes(b))) /\ Exp(Memory!alloc1(n, Bytes(b))) = b
<1> DEFINE s == Bytes(b)
           D == Memory!Nodes
           rank == [m \in D |-> Exp(m)]
           Fits(m) == Free(m) /\ Exp(m) >= b =>
                        Free(Memory!alloc1(m, s)) /\ Exp(Memory!alloc1(m, s)) = b
           P == {m \in D : Fits(m)}
<1>1. s \in Nat
  BY BytesOrder
<1>2. rank \in [D -> Nat]
  BY ExpFacts
<1>3. ASSUME NEW m \in D, \A k \in D : rank[k] < rank[m] => k \in P,
             Free(m), Exp(m) >= b
      PROVE  Free(Memory!alloc1(m, s)) /\ Exp(Memory!alloc1(m, s)) = b
  <2>1. Memory!Data(m) = Bytes(Exp(m)) /\ Exp(m) \in Nat
    BY ExpFacts
  <2>2. Memory!Data(m) > s <=> Exp(m) > b
    BY <2>1, BytesOrder
  <2>3. CASE Exp(m) > b
    <3> DEFINE c == Memory!Left(m)
    <3>1. c \in D /\ Exp(c) = Exp(m) - 1
      BY <2>1, <2>3, ExpFacts
    <3>2. Free(c) /\ Exp(c) >= b
      BY <1>3, <2>1, <2>3, <3>1, FreeChild
    <3>3. rank[c] < rank[m]
      BY <2>1, <3>1
    <3>4. Fits(c)
      <4> HIDE DEF c, rank
      <4> QED  BY <1>3, <3>1, <3>3
    <3>5. Memory!alloc1(m, s) = Memory!alloc1(c, s)
      BY <1>1, <2>2, <2>3, Alloc1Equation
    <3> HIDE DEF c
    <3> QED  BY <3>2, <3>4, <3>5
  <2>4. CASE ~(Exp(m) > b)
    <3>1. Memory!alloc1(m, s) = m
      BY <1>1, <2>2, <2>4, Alloc1Equation
    <3> QED  BY <1>3, <2>1, <2>4, <3>1
  <2> QED  BY <2>3, <2>4
<1>4. D \subseteq P
  <2>1. ASSUME NEW m \in D, \A k \in D : rank[k] < rank[m] => k \in P PROVE m \in P
    <3> HIDE DEF rank, D, s
    <3> QED  BY <1>3, <2>1
  <2>2. Inductive(D, rank, P)
    <3> HIDE DEF P, rank, D
    <3> QED  BY <1>2, <2>1 DEF Inductive
  <2> HIDE DEF P, rank, D
  <2> QED  BY <2>2, RankInduction
<1> QED  BY <1>4
(* The size that a request can get at most is that of the memory. *)
Capped(b) == IF b > Depth + 1 THEN Depth + 1 ELSE b

(* What the search below a node of the tree gives is a free node of the size; *)
(* if it gives none then no node of the size below it is free.                *)
Searched(f, b, root) ==
    /\ f[root] # Memory!NULL => Free(f[root]) /\ Exp(f[root]) = b
    /\ f[root] = Memory!NULL =>
            \A n \in Memory!Nodes :
                root \in Memory!PathTo[n] /\ Exp(n) = Capped(b) => ~Free(n)

(* A node of the size below root is root, or below one of its children.       *)
LEMMA BelowChild ==
    ASSUME NEW root \in Memory!Nodes, NEW n \in Memory!Nodes, NEW e,
           root \in Memory!PathTo[n], Exp(n) = e
    PROVE  /\ Exp(root) >= e
           /\ Exp(root) = e => n = root
           /\ Exp(root) > e => \E c \in {Memory!Left(root), Memory!Right(root)} :
                                    c \in Memory!PathTo[n]
<1>1. UpFrom(n) /\ Exp(n) \in Nat /\ Exp(root) \in Nat
  BY PathFacts, ExpFacts
<1>2. root # n => Exp(n) < Exp(root)
        /\ (Memory!Left(root) \in Memory!PathTo[n] \/ Memory!Right(root) \in Memory!PathTo[n])
  BY <1>1 DEF UpFrom
<1> QED  BY <1>1, <1>2

(* The search of alloc2 below a node of the tree does. *)
LEMMA SearchStep ==
    ASSUME MemoryInv, NEW b \in Nat, NEW f, IsBelow(f, Bytes(b)),
           NEW root \in tree,
           \A c \in {Memory!Left(root), Memory!Right(root)} :
                c \in tree => Searched(f, b, c)
    PROVE  Searched(f, b, root)
<1> DEFINE s == Bytes(b)
           L == Memory!Left(root)
           R == Memory!Right(root)
<1>1. /\ tree \subseteq Memory!Nodes /\ root \in Memory!Nodes /\ s \in Nat
      /\ Memory!Data(root) = Bytes(Exp(root)) /\ Exp(root) \in 0 .. Depth + 1
  BY ExpFacts, BytesOrder DEF MemoryInv, Memory!TypeOK
<1>2. /\ Memory!Data(root) = 2 * s <=> (b > 0 /\ Exp(root) = b + 1) \/ (b = 0 /\ Exp(root) = 0)
      /\ Memory!Data(root) > 2 * s <=> (b > 0 /\ Exp(root) > b + 1) \/ (b = 0 /\ Exp(root) > 0)
      /\ Memory!Data(root) \in Nat
  BY <1>1, BytesOrder
<1>3. /\ L \in Memory!Nodes <=> Exp(root) > 0
      /\ R \in Memory!Nodes <=> Exp(root) > 0
      /\ Exp(root) > 0 => Exp(L) = Exp(root) - 1 /\ Exp(R) = Exp(root) - 1
  BY <1>1, ExpFacts
<1>4. f[root] =
            CASE ~(L \in tree) /\ ~(R \in tree) -> Memory!NULL
              [] (L \in tree) # (R \in tree) /\ Memory!Data(root) = 2 * s ->
                    IF L \in tree THEN R ELSE L
              [] L \in tree /\ R \in tree /\ Memory!Data(root) > 2 * s ->
                    IF f[L] # Memory!NULL THEN f[L] ELSE f[R]
              [] L \in tree /\ ~(R \in tree) /\ Memory!Data(root) > 2 * s ->
                    IF f[L] # Memory!NULL THEN f[L] ELSE Memory!alloc1(R, s)
              [] ~(L \in tree) /\ R \in tree /\ Memory!Data(root) > 2 * s ->
                    IF f[R] # Memory!NULL THEN f[R] ELSE Memory!alloc1(L, s)
              [] OTHER -> Memory!NULL
  BY <1>1 DEF IsBelow, AtNode
<1>5. L \in tree => Searched(f, b, L)
  OBVIOUS
<1>6. R \in tree => Searched(f, b, R)
  OBVIOUS
<1> HIDE DEF L, R, s
<1>7. ASSUME NEW c \in {L, R}, NEW o \in {L, R}, c \in tree, o \notin tree
      PROVE  o \in Memory!Nodes /\ Free(o) /\ Memory!NULL # o
  <2>1. o \in Memory!Nodes
    BY <1>1, <1>3, <1>7
  <2>2. \A m \in held : m \notin Memory!PathTo[root]
    BY <1>1, <1>7, NoBlockAbove DEF L, R
  <2>3. o \div 2 = root
    BY <1>1, <1>7, NodeNumber DEF L, R, Memory!Left, Memory!Right
  <2>4. Memory!PathTo[o] = {o} \cup Memory!PathTo[root]
    BY <2>1, <2>3, PathIs
  <2>5. held \subseteq tree
    <3>1. held \subseteq Memory!Nodes /\ tree = Span(held)
      BY DEF MemoryInv, Memory!TypeOK, Memory!TreeIsWhatIsHeld, Span
    <3>2. \A m \in held : m \in Memory!PathTo[m]
      BY <3>1, PathFacts DEF UpFrom
    <3> QED  BY <3>1, <3>2 DEF Span
  <2> QED  BY <1>7, <2>1, <2>2, <2>4, <2>5, NodeNumber DEF Free, Memory!NULL
<1>8. CASE ~(L \in tree) /\ ~(R \in tree)
  <2>1. f[root] = Memory!NULL
    BY <1>4, <1>8
  <2>2. root \in held
    BY <1>8, LeafIsBlock DEF L, R
  <2> QED  BY <2>1, <2>2 DEF Searched, Free
<1>9. CASE (L \in tree) # (R \in tree) /\ Memory!Data(root) = 2 * s
  <2>1. PICK c \in {L, R} : c \in tree
    BY <1>9
  <2>2. PICK o \in {L, R} : o \notin tree /\ f[root] = o
    <3>1. f[root] = IF L \in tree THEN R ELSE L
      <4>1. CASE L \in tree /\ R \notin tree
        BY <1>1, <1>2, <1>4, <1>9, <4>1
      <4>2. CASE R \in tree /\ L \notin tree
        BY <1>1, <1>2, <1>4, <1>9, <4>2
      <4> QED  BY <1>9, <4>1, <4>2
    <3> QED  BY <1>9, <3>1
  <2>3. Free(o) /\ Memory!NULL # o
    BY <1>7, <2>1, <2>2
  <2>4. Exp(o) = b
    <3>1. Exp(root) > 0
      BY <1>1, <1>3, <2>1
    <3>2. Exp(root) = b + 1
      BY <1>2, <1>9, <3>1
    <3> QED  BY <1>1, <1>3, <2>2, <3>1, <3>2
  <2> QED  BY <2>2, <2>3, <2>4 DEF Searched
<1>10. CASE L \in tree /\ R \in tree /\ Memory!Data(root) > 2 * s
  <2>1. f[root] = IF f[L] # Memory!NULL THEN f[L] ELSE f[R]
    BY <1>1, <1>2, <1>4, <1>10
  <2>2. ASSUME f[L] = Memory!NULL, f[R] = Memory!NULL,
               NEW n \in Memory!Nodes, root \in Memory!PathTo[n], Exp(n) = Capped(b)
        PROVE  ~Free(n)
    <3>1. Exp(root) > Capped(b)
      BY <1>1, <1>2, <1>10, DepthAssumption DEF Capped
    <3>2. PICK c \in {L, R} : c \in Memory!PathTo[n]
      BY <1>1, <2>2, <3>1, BelowChild DEF L, R
    <3>3. Searched(f, b, c) /\ f[c] = Memory!NULL
      BY <1>5, <1>6, <1>10, <2>2, <3>2
    <3> QED  BY <2>2, <3>2, <3>3 DEF Searched
  <2> QED  BY <1>5, <1>6, <1>10, <2>1, <2>2 DEF Searched
<1>11. CASE (L \in tree) # (R \in tree) /\ Memory!Data(root) > 2 * s
  <2>1. PICK c \in {L, R} : c \in tree /\ (L \in tree => c = L) /\ (R \in tree => c = R)
    BY <1>11
  <2>2. PICK o \in {L, R} : o \notin tree /\ (L \in tree => o = R) /\ (R \in tree => o = L)
    BY <1>11
  <2>3. f[root] = IF f[c] # Memory!NULL THEN f[c] ELSE Memory!alloc1(o, s)
    <3>1. Memory!Data(root) # 2 * s
      BY <1>1, <1>2, <1>11
    <3> QED  BY <1>4, <1>11, <2>1, <2>2, <3>1
  <2>4. o \in Memory!Nodes /\ Free(o)
    BY <1>7, <2>1, <2>2
  <2>5. Exp(o) >= b
    BY <1>1, <1>2, <1>3, <1>11, <2>2
  <2>6. Free(Memory!alloc1(o, s)) /\ Exp(Memory!alloc1(o, s)) = b
    BY <2>4, <2>5, Alloc1Free DEF s
  <2>7. Memory!alloc1(o, s) # Memory!NULL
    BY <2>6, NodeNumber DEF Free, Memory!NULL
  <2>8. Searched(f, b, c)
    BY <1>5, <1>6, <2>1
  <2> QED  BY <2>3, <2>6, <2>7, <2>8 DEF Searched
<1>12. CASE /\ L \in tree \/ R \in tree
            /\ ~(Memory!Data(root) > 2 * s)
            /\ Memory!Data(root) = 2 * s => L \in tree /\ R \in tree
  <2>1. f[root] = Memory!NULL
    BY <1>4, <1>12
  <2>2. ASSUME NEW n \in Memory!Nodes, root \in Memory!PathTo[n], Exp(n) = Capped(b)
        PROVE  n \in tree
    <3>1. Exp(root) > 0
      BY <1>1, <1>3, <1>12
    <3>2. CASE Exp(root) = Capped(b)
      BY <1>1, <2>2, <3>2, BelowChild
    <3>3. CASE Exp(root) # Capped(b)
      <4>1. Exp(root) > Capped(b) /\ Capped(b) \in Nat
        <5>1. Exp(root) >= Capped(b)
          BY <1>1, <2>2, BelowChild
        <5> QED  BY <1>1, <3>3, <5>1, DepthAssumption DEF Capped
      <4>2. Capped(b) = b /\ Exp(root) = b + 1 /\ b > 0 /\ L \in tree /\ R \in tree
        BY <1>1, <1>2, <1>12, <3>1, <4>1, DepthAssumption DEF Capped
      <4>3. PICK c \in {L, R} : c \in Memory!PathTo[n]
        BY <1>1, <2>2, <4>1, BelowChild DEF L, R
      <4>4. c \in Memory!Nodes /\ Exp(c) = Capped(b)
        BY <1>1, <1>3, <4>2, <4>3
      <4>5. n = c
        BY <2>2, <4>3, <4>4, BelowChild
      <4> QED  BY <4>2, <4>5
    <3> QED  BY <3>2, <3>3
  <2> QED  BY <2>1, <2>2 DEF Searched, Free
<1> QED  BY <1>8, <1>9, <1>10, <1>11, <1>12
(* alloc2 gives a free node of the size, and fails only if there is none.     *)
LEMMA Alloc2Is ==
    ASSUME MemoryInv, NEW b \in Nat, tree # {}
    PROVE  /\ Memory!alloc2(Bytes(b)) # Memory!NULL =>
                Free(Memory!alloc2(Bytes(b))) /\ Exp(Memory!alloc2(Bytes(b))) = b
           /\ Memory!alloc2(Bytes(b)) = Memory!NULL =>
                \A n \in Memory!Nodes : Exp(n) = Capped(b) => ~Free(n)
<1>1. tree \subseteq Memory!Nodes /\ held \subseteq Memory!Nodes /\ tree = Span(held)
  BY DEF MemoryInv, Memory!TypeOK, Memory!TreeIsWhatIsHeld, Span
<1>2. PICK f : IsBelow(f, Bytes(b))
  BY <1>1, BytesOrder, Alloc2Equation
<1> DEFINE rank == [n \in tree |-> Exp(n)]
           P == {n \in tree : Searched(f, b, n)}
<1>3. rank \in [tree -> Nat]
  BY <1>1, ExpFacts
<1>4. ASSUME NEW root \in tree, \A n \in tree : rank[n] < rank[root] => n \in P
      PROVE  root \in P
  <2>1. ASSUME NEW c \in {Memory!Left(root), Memory!Right(root)}, c \in tree
        PROVE  Searched(f, b, c)
    <3>1. Exp(c) < Exp(root)
      BY <1>1, <2>1, ExpFacts
    <3>2. rank[c] < rank[root]
      BY <2>1, <3>1
    <3> HIDE DEF rank
    <3> QED  BY <1>4, <2>1, <3>2
  <2> QED  BY <1>2, <2>1, SearchStep
<1>5. tree \subseteq P
  <2>1. Inductive(tree, rank, P)
    <3> HIDE DEF P, rank
    <3> QED  BY <1>3, <1>4 DEF Inductive
  <2> HIDE DEF P, rank
  <2> QED  BY <2>1, RankInduction
<1>6. 1 \in tree
  <2>1. PICK m \in held : TRUE
    BY <1>1 DEF Span
  <2>2. 1 \in Memory!PathTo[m]
    BY <1>1, PathFacts DEF UpFrom
  <2> QED  BY <1>1, <2>2 DEF Span
<1>7. Searched(f, b, 1)
  BY <1>5, <1>6
<1>8. Memory!alloc2(Bytes(b)) = f[1]
  BY <1>2 DEF IsBelow
<1>9. \A n \in Memory!Nodes : 1 \in Memory!PathTo[n]
  BY PathFacts DEF UpFrom
<1> QED  BY <1>7, <1>8, <1>9 DEF Searched

(* The block that Allocate chooses. *)
Chosen(bytes) == IF tree = {} THEN Memory!FirstBlock(Memory!BlockSize(bytes))
                              ELSE Memory!alloc2(Memory!BlockSize(bytes))

(* It is a free node of the size, all there is for a request beyond it, and   *)
(* there is none only if no node of the size is free.                         *)
Fitting(b, block) ==
    /\ block # Memory!NULL => Free(block) /\ Exp(block) = Capped(b)
    /\ block = Memory!NULL => \A n \in Memory!Nodes : Exp(n) = Capped(b) => ~Free(n)

(* So is the one that Allocate chooses. *)
LEMMA ChosenFits ==
    ASSUME MemoryInv, NEW bytes, NEW b \in Nat, Memory!BlockSize(bytes) = Bytes(b)
    PROVE  Fitting(b, Chosen(bytes))
<1>1. CASE tree = {}
  <2>1. held = {}
    <3>1. held \subseteq Memory!Nodes /\ tree = Span(held)
      BY DEF MemoryInv, Memory!TypeOK, Memory!TreeIsWhatIsHeld, Span
    <3>2. \A m \in held : m \in Memory!PathTo[m]
      BY <3>1, PathFacts DEF UpFrom
    <3> QED  BY <1>1, <3>1, <3>2 DEF Span
  <2>2. \A n \in Memory!Nodes : Free(n)
    BY <1>1, <2>1 DEF Free
  <2>3. 1 \in Memory!Nodes /\ Exp(1) = Depth + 1 /\ Memory!NULL # 1
    BY RootLevel, DepthAssumption DEF Exp, Memory!NULL
  <2>4. Memory!MEM_MAX_SIZE = Bytes(Depth + 1)
    <3> DEFINE d == Depth + 1
    <3>1. d # 0 /\ d - 1 = Depth
      BY DepthAssumption
    <3> HIDE DEF d
    <3>2. Bytes(d) = 2 ^ Depth
      BY <3>1 DEF Bytes
    <3> QED  BY <3>2 DEF Memory!MEM_MAX_SIZE, d
  <2>5. Memory!MEM_MAX_SIZE > Bytes(b) <=> Depth + 1 > b
    BY <2>4, DepthAssumption, BytesOrder
  <2>6. Chosen(bytes) = IF Memory!MEM_MAX_SIZE > Bytes(b)
                        THEN Memory!alloc1(Memory!Left(1), Bytes(b)) ELSE 1
    BY <1>1 DEF Chosen, Memory!FirstBlock
  <2>7. CASE Depth + 1 > b
    <3>1. Memory!Left(1) \in Memory!Nodes /\ Exp(Memory!Left(1)) = Depth
      BY <2>3, ExpFacts, DepthAssumption
    <3>2. Free(Chosen(bytes)) /\ Exp(Chosen(bytes)) = b
      BY <2>2, <2>5, <2>6, <2>7, <3>1, Alloc1Free, DepthAssumption
    <3>3. Chosen(bytes) # Memory!NULL
      BY <3>2, NodeNumber DEF Free, Memory!NULL
    <3>4. Capped(b) = b
      BY <2>7, DepthAssumption DEF Capped
    <3> QED  BY <3>2, <3>3, <3>4 DEF Fitting
  <2>8. CASE ~(Depth + 1 > b)
    <3>1. Chosen(bytes) = 1
      BY <2>5, <2>6, <2>8
    <3>2. Capped(b) = Depth + 1
      BY <2>8, DepthAssumption DEF Capped
    <3> QED  BY <2>2, <2>3, <3>1, <3>2 DEF Fitting
  <2> QED  BY <2>7, <2>8
<1>2. CASE tree # {}
  <2>1. Chosen(bytes) = Memory!alloc2(Bytes(b))
    BY <1>2 DEF Chosen
  <2>2. ASSUME Chosen(bytes) # Memory!NULL
        PROVE  Free(Chosen(bytes)) /\ Exp(Chosen(bytes)) = Capped(b)
    <3>1. Free(Chosen(bytes)) /\ Exp(Chosen(bytes)) = b
      BY <1>2, <2>1, <2>2, Alloc2Is
    <3>2. Exp(Chosen(bytes)) \in 0 .. Depth + 1
      BY <3>1, ExpFacts DEF Free
    <3> QED  BY <3>1, <3>2, DepthAssumption DEF Capped
  <2> QED  BY <1>2, <2>1, <2>2, Alloc2Is DEF Fitting
<1> QED  BY <1>1, <1>2
------------------------------------------------------------------------------
(* The memory starts with no block. *)
LEMMA MemoryInit == Memory!Init => MemoryInv
<1> SUFFICES ASSUME Memory!Init PROVE MemoryInv
  OBVIOUS
<1>1. Memory!TypeOK
  BY DEF Memory!Init, Memory!TypeOK
<1>2. Memory!TreeIsWhatIsHeld
  BY DEF Memory!Init, Memory!TreeIsWhatIsHeld
<1>3. BlocksApart
  BY DEF Memory!Init, BlocksApart
<1> QED  BY <1>1, <1>2, <1>3 DEF MemoryInv

(* Allocate makes the way up from a free node. *)
LEMMA AllocateStep ==
    ASSUME MemoryInv, NEW bytes \in Requests, Memory!Allocate(bytes)
    PROVE  MemoryInv'
<1> DEFINE block == Chosen(bytes)
<1>1. /\ granted' = [size |-> bytes, node |-> block]
      /\ block = Memory!NULL => UNCHANGED <<tree, held>>
      /\ block # Memory!NULL => tree' = tree \cup Memory!PathTo[block] /\ held' = held \cup {block}
  BY DEF Memory!Allocate, Chosen
<1>2. PICK b \in Nat : Memory!BlockSize(bytes) = Bytes(b)
  BY RequestsAssumption, BlockSizeIs
<1>3. block # Memory!NULL => Free(block)
  BY <1>2, ChosenFits DEF Fitting
<1>4. tree \subseteq Memory!Nodes /\ held \subseteq Memory!Nodes /\ tree = Span(held)
  BY DEF MemoryInv, Memory!TypeOK, Memory!TreeIsWhatIsHeld, Span
<1> HIDE DEF block
<1>5. CASE block = Memory!NULL
  <2>1. granted' \in [size : Requests, node : Memory!Nodes \cup {Memory!NULL}]
    BY <1>1, <1>5
  <2> QED  BY <1>1, <1>5, <2>1
           DEF MemoryInv, Memory!TypeOK, Memory!TreeIsWhatIsHeld, BlocksApart
<1>6. CASE block # Memory!NULL
  <2>1. block \in Memory!Nodes /\ block \notin tree
        /\ \A m \in held : m \notin Memory!PathTo[block]
    BY <1>3, <1>6 DEF Free
  <2>2. tree' = tree \cup Memory!PathTo[block] /\ held' = held \cup {block}
    BY <1>1, <1>6
  <2>3. Memory!TypeOK'
    BY <1>1, <1>4, <2>1, <2>2, PathIs DEF Memory!TypeOK
  <2>4. Memory!TreeIsWhatIsHeld'
    <3>1. Span(held \cup {block}) = Span(held) \cup Memory!PathTo[block]
      BY DEF Span
    <3> QED  BY <1>4, <2>2, <3>1 DEF Memory!TreeIsWhatIsHeld, Span
  <2>5. BlocksApart'
    <3> SUFFICES ASSUME NEW n \in held \cup {block}, NEW m \in held \cup {block},
                        n \in Memory!PathTo[m]
                 PROVE  n = m
      BY <2>2 DEF BlocksApart
    <3>1. CASE n \in held /\ m \in held
      BY <3>1 DEF MemoryInv, BlocksApart
    <3>2. CASE n = block /\ m \in held
      BY <1>4, <2>1, <3>2 DEF Span
    <3>3. CASE n \in held /\ m = block
      BY <2>1, <3>3
    <3> QED  BY <3>1, <3>2, <3>3
  <2> QED  BY <2>3, <2>4, <2>5 DEF MemoryInv
<1> QED  BY <1>5, <1>6

(* Deallocate leaves what the other blocks need. *)
LEMMA DeallocateStep ==
    ASSUME MemoryInv, NEW n \in Memory!Nodes, Memory!Deallocate(n)
    PROVE  MemoryInv'
<1>1. /\ n \in held
      /\ tree' = Memory!DeallocateUtil[n][tree]
      /\ held' = held \ {n}
      /\ granted' = granted
  BY DEF Memory!Deallocate
<1>2. tree \subseteq Memory!Nodes /\ held \subseteq Memory!Nodes /\ tree = Span(held)
  BY DEF MemoryInv, Memory!TypeOK, Memory!TreeIsWhatIsHeld, Span
<1> DEFINE H == held \ {n}
<1>3. H \cap Memory!PathTo[n] = {}
  BY <1>1 DEF MemoryInv, BlocksApart
<1>4. tree = Span(H) \cup Memory!PathTo[n]
  BY <1>1, <1>2 DEF Span
<1>5. tree' = Span(H)
  <2>1. H \in SUBSET Memory!Nodes
    BY <1>2
  <2> HIDE DEF H
  <2> QED  BY <1>1, <1>3, <1>4, <2>1, DeallocateUtilIs
<1>6. Memory!TypeOK'
  <2>1. Span(H) \subseteq Memory!Nodes
    BY <1>2, PathIs DEF Span
  <2> QED  BY <1>1, <1>2, <1>5, <2>1 DEF MemoryInv, Memory!TypeOK
<1>7. Memory!TreeIsWhatIsHeld'
  BY <1>1, <1>5 DEF Memory!TreeIsWhatIsHeld, Span
<1>8. BlocksApart'
  BY <1>1 DEF MemoryInv, BlocksApart
<1> QED  BY <1>6, <1>7, <1>8 DEF MemoryInv

(* Every step of the memory keeps the invariant. *)
LEMMA MemoryStep == MemoryInv /\ [Memory!Next]_(Memory!vars) => MemoryInv'
<1> SUFFICES ASSUME MemoryInv, [Memory!Next]_(Memory!vars) PROVE MemoryInv'
  OBVIOUS
<1>1. CASE UNCHANGED Memory!vars
  BY <1>1 DEF Memory!vars, MemoryInv, Memory!TypeOK, Memory!TreeIsWhatIsHeld, BlocksApart
<1>2. ASSUME NEW bytes \in Requests, Memory!Allocate(bytes) PROVE MemoryInv'
  BY <1>2, AllocateStep
<1>3. ASSUME NEW n \in Memory!Nodes, Memory!Deallocate(n) PROVE MemoryInv'
  BY <1>3, DeallocateStep
<1> QED  BY <1>1, <1>2, <1>3 DEF Memory!Next

(* The tree has nodes of the memory only, a block is a node, and what         *)
(* Allocate returns is a node or NULL.                                        *)
THEOREM MemoryTypeCorrect == Memory!Spec => []Memory!TypeOK
<1>1. MemoryInv => Memory!TypeOK
  BY DEF MemoryInv
<1> QED  BY <1>1, MemoryInit, MemoryStep, PTL DEF Memory!Spec

(* Buddies coalesce: the tree is at any time what the blocks held need, in a  *)
(* memory of any size and whatever the order of the calls.                    *)
THEOREM MemoryCoalesces == Memory!Spec => []Memory!TreeIsWhatIsHeld
<1>1. MemoryInv => Memory!TreeIsWhatIsHeld
  BY DEF MemoryInv
<1> QED  BY <1>1, MemoryInit, MemoryStep, PTL DEF Memory!Spec
------------------------------------------------------------------------------
(* Where a node lies, in half bytes: the root is all of the memory, and the   *)
(* children of a node are its halves.                                         *)
LEMMA ExtentIs ==
    ASSUME NEW n \in Memory!Nodes
    PROVE  /\ Memory!HalfBytes(n) = 2 ^ Exp(n)
           /\ Memory!HalfBytes(n) \in Nat \ {0} /\ Memory!HalfStart(n) \in Nat
           /\ Memory!HalfStart(n) = (n - 2 ^ Memory!LevelOf(n)) * Memory!HalfBytes(n)
           /\ n - 2 ^ Memory!LevelOf(n) \in Nat
<1> DEFINE l == Memory!LevelOf(n)
<1>1. l \in Memory!Levels /\ n \in Memory!Level(l)
  BY NodeLevel
<1>2. n - 2 ^ l \in Nat
  <2> HIDE DEF l
  <2>1. n \in 2 ^ l .. 2 * 2 ^ l - 1 /\ 2 ^ l \in Nat
    BY <1>1, LevelFacts
  <2> QED  BY <2>1
<1>3. Memory!HalfBytes(n) = 2 ^ Exp(n)
  BY DEF Memory!HalfBytes, Exp
<1>4. Memory!HalfBytes(n) \in Nat \ {0}
  BY <1>3, ExpFacts, PowersOfTwo
<1>5. Memory!HalfStart(n) = (n - 2 ^ l) * Memory!HalfBytes(n)
  BY DEF Memory!HalfStart
<1>6. Memory!HalfStart(n) \in Nat
  <2>1. \A x, y \in Nat : x * y \in Nat
    OBVIOUS
  <2> QED  BY <1>2, <1>4, <1>5, <2>1
<1> QED  BY <1>2, <1>3, <1>4, <1>5, <1>6

(* The root is all of the memory. *)
LEMMA RootExtent ==
    Memory!HalfStart(1) = 0 /\ Memory!HalfBytes(1) = 2 * Memory!MEM_MAX_SIZE
<1>1. 1 \in Memory!Nodes /\ Memory!LevelOf(1) = 0 /\ 2 ^ 0 = 1 /\ Exp(1) = Depth + 1
  BY RootLevel, PowersOfTwo, DepthAssumption DEF Exp
<1>2. Memory!HalfStart(1) = (1 - 1) * Memory!HalfBytes(1)
      /\ Memory!HalfBytes(1) \in Nat /\ Memory!HalfBytes(1) = 2 ^ (Depth + 1)
  BY <1>1, ExtentIs
<1>3. 2 ^ (Depth + 1) = 2 * 2 ^ Depth
  BY DepthAssumption, PowersOfTwo
<1> QED  BY <1>2, <1>3 DEF Memory!MEM_MAX_SIZE

(* The children of a node are its halves. *)
LEMMA ChildExtent ==
    ASSUME NEW n \in Memory!Nodes, Exp(n) > 0
    PROVE  /\ Memory!HalfBytes(Memory!Left(n)) = Memory!HalfBytes(Memory!Right(n))
           /\ Memory!HalfBytes(n) = 2 * Memory!HalfBytes(Memory!Left(n))
           /\ Memory!HalfStart(Memory!Left(n)) = Memory!HalfStart(n)
           /\ Memory!HalfStart(Memory!Right(n))
                = Memory!HalfStart(n) + Memory!HalfBytes(Memory!Left(n))
<1> DEFINE L == Memory!Left(n)
           R == Memory!Right(n)
           l == Memory!LevelOf(n)
           p == 2 ^ l
           a == n - p
           h == Memory!HalfBytes(L)
<1>1. /\ L \in Memory!Nodes /\ R \in Memory!Nodes
      /\ Exp(L) = Exp(n) - 1 /\ Exp(R) = Exp(n) - 1 /\ Exp(n) \in Nat
  BY ExpFacts
<1>2. Memory!LevelOf(L) = l + 1 /\ Memory!LevelOf(R) = l + 1
  BY <1>1, ChildLevel
<1>3. l \in Nat /\ p \in Nat /\ 2 ^ (l + 1) = 2 * p
  BY NodeLevel, LevelFacts
<1>4. Memory!HalfBytes(R) = h /\ h \in Nat
  BY <1>1, ExtentIs
<1>5. Memory!HalfBytes(n) = 2 * h
  <2> DEFINE e == Exp(n) - 1
  <2>1. e \in Nat /\ e + 1 = Exp(n)
    BY <1>1
  <2>2. h = 2 ^ e
    BY <1>1, ExtentIs
  <2> HIDE DEF e, h
  <2>3. 2 ^ (e + 1) = 2 * 2 ^ e
    BY <2>1, PowersOfTwo
  <2>4. Memory!HalfBytes(n) = 2 ^ (e + 1)
    BY <2>1, ExtentIs
  <2> QED  BY <2>2, <2>3, <2>4
<1>6. a \in Nat /\ Memory!HalfStart(n) = a * Memory!HalfBytes(n)
  BY ExtentIs
<1>7. Memory!HalfStart(L) = (L - 2 * p) * h
  BY <1>1, <1>2, <1>3, ExtentIs
<1>8. Memory!HalfStart(R) = (R - 2 * p) * h
  BY <1>1, <1>2, <1>3, <1>4, ExtentIs
<1>9. L - 2 * p = 2 * a /\ R - 2 * p = 2 * a + 1
  <2>1. n \in Nat /\ L = 2 * n /\ R = 2 * n + 1
    BY NodeNumber DEF Memory!Left, Memory!Right
  <2> HIDE DEF L, R, p
  <2> QED  BY <1>3, <2>1
<1>10. \A x, y \in Nat : (2 * x) * y = x * (2 * y) /\ (2 * x + 1) * y = x * (2 * y) + y
  OBVIOUS
<1> HIDE DEF L, R, a, h, p
<1>11. (2 * a) * h = a * (2 * h) /\ (2 * a + 1) * h = a * (2 * h) + h
  BY <1>4, <1>6, <1>10
<1>12. Memory!HalfStart(L) = Memory!HalfStart(n) /\ Memory!HalfStart(R) = Memory!HalfStart(n) + h
  BY <1>5, <1>6, <1>7, <1>8, <1>9, <1>11
<1> QED  BY <1>4, <1>5, <1>12 DEF L, R, h

(* Within(n, k): the node n lies in the node k. *)
Within(n, k) ==
    /\ Memory!HalfStart(k) <= Memory!HalfStart(n)
    /\ Memory!HalfStart(n) + Memory!HalfBytes(n) <= Memory!HalfStart(k) + Memory!HalfBytes(k)

(* A node lies in those on its way up. *)
LEMMA PathWithin == \A n \in Memory!Nodes : \A k \in Memory!PathTo[n] : Within(n, k)
<1> DEFINE P == {n \in Memory!Nodes : \A k \in Memory!PathTo[n] : Within(n, k)}
<1>1. \A n \in Memory!Nodes : Memory!HalfStart(n) \in Nat /\ Memory!HalfBytes(n) \in Nat
  BY ExtentIs
<1>2. ASSUME NEW n \in Memory!Nodes, n # 1 => n \div 2 \in P, NEW k \in Memory!PathTo[n]
      PROVE  Within(n, k)
  <2>1. Memory!PathTo[n] = {n} \cup Memory!PathTo[n \div 2]
    BY PathIs
  <2>2. CASE k = n
    BY <1>1, <2>2 DEF Within
  <2>3. CASE k # n
    <3> DEFINE p == n \div 2
    <3>1. k \in Memory!PathTo[p]
      BY <2>1, <2>3
    <3>2. n # 1
      <4>1. ASSUME n = 1 PROVE FALSE
        <5>1. p = Memory!NULL
          BY <4>1 DEF Memory!NULL
        <5> QED  BY <3>1, <5>1, PathIs
      <4> QED  BY <4>1
    <3>3. p \in Memory!Nodes /\ Within(p, k) /\ (n = Memory!Left(p) \/ n = Memory!Right(p))
      BY <1>2, <3>1, <3>2, ParentLevel
    <3>4. k \in Memory!Nodes
      BY <3>1, <3>3, PathFacts DEF UpFrom
    <3> HIDE DEF p
    <3>5. Exp(p) > 0
      BY <3>3, ExpFacts
    <3>6. Within(n, p)
      <4>1. /\ Memory!HalfBytes(Memory!Left(p)) = Memory!HalfBytes(Memory!Right(p))
            /\ Memory!HalfBytes(p) = 2 * Memory!HalfBytes(Memory!Left(p))
            /\ Memory!HalfStart(Memory!Left(p)) = Memory!HalfStart(p)
            /\ Memory!HalfStart(Memory!Right(p))
                 = Memory!HalfStart(p) + Memory!HalfBytes(Memory!Left(p))
        BY <3>3, <3>5, ChildExtent
      <4>2. CASE n = Memory!Left(p)
        BY <1>1, <3>3, <4>1, <4>2 DEF Within
      <4>3. CASE n = Memory!Right(p)
        BY <1>1, <3>3, <4>1, <4>3 DEF Within
      <4> QED  BY <3>3, <4>2, <4>3
    <3> QED  BY <1>1, <3>3, <3>4, <3>6 DEF Within
  <2> QED  BY <2>2, <2>3
<1>3. Inherited(P)
  BY <1>2 DEF Inherited
<1> HIDE DEF P
<1>4. Memory!Nodes \subseteq P
  BY <1>3, NodeInduction
<1> QED  BY <1>4 DEF P

(* Two nodes overlap, as blocks of memory. *)
Overlapping(n, m) ==
    /\ Memory!HalfStart(n) < Memory!HalfStart(m) + Memory!HalfBytes(m)
    /\ Memory!HalfStart(m) < Memory!HalfStart(n) + Memory!HalfBytes(n)

(* They do exactly if one of them lies on the way up from the other.          *)
LEMMA OverlapIs ==
    ASSUME NEW n \in Memory!Nodes, NEW m \in Memory!Nodes
    PROVE  Overlapping(n, m) <=> n \in Memory!PathTo[m] \/ m \in Memory!PathTo[n]
<1>1. \A k \in Memory!Nodes : Memory!HalfStart(k) \in Nat /\ Memory!HalfBytes(k) \in Nat \ {0}
  BY ExtentIs
<1>2. CASE n \in Memory!PathTo[m]
  <2>1. Within(m, n)
    BY <1>2, PathWithin
  <2> QED  BY <1>1, <1>2, <2>1 DEF Within, Overlapping
<1>3. CASE m \in Memory!PathTo[n]
  <2>1. Within(n, m)
    BY <1>3, PathWithin
  <2> QED  BY <1>1, <1>3, <2>1 DEF Within, Overlapping
<1>4. CASE n \notin Memory!PathTo[m] /\ m \notin Memory!PathTo[n]
  <2> DEFINE C == Memory!PathTo[n] \cap Memory!PathTo[m]
             T == {Exp(k) : k \in C}
  <2>1. UpFrom(n) /\ UpFrom(m) /\ C \subseteq Memory!Nodes /\ 1 \in C
    BY PathFacts, PathIs DEF UpFrom
  <2>2. T \in SUBSET Nat /\ T # {}
    BY <2>1, ExpFacts
  <2>3. PICK e \in T : \A d \in T : e <= d
    <3> HIDE DEF T
    <3> QED  BY <2>2, LeastNumber
  <2>4. PICK c \in C : Exp(c) = e
    BY <2>3
  <2>5. \A k \in C : Exp(c) <= Exp(k)
    BY <2>3, <2>4
  <2>6. c # n /\ c # m /\ c \in Memory!Nodes
    BY <1>4, <2>1, <2>4
  <2>7. PICK x \in {Memory!Left(c), Memory!Right(c)} : x \in Memory!PathTo[n]
    BY <2>1, <2>4, <2>6 DEF UpFrom
  <2>8. PICK y \in {Memory!Left(c), Memory!Right(c)} : y \in Memory!PathTo[m]
    BY <2>1, <2>4, <2>6 DEF UpFrom
  <2>9. x \in Memory!Nodes /\ y \in Memory!Nodes
    BY <2>1, <2>7, <2>8 DEF UpFrom
  <2>10. Exp(c) > 0 /\ Exp(x) < Exp(c) /\ Exp(x) \in Nat /\ Exp(c) \in Nat
    BY <2>6, <2>7, <2>9, ExpFacts
  <2>11. x # y
    <3>1. x \notin C
      <4> HIDE DEF C
      <4> QED  BY <2>5, <2>10
    <3> QED  BY <2>7, <2>8, <3>1
  <2>12. Within(n, x) /\ Within(m, y)
    BY <2>7, <2>8, PathWithin
  <2>13. /\ Memory!HalfBytes(Memory!Left(c)) = Memory!HalfBytes(Memory!Right(c))
         /\ Memory!HalfStart(Memory!Left(c)) = Memory!HalfStart(c)
         /\ Memory!HalfStart(Memory!Right(c))
              = Memory!HalfStart(c) + Memory!HalfBytes(Memory!Left(c))
    BY <2>6, <2>10, ChildExtent
  <2>14. CASE x = Memory!Left(c) /\ y = Memory!Right(c)
    BY <1>1, <1>4, <2>6, <2>9, <2>12, <2>13, <2>14 DEF Within, Overlapping
  <2>15. CASE x = Memory!Right(c) /\ y = Memory!Left(c)
    BY <1>1, <1>4, <2>6, <2>9, <2>12, <2>13, <2>15 DEF Within, Overlapping
  <2> QED  BY <2>7, <2>8, <2>11, <2>14, <2>15
<1> QED  BY <1>2, <1>3, <1>4
(* The memory in half bytes. *)
LEMMA MemSizeIs ==
    2 * Memory!MEM_MAX_SIZE = 2 ^ (Depth + 1) /\ 2 ^ (Depth + 1) \in Nat \ {0}
<1>1. 2 ^ (Depth + 1) = 2 * 2 ^ Depth /\ 2 ^ (Depth + 1) \in Nat \ {0}
  BY DepthAssumption, PowersOfTwo
<1> QED  BY <1>1 DEF Memory!MEM_MAX_SIZE

(* A node is aligned and in the memory. *)
LEMMA NodeAligned ==
    ASSUME NEW n \in Memory!Nodes
    PROVE  /\ Memory!HalfStart(n) % Memory!HalfBytes(n) = 0
           /\ Memory!HalfStart(n) \in 0 .. 2 * Memory!MEM_MAX_SIZE - Memory!HalfBytes(n)
<1>1. /\ Memory!HalfBytes(n) \in Nat \ {0} /\ Memory!HalfStart(n) \in Nat
      /\ n - 2 ^ Memory!LevelOf(n) \in Nat
      /\ Memory!HalfStart(n) = (n - 2 ^ Memory!LevelOf(n)) * Memory!HalfBytes(n)
  BY ExtentIs
<1>2. \A x \in Nat : \A y \in Nat \ {0} : (x * y) % y = 0
  OBVIOUS
<1>3. Memory!HalfStart(n) % Memory!HalfBytes(n) = 0
  BY <1>1, <1>2
<1>4. Within(n, 1)
  BY PathWithin, PathFacts DEF UpFrom
<1>5. Memory!HalfStart(n) + Memory!HalfBytes(n) <= 2 * Memory!MEM_MAX_SIZE
  BY <1>4, RootExtent, MemSizeIs DEF Within
<1>6. 2 * Memory!MEM_MAX_SIZE \in Nat
  BY MemSizeIs
<1>7. Memory!HalfStart(n) \in 0 .. 2 * Memory!MEM_MAX_SIZE - Memory!HalfBytes(n)
  <2> DEFINE M == 2 * Memory!MEM_MAX_SIZE
  <2> HIDE DEF M
  <2>1. M \in Nat /\ Memory!HalfStart(n) + Memory!HalfBytes(n) <= M
    BY <1>5, <1>6 DEF M
  <2>2. Memory!HalfStart(n) \in 0 .. M - Memory!HalfBytes(n)
    BY <1>1, <2>1
  <2> QED  BY <2>2 DEF M
<1> QED  BY <1>3, <1>7

(* At every aligned place of a size there is a node of the size.              *)
LEMMA NodeAt ==
    ASSUME NEW e \in 0 .. Depth + 1, NEW at \in Nat,
           at % 2 ^ e = 0, at + 2 ^ e <= 2 ^ (Depth + 1)
    PROVE  \E n \in Memory!Nodes : Exp(n) = e /\ Memory!HalfStart(n) = at
<1> DEFINE l == Depth + 1 - e
           h == 2 ^ e
           p == 2 ^ l
           q == at \div h
           n == p + q
<1>1. l \in Memory!Levels /\ l \in Nat /\ e \in Nat /\ l + e = Depth + 1
  BY DepthAssumption DEF Memory!Levels
<1>2. h \in Nat \ {0} /\ p \in Nat \ {0}
  BY <1>1, PowersOfTwo
<1>3. 2 ^ (Depth + 1) = p * h
  <2> HIDE DEF l
  <2>1. 2 ^ (l + e) = 2 ^ l * 2 ^ e
    BY <1>1, PowersAdd
  <2> QED  BY <1>1, <2>1
<1>4. q \in Nat /\ at = q * h
  <2>1. \A x \in Nat : \A y \in Nat \ {0} :
            x \div y \in Nat /\ (x % y = 0 => x = (x \div y) * y)
    OBVIOUS
  <2> HIDE DEF h
  <2>2. at % h = 0
    BY DEF h
  <2> QED  BY <1>2, <2>1, <2>2
<1>5. q \in 0 .. p - 1
  <2>1. q * h + h <= p * h
    BY <1>3, <1>4
  <2>2. \A x, y \in Nat : \A z \in Nat \ {0} : x * z + z <= y * z => x <= y - 1
    OBVIOUS
  <2> HIDE DEF q, p, h
  <2> QED  BY <1>2, <1>4, <2>1, <2>2
<1>6. n \in Memory!Level(l)
  <2>1. Memory!Level(l) = p .. 2 * p - 1
    BY <1>1, LevelFacts
  <2> HIDE DEF p, q
  <2> QED  BY <1>2, <1>5, <2>1
<1>7. n \in Memory!Nodes /\ Memory!LevelOf(n) = l
  BY <1>1, <1>6, LevelUnique
<1>8. Exp(n) = e
  <2> HIDE DEF n
  <2> QED  BY <1>7, DepthAssumption DEF Exp
<1>9. Memory!HalfStart(n) = (n - p) * h
  BY <1>7, <1>8, ExtentIs
<1>10. n - p = q
  <2> HIDE DEF p, q
  <2> QED  BY <1>2, <1>4
<1> QED  BY <1>4, <1>7, <1>8, <1>9, <1>10

(* The size of a request in half bytes is between two powers. *)
LEMMA HalfSizeIs ==
    ASSUME NEW bytes \in Nat
    PROVE  \E b \in Nat : /\ Memory!BlockSize(bytes) = Bytes(b)
                          /\ Memory!HalfSize(bytes) \in Nat \ {0}
                          /\ Memory!HalfSize(bytes) <= 2 ^ b
                          /\ b > 0 => 2 ^ (b - 1) < Memory!HalfSize(bytes)
<1>1. PICK b \in Nat : /\ Memory!BlockSize(bytes) = Bytes(b)
                       /\ b = 0 <=> bytes = 0
                       /\ b > 0 => /\ 2 ^ (b - 1) >= bytes
                                   /\ \A j \in 0 .. b - 2 : 2 ^ j < bytes
  BY BlockSizeIs
<1> DEFINE h == Memory!HalfSize(bytes)
<1>2. CASE b = 0
  <2>1. h = 1 /\ 2 ^ b = 1
    BY <1>1, <1>2, PowersOfTwo DEF Memory!HalfSize
  <2>2. h \in Nat \ {0} /\ h <= 2 ^ b /\ ~(b > 0)
    BY <1>2, <2>1
  <2> HIDE DEF h
  <2>3. h \in Nat \ {0} /\ h <= 2 ^ b /\ (b > 0 => 2 ^ (b - 1) < h)
    BY <2>2
  <2> QED  BY <1>1, <2>3 DEF h
<1>3. CASE b > 0
  <2>1. h = 2 * bytes /\ bytes # 0 /\ h \in Nat \ {0}
    BY <1>1, <1>3 DEF Memory!HalfSize
  <2> DEFINE m == b - 1
  <2>2. m \in Nat /\ m + 1 = b /\ b - 2 = m - 1
    BY <1>3
  <2> HIDE DEF m
  <2>3. 2 ^ m \in Nat /\ 2 ^ b = 2 * 2 ^ m
    <3>1. 2 ^ m \in Nat /\ 2 ^ (m + 1) = 2 * 2 ^ m
      BY <2>2, PowersOfTwo
    <3> QED  BY <2>2, <3>1
  <2>4. 2 ^ m >= bytes /\ \A j \in 0 .. m - 1 : 2 ^ j < bytes
    BY <1>1, <1>3, <2>2 DEF m
  <2>5. h <= 2 ^ b
    BY <2>1, <2>3, <2>4
  <2>6. 2 ^ m < h
    <3>1. CASE m = 0
      BY <2>1, <3>1, PowersOfTwo
    <3>2. CASE m # 0
      <4> DEFINE k == m - 1
      <4>1. k \in Nat /\ k + 1 = m /\ k \in 0 .. m - 1
        BY <2>2, <3>2
      <4> HIDE DEF k
      <4>2. 2 ^ k < bytes /\ 2 ^ k \in Nat /\ 2 ^ (k + 1) = 2 * 2 ^ k
        BY <2>4, <4>1, PowersOfTwo
      <4>3. 2 ^ m = 2 * 2 ^ k
        BY <4>1, <4>2
      <4> QED  BY <2>1, <4>2, <4>3
    <3> QED  BY <3>1, <3>2
  <2>7. 2 ^ (b - 1) < h
    BY <2>6 DEF m
  <2> QED  BY <1>1, <2>1, <2>5, <2>7
<1> QED  BY <1>2, <1>3

(* What the abstract memory rounds a request to is the size that it gets.     *)
LEMMA RoundedIs ==
    ASSUME NEW h \in Nat \ {0}, NEW b \in Nat, h <= 2 ^ b,
           b > 0 => 2 ^ (b - 1) < h
    PROVE  Memory!Memory!Rounded(h) = 2 ^ Capped(b)
<1> DEFINE M == 2 * Memory!MEM_MAX_SIZE
           d == Depth + 1
<1>1. M = 2 ^ d /\ M \in Nat \ {0} /\ d \in Nat
  BY MemSizeIs, DepthAssumption
<1>2. 2 ^ b \in Nat \ {0}
  BY PowersOfTwo
<1>3. CASE h >= M
  <2>1. b >= d
    <3>1. ASSUME b < d PROVE FALSE
      <4>1. b + 1 \in 0 .. d
        BY <1>1, <3>1
      <4>2. 2 ^ (b + 1) <= 2 ^ d /\ 2 ^ (b + 1) = 2 * 2 ^ b
        BY <1>1, <4>1, PowersGrow, PowersOfTwo
      <4> HIDE DEF M, d
      <4> QED  BY <1>1, <1>2, <1>3, <4>2
    <3> HIDE DEF d
    <3> QED  BY <1>1, <3>1
  <2>2. Capped(b) = d
    BY <2>1, DepthAssumption DEF Capped
  <2>3. Memory!Memory!Rounded(h) = M
    BY <1>3 DEF Memory!Memory!Rounded
  <2> QED  BY <1>1, <2>2, <2>3
<1>4. CASE ~(h >= M)
  <2> DEFINE S == {2 ^ k : k \in 0 .. h}
             Least(x) == x >= h /\ (x > 1 => x \div 2 < h)
  <2>1. Memory!Memory!Rounded(h) = CHOOSE x \in S : Least(x)
    BY <1>4 DEF Memory!Memory!Rounded
  <2>2. Capped(b) = b
    <3>1. CASE b > d
      <4>1. b - 1 \in Nat /\ d \in 0 .. b - 1
        BY <1>1, <3>1
      <4>2. 2 ^ d <= 2 ^ (b - 1) /\ 2 ^ (b - 1) \in Nat
        BY <4>1, PowersGrow, PowersOfTwo
      <4>3. 2 ^ (b - 1) < h
        BY <1>1, <3>1
      <4> HIDE DEF M, d
      <4> QED  BY <1>1, <1>4, <4>2, <4>3
    <3>2. CASE ~(b > d)
      BY <3>2 DEF Capped
    <3> QED  BY <3>1, <3>2
  <2>3. 2 ^ b \in S
    <3>1. CASE b = 0
      <4>1. b \in 0 .. h
        BY <3>1
      <4> QED  BY <4>1
    <3>2. CASE b > 0
      <4>1. b - 1 \in Nat /\ 2 ^ (b - 1) > b - 1 /\ 2 ^ (b - 1) \in Nat
        BY <3>2, PowersAbove, PowersOfTwo
      <4>2. 2 ^ (b - 1) < h
        BY <3>2
      <4>3. b \in 0 .. h
        BY <4>1, <4>2
      <4> QED  BY <4>3
    <3> QED  BY <3>1, <3>2
  <2>4. Least(2 ^ b)
    <3>1. CASE b = 0
      BY <3>1, PowersOfTwo
    <3>2. CASE b > 0
      <4> DEFINE m == b - 1
      <4>1. m \in Nat /\ m + 1 = b /\ 2 ^ m < h
        BY <3>2
      <4> HIDE DEF m
      <4>2. 2 ^ m \in Nat /\ 2 ^ (m + 1) = 2 * 2 ^ m
        BY <4>1, PowersOfTwo
      <4>3. 2 ^ b = 2 * 2 ^ m
        BY <4>1, <4>2
      <4> QED  BY <1>2, <4>1, <4>2, <4>3
    <3> QED  BY <3>1, <3>2
  <2>5. ASSUME NEW k \in Nat, Least(2 ^ k) PROVE 2 ^ k = 2 ^ b
    <3>1. CASE k < b
      <4>1. b - 1 \in Nat /\ k \in 0 .. b - 1 /\ b > 0
        BY <3>1
      <4>2. 2 ^ k <= 2 ^ (b - 1) /\ 2 ^ (b - 1) \in Nat /\ 2 ^ k \in Nat
        BY <4>1, PowersGrow, PowersOfTwo
      <4>3. 2 ^ (b - 1) < h
        BY <4>1
      <4> QED  BY <2>5, <4>2, <4>3
    <3>2. CASE k > b
      <4> DEFINE m == k - 1
      <4>1. m \in Nat /\ m + 1 = k /\ b \in 0 .. m
        BY <3>2
      <4> HIDE DEF m
      <4>2. 2 ^ b <= 2 ^ m /\ 2 ^ m \in Nat \ {0} /\ 2 ^ (m + 1) = 2 * 2 ^ m
        BY <4>1, PowersGrow, PowersOfTwo
      <4>3. 2 ^ k = 2 * 2 ^ m
        BY <4>1, <4>2
      <4>4. 2 ^ k > 1 /\ 2 ^ k \div 2 = 2 ^ m
        BY <4>2, <4>3
      <4>5. 2 ^ m < h
        BY <2>5, <4>4
      <4> QED  BY <1>2, <4>2, <4>5
    <3>3. CASE k = b
      BY <3>3
    <3> QED  BY <3>1, <3>2, <3>3
  <2>6. \A x \in S : Least(x) => x = 2 ^ b
    <3> HIDE DEF Least
    <3> QED  BY <2>5
  <2> HIDE DEF S, Least
  <2> QED  BY <2>1, <2>2, <2>3, <2>4, <2>6
<1> QED  BY <1>3, <1>4
(* A node is free exactly if it overlaps no block. *)
LEMMA FreeIs ==
    ASSUME MemoryInv, NEW n \in Memory!Nodes
    PROVE  Free(n) <=> \A m \in held : ~Overlapping(n, m)
<1>1. held \subseteq Memory!Nodes /\ tree = Span(held)
  BY DEF MemoryInv, Memory!TypeOK, Memory!TreeIsWhatIsHeld, Span
<1>2. n \in tree <=> \E m \in held : n \in Memory!PathTo[m]
  BY <1>1 DEF Span
<1>3. \A m \in held : Overlapping(n, m) <=> n \in Memory!PathTo[m] \/ m \in Memory!PathTo[n]
  BY <1>1, OverlapIs
<1> QED  BY <1>2, <1>3 DEF Free

(* A node as a block of the abstract memory. *)
Extent(n) == [start |-> Memory!HalfStart(n), size |-> Memory!HalfBytes(n)]

(* The places available for a block are those of the free nodes of its size.  *)
LEMMA AvailableIs ==
    ASSUME MemoryInv, NEW e \in 0 .. Depth + 1
    PROVE  Memory!Memory!Available(2 ^ e) =
                {Memory!HalfStart(n) : n \in {m \in Memory!Nodes : Exp(m) = e /\ Free(m)}}
<1> DEFINE M == 2 * Memory!MEM_MAX_SIZE
           A == Memory!Memory!Available(2 ^ e)
           B == {Memory!HalfStart(n) : n \in {m \in Memory!Nodes : Exp(m) = e /\ Free(m)}}
           blks == {Extent(n) : n \in held}
           Apart(at) == \A b \in blks :
                ~Memory!Memory!Overlap(Memory!Memory!Block(at, 2 ^ e), b)
<1>1. A = {at \in 0 .. M - 2 ^ e : at % (2 ^ e) = 0 /\ Apart(at)}
  BY DEF Memory!Memory!Available, Extent
<1>2. held \subseteq Memory!Nodes
  BY DEF MemoryInv, Memory!TypeOK
<1>3. ASSUME NEW n \in Memory!Nodes, Exp(n) = e
      PROVE  Apart(Memory!HalfStart(n)) <=> Free(n)
  <2>1. Memory!HalfBytes(n) = 2 ^ e
    BY <1>3, ExtentIs
  <2>2. \A m \in held :
            Memory!Memory!Overlap(Memory!Memory!Block(Memory!HalfStart(n), 2 ^ e), Extent(m))
                <=> Overlapping(n, m)
    BY <2>1 DEF Memory!Memory!Overlap, Memory!Memory!Block, Extent, Overlapping
  <2>3. Apart(Memory!HalfStart(n)) <=> \A m \in held : ~Overlapping(n, m)
    BY <2>2
  <2> HIDE DEF Apart
  <2> QED  BY <2>3, FreeIs
<1>4. 2 ^ e \in Nat \ {0} /\ M = 2 ^ (Depth + 1) /\ M \in Nat
  BY PowersOfTwo, MemSizeIs
<1> HIDE DEF M, Apart
<1>5. ASSUME NEW at \in A PROVE at \in B
  <2>1. at \in 0 .. M - 2 ^ e /\ at % (2 ^ e) = 0 /\ Apart(at)
    BY <1>1, <1>5
  <2>2. at \in Nat /\ at + 2 ^ e <= 2 ^ (Depth + 1)
    BY <1>4, <2>1
  <2>3. PICK n \in Memory!Nodes : Exp(n) = e /\ Memory!HalfStart(n) = at
    BY <2>1, <2>2, NodeAt
  <2> QED  BY <1>3, <2>1, <2>3
<1>6. ASSUME NEW at \in B PROVE at \in A
  <2>1. PICK n \in Memory!Nodes : Exp(n) = e /\ Free(n) /\ Memory!HalfStart(n) = at
    BY <1>6
  <2>2. Memory!HalfBytes(n) = 2 ^ e
    BY <2>1, ExtentIs
  <2>3. at % (2 ^ e) = 0 /\ at \in 0 .. M - 2 ^ e
    BY <2>1, <2>2, NodeAligned DEF M
  <2> QED  BY <1>1, <1>3, <2>1, <2>3
<1> HIDE DEF A, B
<1>7. A = B
  BY <1>5, <1>6
<1> QED  BY <1>7 DEF A, B

------------------------------------------------------------------------------
(* The abstract memory starts empty. *)
LEMMA MemoryInitMaps == Memory!Init => Memory!Memory!Init
<1> SUFFICES ASSUME Memory!Init PROVE Memory!Memory!Init
  OBVIOUS
<1>1. held = {} /\ granted.size \in Requests /\ granted.node = Memory!NULL
  BY DEF Memory!Init
<1>2. {Extent(n) : n \in held} = {}
  BY <1>1
<1> QED  BY <1>1, <1>2 DEF Memory!Memory!Init, Extent

(* Allocate grants the request a block, or refuses it for want of one.        *)
LEMMA AllocateMaps ==
    ASSUME MemoryInv, NEW bytes \in Requests, Memory!Allocate(bytes)
    PROVE  \/ Memory!Memory!Grant(Memory!HalfSize(bytes))
           \/ Memory!Memory!Refuse(Memory!HalfSize(bytes))
<1> DEFINE block == Chosen(bytes)
           h == Memory!HalfSize(bytes)
<1>1. /\ granted' = [size |-> bytes, node |-> block]
      /\ block = Memory!NULL => UNCHANGED <<tree, held>>
      /\ block # Memory!NULL => held' = held \cup {block}
  BY DEF Memory!Allocate, Chosen
<1>2. PICK b \in Nat : /\ Memory!BlockSize(bytes) = Bytes(b)
                       /\ h \in Nat \ {0} /\ h <= 2 ^ b
                       /\ b > 0 => 2 ^ (b - 1) < h
  BY RequestsAssumption, HalfSizeIs
<1> DEFINE e == Capped(b)
<1>3. Memory!Memory!Rounded(h) = 2 ^ e
  <2> HIDE DEF h, e
  <2> QED  BY <1>2, RoundedIs DEF e
<1>4. e \in 0 .. Depth + 1
  BY DepthAssumption DEF Capped
<1>5. Fitting(b, block)
  BY <1>2, ChosenFits
<1>6. Memory!Memory!Available(2 ^ e) =
            {Memory!HalfStart(n) : n \in {m \in Memory!Nodes : Exp(m) = e /\ Free(m)}}
  BY <1>4, AvailableIs
<1>7. granted.size' = bytes /\ granted.node' = block
  BY <1>1
<1> HIDE DEF block, h, e
<1>8. CASE block = Memory!NULL
  <2>1. Memory!Memory!Available(2 ^ e) = {}
    BY <1>5, <1>6, <1>8 DEF Fitting, e
  <2>2. Memory!Memory!Refuse(h)
    BY <1>1, <1>3, <1>7, <1>8, <2>1 DEF Memory!Memory!Refuse, h
  <2> QED  BY <2>2 DEF h
<1>9. CASE block # Memory!NULL
  <2>1. Free(block) /\ Exp(block) = e /\ block \in Memory!Nodes
    BY <1>5, <1>9 DEF Fitting, Free, e
  <2>2. Memory!HalfStart(block) \in Memory!Memory!Available(2 ^ e)
    BY <1>6, <2>1
  <2>3. Extent(block) = Memory!Memory!Block(Memory!HalfStart(block), 2 ^ e)
    <3>1. Memory!HalfBytes(block) = 2 ^ e
      BY <2>1, ExtentIs
    <3> QED  BY <3>1 DEF Extent, Memory!Memory!Block
  <2>4. {Extent(n) : n \in held'} = {Extent(n) : n \in held} \cup {Extent(block)}
    BY <1>1, <1>9
  <2>5. Memory!Memory!Grant(h)
    BY <1>3, <1>7, <1>9, <2>2, <2>3, <2>4 DEF Memory!Memory!Grant, Extent, h
  <2> QED  BY <2>5 DEF h
<1> QED  BY <1>8, <1>9

(* Deallocate releases the block, and no other one. *)
LEMMA DeallocateMaps ==
    ASSUME MemoryInv, NEW n \in Memory!Nodes, Memory!Deallocate(n)
    PROVE  \E b \in {Extent(m) : m \in held} : Memory!Memory!Release(b)
<1>1. n \in held /\ held' = held \ {n} /\ granted' = granted
  BY DEF Memory!Deallocate
<1>2. held \subseteq Memory!Nodes
  BY DEF MemoryInv, Memory!TypeOK
<1>3. ASSUME NEW m \in held, m # n PROVE Extent(m) # Extent(n)
  <2>1. ~Overlapping(m, n)
    BY <1>1, <1>2, <1>3, OverlapIs DEF MemoryInv, BlocksApart
  <2>2. /\ Memory!HalfStart(n) \in Nat /\ Memory!HalfBytes(n) \in Nat \ {0}
        /\ Memory!HalfStart(m) \in Nat /\ Memory!HalfBytes(m) \in Nat \ {0}
    BY <1>2, ExtentIs
  <2>3. Memory!HalfStart(m) # Memory!HalfStart(n)
    BY <2>1, <2>2 DEF Overlapping
  <2> QED  BY <2>3 DEF Extent
<1>4. {Extent(m) : m \in held'} = {Extent(m) : m \in held} \ {Extent(n)}
  BY <1>1, <1>3
<1>5. Memory!Memory!Release(Extent(n))
  BY <1>1, <1>4 DEF Memory!Memory!Release, Extent
<1> QED  BY <1>1, <1>5

(* Every step of the memory is one of the abstract memory, or none.           *)
LEMMA MemoryStepMaps ==
    MemoryInv /\ [Memory!Next]_(Memory!vars) => [Memory!Memory!Next]_(Memory!Memory!vars)
<1> SUFFICES ASSUME MemoryInv, [Memory!Next]_(Memory!vars)
             PROVE  [Memory!Memory!Next]_(Memory!Memory!vars)
  OBVIOUS
<1>1. CASE UNCHANGED Memory!vars
  BY <1>1 DEF Memory!vars, Memory!Memory!vars
<1>2. ASSUME NEW bytes \in Requests, Memory!Allocate(bytes)
      PROVE  Memory!Memory!Next
  BY <1>2, AllocateMaps DEF Memory!Memory!Next
<1>3. ASSUME NEW n \in Memory!Nodes, Memory!Deallocate(n)
      PROVE  Memory!Memory!Next
  BY <1>3, DeallocateMaps DEF Memory!Memory!Next, Extent
<1> QED  BY <1>1, <1>2, <1>3 DEF Memory!Next

(* Blocks never overlap, each is aligned and of the least power of two that   *)
(* serves the request, and Allocate returns NULL only if there is no such     *)
(* block: in a memory of any size, for requests of any size and any order of  *)
(* the calls.                                                                 *)
THEOREM MemoryImplementsAbstract == Memory!Spec => Memory!ImplementsMemory
<1> QED  BY MemoryInit, MemoryStep, MemoryInitMaps, MemoryStepMaps, PTL
         DEF Memory!Spec, Memory!ImplementsMemory, Memory!Memory!Spec
================================================================================
