--------------------------- MODULE StructuresProofs ---------------------------
(* The two ready queues, and the data structures of the scheduler together:   *)
(* the circular buffer of any capacity is a bounded first-in first-out queue, *)
(* the heap of any capacity a priority queue, and what holds of each of the   *)
(* structures holds of the specification that is model-checked.               *)
EXTENDS BuddyProofs

------------------------------------------------------------------------------
(* The circular ready queue. *)

(* rear is one slot before the one behind the last item held, also when the   *)
(* queue is empty: this is why CreateQueue starts it at capacity - 1.         *)
RearBehind == Advanced(rear) = (front + size) % capacity

QueueInv == TypeOK /\ RearBehind

(* CreateQueue leaves rear one step before front. *)
LEMMA QueueInit == Init => QueueInv
<1> SUFFICES ASSUME Init PROVE QueueInv
  OBVIOUS
<1>1. TypeOK
  BY CapacityAssumption DEF Init, TypeOK, Slots
<1>2. (0 + 0) % capacity = 0
  BY CapacityAssumption, ModOnce
<1>3. capacity - 1 \in 0 .. capacity - 1
  BY CapacityAssumption
<1>4. Advanced(capacity - 1) = 0
  BY CapacityAssumption, <1>3, ModStep DEF Advanced
<1> QED  BY <1>1, <1>2, <1>4 DEF Init, QueueInv, RearBehind

(* Enqueue writes to the slot behind the last item or drops the item. *)
LEMMA EnqueueQueue ==
    ASSUME QueueInv, NEW item \in Items, Enqueue(item)
    PROVE  QueueInv' /\ FIFO!Offer(item)
<1> USE CapacityAssumption
<1>1. front \in 0 .. capacity - 1 /\ rear \in 0 .. capacity - 1 /\ size \in 0 .. capacity
      /\ array \in [0 .. capacity - 1 -> Items \cup {Null}]
      /\ UNCHANGED <<front, returned>>
  BY DEF QueueInv, TypeOK, Slots, Enqueue
<1>2. Len(Contents) = size
  BY <1>1, RingSeqType DEF Contents, IsRing
<1>3. CASE IsFull
  <2>1. UNCHANGED <<rear, array, size>>
    BY <1>3 DEF Enqueue
  <2>2. QueueInv'
    BY <1>1, <2>1 DEF QueueInv, TypeOK, RearBehind, Advanced
  <2>3. Contents' = Contents
    BY <1>1, <2>1 DEF Contents, RingSeq
  <2> QED  BY <1>1, <1>2, <1>3, <2>2, <2>3 DEF FIFO!Offer, IsFull
<1>4. CASE ~IsFull
  <2>1. /\ size' = size + 1 /\ size \in 0 .. capacity - 1 /\ rear' = Advanced(rear)
        /\ array' = [array EXCEPT ![Advanced(rear)] = item]
    BY <1>1, <1>4 DEF Enqueue, IsFull
  <2>2. Advanced(rear) \in 0 .. capacity - 1
    BY <1>1, ModStep DEF Advanced
  <2>3. Advanced(rear) = (front + size) % capacity
    BY DEF QueueInv, RearBehind
  <2>4. TypeOK'
    BY <1>1, <2>1, <2>2 DEF QueueInv, TypeOK, Slots
  <2>5. RearBehind'
    <3>1. (((front + size) % capacity) + 1) % capacity = (front + (size + 1)) % capacity
      BY <1>1, <2>1, RearAfterAppend
    <3> QED  BY <1>1, <2>1, <2>3, <3>1 DEF RearBehind, Advanced
  <2>6. Contents' = Append(Contents, item)
    <3>1. IsRing(array, front, size, capacity, Items \cup {Null}) /\ size # capacity
      BY <1>1, <2>1 DEF IsRing
    <3>2. array' = Written(array, front, size, capacity, item)
      BY <2>1, <2>3 DEF Written
    <3>3. RingSeq(Written(array, front, size, capacity, item), front, size + 1, capacity)
          = Append(RingSeq(array, front, size, capacity), item)
      BY <3>1, RingAppend
    <3> QED  BY <1>1, <2>1, <3>2, <3>3 DEF Contents
  <2> QED  BY <1>1, <1>2, <2>1, <2>4, <2>5, <2>6 DEF QueueInv, FIFO!Offer
<1> QED  BY <1>3, <1>4

(* Dequeue hands out the item at front or nothing. *)
LEMMA DequeueQueue ==
    ASSUME QueueInv, Dequeue
    PROVE  QueueInv' /\ FIFO!Remove
<1> USE CapacityAssumption
<1>1. front \in 0 .. capacity - 1 /\ rear \in 0 .. capacity - 1 /\ size \in 0 .. capacity
      /\ array \in [0 .. capacity - 1 -> Items \cup {Null}]
      /\ UNCHANGED <<rear, array>>
  BY DEF QueueInv, TypeOK, Slots, Dequeue
<1>2. Contents \in Seq(Items \cup {Null}) /\ Len(Contents) = size
  BY <1>1, RingSeqType DEF Contents, IsRing
<1>3. CASE IsEmpty
  <2>1. returned' = Null /\ UNCHANGED <<front, size>>
    BY <1>3 DEF Dequeue
  <2>2. QueueInv'
    BY <1>1, <2>1 DEF QueueInv, TypeOK, RearBehind, Advanced
  <2>3. Contents' = Contents /\ Contents = <<>>
    BY <1>1, <1>2, <1>3, <2>1 DEF Contents, RingSeq, IsEmpty
  <2> QED  BY <2>1, <2>2, <2>3 DEF FIFO!Remove
<1>4. CASE ~IsEmpty
  <2>1. returned' = array[front] /\ front' = Advanced(front) /\ size' = size - 1
        /\ size \in 1 .. capacity
    BY <1>1, <1>4 DEF Dequeue, IsEmpty
  <2>2. Advanced(front) \in 0 .. capacity - 1
    BY <1>1, ModStep DEF Advanced
  <2>3. TypeOK'
    BY <1>1, <2>1, <2>2 DEF QueueInv, TypeOK, Slots
  <2>4. RearBehind'
    <3>1. (((front + 1) % capacity) + (size - 1)) % capacity = (front + size) % capacity
      BY <1>1, <2>1, RearAfterTail
    <3> QED  BY <1>1, <2>1, <3>1 DEF QueueInv, RearBehind, Advanced
  <2>5. Head(Contents) = array[front] /\ Contents' = Tail(Contents)
    BY <1>1, <2>1, RingTail DEF Contents, Advanced, IsRing
  <2>6. Contents # <<>> /\ Head(Contents) = Contents[1]
    BY <1>2, <2>1
  <2> QED  BY <2>1, <2>3, <2>4, <2>5, <2>6 DEF QueueInv, FIFO!Remove
<1> QED  BY <1>3, <1>4

(* Both operations, and steps that leave the queue alone. *)
LEMMA QueueStep ==
    ASSUME QueueInv, [Next]_vars
    PROVE  QueueInv' /\ [FIFO!Next]_(FIFO!vars)
<1>1. CASE UNCHANGED vars
  BY <1>1 DEF vars, QueueInv, TypeOK, RearBehind, Advanced, FIFO!vars, Contents, RingSeq
<1>2. CASE Dequeue
  BY <1>2, DequeueQueue DEF FIFO!Next
<1>3. ASSUME NEW item \in Items, Enqueue(item)
      PROVE  QueueInv' /\ FIFO!Next
  BY <1>3, EnqueueQueue DEF FIFO!Next
<1> QED  BY <1>1, <1>2, <1>3 DEF Next

(* The fields of the queue keep their ranges, whatever the calls. *)
THEOREM QueueTypeCorrect == Spec => []TypeOK
<1>1. QueueInv => TypeOK
  BY DEF QueueInv
<1>2. QueueInv /\ [Next]_vars => QueueInv'
  BY QueueStep
<1> QED  BY QueueInit, <1>1, <1>2, PTL DEF Spec

(* Front and Rear show the two ends of the queue. *)
THEOREM QueueEndsShown == Spec => []EndsShown
<1>1. QueueInv => EndsShown
  <2> SUFFICES ASSUME QueueInv, ~IsEmpty PROVE Front = Contents[1] /\ Rear = Contents[size]
    BY DEF EndsShown
  <2> USE CapacityAssumption
  <2>1. front \in 0 .. capacity - 1 /\ rear \in 0 .. capacity - 1 /\ size \in 1 .. capacity
    BY DEF QueueInv, TypeOK, Slots, IsEmpty
  <2> DEFINE last == front + size - 1
             behind == front + size
  <2>2. last \in 0 .. 2 * capacity - 1 /\ behind \in 0 .. 2 * capacity - 1 /\ behind = last + 1
    BY <2>1
  <2>3. front % capacity = front
    BY <2>1, ModOnce
  <2>4. (rear + 1) % capacity = IF rear = capacity - 1 THEN 0 ELSE rear + 1
    BY <2>1, ModStep
  <2>5. (rear + 1) % capacity = behind % capacity
    BY DEF QueueInv, RearBehind, Advanced
  <2> HIDE DEF last, behind
  <2>6. /\ last % capacity = (IF last < capacity THEN last ELSE last - capacity)
        /\ behind % capacity = (IF behind < capacity THEN behind ELSE behind - capacity)
    BY <2>2, ModOnce
  <2>7. last % capacity = rear
    BY <2>1, <2>2, <2>4, <2>5, <2>6
  <2>8. Contents[1] = array[front]
    BY <2>1, <2>3 DEF Contents, RingSeq
  <2>9. Contents[size] = array[rear]
    BY <2>1, <2>7 DEF Contents, RingSeq, last
  <2> QED  BY <2>8, <2>9 DEF Front, Rear
<1>2. QueueInv /\ [Next]_vars => QueueInv'
  BY QueueStep
<1> QED  BY QueueInit, <1>1, <1>2, PTL DEF Spec

(* The circular buffer is the bounded queue it stands for. *)
THEOREM QueueImplementsFIFO == Spec => ImplementsFIFO
<1>1. Init => FIFO!Init
  <2> SUFFICES ASSUME Init PROVE Contents = <<>> /\ returned = Null
    BY DEF FIFO!Init
  <2> QED  BY DEF Init, Contents, RingSeq
<1>2. QueueInv /\ [Next]_vars => [FIFO!Next]_(FIFO!vars)
  BY QueueStep
<1>3. QueueInv /\ [Next]_vars => QueueInv'
  BY QueueStep
<1> QED  BY QueueInit, <1>1, <1>2, <1>3, PTL DEF Spec, ImplementsFIFO, FIFO!Spec

------------------------------------------------------------------------------
(* The priority ready queue. *)

(* Children are closer to the end than their parents. *)
LEMMA LeastIs ==
    ASSUME priority \in [Items -> Nat], NEW n \in Nat,
           NEW arr \in [1 .. n -> Items], NEW parent \in 1 .. n
    PROVE  /\ Heap!Least(arr, parent) \in 1 .. n
           /\ Heap!Least(arr, parent) \in {parent, 2 * parent, 2 * parent + 1}
<1>1. Len(arr) = n
  OBVIOUS
<1> QED  BY <1>1 DEF Heap!Least, Heap!Before

(* The recursion of MinHeapify, one function of the parent and the array. *)
IsDown(f, n) ==
    /\ \A p \in 1 .. n : \A arr \in [1 .. n -> Items] :
            f[p][arr] = LET min == Heap!Least(arr, p)
                        IN  IF min = p THEN arr ELSE f[min][Heap!Swap(arr, p, min)]
    /\ \A arr \in [1 .. n -> Items] : Heap!MinHeapify(arr) = f[1][arr]

(* MinHeapify is the recursion it is written as. *)
LEMMA MinHeapifyEquation ==
    ASSUME priority \in [Items -> Nat], NEW n \in Nat
    PROVE  \E f : IsDown(f, n)
<1> DEFINE D == 1 .. n
           A == [1 .. n -> Items]
           V == [A -> A]
           rank == [p \in D |-> n - p]
           Body(p, f) == [arr \in A |-> LET min == Heap!Least(arr, p)
                                        IN  IF min = p THEN arr ELSE f[min][Heap!Swap(arr, p, min)]]
           G == [p \in D |-> [f \in [D -> V] |-> Body(p, f)]]
<1>1. ASSUME NEW p \in D, NEW f \in [D -> V] PROVE Body(p, f) \in V
  <2> SUFFICES ASSUME NEW arr \in A, Heap!Least(arr, p) # p
               PROVE  f[Heap!Least(arr, p)][Heap!Swap(arr, p, Heap!Least(arr, p))] \in A
    OBVIOUS
  <2> DEFINE min == Heap!Least(arr, p)
  <2>1. min \in D
    BY LeastIs
  <2> HIDE DEF min
  <2>2. Heap!Swap(arr, p, min) \in A
    BY <2>1 DEF Heap!Swap
  <2>3. f[min][Heap!Swap(arr, p, min)] \in A
    <3>1. f[min] \in V
      BY <2>1
    <3> HIDE DEF A, D
    <3> QED  BY <2>2, <3>1
  <2> QED  BY <2>3 DEF min
<1>2. ASSUME NEW p \in D, NEW f \in [D -> V], NEW g \in [D -> V],
             \A q \in D : rank[q] < rank[p] => f[q] = g[q]
      PROVE  Body(p, f) = Body(p, g)
  <2>1. ASSUME NEW arr \in A, Heap!Least(arr, p) # p
        PROVE  f[Heap!Least(arr, p)] = g[Heap!Least(arr, p)]
    <3> DEFINE min == Heap!Least(arr, p)
    <3>1. min \in 1 .. n /\ min \in {p, 2 * p, 2 * p + 1}
      BY LeastIs
    <3>2. min # p
      BY <2>1
    <3> HIDE DEF min
    <3>3. min \in D /\ rank[min] < rank[p]
      BY <3>1, <3>2
    <3> HIDE DEF rank
    <3>4. f[min] = g[min]
      BY <1>2, <3>3
    <3> QED  BY <3>4 DEF min
  <2> QED  BY <2>1
<1>3. PICK f \in [D -> V] : \A p \in D : f[p] = G[p][f]
  <2>1. rank \in [D -> Nat]
    OBVIOUS
  <2>4. G \in [D -> [[D -> V] -> V]]
    <3> HIDE DEF Body, V, D
    <3> QED  BY <1>1
  <2>2. \A p \in D : \A f, g \in [D -> V] :
            (\A q \in D : rank[q] < rank[p] => f[q] = g[q]) => G[p][f] = G[p][g]
    <3> HIDE DEF rank, Body
    <3> QED  BY <1>2
  <2>3. PICK v0 \in V : TRUE
    <3>1. [arr \in A |-> arr] \in V
      OBVIOUS
    <3> QED  BY <3>1
  <2> HIDE DEF D, V, G, rank
  <2>5. Founded(D, V, rank, G)
    BY <2>1, <2>2, <2>4 DEF Founded
  <2> QED  BY <2>3, <2>5, RecursionExists
<1> DEFINE down == CHOOSE g : g = [p \in D |-> Body(p, g)]
<1>4. down = [p \in D |-> Body(p, down)]
  <2>1. f = [p \in D |-> Body(p, f)]
    <3>1. \A p \in D : f[p] = Body(p, f)
      BY <1>3
    <3> HIDE DEF Body
    <3> QED  BY <3>1
  <2> HIDE DEF Body, D
  <2> QED  BY <2>1
<1>5. \A arr \in A : Heap!MinHeapify(arr) = down[1][arr]
  <2> TAKE arr \in A
  <2>1. Len(arr) = n
    OBVIOUS
  <2> QED  BY <2>1 DEF Heap!MinHeapify
<1>6. ASSUME NEW p \in D, NEW arr \in A PROVE down[p][arr] = Body(p, down)[arr]
  <2> HIDE DEF Body, down
  <2> QED  BY <1>4
<1>7. \A p \in D : \A arr \in A : down[p][arr] =
          LET min == Heap!Least(arr, p)
          IN  IF min = p THEN arr ELSE down[min][Heap!Swap(arr, p, min)]
  <2> HIDE DEF down
  <2> QED  BY <1>6
<1> HIDE DEF down
<1> QED  BY <1>5, <1>7 DEF IsDown

(* The loop of DecPriority, one function of the place and the array. *)
IsUp(f, n, val) ==
    /\ \A i \in 1 .. n : \A arr \in [1 .. n -> Items] :
            f[i][arr] = IF i > 1 /\ priority[arr[i \div 2]] > val
                        THEN f[i \div 2][Heap!Swap(arr, i, i \div 2)]
                        ELSE arr
    /\ \A arr \in [1 .. n -> Items] : Heap!MovedUp(arr, val) = f[n][arr]

(* MovedUp is the recursion it is written as. *)
LEMMA MovedUpEquation ==
    ASSUME NEW n \in Nat, NEW val
    PROVE  \E f : IsUp(f, n, val)
<1> DEFINE D == 1 .. n
           A == [1 .. n -> Items]
           V == [A -> A]
           rank == [i \in D |-> i]
           Body(i, f) == [arr \in A |-> IF i > 1 /\ priority[arr[i \div 2]] > val
                                        THEN f[i \div 2][Heap!Swap(arr, i, i \div 2)]
                                        ELSE arr]
           G == [i \in D |-> [f \in [D -> V] |-> Body(i, f)]]
<1>1. ASSUME NEW i \in D, NEW f \in [D -> V] PROVE Body(i, f) \in V
  <2> SUFFICES ASSUME NEW arr \in A, i > 1
               PROVE  f[i \div 2][Heap!Swap(arr, i, i \div 2)] \in A
    OBVIOUS
  <2>1. i \div 2 \in D
    OBVIOUS
  <2>2. Heap!Swap(arr, i, i \div 2) \in A
    BY <2>1 DEF Heap!Swap
  <2> QED  BY <2>1, <2>2
<1>2. ASSUME NEW i \in D, NEW f \in [D -> V], NEW g \in [D -> V],
             \A j \in D : rank[j] < rank[i] => f[j] = g[j]
      PROVE  Body(i, f) = Body(i, g)
  <2>1. ASSUME i > 1 PROVE f[i \div 2] = g[i \div 2]
    <3>1. i \div 2 \in D /\ i \div 2 < i
      BY <2>1
    <3>2. rank[i \div 2] < rank[i]
      BY <3>1
    <3> HIDE DEF rank
    <3> QED  BY <1>2, <3>1, <3>2
  <2> QED  BY <2>1
<1>3. PICK f \in [D -> V] : \A i \in D : f[i] = G[i][f]
  <2>1. rank \in [D -> Nat]
    OBVIOUS
  <2>2. G \in [D -> [[D -> V] -> V]]
    <3> HIDE DEF Body, V, D
    <3> QED  BY <1>1
  <2>3. \A i \in D : \A f, g \in [D -> V] :
            (\A j \in D : rank[j] < rank[i] => f[j] = g[j]) => G[i][f] = G[i][g]
    <3> HIDE DEF rank, Body
    <3> QED  BY <1>2
  <2>4. PICK v0 \in V : TRUE
    <3>1. [arr \in A |-> arr] \in V
      OBVIOUS
    <3> QED  BY <3>1
  <2> HIDE DEF D, V, G, rank
  <2>5. Founded(D, V, rank, G)
    BY <2>1, <2>2, <2>3 DEF Founded
  <2> QED  BY <2>4, <2>5, RecursionExists
<1> DEFINE up == CHOOSE g : g = [i \in D |-> Body(i, g)]
<1>4. up = [i \in D |-> Body(i, up)]
  <2>1. f = [i \in D |-> Body(i, f)]
    <3>1. \A i \in D : f[i] = Body(i, f)
      BY <1>3
    <3> HIDE DEF Body
    <3> QED  BY <3>1
  <2> HIDE DEF Body, D
  <2> QED  BY <2>1
<1>5. \A arr \in A : Heap!MovedUp(arr, val) = up[n][arr]
  <2> TAKE arr \in A
  <2>1. Len(arr) = n
    OBVIOUS
  <2> QED  BY <2>1 DEF Heap!MovedUp
<1>6. ASSUME NEW i \in D, NEW arr \in A PROVE up[i][arr] = Body(i, up)[arr]
  <2> HIDE DEF Body, up
  <2> QED  BY <1>4
<1>7. \A i \in D : \A arr \in A : up[i][arr] =
          IF i > 1 /\ priority[arr[i \div 2]] > val
          THEN up[i \div 2][Heap!Swap(arr, i, i \div 2)]
          ELSE arr
  <2> HIDE DEF up
  <2> QED  BY <1>6
<1> HIDE DEF up
<1> QED  BY <1>5, <1>7 DEF IsUp

(* The entries of an array, and that it has none of them twice. *)
Entries(arr) == {arr[i] : i \in DOMAIN arr}
Distinct(arr) == \A i, j \in DOMAIN arr : arr[i] = arr[j] => i = j

(* The priorities of the entries, in their places. *)
Keys(arr, key) == [i \in DOMAIN arr |-> key[arr[i]]]

(* No entry is before its parent; ... *)
Ordered(v, n) == \A i \in 2 .. n : v[i \div 2] <= v[i]

(* ... or only children of p may be before theirs, never before that of p; ... *)
OrderedBelow(v, n, p) ==
    \A i \in 2 .. n :
        /\ i \div 2 # p => v[i \div 2] <= v[i]
        /\ i \div 2 = p /\ p > 1 => v[p \div 2] <= v[i]

(* ... or only p may be before its parent, and no child of p is.              *)
OrderedAbove(v, n, p) ==
    \A i \in 2 .. n :
        /\ i # p => v[i \div 2] <= v[i]
        /\ i \div 2 = p /\ p > 1 => v[p \div 2] <= v[i]

(* A swap of two places; no child of p is before m. *)
Swapped(v, w, n, i, j) ==
    \A k \in 1 .. n : w[k] = IF k = i THEN v[j] ELSE IF k = j THEN v[i] ELSE v[k]
NoChildBefore(v, n, p, m) == \A c \in {2 * p, 2 * p + 1} : c <= n => v[m] <= v[c]

(* What is left of an array by moving its entries around. *)
Rearranged(old, new, n) ==
    /\ new \in [1 .. n -> Items]
    /\ Entries(new) = Entries(old)
    /\ Distinct(new)

(* A swap moves two entries and loses none. *)
LEMMA SwapIs ==
    ASSUME NEW n \in Nat, NEW arr \in [1 .. n -> Items], NEW i \in 1 .. n, NEW j \in 1 .. n,
           i # j
    PROVE  /\ Heap!Swap(arr, i, j) \in [1 .. n -> Items]
           /\ \A k \in 1 .. n : Heap!Swap(arr, i, j)[k] =
                  IF k = i THEN arr[j] ELSE IF k = j THEN arr[i] ELSE arr[k]
           /\ Entries(Heap!Swap(arr, i, j)) = Entries(arr)
           /\ Distinct(arr) => Distinct(Heap!Swap(arr, i, j))
<1> DEFINE new == Heap!Swap(arr, i, j)
<1>1. new \in [1 .. n -> Items]
  BY DEF Heap!Swap
<1>2. \A k \in 1 .. n : new[k] = IF k = i THEN arr[j] ELSE IF k = j THEN arr[i] ELSE arr[k]
  BY DEF Heap!Swap
<1> HIDE DEF new
<1>3. \A k \in 1 .. n : \E m \in 1 .. n : new[k] = arr[m]
  BY <1>2
<1>4. \A m \in 1 .. n : \E k \in 1 .. n : new[k] = arr[m]
  <2> TAKE m \in 1 .. n
  <2>1. CASE m = i
    BY <1>2, <2>1
  <2>2. CASE m = j
    BY <1>2, <2>2
  <2>3. CASE m # i /\ m # j
    BY <1>2, <2>3
  <2> QED  BY <2>1, <2>2, <2>3
<1>5. Entries(new) = Entries(arr)
  <2>1. DOMAIN new = 1 .. n /\ DOMAIN arr = 1 .. n
    BY <1>1
  <2>2. Entries(new) = {new[k] : k \in 1 .. n} /\ Entries(arr) = {arr[k] : k \in 1 .. n}
    BY <2>1 DEF Entries
  <2>3. \A k \in 1 .. n : new[k] \in Entries(arr)
    BY <1>3, <2>2
  <2>4. \A k \in 1 .. n : arr[k] \in Entries(new)
    BY <1>4, <2>2
  <2> QED  BY <2>2, <2>3, <2>4
<1>6. Distinct(arr) => Distinct(new)
  BY <1>1, <1>2 DEF Distinct
<1> QED  BY <1>1, <1>2, <1>5, <1>6 DEF new

(* The parent of a place is a place, and the place is one of its two children. *)
LEMMA ParentIs ==
    ASSUME NEW n \in Nat, NEW i \in 2 .. n
    PROVE  /\ i \div 2 \in 1 .. n
           /\ i \div 2 < i
           /\ i = 2 * (i \div 2) \/ i = 2 * (i \div 2) + 1
OBVIOUS

(* If no child of p is before p, only children of p being misplaced is no     *)
(* misplacement at all, ...                                                   *)
LEMMA DownEnds ==
    ASSUME NEW n \in Nat, NEW v \in [1 .. n -> Nat], NEW p \in 1 .. n,
           OrderedBelow(v, n, p), NoChildBefore(v, n, p, p)
    PROVE  Ordered(v, n)
<1> USE DEF NoChildBefore
<1> SUFFICES ASSUME NEW i \in 2 .. n PROVE v[i \div 2] <= v[i]
  BY DEF Ordered
<1>1. PICK q \in 1 .. n : q = i \div 2 /\ (i = 2 * q \/ i = 2 * q + 1)
  BY ParentIs
<1>2. CASE q = p
  BY <1>1, <1>2
<1>3. CASE q # p
  BY <1>1, <1>3 DEF OrderedBelow
<1> QED  BY <1>2, <1>3

(* ... and otherwise a swap with the lesser child m moves the place down.     *)
LEMMA DownStep ==
    ASSUME NEW n \in Nat, NEW v \in [1 .. n -> Nat], NEW w \in [1 .. n -> Nat],
           NEW p \in 1 .. n, NEW m \in 1 .. n, m \in {2 * p, 2 * p + 1},
           OrderedBelow(v, n, p), v[m] < v[p],
           NoChildBefore(v, n, p, m),
           Swapped(v, w, n, p, m)
    PROVE  OrderedBelow(w, n, m)
<1> USE DEF Swapped, NoChildBefore
<1>1. m \div 2 = p /\ m # p
  OBVIOUS
<1> SUFFICES ASSUME NEW i \in 2 .. n
             PROVE  /\ i \div 2 # m => w[i \div 2] <= w[i]
                    /\ i \div 2 = m /\ m > 1 => w[m \div 2] <= w[i]
  BY DEF OrderedBelow
<1>2. PICK q \in 1 .. n : q = i \div 2 /\ q < i /\ (i = 2 * q \/ i = 2 * q + 1)
  BY ParentIs
<1>3. CASE i = p
  <2>1. q # p /\ q # m
    BY <1>2, <1>3
  <2>2. v[q] <= v[m]
    <3>1. m \in 2 .. n /\ p > 1
      BY <1>1, <1>3
    <3> QED  BY <1>1, <1>2, <1>3, <3>1 DEF OrderedBelow
  <2>3. w[i] = v[m] /\ w[q] = v[q]
    BY <1>3, <2>1
  <2> QED  BY <1>2, <2>1, <2>2, <2>3
<1>4. CASE q = p
  <2>1. q # m /\ i # p
    BY <1>1, <1>2, <1>4
  <2>2. v[m] <= v[i] /\ v[m] < v[p]
    <3>1. i \in {2 * p, 2 * p + 1} /\ i <= n
      BY <1>2, <1>4
    <3> QED  BY <3>1
  <2>3. w[q] = v[m] /\ (w[i] = v[p] \/ w[i] = v[i])
    BY <1>4, <2>1
  <2> QED  BY <1>2, <2>1, <2>2, <2>3
<1>5. CASE q = m
  <2>1. i # p /\ i # m /\ q # p
    BY <1>1, <1>2, <1>5
  <2>2. v[m] <= v[i]
    BY <1>2, <1>5, <2>1 DEF OrderedBelow
  <2>3. w[i] = v[i] /\ w[m \div 2] = v[m]
    BY <1>1, <2>1
  <2> QED  BY <1>2, <1>5, <2>2, <2>3
<1>6. CASE i # p /\ q # p /\ q # m
  <2>1. i # m
    BY <1>1, <1>2, <1>6
  <2>2. v[q] <= v[i]
    BY <1>2, <1>6 DEF OrderedBelow
  <2>3. w[q] = v[q] /\ w[i] = v[i]
    BY <1>6, <2>1
  <2> QED  BY <1>2, <1>6, <2>2, <2>3
<1> QED  BY <1>3, <1>4, <1>5, <1>6

(* A place that is not before its parent, with no child before it, is one of  *)
(* an ordered array; ...                                                      *)
LEMMA UpEnds ==
    ASSUME NEW n \in Nat, NEW v \in [1 .. n -> Nat], NEW p \in 1 .. n,
           OrderedAbove(v, n, p), p > 1 => v[p \div 2] <= v[p]
    PROVE  Ordered(v, n)
<1> SUFFICES ASSUME NEW i \in 2 .. n PROVE v[i \div 2] <= v[i]
  BY DEF Ordered
<1>1. CASE i = p
  BY <1>1
<1>2. CASE i # p
  BY <1>2 DEF OrderedAbove
<1> QED  BY <1>1, <1>2

(* ... otherwise a swap with the parent m moves the place up.                 *)
LEMMA UpStep ==
    ASSUME NEW n \in Nat, NEW v \in [1 .. n -> Nat], NEW w \in [1 .. n -> Nat],
           NEW p \in 2 .. n, NEW m \in 1 .. n, p \in {2 * m, 2 * m + 1},
           OrderedAbove(v, n, p), v[p] < v[m],
           Swapped(v, w, n, p, m)
    PROVE  OrderedAbove(w, n, m)
<1> USE DEF Swapped
<1>1. m < p
  OBVIOUS
<1>5. m = p \div 2
  OBVIOUS
<1> SUFFICES ASSUME NEW i \in 2 .. n
             PROVE  /\ i # m => w[i \div 2] <= w[i]
                    /\ i \div 2 = m /\ m > 1 => w[m \div 2] <= w[i]
  BY DEF OrderedAbove
<1>2. PICK q \in 1 .. n : q = i \div 2 /\ q < i
  BY ParentIs
<1>3. ASSUME i # m PROVE w[q] <= w[i]
  <2>1. CASE i = p
    <3>1. q = m
      BY <1>2, <1>5, <2>1
    <3>2. w[m] = v[p] /\ w[p] = v[m]
      BY <1>1
    <3> QED  BY <2>1, <3>1, <3>2
  <2>2. CASE q = m /\ i # p
    <3>1. v[m] <= v[i]
      BY <1>2, <2>2 DEF OrderedAbove
    <3>2. w[q] = v[p] /\ w[i] = v[i]
      BY <1>1, <1>3, <2>2
    <3> QED  BY <3>1, <3>2
  <2>3. CASE q = p
    <3>1. i # p /\ w[q] = v[m] /\ w[i] = v[i]
      BY <1>2, <1>3, <2>3
    <3>2. v[m] <= v[i]
      BY <1>2, <1>5, <2>3 DEF OrderedAbove
    <3> QED  BY <3>1, <3>2
  <2>4. CASE q # m /\ q # p /\ i # p
    <3>1. v[q] <= v[i]
      BY <1>2, <2>4 DEF OrderedAbove
    <3>2. w[q] = v[q] /\ w[i] = v[i]
      BY <1>3, <2>4
    <3> QED  BY <3>1, <3>2
  <2> QED  BY <2>1, <2>2, <2>3, <2>4
<1>4. ASSUME q = m, m > 1 PROVE w[m \div 2] <= w[i]
  <2>1. PICK r \in 1 .. n : r = m \div 2 /\ r < m
    <3>1. m \in 2 .. n
      BY <1>4
    <3> QED  BY <3>1, ParentIs
  <2>2. v[r] <= v[m]
    <3>1. m \in 2 .. n /\ m # p
      BY <1>1, <1>4
    <3> QED  BY <2>1, <3>1 DEF OrderedAbove
  <2>3. w[r] = v[r]
    BY <1>1, <2>1
  <2>4. CASE i = p
    <3>1. w[i] = v[m]
      <4>1. i = p /\ p # m
        BY <1>1, <2>4
      <4> QED  BY <1>1, <1>2, <4>1
    <3> QED  BY <2>1, <2>2, <2>3, <3>1
  <2>5. CASE i # p
    <3>1. v[q] <= v[i]
      BY <1>2, <2>5 DEF OrderedAbove
    <3>2. v[m] <= v[i]
      BY <1>4, <3>1
    <3>3. i # m
      BY <1>2, <1>4
    <3>4. w[i] = v[i]
      BY <2>5, <3>3
    <3> QED  BY <2>1, <2>2, <2>3, <3>2, <3>4
  <2> QED  BY <2>4, <2>5
<1> QED  BY <1>2, <1>3, <1>4

(* DecPriority on an entry added behind the last one of a heap: the entries   *)
(* are a heap again.                                                          *)
LEMMA MovedUpIs ==
    ASSUME NEW n \in Nat \ {0}, NEW arr \in [1 .. n -> Items], Distinct(arr),
           priority \in [Items -> Nat], NEW val \in Nat,
           NEW key, key = [priority EXCEPT ![arr[n]] = val],
           OrderedAbove(Keys(arr, key), n, n)
    PROVE  /\ Rearranged(arr, Heap!MovedUp(arr, val), n)
           /\ Ordered(Keys(Heap!MovedUp(arr, val), key), n)
<1> DEFINE A == [1 .. n -> Items]
           Moving(i, a) == /\ Distinct(a)
                           /\ Entries(a) = Entries(arr)
                           /\ a[i] = arr[n]
                           /\ OrderedAbove(Keys(a, key), n, i)
           Done(a) == Rearranged(arr, a, n) /\ Ordered(Keys(a, key), n)
<1>1. key \in [Items -> Nat]
  OBVIOUS
<1>2. PICK f : IsUp(f, n, val)
  BY MovedUpEquation
<1>3. ASSUME NEW i \in 1 .. n, NEW a \in A, Moving(i, a)
      PROVE  /\ Keys(a, key) \in [1 .. n -> Nat]
             /\ \A k \in 1 .. n : k # i => priority[a[k]] = Keys(a, key)[k]
             /\ Keys(a, key)[i] = val
  <2>1. \A k \in 1 .. n : k # i => a[k] # arr[n]
    BY <1>3 DEF Distinct
  <2> QED  BY <1>1, <1>3, <2>1 DEF Keys
<1>4. ASSUME NEW i \in 1 .. n, NEW a \in A, Moving(i, a), ~(i > 1 /\ priority[a[i \div 2]] > val)
      PROVE  Done(f[i][a])
  <2>1. f[i][a] = a
    BY <1>2, <1>4 DEF IsUp
  <2>2. i > 1 => i \div 2 \in 1 .. n /\ i \div 2 < i
    BY ParentIs
  <2>3. OrderedAbove(Keys(a, key), n, i)
    BY <1>4
  <2>4. Rearranged(arr, a, n)
    BY <1>4 DEF Rearranged
  <2> HIDE DEF A, Moving
  <2>5. ASSUME i > 1 PROVE Keys(a, key)[i \div 2] <= Keys(a, key)[i]
    <3>1. PICK m \in 1 .. n : m = i \div 2 /\ m # i
      BY <2>2, <2>5
    <3>2. Keys(a, key)[m] \in Nat /\ priority[a[m]] = Keys(a, key)[m] /\ Keys(a, key)[i] = val
      BY <1>3, <1>4, <3>1
    <3>3. ~(priority[a[m]] > val)
      BY <1>4, <2>5, <3>1
    <3> QED  BY <3>1, <3>2, <3>3
  <2>6. Ordered(Keys(a, key), n)
    BY <1>3, <1>4, <2>3, <2>5, UpEnds
  <2> QED  BY <2>1, <2>4, <2>6
<1>5. ASSUME NEW i \in 1 .. n, NEW a \in A, Moving(i, a), i > 1, priority[a[i \div 2]] > val
      PROVE  /\ i \div 2 \in 1 .. n /\ i \div 2 < i
             /\ Heap!Swap(a, i, i \div 2) \in A
             /\ Moving(i \div 2, Heap!Swap(a, i, i \div 2))
             /\ f[i][a] = f[i \div 2][Heap!Swap(a, i, i \div 2)]
  <2>1. PICK m \in 1 .. n : m = i \div 2 /\ m < i
    BY <1>5, ParentIs
  <2>2. f[i][a] = f[m][Heap!Swap(a, i, m)]
    BY <1>2, <1>5, <2>1 DEF IsUp
  <2> DEFINE b == Heap!Swap(a, i, m)
             v == Keys(a, key)
             w == Keys(b, key)
  <2>3. /\ b \in A
        /\ \A k \in 1 .. n : b[k] = IF k = i THEN a[m] ELSE IF k = m THEN a[i] ELSE a[k]
        /\ Entries(b) = Entries(arr)
        /\ Distinct(b)
    <3>1. m # i
      BY <2>1
    <3>2. Distinct(a) /\ Entries(a) = Entries(arr)
      BY <1>5
    <3>3. n \in Nat /\ a \in [1 .. n -> Items]
      OBVIOUS
    <3> HIDE DEF Moving, A
    <3>4. /\ b \in [1 .. n -> Items]
          /\ \A k \in 1 .. n : b[k] = IF k = i THEN a[m] ELSE IF k = m THEN a[i] ELSE a[k]
          /\ Entries(b) = Entries(a)
          /\ Distinct(a) => Distinct(b)
      BY <3>1, <3>3, SwapIs
    <3> QED  BY <3>2, <3>4 DEF A
  <2> HIDE DEF b
  <2>4. b[m] = arr[n]
    BY <1>5, <2>1, <2>3
  <2>5. w \in [1 .. n -> Nat] /\ Swapped(v, w, n, i, m)
    BY <1>1, <2>1, <2>3 DEF Keys, Swapped
  <2>6. v \in [1 .. n -> Nat] /\ v[i] < v[m]
    <3> HIDE DEF A, Moving, v
    <3>1. v \in [1 .. n -> Nat] /\ priority[a[m]] = v[m] /\ v[i] = val
      <4>1. m # i
        BY <2>1
      <4> QED  BY <1>3, <1>5, <4>1 DEF v
    <3>2. priority[a[m]] > val
      BY <1>5, <2>1
    <3> QED  BY <3>1, <3>2
  <2>7. OrderedAbove(v, n, i)
    BY <1>5
  <2> HIDE DEF v, w
  <2>8. OrderedAbove(w, n, m)
    <3>1. i \in 2 .. n
      BY <1>5
    <3>2. n \in Nat
      OBVIOUS
    <3> HIDE DEF Moving, A
    <3>3. i \in {2 * m, 2 * m + 1}
      BY <2>1, <3>1, ParentIs
    <3> HIDE DEF Moving, A
    <3> QED  BY <2>5, <2>6, <2>7, <3>1, <3>2, <3>3, UpStep
  <2>9. Moving(m, b)
    BY <2>3, <2>4, <2>8 DEF w
  <2> HIDE DEF Moving
  <2> QED  BY <2>1, <2>2, <2>3, <2>9 DEF b
<1> DEFINE P == {i \in 1 .. n : \A a \in A : Moving(i, a) => Done(f[i][a])}
           rank == [i \in 1 .. n |-> i]
<1>6. ASSUME NEW i \in 1 .. n, \A j \in 1 .. n : rank[j] < rank[i] => j \in P
      PROVE  i \in P
  <2> SUFFICES ASSUME NEW a \in A, Moving(i, a) PROVE Done(f[i][a])
    OBVIOUS
  <2>1. CASE ~(i > 1 /\ priority[a[i \div 2]] > val)
    BY <1>4, <2>1
  <2>2. CASE i > 1 /\ priority[a[i \div 2]] > val
    <3> HIDE DEF Moving, Done
    <3>1. i \div 2 \in P
      BY <1>5, <1>6, <2>2
    <3> QED  BY <1>5, <2>2, <3>1
  <2> QED  BY <2>1, <2>2
<1>7. \A i \in 1 .. n : i \in P
  <2>1. rank \in [1 .. n -> Nat]
    OBVIOUS
  <2> HIDE DEF P, rank
  <2>2. Inductive(1 .. n, rank, P)
    BY <1>6, <2>1 DEF Inductive
  <2>3. 1 .. n \subseteq P
    BY <2>2, RankInduction
  <2> QED  BY <2>3
<1>8. n \in P
  <2> HIDE DEF P
  <2> QED  BY <1>7
<1>9. Moving(n, arr)
  OBVIOUS
<1>10. Done(f[n][arr])
  <2> HIDE DEF Moving, Done
  <2> QED  BY <1>8, <1>9
<1> QED  BY <1>2, <1>10 DEF IsUp

(* The comparisons of MinHeapify: first of p and its left child, then of those *)
(* and the right child.                                                       *)
Compared(v, n, p, first, m) ==
    /\ first = IF 2 * p <= n /\ v[2 * p] < v[p] THEN 2 * p ELSE p
    /\ m = IF 2 * p + 1 <= n /\ v[2 * p + 1] < v[first] THEN 2 * p + 1 ELSE first

(* The comparisons of MinHeapify find the first of a parent and its children. *)
LEMMA LeastOfThree ==
    ASSUME NEW n \in Nat, NEW v \in [1 .. n -> Nat], NEW p \in 1 .. n, NEW first, NEW m,
           Compared(v, n, p, first, m)
    PROVE  /\ m \in 1 .. n
           /\ m \in {p, 2 * p, 2 * p + 1}
           /\ NoChildBefore(v, n, p, m)
           /\ m # p => v[m] < v[p]
<1> USE DEF Compared
<1>1. v[p] \in Nat /\ (2 * p <= n => v[2 * p] \in Nat) /\ (2 * p + 1 <= n => v[2 * p + 1] \in Nat)
  OBVIOUS
<1>2. CASE 2 * p <= n /\ v[2 * p] < v[p]
  <2>1. first = 2 * p
    BY <1>2
  <2>2. CASE 2 * p + 1 <= n /\ v[2 * p + 1] < v[2 * p]
    BY <1>1, <1>2, <2>1, <2>2 DEF NoChildBefore
  <2>3. CASE ~(2 * p + 1 <= n /\ v[2 * p + 1] < v[2 * p])
    BY <1>1, <1>2, <2>1, <2>3 DEF NoChildBefore
  <2> QED  BY <2>2, <2>3
<1>3. CASE ~(2 * p <= n /\ v[2 * p] < v[p])
  <2>1. first = p
    BY <1>3
  <2>2. CASE 2 * p + 1 <= n /\ v[2 * p + 1] < v[p]
    BY <1>1, <1>3, <2>1, <2>2 DEF NoChildBefore
  <2>3. CASE ~(2 * p + 1 <= n /\ v[2 * p + 1] < v[p])
    BY <1>1, <1>3, <2>1, <2>3 DEF NoChildBefore
  <2> QED  BY <2>2, <2>3
<1> QED  BY <1>2, <1>3

(* MinHeapify of an array with only its root out of place gives a heap of the *)
(* same entries.                                                              *)
LEMMA MinHeapifyIs ==
    ASSUME NEW n \in Nat \ {0}, NEW arr \in [1 .. n -> Items], Distinct(arr),
           priority \in [Items -> Nat], OrderedBelow(Keys(arr, priority), n, 1)
    PROVE  /\ Rearranged(arr, Heap!MinHeapify(arr), n)
           /\ Ordered(Keys(Heap!MinHeapify(arr), priority), n)
<1> DEFINE A == [1 .. n -> Items]
           Moving(p, a) == /\ Distinct(a)
                           /\ Entries(a) = Entries(arr)
                           /\ OrderedBelow(Keys(a, priority), n, p)
           Done(a) == Rearranged(arr, a, n) /\ Ordered(Keys(a, priority), n)
<1>1. PICK f : IsDown(f, n)
  BY MinHeapifyEquation
<1>2. ASSUME NEW a \in A
      PROVE  /\ Keys(a, priority) \in [1 .. n -> Nat]
             /\ \A k \in 1 .. n : Keys(a, priority)[k] = priority[a[k]]
  BY DEF Keys
<1>3. ASSUME NEW p \in 1 .. n, NEW a \in A
      PROVE  /\ Heap!Least(a, p) \in 1 .. n
             /\ Heap!Least(a, p) \in {p, 2 * p, 2 * p + 1}
             /\ NoChildBefore(Keys(a, priority), n, p, Heap!Least(a, p))
             /\ Heap!Least(a, p) # p => Keys(a, priority)[Heap!Least(a, p)] < Keys(a, priority)[p]
  <2> DEFINE v == Keys(a, priority)
  <2>1. v \in [1 .. n -> Nat]
    BY <1>2
  <2>2. Len(a) = n
    OBVIOUS
  <2>3. \A i \in {2 * p, 2 * p + 1}, j \in 1 .. n : Heap!Before(a, i, j) <=> i <= n /\ v[i] < v[j]
    <3> SUFFICES ASSUME NEW i \in {2 * p, 2 * p + 1}, NEW j \in 1 .. n
                 PROVE  Heap!Before(a, i, j) <=> i <= n /\ v[i] < v[j]
      OBVIOUS
    <3>1. i <= n => v[i] = priority[a[i]]
      BY <1>2
    <3>2. v[j] = priority[a[j]]
      BY <1>2
    <3> HIDE DEF v
    <3> QED  BY <2>2, <3>1, <3>2 DEF Heap!Before
  <2> HIDE DEF v
  <2> DEFINE first == IF Heap!Before(a, 2 * p, p) THEN 2 * p ELSE p
  <2>4. first \in 1 .. n
    BY <2>3
  <2>5. Heap!Least(a, p) = IF Heap!Before(a, 2 * p + 1, first) THEN 2 * p + 1 ELSE first
    BY DEF Heap!Least
  <2> HIDE DEF first
  <2>6. Heap!Before(a, 2 * p + 1, first) <=> 2 * p + 1 <= n /\ v[2 * p + 1] < v[first]
    BY <2>3, <2>4
  <2>7. /\ Heap!Least(a, p) \in 1 .. n
        /\ Heap!Least(a, p) \in {p, 2 * p, 2 * p + 1}
        /\ NoChildBefore(v, n, p, Heap!Least(a, p))
        /\ Heap!Least(a, p) # p => v[Heap!Least(a, p)] < v[p]
    <3>1. first = IF 2 * p <= n /\ v[2 * p] < v[p] THEN 2 * p ELSE p
      BY <2>3 DEF first
    <3>2. Heap!Least(a, p) = IF 2 * p + 1 <= n /\ v[2 * p + 1] < v[first] THEN 2 * p + 1 ELSE first
      BY <2>5, <2>6
    <3>3. n \in Nat
      OBVIOUS
    <3>4. Compared(v, n, p, first, Heap!Least(a, p))
      BY <3>1, <3>2 DEF Compared
    <3> QED  BY <2>1, <3>3, <3>4, LeastOfThree
  <2> QED  BY <2>7 DEF v
<1>4. ASSUME NEW p \in 1 .. n, NEW a \in A, Moving(p, a), Heap!Least(a, p) = p
      PROVE  Done(f[p][a])
  <2>1. f[p][a] = a
    BY <1>1, <1>4 DEF IsDown
  <2>2. Rearranged(arr, a, n)
    BY <1>4 DEF Rearranged
  <2>3. OrderedBelow(Keys(a, priority), n, p)
    BY <1>4
  <2>4. NoChildBefore(Keys(a, priority), n, p, p)
    BY <1>3, <1>4
  <2>5. Ordered(Keys(a, priority), n)
    BY <1>2, <2>3, <2>4, DownEnds
  <2> QED  BY <2>1, <2>2, <2>5
<1>5. ASSUME NEW p \in 1 .. n, NEW a \in A, Moving(p, a), Heap!Least(a, p) # p
      PROVE  /\ Heap!Least(a, p) \in 1 .. n /\ p < Heap!Least(a, p)
             /\ Heap!Swap(a, p, Heap!Least(a, p)) \in A
             /\ Moving(Heap!Least(a, p), Heap!Swap(a, p, Heap!Least(a, p)))
             /\ f[p][a] = f[Heap!Least(a, p)][Heap!Swap(a, p, Heap!Least(a, p))]
  <2> DEFINE m == Heap!Least(a, p)
             b == Heap!Swap(a, p, m)
             v == Keys(a, priority)
             w == Keys(b, priority)
  <2>1. m \in 1 .. n /\ m \in {2 * p, 2 * p + 1} /\ NoChildBefore(v, n, p, m) /\ v[m] < v[p]
    BY <1>3, <1>5
  <2>2. f[p][a] = f[m][b]
    BY <1>1, <1>5 DEF IsDown
  <2> HIDE DEF m
  <2>3. /\ b \in A
        /\ \A k \in 1 .. n : b[k] = IF k = p THEN a[m] ELSE IF k = m THEN a[p] ELSE a[k]
        /\ Entries(b) = Entries(arr)
        /\ Distinct(b)
    <3>1. m # p
      BY <2>1
    <3>2. Distinct(a) /\ Entries(a) = Entries(arr)
      BY <1>5
    <3>3. n \in Nat /\ a \in [1 .. n -> Items]
      OBVIOUS
    <3> HIDE DEF Moving, A
    <3>4. /\ b \in [1 .. n -> Items]
          /\ \A k \in 1 .. n : b[k] = IF k = p THEN a[m] ELSE IF k = m THEN a[p] ELSE a[k]
          /\ Entries(b) = Entries(a)
          /\ Distinct(a) => Distinct(b)
      BY <2>1, <3>1, <3>3, SwapIs
    <3> QED  BY <3>2, <3>4 DEF A
  <2> HIDE DEF b
  <2>4. w \in [1 .. n -> Nat] /\ Swapped(v, w, n, p, m)
    BY <2>1, <2>3 DEF Keys, Swapped
  <2>5. v \in [1 .. n -> Nat]
    BY <1>2
  <2>6. OrderedBelow(v, n, p)
    BY <1>5
  <2> HIDE DEF v, w
  <2>7. OrderedBelow(w, n, m)
    <3>1. n \in Nat
      OBVIOUS
    <3> HIDE DEF Moving, A
    <3> QED  BY <2>1, <2>4, <2>5, <2>6, <3>1, DownStep
  <2>8. Moving(m, b)
    BY <2>3, <2>7 DEF w
  <2>9. p < m
    BY <2>1
  <2> HIDE DEF Moving
  <2> QED  BY <2>1, <2>2, <2>3, <2>8, <2>9 DEF b, m
<1> DEFINE P == {p \in 1 .. n : \A a \in A : Moving(p, a) => Done(f[p][a])}
           rank == [p \in 1 .. n |-> n - p]
<1>6. ASSUME NEW p \in 1 .. n, \A q \in 1 .. n : rank[q] < rank[p] => q \in P
      PROVE  p \in P
  <2> SUFFICES ASSUME NEW a \in A, Moving(p, a) PROVE Done(f[p][a])
    OBVIOUS
  <2>1. CASE Heap!Least(a, p) = p
    BY <1>4, <2>1
  <2>2. CASE Heap!Least(a, p) # p
    <3> DEFINE m == Heap!Least(a, p)
    <3> HIDE DEF Moving, Done
    <3>1. m \in 1 .. n /\ p < m
      BY <1>5, <2>2
    <3> HIDE DEF m
    <3>2. rank[m] < rank[p]
      BY <3>1
    <3> HIDE DEF rank
    <3>3. m \in P
      BY <1>6, <3>1, <3>2
    <3> QED  BY <1>5, <2>2, <3>3 DEF m
  <2> QED  BY <2>1, <2>2
<1>7. 1 \in P
  <2>1. rank \in [1 .. n -> Nat]
    OBVIOUS
  <2> HIDE DEF P, rank
  <2>2. Inductive(1 .. n, rank, P)
    BY <1>6, <2>1 DEF Inductive
  <2>3. 1 .. n \subseteq P
    BY <2>2, RankInduction
  <2> QED  BY <2>3
<1>8. Moving(1, arr)
  OBVIOUS
<1>9. Done(f[1][arr])
  <2> HIDE DEF Moving, Done
  <2> QED  BY <1>7, <1>8
<1> QED  BY <1>1, <1>9 DEF IsDown

(* No entry of an ordered array is before the first one. *)
LEMMA RootFirst ==
    ASSUME NEW n \in Nat, NEW v \in [1 .. n -> Nat], Ordered(v, n)
    PROVE  \A i \in 1 .. n : v[1] <= v[i]
<1> DEFINE P == {i \in 1 .. n : v[1] <= v[i]}
           rank == [i \in 1 .. n |-> i]
<1>1. ASSUME NEW i \in 1 .. n, \A j \in 1 .. n : rank[j] < rank[i] => j \in P
      PROVE  i \in P
  <2>1. CASE i = 1
    BY <2>1
  <2>2. CASE i # 1
    <3>1. PICK q \in 1 .. n : q = i \div 2 /\ q < i
      BY <2>2, ParentIs
    <3>2. q \in P
      BY <1>1, <3>1
    <3>3. v[q] <= v[i]
      BY <2>2, <3>1 DEF Ordered
    <3> QED  BY <3>2, <3>3
  <2> QED  BY <2>1, <2>2
<1>2. rank \in [1 .. n -> Nat]
  OBVIOUS
<1> HIDE DEF P, rank
<1>3. Inductive(1 .. n, rank, P)
  BY <1>1, <1>2 DEF Inductive
<1>4. 1 .. n \subseteq P
  BY <1>3, RankInduction
<1> QED  BY <1>4 DEF P

(* An array without an entry twice has as many entries as places. *)
LEMMA EntriesCount ==
    ASSUME NEW n \in Nat, NEW arr \in [1 .. n -> Items], Distinct(arr)
    PROVE  IsFiniteSet(Entries(arr)) /\ Cardinality(Entries(arr)) = n
<1>1. arr \in Bijection(1 .. n, Entries(arr))
  <2>1. DOMAIN arr = 1 .. n
    OBVIOUS
  <2>2. arr \in [1 .. n -> Entries(arr)]
    BY <2>1 DEF Entries
  <2>3. \A i, j \in 1 .. n : arr[i] = arr[j] => i = j
    BY <2>1 DEF Distinct
  <2>4. \A e \in Entries(arr) : \E i \in 1 .. n : arr[i] = e
    BY <2>1 DEF Entries
  <2> QED  BY <2>2, <2>3, <2>4, Fun_IsBij
<1>2. ExistsBijection(1 .. n, Entries(arr))
  BY <1>1, Fun_ExistsBij
<1> QED  BY <1>2, FS_NatBijection, FS_CountingElements

(* The heap is one: of no more entries than it has slots, none of them twice, *)
(* each after its parent.                                                     *)
HeapInv ==
    /\ Heap!TypeOK
    /\ Len(heap) <= capacity
    /\ Distinct(heap)
    /\ Ordered(Keys(heap, priority), Len(heap))

(* What the invariant says of the types, for steps that need it as numbers. *)
LEMMA HeapInvTypes ==
    ASSUME HeapInv
    PROVE  /\ Len(heap) \in 0 .. capacity
           /\ heap \in [1 .. Len(heap) -> Items]
           /\ priority \in [Items -> Nat]
           /\ Heap!Held = Entries(heap)
           /\ IsFiniteSet(Heap!Held)
           /\ Cardinality(Heap!Held) = Len(heap)
<1>1. heap \in Seq(Items) /\ priority \in [Items -> Priorities] /\ Len(heap) <= capacity
      /\ Distinct(heap)
  BY DEF HeapInv, Heap!TypeOK
<1>2. Len(heap) \in Nat /\ heap \in [1 .. Len(heap) -> Items]
  BY <1>1
<1>3. priority \in [Items -> Nat]
  BY <1>1, PrioritiesAssumption
<1>4. Heap!Held = Entries(heap)
  BY DEF Heap!Held, Entries
<1>5. IsFiniteSet(Entries(heap)) /\ Cardinality(Entries(heap)) = Len(heap)
  BY <1>1, <1>2, EntriesCount
<1> QED  BY <1>1, <1>2, <1>3, <1>4, <1>5, CapacityAssumption

(* A queue made by CreateQueue is an empty heap. *)
LEMMA HeapInit == Heap!Init => HeapInv /\ Heap!PQ!Init
<1> SUFFICES ASSUME Heap!Init PROVE HeapInv /\ Heap!PQ!Init
  OBVIOUS
<1>1. heap = <<>> /\ priority \in [Items -> Priorities] /\ extracted = Null
  BY DEF Heap!Init
<1>2. Len(heap) = 0 /\ DOMAIN heap = {} /\ heap \in Seq(Items)
  BY <1>1
<1>3. HeapInv
  BY <1>1, <1>2, CapacityAssumption DEF HeapInv, Heap!TypeOK, Distinct, Ordered
<1>4. Heap!Held = {}
  BY <1>2 DEF Heap!Held
<1> QED  BY <1>1, <1>3, <1>4 DEF Heap!PQ!Init

(* The module of the abstract queue has a Cardinality of its own. *)
LEMMA SameCardinality == \A S : Heap!PQ!Cardinality(S) = Cardinality(S)
BY DEF Heap!PQ!Cardinality, Cardinality

(* InsertValue adds the entry it is given, unless the heap is full. *)
LEMMA InsertHeap ==
    ASSUME HeapInv, NEW item \in Items, NEW val \in Priorities, Heap!InsertValue(item, val)
    PROVE  HeapInv' /\ Heap!PQ!Offer(item, val)
<1> DEFINE n == Len(heap)
           more == Append(heap, item)
           new == Heap!MovedUp(more, val)
<1>1. /\ n \in 0 .. capacity /\ heap \in [1 .. n -> Items] /\ priority \in [Items -> Nat]
      /\ Heap!Held = Entries(heap) /\ Cardinality(Heap!Held) = n
  BY HeapInvTypes
<1>2. /\ item \notin Entries(heap)
      /\ priority' = [priority EXCEPT ![item] = val]
      /\ heap' = IF n = capacity THEN heap ELSE new
      /\ extracted' = extracted
  BY <1>1 DEF Heap!InsertValue, Heap!KeySet
<1>3. val \in Nat /\ capacity \in Nat \ {0}
  BY PrioritiesAssumption, CapacityAssumption
<1>4. priority' \in [Items -> Nat] /\ priority' \in [Items -> Priorities]
      /\ extracted' \in Items \cup {Null} /\ heap \in Seq(Items)
  BY <1>1, <1>2, <1>3 DEF HeapInv, Heap!TypeOK
<1>5. Distinct(heap) /\ Ordered(Keys(heap, priority), n)
  BY DEF HeapInv
<1>6. \A k \in 1 .. n : heap[k] # item
  BY <1>1, <1>2 DEF Entries
<1>7. CASE n = capacity
  <2>1. heap' = heap
    BY <1>2, <1>7
  <2>2. Keys(heap, priority') = Keys(heap, priority)
    BY <1>1, <1>2, <1>6 DEF Keys
  <2>3. HeapInv'
    BY <1>1, <1>3, <1>4, <1>5, <2>1, <2>2 DEF HeapInv, Heap!TypeOK
  <2>4. Heap!Held' = Heap!Held
    BY <2>1 DEF Heap!Held
  <2>5. ~(Cardinality(Heap!Held) < capacity)
    <3>1. ~(n < capacity)
      BY <1>3, <1>7
    <3> HIDE DEF n
    <3> QED  BY <1>1, <3>1
  <2>6. item \notin Heap!Held
    BY <1>1, <1>2
  <2>7. Heap!Held' = IF Cardinality(Heap!Held) < capacity THEN Heap!Held \cup {item} ELSE Heap!Held
    BY <2>4, <2>5
  <2>8. UNCHANGED extracted
    BY <1>2
  <2>9. priority' = [priority EXCEPT ![item] = val]
    BY <1>2
  <2> QED  BY <2>3, <2>6, <2>7, <2>8, <2>9, SameCardinality DEF Heap!PQ!Offer
<1>8. CASE n # capacity
  <2> DEFINE m == n + 1
             v == Keys(heap, priority)
             w == Keys(more, priority')
  <2>1. more \in [1 .. m -> Items] /\ m \in Nat \ {0} /\ m <= capacity
        /\ \A k \in 1 .. m : more[k] = IF k = m THEN item ELSE heap[k]
    <3>1. /\ more \in Seq(Items) /\ Len(more) = n + 1
          /\ \A k \in 1 .. n : more[k] = heap[k]
          /\ more[n + 1] = item
      BY <1>4, AppendProperties
    <3> HIDE DEF more, n
    <3>2. n \in Nat /\ n < capacity
      BY <1>1, <1>3, <1>8
    <3>3. m \in Nat \ {0} /\ m <= capacity
      BY <1>3, <3>2
    <3>4. more \in [1 .. m -> Items]
      <4> HIDE DEF m
      <4>1. Len(more) = m
        BY <3>1 DEF m
      <4> QED  BY <3>1, <4>1
    <3>5. ASSUME NEW k \in 1 .. m PROVE more[k] = IF k = m THEN item ELSE heap[k]
      <4>1. CASE k = n + 1
        <5>1. more[k] = item /\ k = m
          BY <3>1, <4>1
        <5> QED  BY <5>1
      <4>2. CASE k # n + 1
        <5>1. k \in 1 .. n
          BY <3>2, <4>2
        <5> QED  BY <3>1, <4>2, <5>1
      <4> QED  BY <4>1, <4>2
    <3> QED  BY <3>3, <3>4, <3>5
  <2>2. Distinct(more)
    <3> HIDE DEF more
    <3>1. \A i, j \in 1 .. m : more[i] = more[j] => i = j
      BY <1>1, <1>5, <1>6, <2>1 DEF Distinct
    <3> QED  BY <2>1, <3>1 DEF Distinct
  <2> HIDE DEF more
  <2>3. priority' = [priority EXCEPT ![more[m]] = val]
    <3>1. more[m] = item
      BY <2>1
    <3> QED  BY <1>2, <3>1
  <2>4. OrderedAbove(w, m, m)
    <3>1. \A k \in 1 .. n : w[k] = v[k]
      BY <1>1, <1>2, <1>6, <2>1 DEF Keys
    <3> HIDE DEF v, w
    <3> SUFFICES ASSUME NEW i \in 2 .. m
                 PROVE  (i # m => w[i \div 2] <= w[i]) /\ ~(i \div 2 = m)
      BY DEF OrderedAbove
    <3>2. i \div 2 < i /\ i \div 2 \in 1 .. m
      BY <1>1, ParentIs
    <3>3. ASSUME i # m PROVE w[i \div 2] <= w[i]
      <4>1. i \in 2 .. n /\ i \in 1 .. n /\ i \div 2 \in 1 .. n
        BY <1>1, <3>2, <3>3
      <4>2. v[i \div 2] <= v[i]
        BY <1>5, <4>1 DEF Ordered, v
      <4> QED  BY <3>1, <4>1, <4>2
    <3> QED  BY <1>1, <3>2, <3>3
  <2>5. Rearranged(more, new, m) /\ Ordered(Keys(new, priority'), m)
    <3> HIDE DEF m
    <3> QED  BY <1>1, <1>3, <2>1, <2>2, <2>3, <2>4, MovedUpIs
  <2>6. heap' = new
    BY <1>2, <1>8
  <2> HIDE DEF new, m
  <2>7. new \in Seq(Items) /\ Len(new) = m
    BY <2>1, <2>5 DEF Rearranged
  <2>8. HeapInv'
    BY <1>4, <2>1, <2>5, <2>6, <2>7 DEF HeapInv, Heap!TypeOK, Rearranged
  <2>9. Heap!Held' = Heap!Held \cup {item}
    <3>1. Heap!Held' = Entries(more)
      BY <2>5, <2>6 DEF Heap!Held, Rearranged, Entries
    <3>2. Entries(more) = {more[k] : k \in 1 .. m} /\ Entries(heap) = {heap[k] : k \in 1 .. n}
      BY <1>1, <2>1 DEF Entries
    <3>3. \A k \in 1 .. m : more[k] \in Entries(heap) \cup {item}
      BY <1>1, <2>1, <3>2 DEF m
    <3>4. \A k \in 1 .. n : k \in 1 .. m /\ more[k] = heap[k]
      BY <1>1, <2>1 DEF m
    <3>5. m \in 1 .. m /\ more[m] = item
      BY <2>1
    <3>6. Entries(heap) \cup {item} \subseteq Entries(more)
      BY <3>2, <3>4, <3>5
    <3>7. Entries(more) \subseteq Entries(heap) \cup {item}
      BY <3>2, <3>3
    <3> QED  BY <1>1, <3>1, <3>6, <3>7
  <2>10. Cardinality(Heap!Held) < capacity
    <3> HIDE DEF n
    <3>1. n < capacity
      BY <1>1, <1>3, <1>8
    <3> QED  BY <1>1, <3>1
  <2>11. item \notin Heap!Held
    BY <1>1, <1>2
  <2> QED  BY <1>2, <2>8, <2>9, <2>10, <2>11, SameCardinality DEF Heap!PQ!Offer
<1> QED  BY <1>7, <1>8

(* ExtractMin hands out an entry that no other one is before, if there is one. *)
LEMMA ExtractHeap ==
    ASSUME HeapInv, Heap!ExtractMin
    PROVE  HeapInv' /\ (Heap!PQ!Remove \/ Heap!PQ!RemoveNone)
<1> DEFINE n == Len(heap)
           last == [heap EXCEPT ![1] = heap[n]]
           arr == SubSeq(last, 1, n - 1)
           new == Heap!MinHeapify(arr)
<1>1. /\ n \in 0 .. capacity /\ heap \in [1 .. n -> Items] /\ priority \in [Items -> Nat]
      /\ Heap!Held = Entries(heap)
  BY HeapInvTypes
<1>2. /\ priority' = priority /\ priority \in [Items -> Priorities]
      /\ heap \in Seq(Items) /\ Distinct(heap) /\ Ordered(Keys(heap, priority), n)
  BY DEF Heap!ExtractMin, HeapInv, Heap!TypeOK
<1>3. capacity \in Nat \ {0}
  BY CapacityAssumption
<1>4. CASE heap = <<>>
  <2>1. extracted' = Null /\ heap' = heap
    BY <1>4 DEF Heap!ExtractMin
  <2>2. HeapInv'
    BY <1>2, <2>1 DEF HeapInv, Heap!TypeOK
  <2>3. Heap!Held' = Heap!Held /\ Heap!Held = {}
    BY <1>4, <2>1 DEF Heap!Held
  <2> QED  BY <1>2, <2>1, <2>2, <2>3 DEF Heap!PQ!RemoveNone
<1>5. CASE heap # <<>>
  <2>1. extracted' = heap[1] /\ heap' = IF n = 1 THEN <<>> ELSE new
    BY <1>5 DEF Heap!ExtractMin
  <2>2. n \in 1 .. capacity /\ 1 \in 1 .. n /\ n \in 1 .. n
    <3>1. n # 0
      BY <1>2, <1>5
    <3> HIDE DEF n
    <3> QED  BY <1>1, <1>3, <3>1
  <2> HIDE DEF n
  <2> DEFINE v == Keys(heap, priority)
  <2>3. v \in [1 .. n -> Nat] /\ \A k \in 1 .. n : v[k] = priority[heap[k]]
    BY <1>1 DEF Keys
  <2>4. \A other \in Entries(heap) : priority[heap[1]] <= priority[other]
    <3>1. n \in Nat
      BY <2>2
    <3> HIDE DEF v
    <3>2. \A i \in 1 .. n : v[1] <= v[i]
      BY <1>2, <2>3, <3>1, RootFirst DEF v
    <3>3. \A i \in 1 .. n : priority[heap[1]] <= priority[heap[i]]
      BY <2>2, <2>3, <3>2
    <3> QED  BY <1>1, <3>3 DEF Entries
  <2>5. HeapInv' /\ Heap!Held' = Entries(heap) \ {heap[1]}
    <3>1. CASE n = 1
      <4>1. heap' = <<>>
        BY <2>1, <3>1
      <4>2. Len(<<>>) = 0 /\ <<>> \in Seq(Items) /\ DOMAIN <<>> = {}
        OBVIOUS
      <4>3. HeapInv'
        <5>1. heap[1] \in Items /\ 0 <= capacity
          BY <1>1, <1>3, <2>2
        <5>2. Heap!TypeOK'
          BY <1>2, <2>1, <4>1, <4>2, <5>1 DEF Heap!TypeOK
        <5>3. Distinct(<<>>) /\ Ordered(Keys(<<>>, priority), 0)
          BY <4>2 DEF Distinct, Ordered
        <5> QED  BY <1>2, <4>1, <4>2, <5>1, <5>2, <5>3 DEF HeapInv
      <4>4. Heap!Held' = {}
        BY <4>1, <4>2 DEF Heap!Held
      <4>5. Entries(heap) = {heap[1]}
        BY <1>1, <3>1 DEF Entries
      <4> QED  BY <4>3, <4>4, <4>5
    <3>2. CASE n # 1
      <4> DEFINE m == n - 1
                 w == Keys(arr, priority)
      <4>1. m \in Nat \ {0} /\ m <= capacity /\ n = m + 1
        BY <1>3, <2>2, <3>2
      <4>2. arr \in [1 .. m -> Items]
            /\ \A k \in 1 .. m : arr[k] = IF k = 1 THEN heap[n] ELSE heap[k]
        <5>1. last \in Seq(Items) /\ Len(last) = n
              /\ \A k \in 1 .. n : last[k] = IF k = 1 THEN heap[n] ELSE heap[k]
          BY <1>1, <1>2, <2>2
        <5>2. arr \in Seq(Items) /\ Len(arr) = m /\ \A k \in 1 .. m : arr[k] = last[k]
          <6> HIDE DEF last
          <6>1. 1 \in 1 .. Len(last) /\ n - 1 \in 1 .. Len(last)
            BY <2>2, <4>1, <5>1
          <6> QED  BY <4>1, <5>1, <6>1, SubSeqProperties
        <5> HIDE DEF arr, last
        <5>3. \A k \in 1 .. m : arr[k] = IF k = 1 THEN heap[n] ELSE heap[k]
          BY <4>1, <5>1, <5>2
        <5>4. arr \in [1 .. m -> Items]
          <6> HIDE DEF m
          <6> QED  BY <5>2
        <5> QED  BY <5>3, <5>4
      <4> HIDE DEF arr, m
      <4>3. Distinct(arr)
        <5>1. \A i, j \in 1 .. n : heap[i] = heap[j] => i = j
          BY <1>1, <1>2 DEF Distinct
        <5>2. \A i, j \in 1 .. m : arr[i] = arr[j] => i = j
          BY <4>1, <4>2, <5>1
        <5> QED  BY <4>2, <5>2 DEF Distinct
      <4>4. OrderedBelow(w, m, 1)
        <5>1. \A k \in 2 .. m : w[k] = v[k]
          BY <2>3, <4>1, <4>2 DEF Keys
        <5> HIDE DEF v, w
        <5> SUFFICES ASSUME NEW i \in 2 .. m, i \div 2 # 1 PROVE w[i \div 2] <= w[i]
          BY DEF OrderedBelow
        <5>2. i \div 2 \in 2 .. m /\ i \in 2 .. n
          BY <4>1, ParentIs
        <5>3. v[i \div 2] <= v[i]
          BY <1>2, <5>2 DEF Ordered, v
        <5> QED  BY <5>1, <5>2, <5>3
      <4>5. Rearranged(arr, new, m) /\ Ordered(Keys(new, priority), m)
        BY <1>1, <4>1, <4>2, <4>3, <4>4, MinHeapifyIs
      <4>6. heap' = new
        BY <2>1, <3>2
      <4> HIDE DEF new
      <4>7. new \in Seq(Items) /\ Len(new) = m
        BY <4>1, <4>5 DEF Rearranged
      <4>8. heap[1] \in Items
        BY <1>1, <2>2
      <4>9. HeapInv'
        BY <1>2, <2>1, <4>1, <4>5, <4>6, <4>7, <4>8 DEF HeapInv, Heap!TypeOK, Rearranged
      <4>10. Heap!Held' = Entries(heap) \ {heap[1]}
        <5>1. Heap!Held' = Entries(arr)
          BY <4>5, <4>6 DEF Heap!Held, Rearranged, Entries
        <5>2. Entries(arr) = {arr[k] : k \in 1 .. m} /\ Entries(heap) = {heap[k] : k \in 1 .. n}
          BY <1>1, <4>2 DEF Entries
        <5>3. \A i, j \in 1 .. n : heap[i] = heap[j] => i = j
          BY <1>1, <1>2 DEF Distinct
        <5>4. \A k \in 1 .. m : arr[k] \in Entries(heap) \ {heap[1]}
          BY <2>2, <4>1, <4>2, <5>2, <5>3
        <5>5. ASSUME NEW k \in 1 .. n, k # 1 PROVE heap[k] \in Entries(arr)
          <6>1. CASE k = n
            <7>1. 1 \in 1 .. m /\ arr[1] = heap[k]
              BY <4>1, <4>2, <6>1
            <7> QED  BY <5>2, <7>1
          <6>2. CASE k # n
            <7>1. k \in 1 .. m /\ arr[k] = heap[k]
              BY <4>1, <4>2, <5>5, <6>2
            <7> QED  BY <5>2, <7>1
          <6> QED  BY <6>1, <6>2
        <5>6. Entries(heap) \ {heap[1]} \subseteq Entries(arr)
          BY <5>2, <5>5
        <5>7. Entries(arr) \subseteq Entries(heap) \ {heap[1]}
          BY <5>2, <5>4
        <5> QED  BY <5>1, <5>6, <5>7
      <4> QED  BY <4>9, <4>10
    <3> QED  BY <3>1, <3>2
  <2>6. heap[1] \in Entries(heap)
    BY <1>1, <2>2 DEF Entries
  <2> QED  BY <1>1, <1>2, <2>1, <2>4, <2>5, <2>6 DEF Heap!PQ!Remove
<1> QED  BY <1>4, <1>5

(* Both operations, and steps that leave the heap alone. *)
LEMMA HeapStep ==
    ASSUME HeapInv, [Heap!Next]_(Heap!vars)
    PROVE  HeapInv' /\ [Heap!PQ!Next]_(Heap!PQ!vars)
<1>1. CASE UNCHANGED Heap!vars
  <2>1. UNCHANGED <<heap, priority, extracted>>
    BY <1>1 DEF Heap!vars
  <2>2. HeapInv'
    BY <2>1 DEF HeapInv, Heap!TypeOK, Distinct, Ordered, Keys
  <2>3. Heap!Held' = Heap!Held
    BY <2>1 DEF Heap!Held
  <2> QED  BY <2>1, <2>2, <2>3 DEF Heap!PQ!vars
<1>2. CASE Heap!ExtractMin
  BY <1>2, ExtractHeap DEF Heap!PQ!Next
<1>3. ASSUME NEW item \in Items, NEW val \in Priorities, Heap!InsertValue(item, val)
      PROVE  HeapInv' /\ Heap!PQ!Next
  BY <1>3, InsertHeap DEF Heap!PQ!Next
<1> QED  BY <1>1, <1>2, <1>3 DEF Heap!Next

(* The heap of any capacity keeps its types, whatever the calls. *)
THEOREM HeapTypeCorrect == Heap!Spec => []Heap!TypeOK
<1>1. HeapInv => Heap!TypeOK
  BY DEF HeapInv
<1>2. HeapInv /\ [Heap!Next]_(Heap!vars) => HeapInv'
  BY HeapStep
<1>3. Heap!Init => HeapInv
  BY HeapInit
<1> QED  BY <1>1, <1>2, <1>3, PTL DEF Heap!Spec

(* The binary heap is the priority queue it stands for. *)
THEOREM HeapImplementsPriorityQueue == Heap!Spec => Heap!ImplementsPriorityQueue
<1>1. HeapInv /\ [Heap!Next]_(Heap!vars) => HeapInv'
  BY HeapStep
<1>2. HeapInv /\ [Heap!Next]_(Heap!vars) => [Heap!PQ!Next]_(Heap!PQ!vars)
  BY HeapStep
<1>3. Heap!Init => HeapInv /\ Heap!PQ!Init
  BY HeapInit
<1> QED  BY <1>1, <1>2, <1>3, PTL DEF Heap!Spec, Heap!ImplementsPriorityQueue, Heap!PQ!Spec

------------------------------------------------------------------------------
(* A step of the three structures is a step of each, or leaves it alone.      *)
LEMMA StructuresAreTheirs == StructuresSpec => Spec /\ Heap!Spec /\ Memory!Spec
<1>1. StructuresInit => Init /\ Heap!Init /\ Memory!Init
  BY DEF StructuresInit
<1>2. [StructuresNext]_allVars =>
            /\ [Next]_vars
            /\ [Heap!Next]_(Heap!vars)
            /\ [Memory!Next]_(Memory!vars)
  BY DEF StructuresNext, allVars, heapVars, memoryVars, vars, Heap!vars, Memory!vars
<1> QED  BY <1>1, <1>2, PTL DEF StructuresSpec, Spec, Heap!Spec, Memory!Spec

(* The fields of the structures keep their ranges: the queue stays in its     *)
(* slots, the heap and the tree have entries and nodes of theirs only.        *)
THEOREM StructuresTypeCorrect == StructuresSpec => []TypesOK
<1>1. TypeOK /\ Heap!TypeOK /\ Memory!TypeOK => TypesOK
  BY DEF TypesOK
<1> QED  BY <1>1, StructuresAreTheirs, QueueTypeCorrect, HeapTypeCorrect,
            MemoryTypeCorrect, PTL

(* Buddies coalesce: the tree of the memory is what the blocks held need.     *)
THEOREM StructuresCoalesce == StructuresSpec => []TreeIsWhatIsHeld
<1>1. Memory!TreeIsWhatIsHeld => TreeIsWhatIsHeld
  BY DEF TreeIsWhatIsHeld
<1> QED  BY <1>1, StructuresAreTheirs, MemoryCoalesces, PTL

(* The ready queue of SRTN and HPF serves a PCB of the least priority first,  *)
(* and loses one only when it is full.                                        *)
THEOREM StructuresImplementPriorityQueue == StructuresSpec => ImplementsPriorityQueue
<1> QED  BY StructuresAreTheirs, HeapImplementsPriorityQueue, PTL
         DEF ImplementsPriorityQueue

(* The memory gives out disjoint aligned blocks, each the least that serves,  *)
(* and refuses a request only when there is none.                             *)
THEOREM StructuresImplementMemory == StructuresSpec => ImplementsMemory
<1> QED  BY StructuresAreTheirs, MemoryImplementsAbstract, PTL DEF ImplementsMemory
===============================================================================
