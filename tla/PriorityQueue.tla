----------------------------- MODULE PriorityQueue -----------------------------
(* priority_queue.c: the binary min-heap of PCB pointers that SRTN and HPF    *)
(* use as ready queue.  array[i] of the code is heap[i + 1]; the slots past   *)
(* size are not modelled, no operation reads them.                            *)
EXTENDS Integers, Sequences, FiniteSets

CONSTANTS
    Items, capacity, Null,  \* as in ReadyQueue
    Priorities              \* numbers, see MCStructures

VARIABLES
    heap,       \* array[0 .. size - 1]
    priority,   \* the priority field of every PCB
    returned    \* what the last ExtractMin returned

vars == <<heap, priority, returned>>

Held == {heap[i] : i \in DOMAIN heap}

TypeOK ==
    /\ heap \in Seq(Items)
    /\ priority \in [Items -> Priorities]
    /\ returned \in Items \cup {Null}

Init ==
    /\ heap = <<>>
    /\ priority \in [Items -> Priorities]
    /\ returned = Null

Swap(arr, i, j) == [arr EXCEPT ![i] = arr[j], ![j] = arr[i]]

(* Mutant: the last entry is not looked at. *)
BeforeShort(arr, i, j) == i < Len(arr) /\ priority[arr[i]] < priority[arr[j]]

(* The comparison of the heap's nodes; a child past the end never wins. *)
Before(arr, i, j) == i <= Len(arr) /\ priority[arr[i]] < priority[arr[j]]

(* The least of a parent and its two children, the parent or left on a tie. *)
Least(arr, parent) ==
    LET first == IF Before(arr, 2 * parent, parent) THEN 2 * parent ELSE parent
    IN  IF Before(arr, 2 * parent + 1, first) THEN 2 * parent + 1 ELSE first

(* MinHeapify of the root, and of the child it is swapped with. *)
MinHeapify(array) ==
    LET n == Len(array)
        down[parent \in 1 .. n] ==
            [arr \in [1 .. n -> Items] |->
                LET min == Least(arr, parent)
                IN  IF min = parent THEN arr ELSE down[min][Swap(arr, parent, min)]]
    IN  down[1][array]

(* The loop of DecPriority, once the key val of the last entry is set: it     *)
(* moves up past every parent of a higher priority value.                     *)
MovedUp(array, val) ==
    LET n == Len(array)
        up[i \in 1 .. n] ==
            [arr \in [1 .. n -> Items] |->
                IF i > 1 /\ priority[arr[i \div 2]] > val
                THEN up[i \div 2][Swap(arr, i, i \div 2)]
                ELSE arr]
    IN  up[n][array]

(* The priority fields once DecPriority has replaced INT_MAX by val. *)
KeySet(item, val) == [priority EXCEPT ![item] = val]

(* InsertValue of a PCB whose priority field was set to val by the caller.    *)
InsertValue(item, val) ==
    /\ item \notin Held
    /\ priority' = KeySet(item, val)
    /\ heap' = IF Len(heap) = capacity
               THEN heap
               ELSE MovedUp(Append(heap, item), val)
    /\ UNCHANGED returned

(* ExtractMin: the last entry takes the place of the root and moves down. *)
ExtractMin ==
    /\ IF heap = <<>>
       THEN returned' = Null /\ UNCHANGED heap
       ELSE LET last == [heap EXCEPT ![1] = heap[Len(heap)]]
            IN  /\ returned' = heap[1]
                /\ heap' = IF Len(heap) = 1
                           THEN <<>>
                           ELSE MinHeapify(SubSeq(last, 1, Len(heap) - 1))
    /\ UNCHANGED priority

Next == ExtractMin \/ \E item \in Items, val \in Priorities : InsertValue(item, val)

Spec == Init /\ [][Next]_vars

------------------------------------------------------------------------------
(* The heap holds every entry once: neither the swaps nor the last entry that *)
(* moves to the root lose or copy a PCB.  ExtractMin always gives a PCB of    *)
(* least priority value, whatever came before.                                *)
PQ == INSTANCE AbstractPriorityQueue WITH
    Capacity <- capacity, Nothing <- Null,
    entries <- Held, key <- priority, reply <- returned

ImplementsPriorityQueue == PQ!Spec
==============================================================================
