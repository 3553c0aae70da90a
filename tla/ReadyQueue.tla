------------------------------ MODULE ReadyQueue ------------------------------
(* ready_queue.c: the circular buffer of PCB pointers that round robin uses.  *)
EXTENDS Ring

CONSTANTS Items, capacity, Null

ASSUME CapacityAssumption == capacity \in Nat \ {0}
ASSUME NullAssumption == Null \notin Items

VARIABLES
    front, rear, size,  \* the fields of struct Queue
    array,              \* its slots; a slot is never cleared
    returned            \* what the last Dequeue returned

vars == <<front, rear, size, array, returned>>

Slots == 0 .. capacity - 1

TypeOK ==
    /\ front \in Slots
    /\ rear \in Slots
    /\ size \in 0 .. capacity
    /\ array \in [Slots -> Items \cup {Null}]
    /\ returned \in Items \cup {Null}

(* Mutant: rear starts where front does. *)
InitRear ==
    /\ front = 0
    /\ rear = 0
    /\ size = 0
    /\ array = [i \in Slots |-> Null]
    /\ returned = Null

(* CreateQueue; the slots come from malloc and are never read before written. *)
Init ==
    /\ front = 0
    /\ rear = capacity - 1
    /\ size = 0
    /\ array = [i \in Slots |-> Null]
    /\ returned = Null

NeverFull == FALSE                      \* mutant
IsFull == size = capacity
IsEmpty == size = 0

AdvancedShort(i) == (i + 1) % (capacity - 1)     \* mutant: wraps a slot early
Advanced(i) == (i + 1) % capacity

Enqueue(item) ==
    /\ IF IsFull
       THEN UNCHANGED <<rear, array, size>>
       ELSE /\ rear' = Advanced(rear)
            /\ array' = [array EXCEPT ![Advanced(rear)] = item]
            /\ size' = size + 1
    /\ UNCHANGED <<front, returned>>

Dequeue ==
    /\ IF IsEmpty
       THEN /\ returned' = Null
            /\ UNCHANGED <<front, size>>
       ELSE /\ returned' = array[front]
            /\ front' = Advanced(front)
            /\ size' = size - 1
    /\ UNCHANGED <<rear, array>>

Front == IF IsEmpty THEN Null ELSE array[front]
Rear == IF IsEmpty THEN Null ELSE array[rear]

Next == Dequeue \/ \E item \in Items : Enqueue(item)

Spec == Init /\ [][Next]_vars

------------------------------------------------------------------------------
(* The items held, oldest first. *)
Contents == RingSeq(array, front, size, capacity)

(* Rear and Front show the two ends of the queue. *)
EndsShown ==
    ~IsEmpty => Front = Contents[1] /\ Rear = Contents[size]

(* Through any number of turns around the buffer, what Dequeue returns is the *)
(* oldest item held, and Enqueue on a full buffer drops the new item only.    *)
FIFO == INSTANCE BoundedFIFO WITH
    Capacity <- capacity, Nothing <- Null, queue <- Contents, reply <- returned

ImplementsFIFO == FIFO!Spec
==============================================================================
