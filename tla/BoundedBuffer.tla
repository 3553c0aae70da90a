---------------------------- MODULE BoundedBuffer ----------------------------
(* What a shared buffer promises the programs around it: an item waits for    *)
(* room, a taker waits for an item, and items are taken in the order in which *)
(* they were put in, each of them once.                                       *)
EXTENDS Sequences, Naturals

CONSTANTS Items, Takers, Capacity, Nothing

VARIABLES
    queue,      \* the items in the buffer, oldest first
    taken       \* what each taker took last

vars == <<queue, taken>>

Init ==
    /\ queue = <<>>
    /\ taken = [taker \in Takers |-> Nothing]

Put(item) ==
    /\ Len(queue) < Capacity
    /\ queue' = Append(queue, item)
    /\ UNCHANGED taken

Take(taker) ==
    /\ queue # <<>>
    /\ taken' = [taken EXCEPT ![taker] = Head(queue)]
    /\ queue' = Tail(queue)

Next ==
    \/ \E item \in Items : Put(item)
    \/ \E taker \in Takers : Take(taker)

Spec == Init /\ [][Next]_vars
==============================================================================
