--------------------------------- MODULE Ring ---------------------------------
(* The three circular buffers of the repository, ready_queue.c, producer.c    *)
(* with consumer.c and producer_consumer.c, seen as sequences.                *)
EXTENDS Integers, Sequences

(* The n items of a ring of c slots from slot first on. *)
RingSeq(slots, first, n, c) == [k \in 1 .. n |-> slots[(first + k - 1) % c]]

(* Such a ring, with values in S. *)
IsRing(slots, first, n, c, S) ==
    /\ c \in Nat \ {0}
    /\ slots \in [0 .. c - 1 -> S]
    /\ first \in 0 .. c - 1
    /\ n \in 0 .. c

(* Its slots once x is written behind the last item. *)
Written(slots, first, n, c, x) == [slots EXCEPT ![(first + n) % c] = x]
===============================================================================
