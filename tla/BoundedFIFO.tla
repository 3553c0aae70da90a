----------------------------- MODULE BoundedFIFO -----------------------------
(* What the round-robin ready queue promises: items leave in the order they   *)
(* came, and an item offered to a full queue is turned away.                  *)
EXTENDS Sequences, Naturals

CONSTANTS Items, Capacity, Nothing

VARIABLES
    queue,      \* the items, oldest first
    reply       \* what the last removal returned

vars == <<queue, reply>>

Init == queue = <<>> /\ reply = Nothing

Offer(item) ==
    /\ queue' = IF Len(queue) < Capacity THEN Append(queue, item) ELSE queue
    /\ UNCHANGED reply

Remove ==
    /\ reply' = IF queue = <<>> THEN Nothing ELSE queue[1]
    /\ queue' = IF queue = <<>> THEN queue ELSE Tail(queue)

Next == Remove \/ \E item \in Items : Offer(item)

Spec == Init /\ [][Next]_vars
==============================================================================
