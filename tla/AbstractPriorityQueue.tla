------------------------ MODULE AbstractPriorityQueue ------------------------
(* What the SRTN and HPF ready queue promises: a bounded set of entries from  *)
(* which a removal takes one that no other entry comes before.                *)
EXTENDS Naturals, FiniteSets

CONSTANTS Items, Capacity, Nothing, Priorities

VARIABLES
    entries,    \* the items held
    key,        \* the priority of every item; 0 is the most urgent
    reply       \* what the last removal returned

vars == <<entries, key, reply>>

Init ==
    /\ entries = {}
    /\ key \in [Items -> Priorities]
    /\ reply = Nothing

Offer(item, value) ==
    /\ item \notin entries
    /\ key' = [key EXCEPT ![item] = value]
    /\ entries' = IF Cardinality(entries) < Capacity THEN entries \cup {item} ELSE entries
    /\ UNCHANGED reply

Remove ==
    /\ \E item \in entries :
        /\ \A other \in entries : key[item] <= key[other]
        /\ entries' = entries \ {item}
        /\ reply' = item
    /\ UNCHANGED key

RemoveNone == entries = {} /\ reply' = Nothing /\ UNCHANGED <<entries, key>>

Next ==
    \/ Remove
    \/ RemoveNone
    \/ \E item \in Items, value \in Priorities : Offer(item, value)

Spec == Init /\ [][Next]_vars
==============================================================================
