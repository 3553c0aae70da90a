---------------------------- MODULE AbstractMemory ----------------------------
(* What a buddy memory promises: a request is rounded up to a power of two,   *)
(* at most the whole memory, and gets an aligned block of that size that      *)
(* overlaps no block in use; it is refused only when there is none.           *)
EXTENDS Integers, FiniteSets

CONSTANTS MemSize, Requests, Nowhere

VARIABLES
    blocks,     \* the blocks in use, as [start, size]
    reply       \* the last request, and the start of its block or Nowhere

vars == <<blocks, reply>>

Init == blocks = {} /\ reply \in [request : Requests, start : {Nowhere}]

(* The least power of two that is at least n, or all there is. *)
Rounded(n) ==
    IF n >= MemSize THEN MemSize
    ELSE CHOOSE size \in {2 ^ k : k \in 0 .. n} :
            size >= n /\ (size > 1 => size \div 2 < n)

Overlap(a, b) == a.start < b.start + b.size /\ b.start < a.start + a.size

Block(start, size) == [start |-> start, size |-> size]

Available(size) ==
    {start \in 0 .. MemSize - size :
        /\ start % size = 0
        /\ \A b \in blocks : ~Overlap(Block(start, size), b)}

Grant(request) ==
    \E start \in Available(Rounded(request)) :
        /\ blocks' = blocks \cup {Block(start, Rounded(request))}
        /\ reply' = [request |-> request, start |-> start]

Refuse(request) ==
    /\ Available(Rounded(request)) = {}
    /\ reply' = [request |-> request, start |-> Nowhere]
    /\ UNCHANGED blocks

Release(b) == blocks' = blocks \ {b} /\ UNCHANGED reply

Next ==
    \/ \E request \in Requests : Grant(request) \/ Refuse(request)
    \/ \E b \in blocks : Release(b)

Spec == Init /\ [][Next]_vars
==============================================================================
