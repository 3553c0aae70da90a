-------------------------------- MODULE Buddy --------------------------------
(* buddy.c: the memory as a binary tree whose leaves are the blocks in use.   *)
(* Nodes are numbered as in a heap: 1 is the root, 2n and 2n + 1 the children *)
(* of n; the number of a node gives its data (size), start and end.           *)
EXTENDS Integers, FiniteSets

CONSTANTS
    Depth,      \* MEM_MAX_SIZE = 2 ^ Depth, see MCStructures
    Requests    \* the memory sizes asked for

MEM_MAX_SIZE == 2 ^ Depth
NULL == 0

(* One level below the blocks of one byte lie those of none (memSize 0). *)
Levels == 0 .. Depth + 1
Level(l) == 2 ^ l .. 2 ^ (l + 1) - 1
Nodes == UNION {Level(l) : l \in Levels}

LevelOf(n) == CHOOSE l \in Levels : n \in Level(l)
Data(n) == MEM_MAX_SIZE \div 2 ^ LevelOf(n)

VARIABLES
    tree,       \* the nodes there are; {} when treeRoot is NULL
    held,       \* the nodes given out by Allocate and not yet deallocated
    granted     \* what the last Allocate was asked for and returned

vars == <<tree, held, granted>>

TypeOK ==
    /\ tree \subseteq Nodes
    /\ held \subseteq Nodes
    /\ granted \in [size : Requests, node : Nodes \cup {NULL}]

Init ==
    /\ tree = {}
    /\ held = {}
    /\ granted \in [size : Requests, node : {NULL}]

Left(n) == 2 * n
Right(n) == 2 * n + 1

------------------------------------------------------------------------------
(* Mutant: rounds down. *)
BlockSizeDown(size) ==
    IF size = 0 THEN 0 ELSE 2 ^ (CHOOSE k \in 0 .. size : 2 ^ k <= size /\ 2 ^ (k + 1) > size)

(* (int)pow(2, ceil(log(size) / log(2))): exact for the sizes of a memory;    *)
(* log(0) is minus infinity and gives 0.                                      *)
BlockSize(size) ==
    IF size = 0 THEN 0 ELSE 2 ^ (CHOOSE k \in 0 .. size :
                                    2 ^ k >= size /\ \A j \in 0 .. k - 1 : 2 ^ j < size)

(* alloc1: a fresh subtree at n, down its left spine to a node of the size.   *)
alloc1(n, size) ==
    LET spine[parent \in Nodes] ==
            IF Data(parent) > size THEN spine[Left(parent)] ELSE parent
    IN  spine[n]

(* alloc2: the node it creates for a block of the size below root, or NULL.   *)
alloc2(size) ==
    LET below[root \in Nodes] ==
            LET left == Left(root) \in tree
                right == Right(root) \in tree
            IN  CASE ~left /\ ~right -> NULL
                  [] left # right /\ Data(root) = 2 * size ->
                        IF left THEN Right(root) ELSE Left(root)
                  [] left /\ right /\ Data(root) > 2 * size ->
                        IF below[Left(root)] # NULL THEN below[Left(root)]
                                                    ELSE below[Right(root)]
                  [] left /\ ~right /\ Data(root) > 2 * size ->
                        IF below[Left(root)] # NULL THEN below[Left(root)]
                                                    ELSE alloc1(Right(root), size)
                  [] ~left /\ right /\ Data(root) > 2 * size ->
                        IF below[Right(root)] # NULL THEN below[Right(root)]
                                                     ELSE alloc1(Left(root), size)
                  [] OTHER -> NULL
    IN  below[1]

(* The block an empty memory gives: all of it to whoever asks for more.       *)
FirstBlock(size) == IF MEM_MAX_SIZE > size THEN alloc1(Left(1), size) ELSE 1

(* The nodes on the way from n up to the root. *)
PathTo[n \in Nodes \cup {NULL}] ==
    IF n = NULL THEN {} ELSE {n} \cup PathTo[n \div 2]

Allocate(size) ==
    LET block == IF tree = {} THEN FirstBlock(BlockSize(size))
                              ELSE alloc2(BlockSize(size))
    IN  /\ granted' = [size |-> size, node |-> block]
        /\ IF block = NULL
           THEN UNCHANGED <<tree, held>>
           ELSE /\ tree' = tree \cup PathTo[block]
                /\ held' = held \cup {block}

(* Frees n, then every ancestor that is left without a child. *)
DeallocateUtil[n \in Nodes \cup {NULL}] ==
    [nodes \in SUBSET Nodes |->
        IF n = NULL \/ Left(n) \in nodes \/ Right(n) \in nodes
        THEN nodes
        ELSE DeallocateUtil[n \div 2][nodes \ {n}]]

(* Mutant: only the node itself is freed. *)
DeallocateNode(n) ==
    /\ n \in held
    /\ tree' = tree \ {n}
    /\ held' = held \ {n}
    /\ UNCHANGED granted

(* Deallocate: the tree without the block, treeRoot NULL if nothing is left. *)
Deallocate(n) ==
    /\ n \in held
    /\ tree' = DeallocateUtil[n][tree]
    /\ held' = held \ {n}
    /\ UNCHANGED granted

Next ==
    \/ \E size \in Requests : Allocate(size)
    \/ \E n \in Nodes : Deallocate(n)

Spec == Init /\ [][Next]_vars

------------------------------------------------------------------------------
(* Buddies coalesce: with a block deallocated, the tree is what the blocks    *)
(* still held need and nothing more, whatever the order of the calls.         *)
TreeIsWhatIsHeld == tree = UNION {PathTo[n] : n \in held}

(* Measured in half bytes: a request for no memory takes one, for the two     *)
(* nodes of size 0 that a byte can be split into exclude each other.          *)
HalfSize(size) == IF size = 0 THEN 1 ELSE 2 * size
HalfBytes(n) == 2 ^ (Depth + 1 - LevelOf(n))
HalfStart(n) == (n - 2 ^ LevelOf(n)) * HalfBytes(n)

Memory == INSTANCE AbstractMemory WITH
    MemSize <- 2 * MEM_MAX_SIZE, Nowhere <- -1,
    Requests <- {HalfSize(size) : size \in Requests},
    blocks <- {[start |-> HalfStart(n), size |-> HalfBytes(n)] : n \in held},
    reply <- [request |-> HalfSize(granted.size),
              start |-> IF granted.node = NULL THEN -1 ELSE HalfStart(granted.node)]

(* Blocks never overlap, each is the least aligned power of two that serves   *)
(* the request (all of the memory for a request beyond it), and a request is  *)
(* refused only when no such block is free: the search of alloc2 misses none. *)
ImplementsMemory == Memory!Spec
==============================================================================
