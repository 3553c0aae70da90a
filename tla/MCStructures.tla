---------------------------- MODULE MCStructures ----------------------------
(* The data structures of the scheduler for model checking: the ready queue   *)
(* of each algorithm and the memory.  They share no state, so each behaviour  *)
(* exercises one of them and the others stay as they were made.               *)
EXTENDS ReadyQueue, TLC

CONSTANTS Priorities, Depth, Requests

ASSUME PrioritiesAssumption == Priorities \subseteq Nat
ASSUME DepthAssumption == Depth \in Nat \ {0}
ASSUME RequestsAssumption == Requests \subseteq Nat

VARIABLES
    structure,                      \* the one this behaviour is about
    heap, priority, extracted,      \* the priority queue
    tree, held, granted             \* the memory

heapVars == <<heap, priority, extracted>>
memoryVars == <<tree, held, granted>>
allVars == <<structure, vars, heapVars, memoryVars>>

Heap == INSTANCE PriorityQueue WITH returned <- extracted
Memory == INSTANCE Buddy

(* Every size from none at all to one more than there is. *)
Sizes == 0 .. 2 ^ Depth + 1

(* PCBs are interchangeable: only their priorities tell them apart. *)
Interchangeable == Permutations(Items)

StructuresInit ==
    /\ structure \in {"queue", "heap", "memory"}
    /\ Init
    /\ Heap!Init
    /\ Memory!Init
    /\ structure # "heap" => \A item \in Items, p \in Priorities : priority[item] <= p
    /\ structure # "memory" => \A bytes \in Requests : granted.size <= bytes

StructuresNext ==
    /\ UNCHANGED structure
    /\ \/ structure = "queue" /\ Next /\ UNCHANGED <<heapVars, memoryVars>>
       \/ structure = "heap" /\ Heap!Next /\ UNCHANGED <<vars, memoryVars>>
       \/ structure = "memory" /\ Memory!Next /\ UNCHANGED <<vars, heapVars>>

StructuresSpec == StructuresInit /\ [][StructuresNext]_allVars

------------------------------------------------------------------------------
TypesOK == TypeOK /\ Heap!TypeOK /\ Memory!TypeOK

(* The tree of the memory is what the blocks still held need, and nothing     *)
(* more: buddies coalesce, whatever the order of the calls.                   *)
TreeIsWhatIsHeld == Memory!TreeIsWhatIsHeld

(* The ready queue of SRTN and HPF is a priority queue that forgets a PCB     *)
(* only when it is full.                                                      *)
ImplementsPriorityQueue == Heap!ImplementsPriorityQueue

(* The memory gives out disjoint blocks, each the least that serves, and      *)
(* refuses only when there is none.                                           *)
ImplementsMemory == Memory!ImplementsMemory
==============================================================================
