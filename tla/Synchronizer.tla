----------------------------- MODULE Synchronizer -----------------------------
(* producer.c and consumer.c: programs that find each other through three     *)
(* semaphores and three pieces of shared memory, each under a fixed key, and  *)
(* share a ring buffer through them.  The programs are started from shells,   *)
(* any number of each, and interrupted from there.                            *)
EXTENDS Ring, FiniteSets

CONSTANTS
    Producers, Consumers,   \* the programs, each of which is started once
    BUFFSIZE,
    Incarnations,           \* bound: how often the object of a key is created
    Values,                 \* bound: the numbers produced wrap around here
    Launch,                 \* "orderly" or "free", see MayStart and MayTearDown
    Interrupted             \* the programs at which somebody presses ^C

Programs == Producers \cup Consumers

ASSUME ProgramsAssumption == IsFiniteSet(Programs) /\ Producers \cap Consumers = {}
ASSUME BuffSizeAssumption == BUFFSIZE \in Nat \ {0}
ASSUME BoundsAssumption == Incarnations \in Nat \ {0} /\ Values \in Nat \ {0}
ASSUME LaunchAssumption == Launch \in {"orderly", "free"}

Sems == {"full", "empty", "mutex"}
Indices == {"read", "write"}
Keys == Sems \cup Indices \cup {"buff"}

VARIABLES
    bound,      \* the incarnation there is of each key's object, 0 for none
    made,       \* how many incarnations there have been
    val,        \* the value of each incarnation of a semaphore or an index
    slots,      \* the contents of each incarnation of the buffer
    at,         \* the call each program is about to make
    undo,       \* what a consumer's SignalHandler removes next, "-" outside it
    gone,       \* the programs that have ended; at stays where they were
    id,         \* the incarnation of each object that a program has got
    unseen,     \* the objects a producer looked for in vain (initialized = -1)
    value,      \* the global of each producer
    item        \* what each consumer removed last; Values before the first

kernel == <<bound, made, val, slots>>
local == <<id, unseen, value, item>>
vars == <<kernel, at, undo, gone, local>>

Slots == 0 .. BUFFSIZE - 1
Numbers == 0 .. Values - 1
Gens == 1 .. Incarnations

(* A new semaphore has the value 0, as the kernel makes it; new memory too.   *)
Init ==
    /\ bound = [k \in Keys |-> 0]
    /\ made = [k \in Keys |-> 0]
    /\ val = [k \in Sems \cup Indices |-> [g \in Gens |-> 0]]
    /\ slots = [g \in Gens |-> [s \in Slots |-> 0]]
    /\ at = [p \in Programs |-> <<"off", "-">>]
    /\ undo = [p \in Programs |-> "-"]
    /\ gone = {}
    /\ id = [p \in Programs |-> [k \in Keys |-> 0]]
    /\ unseen = [p \in Programs |-> {}]
    /\ value = [p \in Producers |-> 0]
    /\ item = [c \in Consumers |-> Values]

Running(p) == p \notin gone /\ undo[p] = "-"
At(p, call, on) == at[p] = <<call, on>>
Goto(p, place) == at' = [at EXCEPT ![p] = place]
Exit(p) == gone' = gone \cup {p} /\ UNCHANGED at

Exists(k) == bound[k] # 0
(* The object p has got, if it got one, has been removed since. *)
Lost(p, k) == id[p][k] = 0 \/ id[p][k] # bound[k]

------------------------------------------------------------------------------
(* semget or shmget without IPC_CREAT, to see whether the object exists. *)
Look(p, k, then) ==
    /\ At(p, "look", k)
    /\ unseen' = [unseen EXCEPT ![p] = IF Exists(k) THEN @ \ {k} ELSE @ \cup {k}]
    /\ Goto(p, then)
    /\ UNCHANGED <<kernel, gone, id, value, item>>

(* With IPC_CREAT. *)
Get(p, k, then) ==
    /\ At(p, "get", k)
    /\ \/ Exists(k) /\ UNCHANGED <<bound, made>>
       \/ /\ ~Exists(k) /\ made[k] < Incarnations
          /\ made' = [made EXCEPT ![k] = @ + 1]
          /\ bound' = [bound EXCEPT ![k] = made[k] + 1]
    /\ id' = [id EXCEPT ![p][k] = bound'[k]]
    /\ Goto(p, then)
    /\ UNCHANGED <<val, slots, gone, unseen, value, item>>

(* Without IPC_CREAT, to use the object. *)
Find(p, k, then) ==
    /\ At(p, "find", k)
    /\ id' = [id EXCEPT ![p][k] = bound[k]]
    /\ Goto(p, then)
    /\ UNCHANGED <<kernel, gone, unseen, value, item>>

(* shmat, which fails when shmget did, and also when the memory has been      *)
(* removed since, unless somebody still has it attached.                      *)
Attach(p, k, with, then) ==
    /\ At(p, "attach", k)
    /\ \/ (\E memory \in with : Lost(p, memory)) /\ Exit(p)
       \/ (\A memory \in with : id[p][memory] # 0) /\ Goto(p, then) /\ UNCHANGED gone
    /\ UNCHANGED <<kernel, local>>

Write(p, k, v) == val' = [val EXCEPT ![k][id[p][k]] = v]

(* Mutant: initialises what it found, too. *)
SetAlways(p, k, v, then) ==
    /\ At(p, "set", k)
    /\ IF k \in Sems /\ Lost(p, k)
       THEN Exit(p) /\ UNCHANGED val
       ELSE Write(p, k, v) /\ Goto(p, then) /\ UNCHANGED gone
    /\ unseen' = [unseen EXCEPT ![p] = @ \ {k}]
    /\ UNCHANGED <<bound, made, slots, id, value, item>>

(* Whoever did not see the object initialises it: SETVAL, which fails when    *)
(* the semaphore has been removed, or a store to memory that stays attached.  *)
(* That it was not seen is a local variable and forgotten.                    *)
Set(p, k, v, then) ==
    /\ At(p, "set", k)
    /\ IF k \notin unseen[p]
       THEN Goto(p, then) /\ UNCHANGED <<val, gone>>
       ELSE IF k \in Sems /\ Lost(p, k)
            THEN Exit(p) /\ UNCHANGED val
            ELSE Write(p, k, v) /\ Goto(p, then) /\ UNCHANGED gone
    /\ unseen' = [unseen EXCEPT ![p] = @ \ {k}]
    /\ UNCHANGED <<bound, made, slots, id, value, item>>

(* Mutant: does not wait. *)
DownNoWait(p, k, then) ==
    /\ At(p, "down", k)
    /\ IF Lost(p, k)
       THEN Exit(p) /\ UNCHANGED val
       ELSE Write(p, k, val[k][id[p][k]] - 1) /\ Goto(p, then) /\ UNCHANGED gone
    /\ UNCHANGED <<bound, made, slots, local>>

(* A semop on a removed semaphore fails, also for who was asleep in it. *)
Down(p, k, then) ==
    /\ At(p, "down", k)
    /\ IF Lost(p, k)
       THEN Exit(p) /\ UNCHANGED val
       ELSE /\ val[k][id[p][k]] > 0
            /\ Write(p, k, val[k][id[p][k]] - 1)
            /\ Goto(p, then) /\ UNCHANGED gone
    /\ UNCHANGED <<bound, made, slots, local>>

(* Mutant: the room made is not told. *)
UpButEmpty(p, k, then) ==
    /\ At(p, "up", k)
    /\ IF Lost(p, k)
       THEN Exit(p) /\ UNCHANGED val
       ELSE /\ Write(p, k, val[k][id[p][k]] + IF k = "empty" THEN 0 ELSE 1)
            /\ Goto(p, then) /\ UNCHANGED gone
    /\ UNCHANGED <<bound, made, slots, local>>

Up(p, k, then) ==
    /\ At(p, "up", k)
    /\ IF Lost(p, k)
       THEN Exit(p) /\ UNCHANGED val
       ELSE Write(p, k, val[k][id[p][k]] + 1) /\ Goto(p, then) /\ UNCHANGED gone
    /\ UNCHANGED <<bound, made, slots, local>>

(* signal(SIGINT, SignalHandler): from here on Handled(p). *)
Bind(p, then) ==
    /\ At(p, "bind", "-")
    /\ Goto(p, then)
    /\ UNCHANGED <<kernel, gone, local>>

(* Mutant: the index stays. *)
AdvanceNot(p, k, then) ==
    /\ At(p, "advance", k)
    /\ Goto(p, then)
    /\ UNCHANGED <<kernel, gone, local>>

Advance(p, k, then) ==
    /\ At(p, "advance", k)
    /\ Write(p, k, (val[k][id[p][k]] + 1) % BUFFSIZE)
    /\ Goto(p, then)
    /\ UNCHANGED <<bound, made, slots, gone, local>>

------------------------------------------------------------------------------
(* The functions of producer.c *)
InitIndices(p, then) ==
    \/ Look(p, "read", <<"look", "write">>)
    \/ Look(p, "write", <<"get", "read">>)
    \/ Get(p, "read", <<"get", "write">>)
    \/ Get(p, "write", <<"attach", "write">>)
    \/ Attach(p, "write", Indices, <<"set", "read">>)
    \/ Set(p, "read", 0, <<"set", "write">>)
    \/ Set(p, "write", 0, then)

InitBuff(p, then) ==
    \/ Get(p, "buff", <<"attach", "buff">>)
    \/ Attach(p, "buff", {"buff"}, then)

CreateSem(p, k, v, then) ==
    \/ Look(p, k, <<"get", k>>)
    \/ Get(p, k, <<"set", k>>)
    \/ Set(p, k, v, then)

ProduceItem(p, then) ==
    /\ At(p, "produce", "-")
    /\ value' = [value EXCEPT ![p] = (@ + 1) % Values]
    /\ Goto(p, then)
    /\ UNCHANGED <<kernel, gone, id, unseen, item>>

(* The number in hand is the one before value. *)
Store(p, then) ==
    /\ At(p, "store", "buff")
    /\ slots' = [slots EXCEPT ![id[p]["buff"]][val["write"][id[p]["write"]]] =
                                (value[p] + Values - 1) % Values]
    /\ Goto(p, then)
    /\ UNCHANGED <<bound, made, val, gone, local>>

InsertItem(p, then) ==
    \/ Store(p, <<"advance", "write">>)
    \/ Advance(p, "write", then)

Producer(p) ==
    \/ InitIndices(p, <<"get", "buff">>)
    \/ InitBuff(p, <<"look", "full">>)
    \/ CreateSem(p, "full", 0, <<"look", "empty">>)
    \/ CreateSem(p, "empty", BUFFSIZE, <<"look", "mutex">>)
    \/ CreateSem(p, "mutex", 1, <<"bind", "-">>)
    \/ Bind(p, <<"produce", "-">>)
    \/ ProduceItem(p, <<"down", "empty">>)
    \/ Down(p, "empty", <<"down", "mutex">>)
    \/ Down(p, "mutex", <<"store", "buff">>)
    \/ InsertItem(p, <<"up", "mutex">>)
    \/ Up(p, "mutex", <<"up", "full">>)
    \/ Up(p, "full", <<"produce", "-">>)

------------------------------------------------------------------------------
(* The functions of consumer.c.  A look of GetSem that fails changes nothing. *)
GetSem(p, k, then) ==
    /\ At(p, "await", k)
    /\ Exists(k)
    /\ id' = [id EXCEPT ![p][k] = bound[k]]
    /\ Goto(p, then)
    /\ UNCHANGED <<kernel, gone, unseen, value, item>>

FindIndices(p, then) ==
    \/ Find(p, "read", <<"find", "write">>)
    \/ Find(p, "write", <<"attach", "write">>)
    \/ Attach(p, "write", Indices, then)

Load(p, then) ==
    /\ At(p, "load", "buff")
    /\ item' = [item EXCEPT ![p] = slots[id[p]["buff"]][val["read"][id[p]["read"]]]]
    /\ Goto(p, then)
    /\ UNCHANGED <<kernel, gone, id, unseen, value>>

RemoverItem(p, then) ==
    \/ Load(p, <<"advance", "read">>)
    \/ Advance(p, "read", then)

Consumer(p) ==
    \/ InitBuff(p, <<"await", "full">>)
    \/ GetSem(p, "full", <<"await", "empty">>)
    \/ GetSem(p, "empty", <<"await", "mutex">>)
    \/ GetSem(p, "mutex", <<"find", "read">>)
    \/ FindIndices(p, <<"bind", "-">>)
    \/ Bind(p, <<"down", "full">>)
    \/ Down(p, "full", <<"down", "mutex">>)
    \/ Down(p, "mutex", <<"load", "buff">>)
    \/ RemoverItem(p, <<"up", "mutex">>)
    \/ Up(p, "mutex", <<"up", "empty">>)
    \/ Up(p, "empty", <<"down", "full">>)

Main(p) ==
    /\ Running(p)
    /\ IF p \in Producers THEN Producer(p) ELSE Consumer(p)
    /\ UNCHANGED undo

------------------------------------------------------------------------------
Starting(p) ==
    p \notin gone /\ at[p][1] \in {"look", "get", "attach", "set", "await", "find", "bind"}

TearingDown(p) == p \notin gone /\ undo[p] # "-"

(* With an orderly launch one producer at a time initialises the objects, and *)
(* none of the programs starts while the objects are being removed.           *)
MayStart(p) ==
    Launch = "orderly" =>
        /\ \A q \in Programs : ~TearingDown(q)
        /\ p \in Producers => \A q \in Producers : ~Starting(q)

MayTearDown == Launch = "orderly" => \A q \in Programs : ~Starting(q)

Start(p) ==
    /\ At(p, "off", "-") /\ MayStart(p)
    /\ Goto(p, IF p \in Producers THEN <<"look", "read">> ELSE <<"get", "buff">>)
    /\ UNCHANGED <<kernel, undo, gone, local>>

(* SIGINT, in whatever the program is doing.  Before the handler is bound it  *)
(* kills; a producer's handler only detaches the memory and exits; that of a  *)
(* consumer removes everything, beginning with the semaphore full.            *)
Interrupt(p) ==
    /\ p \in Interrupted
    /\ Running(p) /\ ~At(p, "off", "-")
    /\ IF p \in Producers \/ Starting(p)
       THEN gone' = gone \cup {p} /\ UNCHANGED undo
       ELSE MayTearDown /\ undo' = [undo EXCEPT ![p] = "full"] /\ UNCHANGED gone
    /\ UNCHANGED <<kernel, at, local>>

(* DestroySem exits when the semaphore is not there any more. *)
DestroySem(p, k, then) ==
    /\ undo[p] = k
    /\ IF Lost(p, k)
       THEN gone' = gone \cup {p} /\ UNCHANGED <<bound, undo>>
       ELSE /\ bound' = [bound EXCEPT ![k] = 0]
            /\ undo' = [undo EXCEPT ![p] = then]
            /\ UNCHANGED gone
    /\ UNCHANGED <<made, val, slots, at, local>>

(* shmctl, whose result is not looked at: memory of which only the key is     *)
(* removed, for it stays with the programs that have attached it.             *)
RemoveMemory(p, k, then) ==
    /\ undo[p] = k
    /\ bound' = IF Lost(p, k) THEN bound ELSE [bound EXCEPT ![k] = 0]
    /\ IF then = "-"
       THEN gone' = gone \cup {p} /\ UNCHANGED undo
       ELSE undo' = [undo EXCEPT ![p] = then] /\ UNCHANGED gone
    /\ UNCHANGED <<made, val, slots, at, local>>

(* Mutant: the mutex is left. *)
FreeButMutex(p) ==
    /\ p \notin gone
    /\ \/ DestroySem(p, "full", "empty")
       \/ DestroySem(p, "empty", "read")
       \/ RemoveMemory(p, "read", "write")
       \/ RemoveMemory(p, "write", "buff")
       \/ RemoveMemory(p, "buff", "-")

FreeResources(p) ==
    /\ p \notin gone
    /\ \/ DestroySem(p, "full", "empty")
       \/ DestroySem(p, "empty", "mutex")
       \/ DestroySem(p, "mutex", "read")
       \/ RemoveMemory(p, "read", "write")
       \/ RemoveMemory(p, "write", "buff")
       \/ RemoveMemory(p, "buff", "-")

Next == \E p \in Programs : Main(p) \/ Start(p) \/ Interrupt(p) \/ FreeResources(p)

Spec == Init /\ [][Next]_vars

(* A program that can go on is scheduled in the end. *)
FairSpec == Spec /\ \A p \in Programs : WF_vars(Main(p) \/ FreeResources(p))

------------------------------------------------------------------------------
Places ==
    {<<"off", "-">>, <<"bind", "-">>, <<"produce", "-">>, <<"store", "buff">>, <<"load", "buff">>}
        \cup ({"look", "get", "set", "await", "find", "attach", "down", "up", "advance"} \X Keys)

TypeOK ==
    /\ bound \in [Keys -> 0 .. Incarnations]
    /\ made \in [Keys -> 0 .. Incarnations]
    /\ val \in [Sems \cup Indices -> [Gens -> Nat]]
    /\ slots \in [Gens -> [Slots -> Numbers]]
    /\ at \in [Programs -> Places]
    /\ undo \in [Programs -> Keys \cup {"-"}]
    /\ gone \subseteq Programs
    /\ id \in [Programs -> [Keys -> 0 .. Incarnations]]
    /\ unseen \in [Programs -> SUBSET Keys]
    /\ value \in [Producers -> Numbers]
    /\ item \in [Consumers -> Numbers \cup {Values}]

(* Between Down(mutex) and Up(mutex). *)
Inside(p) ==
    at[p] \in {<<"store", "buff">>, <<"load", "buff">>, <<"up", "mutex">>} \cup ({"advance"} \X Indices)

(* Between the first Down and the last Up of a turn. *)
Between(p) == Inside(p) \/ at[p] \in {<<"down", "mutex">>, <<"up", "full">>, <<"up", "empty">>}

(* Two programs are never in the critical region of one buffer, nor is one    *)
(* let in where another was interrupted: nobody ever sees a half-made insert  *)
(* or removal, whatever incarnations of the semaphores come and go.           *)
MutualExclusion ==
    \A p, q \in Programs : p # q /\ Inside(p) /\ Inside(q) => id[p]["buff"] # id[q]["buff"]

(* Each of the BUFFSIZE slots is counted once: as full, as empty, or by the   *)
(* program in the middle of a turn with it, even one that was interrupted     *)
(* there.  Of semaphores that are not initialised yet none is.                *)
Turns(g) == {p \in Programs : Between(p) /\ id[p]["full"] = g}

SlotsAccounted ==
    \A g \in Gens : val["full"][g] + val["empty"][g] + Cardinality(Turns(g)) \in {0, BUFFSIZE}

(* The items of incarnation g of the buffer: those counted as full, those of  *)
(* the consumers that have not loaded theirs yet, and those of the producers  *)
(* that have not told of theirs yet.  One consumer may be between its load    *)
(* and the step of the read index.                                            *)
With(g, places) == {p \in Programs : id[p]["buff"] = g /\ at[p] \in places}

Length(g) ==
    val["full"][g]
        + Cardinality(With(g, {<<"down", "mutex">>, <<"load", "buff">>}) \cap Consumers)
        + Cardinality(With(g, {<<"up", "mutex">>, <<"up", "full">>}) \cap Producers)

Contents(g) ==
    RingSeq(slots[g],
            (val["read"][g] + Cardinality(With(g, {<<"advance", "read">>}))) % BUFFSIZE,
            Length(g), BUFFSIZE)

(* Every incarnation of the buffer is a bounded buffer: nothing is lost,      *)
(* overwritten or taken twice, and what is taken is the oldest, also with     *)
(* programs interrupted in the middle of it.                                  *)
Buffer(g) == INSTANCE BoundedBuffer WITH
    Items <- Numbers, Takers <- Consumers, Capacity <- BUFFSIZE, Nothing <- Values,
    queue <- Contents(g),
    taken <- [c \in Consumers |-> IF id[c]["buff"] = g THEN item[c] ELSE Values]

(* \A g \in Gens : Buffer(g)!Spec, written as one step. *)
ImplementsBuffers ==
    /\ \A g \in Gens : Buffer(g)!Init
    /\ [][\A g \in Gens : Buffer(g)!Next \/ UNCHANGED Buffer(g)!vars]_vars

(* Once a consumer has removed the semaphores no program waits at them for    *)
(* ever: not even one at the mutex that an interrupted program has taken.     *)
NobodyLeftBehind ==
    \A p \in Programs : id[p]["full"] # 0 /\ Lost(p, "full") ~> p \in gone

(* While no program ends and there is a producer and a consumer past its      *)
(* start-up, items keep being taken: no order of the semaphores locks up.     *)
Working(group) == \E p \in group : at[p][1] \notin {"off"} /\ ~Starting(p)

ItemsFlow ==
    <>[](gone = {} /\ Working(Producers) /\ Working(Consumers))
        => []<><<\E c \in Consumers : At(c, "load", "buff") /\ at'[c] # at[c]>>_vars
==============================================================================
