-------------------------- MODULE SynchronizerProofs --------------------------
(* producer.c and consumer.c launched in good order: mutual exclusion, the    *)
(* count of the slots and the bounded buffer, for any number of programs and  *)
(* any size of the buffer, with programs interrupted anywhere and the objects *)
(* removed and made again.                                                    *)
EXTENDS Synchronizer, Foundations, FiniteSetTheorems, TLAPS

StartCalls == {"look", "get", "attach", "set", "await", "find", "bind"}
LoopCalls == {"produce", "down", "store", "load", "advance", "up"}
InLoop(p) == at[p][1] \in LoopCalls

(* The places of a producer and of a consumer before each object is got. *)
ProducerBefore(k) ==
    LET read == {<<"off", "-">>, <<"look", "read">>, <<"look", "write">>, <<"get", "read">>}
        write == read \cup {<<"get", "write">>}
        buff == write \cup {<<"attach", "write">>, <<"set", "read">>, <<"set", "write">>,
                            <<"get", "buff">>}
        full == buff \cup {<<"attach", "buff">>, <<"look", "full">>, <<"get", "full">>}
        empty == full \cup {<<"set", "full">>, <<"look", "empty">>, <<"get", "empty">>}
        mutex == empty \cup {<<"set", "empty">>, <<"look", "mutex">>, <<"get", "mutex">>}
    IN  CASE k = "read" -> read [] k = "write" -> write [] k = "buff" -> buff
          [] k = "full" -> full [] k = "empty" -> empty [] k = "mutex" -> mutex

ConsumerBefore(k) ==
    LET buff == {<<"off", "-">>, <<"get", "buff">>}
        full == buff \cup {<<"attach", "buff">>, <<"await", "full">>}
        empty == full \cup {<<"await", "empty">>}
        mutex == empty \cup {<<"await", "mutex">>}
        index == mutex \cup {<<"find", "read">>, <<"find", "write">>, <<"attach", "write">>}
    IN  CASE k = "buff" -> buff [] k = "full" -> full [] k = "empty" -> empty
          [] k = "mutex" -> mutex [] k = "read" -> index [] k = "write" -> index

Before(p, k) == IF p \in Producers THEN ProducerBefore(k) ELSE ConsumerBefore(k)

IndexInv == \A k \in Indices, g \in Gens : val[k][g] \in Slots

(* What the good order means: one producer initialises at a time, and nobody  *)
(* starts while somebody removes.                                             *)
LaunchInv ==
    /\ \A p, q \in Producers : Starting(p) /\ Starting(q) => p = q
    /\ \A c \in Programs : TearingDown(c) =>
            c \in Consumers /\ InLoop(c) /\ \A q \in Programs : ~Starting(q)

(* A program that starts has got what there is, and one that has started has  *)
(* got objects that belong together.                                          *)
IdInv ==
    /\ \A p \in Programs : Starting(p) => \A k \in Keys : id[p][k] \in {0, bound[k]}
    /\ \A p \in Programs, k \in Keys : id[p][k] <= made[k]
    /\ \A p \in Programs, k \in Keys : id[p][k] = 0 => at[p] \in Before(p, k)
    /\ \A p \in Programs : InLoop(p) => \A k \in Keys : id[p][k] = id[p]["buff"]

OffInv == \A p \in Programs, k \in Keys : At(p, "off", "-") => id[p][k] = 0

(* The one consumer that is past its first removal, and what it has left. *)
Removing(c) == c \notin gone /\ undo[c] \notin {"-", "full"}

Left(k) ==
    CASE k = "empty" -> {"empty", "mutex", "read", "write", "buff"}
      [] k = "mutex" -> {"mutex", "read", "write", "buff"}
      [] k = "read" -> {"read", "write", "buff"}
      [] k = "write" -> {"write", "buff"}
      [] k = "buff" -> {"buff"}

(* The objects are all of one epoch: those that are not there are the next to *)
(* be made, or have just been removed.                                        *)
OfEpoch(e) ==
    \A k \in Keys : (bound[k] = e /\ made[k] = e) \/ (bound[k] = 0 /\ made[k] = e - 1)

EpochInv ==
    /\ \A c, d \in Programs : Removing(c) /\ Removing(d) => c = d
    /\ \A c \in Programs : Removing(c) =>
            \A k \in Keys : /\ made[k] = id[c]["buff"]
                            /\ bound[k] = IF k \in Left(undo[c]) THEN made[k] ELSE 0
    /\ (\A c \in Programs : ~Removing(c)) => \E e \in 1 .. Incarnations + 1 : OfEpoch(e)
    /\ made["empty"] <= made["full"]

MutexInv ==
    /\ \A g \in Gens : val["mutex"][g] \in {0, 1}
    /\ \A g \in Gens : g > made["mutex"] => val["mutex"][g] = 0
    /\ \A p \in Programs : Inside(p) => val["mutex"][id[p]["mutex"]] = 0
    /\ \A p, q \in Programs : Inside(p) /\ Inside(q) /\ id[p]["mutex"] = id[q]["mutex"] => p = q

Count(g) == val["full"][g] + val["empty"][g] + Cardinality(Turns(g))

CountInv ==
    \A g \in Gens : /\ Count(g) \in {0, BUFFSIZE}
                    /\ g > made["empty"] => Count(g) = 0

(* Nothing has happened at a semaphore before it is initialised. *)
Unused(k, g) ==
    IF k = "mutex"
    THEN val["mutex"][g] = 0 /\ \A q \in Programs : Inside(q) => id[q]["mutex"] # g
    ELSE Count(g) = 0

FreshInv ==
    \A p \in Producers, k \in Sems :
        p \notin gone /\ k \in unseen[p] =>
            /\ at[p] = <<"get", k>> => bound[k] = 0
            /\ at[p] = <<"set", k>> => Unused(k, id[p][k])

SyncInv ==
    /\ TypeOK /\ IndexInv /\ LaunchInv /\ OffInv /\ IdInv /\ EpochInv
    /\ MutexInv /\ CountInv /\ FreshInv

------------------------------------------------------------------------------
(* The calls of each phase, and the objects a place says are got. *)
LEMMA LoopPlaces ==
    ASSUME TypeOK, IdInv, NEW p \in Programs, InLoop(p)
    PROVE  /\ ~Starting(p) /\ at[p] \in Places
           /\ id[p]["buff"] \in Gens
           /\ \A k \in Keys : id[p][k] = id[p]["buff"]
<1>1. at[p] \in Places /\ id[p] \in [Keys -> 0 .. Incarnations]
  BY DEF TypeOK
<1>2. at[p] \notin Before(p, "buff")
  BY DEF InLoop, LoopCalls, Before, ProducerBefore, ConsumerBefore
<1>3. id[p]["buff"] # 0
  BY <1>2 DEF IdInv, Keys
<1>4. id[p]["buff"] \in Gens
  BY <1>1, <1>3, BoundsAssumption DEF Keys, Gens
<1> QED  BY <1>1, <1>4 DEF IdInv, InLoop, LoopCalls, Starting

LEMMA InsideLoop ==
    ASSUME TypeOK, NEW p \in Programs
    PROVE  (Inside(p) => Between(p)) /\ (Between(p) => InLoop(p))
  BY DEF Inside, Between, InLoop, LoopCalls, Indices

LEMMA SyncInit == Init => SyncInv
<1> SUFFICES ASSUME Init PROVE SyncInv
  OBVIOUS
<1>1. TypeOK /\ IndexInv
  BY BuffSizeAssumption, BoundsAssumption
     DEF Init, TypeOK, IndexInv, Slots, Numbers, Gens, Places, Keys, Sems, Indices
<1>2. LaunchInv /\ OffInv /\ IdInv
  BY BoundsAssumption DEF Init, LaunchInv, OffInv, IdInv, Starting, TearingDown, InLoop, LoopCalls, Programs,
     Before, ProducerBefore, ConsumerBefore, Keys, Sems, Indices
<1>3. EpochInv
  <2>1. OfEpoch(1)
    BY DEF Init, OfEpoch
  <2>2. 1 \in 1 .. Incarnations + 1
    BY BoundsAssumption
  <2> QED  BY <2>1, <2>2 DEF Init, EpochInv, Removing, Keys, Sems
<1>4. \A p \in Programs : ~Inside(p) /\ ~Between(p)
  BY DEF Init, Inside, Between, Indices
<1>5. MutexInv
  BY <1>4 DEF Init, MutexInv, Sems, Gens
<1>6. \A g \in Gens : Count(g) = 0
  <2>1. \A g \in Gens : Turns(g) = {}
    BY <1>4 DEF Turns
  <2>2. Cardinality({}) = 0
    BY FS_EmptySet
  <2>3. \A g \in Gens : val["full"][g] = 0 /\ val["empty"][g] = 0
    BY DEF Init, Sems
  <2> QED  BY <2>1, <2>2, <2>3 DEF Count
<1>7. CountInv
  BY <1>6 DEF CountInv
<1>8. FreshInv
  BY DEF Init, FreshInv, Programs
<1> QED  BY <1>1, <1>2, <1>3, <1>5, <1>7, <1>8 DEF SyncInv

(* While some program starts nobody removes, and all there is is of one epoch. *)
LEMMA StartingEpoch ==
    ASSUME SyncInv, NEW p \in Programs, Starting(p)
    PROVE  /\ \A c \in Programs : ~TearingDown(c) /\ ~Removing(c)
           /\ \E e \in 1 .. Incarnations + 1 : OfEpoch(e)
<1>1. \A c \in Programs : ~TearingDown(c)
  BY DEF SyncInv, LaunchInv
<1>2. \A c \in Programs : ~Removing(c)
  BY <1>1 DEF TearingDown, Removing
<1> QED  BY <1>1, <1>2 DEF SyncInv, EpochInv

(* Where the start-up leads. *)
StartPlaces ==
    {place \in Places : place[1] \in StartCalls} \cup {<<"produce", "-">>, <<"down", "full">>}

StepFrom(p, then) ==
    /\ Running(p) /\ UNCHANGED undo
    /\ then \in StartPlaces

(* What is got stays got. *)
Onward(p, then, got) == \A k \in Keys \ got : at[p] \in Before(p, k) => then \in Before(p, k)

(* A program that moves outside of the turns takes no part in the counts.     *)
LEMMA QuietMove ==
    ASSUME NEW p \in Programs, ~Between(p), ~Between(p)',
           \A q \in Programs : q # p => at'[q] = at[q] /\ id'[q] = id[q]
    PROVE  /\ \A q \in Programs : Inside(q)' => q # p /\ Inside(q) /\ id'[q] = id[q]
           /\ \A g \in Gens : Turns(g)' = Turns(g)
<1>1. ~Inside(p) /\ ~Inside(p)'
  BY DEF Between
<1>2. \A q \in Programs : q # p => Inside(q)' = Inside(q) /\ Between(q)' = Between(q)
  BY DEF Inside, Between
<1>3. \A g \in Gens : Turns(g)' = Turns(g)
  BY <1>2 DEF Turns
<1> QED  BY <1>1, <1>2, <1>3

(* A program that starts goes on to start, or has started. *)
LEMMA StartOrder ==
    ASSUME SyncInv, NEW p \in Programs, Starting(p), UNCHANGED <<gone, undo>>,
           NEW then \in StartPlaces, at' = [at EXCEPT ![p] = then],
           \A q \in Programs : q # p => id'[q] = id[q]
    PROVE  /\ \A q \in Programs : Starting(q)' => Starting(q)
           /\ \A c \in Programs : ~TearingDown(c)' /\ ~Removing(c)'
           /\ LaunchInv' /\ OffInv'
           /\ ~Between(p) /\ ~Between(p)'
           /\ at'[p] = then /\ \A q \in Programs : q # p => at'[q] = at[q]
<1>1. at[p] \in Places /\ at'[p] = then /\ \A q \in Programs : q # p => at'[q] = at[q]
  BY DEF SyncInv, TypeOK
<1>2. \A q \in Programs : Starting(q)' => Starting(q)
  BY <1>1 DEF Starting
<1>3. \A c \in Programs : ~TearingDown(c)' /\ ~Removing(c)'
  BY StartingEpoch DEF TearingDown, Removing
<1>4. LaunchInv'
  BY <1>2, <1>3 DEF SyncInv, LaunchInv, Programs
<1>5. ~Between(p) /\ ~Between(p)'
  BY <1>1 DEF Starting, Between, Inside, Indices, StartPlaces, StartCalls
<1>6. OffInv'
  BY <1>1 DEF SyncInv, OffInv, At, StartPlaces, StartCalls
<1> QED  BY <1>1, <1>2, <1>3, <1>4, <1>5, <1>6

(* A step of the start-up that neither makes nor initialises an object.       *)
LEMMA StartMove ==
    ASSUME SyncInv, NEW p \in Programs, Running(p), Starting(p),
           NEW then \in StartPlaces, at' = [at EXCEPT ![p] = then],
           UNCHANGED <<bound, made, val, gone, undo>>, TypeOK',
           \A q \in Programs : q # p => id'[q] = id[q] /\ unseen'[q] = unseen[q],
           \A k \in Keys : /\ id'[p][k] \in {id[p][k], bound[k]}
                           /\ id'[p][k] = 0 => then \in Before(p, k),
           \A k \in Sems : p \in Producers /\ k \in unseen'[p] =>
                /\ then = <<"get", k>> => bound[k] = 0
                /\ then = <<"set", k>> => Unused(k, id'[p][k])
    PROVE  SyncInv'
<1>1. TypeOK /\ at'[p] = then /\ \A q \in Programs : q # p => at'[q] = at[q]
  BY StartOrder DEF SyncInv
<1>2. \A q \in Programs : Starting(q)' => Starting(q)
  BY StartOrder
<1>3. \A c \in Programs : ~Removing(c)'
  BY StartOrder
<1>4. LaunchInv' /\ OffInv' /\ ~Between(p) /\ ~Between(p)'
  BY StartOrder
<1>6. PICK e \in 1 .. Incarnations + 1 : OfEpoch(e)
  BY StartingEpoch
<1>7. EpochInv'
  <2>1. OfEpoch(e)'
    BY <1>6 DEF OfEpoch
  <2> QED  BY <1>3, <2>1 DEF SyncInv, EpochInv
<1>8. \A k \in Keys : id[p][k] \in {0, bound[k]}
  BY DEF SyncInv, IdInv
<1>9. \A k \in Keys : bound[k] <= made[k] /\ bound[k] \in {0, e}
  BY <1>6 DEF OfEpoch
<1>10. IdInv'
  <2>1. \A q \in Programs : Starting(q)' => \A k \in Keys : id'[q][k] \in {0, bound'[k]}
    BY <1>2, <1>8 DEF SyncInv, IdInv
  <2>2. \A q \in Programs, k \in Keys : id'[q][k] <= made'[k]
    BY <1>9 DEF SyncInv, IdInv
  <2>3. \A q \in Programs, k \in Keys : id'[q][k] = 0 => at'[q] \in Before(q, k)
    BY <1>1 DEF SyncInv, IdInv
  <2>4. \A q \in Programs : InLoop(q)' => \A k \in Keys : id'[q][k] = id'[q]["buff"]
    <3>1. ASSUME then[1] \in LoopCalls PROVE \A k \in Keys : id'[p][k] = id'[p]["buff"]
      <4>1. \A k \in Keys : then \notin Before(p, k)
        BY <3>1 DEF LoopCalls, Before, ProducerBefore, ConsumerBefore, Keys, Sems, Indices
      <4>2. \A k \in Keys : id'[p][k] = e
        BY <1>8, <1>9, <4>1
      <4> QED  BY <4>2 DEF Keys
    <3> QED  BY <1>1, <3>1 DEF SyncInv, IdInv, InLoop
  <2> QED  BY <2>1, <2>2, <2>3, <2>4 DEF IdInv
<1>12. /\ \A q \in Programs : Inside(q)' => q # p /\ Inside(q) /\ id'[q] = id[q]
       /\ \A g \in Gens : Count(g)' = Count(g)
  BY <1>1, <1>4, QuietMove DEF Count
<1>13. MutexInv'
  BY <1>12 DEF SyncInv, MutexInv
<1>14. CountInv'
  BY <1>12 DEF SyncInv, CountInv
<1>15. \A k \in Sems, g \in Gens : Unused(k, g) => Unused(k, g)'
  BY <1>12 DEF Unused
<1>16. FreshInv'
  <2>1. ASSUME NEW q \in Producers, NEW k \in Sems, q \notin gone, k \in unseen'[q]
        PROVE  /\ at'[q] = <<"get", k>> => bound[k] = 0
               /\ at'[q] = <<"set", k>> => Unused(k, id[q][k])'
    <3>1. q \in Programs /\ at'[q] \in Places /\ id'[q][k] \in 0 .. Incarnations /\ k \in Keys
      BY DEF Programs, TypeOK, Keys
    <3>2. at'[q] = <<"set", k>> => at'[q] \notin Before(q, k)
      BY DEF Before, ProducerBefore, Sems
    <3>3. at'[q] = <<"set", k>> => id'[q][k] \in Gens
      BY <1>10, <3>1, <3>2, BoundsAssumption DEF IdInv, Gens
    <3>4. CASE q = p
      <4>1. ASSUME at'[q] = <<"set", k>>, NEW g \in Gens, g = id'[q][k] PROVE Unused(k, g)'
        <5>1. Unused(k, id'[p][k]) /\ g = id'[p][k]
          BY <1>1, <2>1, <3>4, <4>1
        <5>2. Unused(k, g)
          BY <5>1
        <5> QED  BY <1>15, <5>2
      <4>2. at'[q] = <<"set", k>> => Unused(k, id[q][k])'
        BY <3>3, <4>1
      <4> QED  BY <1>1, <2>1, <3>4, <4>2
    <3>5. CASE q # p
      <4>1. at'[q] = at[q] /\ id'[q] = id[q] /\ unseen'[q] = unseen[q]
        BY <1>1, <3>1, <3>5
      <4> QED  BY <1>15, <2>1, <3>3, <4>1 DEF SyncInv, FreshInv
    <3> QED  BY <3>4, <3>5
  <2> QED  BY <2>1 DEF FreshInv
<1>17. IndexInv'
  BY DEF SyncInv, IndexInv
<1> QED  BY <1>4, <1>7, <1>10, <1>13, <1>14, <1>16, <1>17 DEF SyncInv

(* The first to ask for an object makes it. *)
LEMMA CreateMove ==
    ASSUME SyncInv, NEW p \in Programs, NEW k0 \in Keys, NEW then, StepFrom(p, then),
           Get(p, k0, then), ~Exists(k0), Starting(p), TypeOK', then[1] \in StartCalls,
           Onward(p, then, {k0}),
           \A k \in Sems : then # <<"get", k>> /\ (then = <<"set", k>> => k = k0),
           k0 \in Sems => p \in Producers /\ then = <<"set", k0>>,
           k0 = "empty" => id[p]["full"] # 0
    PROVE  SyncInv'
<1>0. /\ Running(p) /\ then \in StartPlaces /\ at' = [at EXCEPT ![p] = then]
      /\ bound[k0] = 0 /\ made[k0] < Incarnations
      /\ made' = [made EXCEPT ![k0] = @ + 1] /\ bound' = [bound EXCEPT ![k0] = made[k0] + 1]
      /\ id' = [id EXCEPT ![p][k0] = made[k0] + 1]
      /\ UNCHANGED <<val, gone, undo, unseen>>
      /\ \A q \in Programs : q # p => id'[q] = id[q]
  BY DEF StepFrom, Get, Exists, Goto, SyncInv, TypeOK
<1>1. TypeOK /\ at'[p] = then /\ \A q \in Programs : q # p => at'[q] = at[q]
  BY <1>0, StartOrder DEF SyncInv
<1>2. \A q \in Programs : Starting(q)' => Starting(q)
  BY <1>0, StartOrder
<1>3. \A c \in Programs : ~Removing(c)'
  BY <1>0, StartOrder
<1>4. LaunchInv' /\ OffInv' /\ ~Between(p) /\ ~Between(p)'
  BY <1>0, StartOrder
<1>5. PICK e \in 1 .. Incarnations + 1 : OfEpoch(e)
  BY StartingEpoch
<1>6. /\ bound \in [Keys -> 0 .. Incarnations] /\ made \in [Keys -> 0 .. Incarnations]
      /\ id \in [Programs -> [Keys -> 0 .. Incarnations]]
      /\ made[k0] = e - 1 /\ e <= Incarnations
  BY <1>0, <1>5, BoundsAssumption DEF OfEpoch, SyncInv, TypeOK
<1>7. /\ bound'[k0] = e /\ made'[k0] = e /\ id'[p][k0] = e
      /\ \A k \in Keys : k # k0 => bound'[k] = bound[k] /\ made'[k] = made[k] /\ id'[p][k] = id[p][k]
      /\ \A q \in Programs : q # p => id'[q] = id[q]
  BY <1>0, <1>6
<1>8. EpochInv'
  <2>1. OfEpoch(e)'
    BY <1>0, <1>5, <1>7 DEF OfEpoch
  <2>2. k0 = "empty" => made["full"] = e
    <3>1. "full" \in Keys
      BY DEF Keys, Sems
    <3>2. k0 = "empty" => bound["full"] # 0
      BY <1>0, <1>6, <3>1 DEF SyncInv, IdInv
    <3> QED  BY <1>0, <1>5, <3>1, <3>2 DEF OfEpoch
  <2>3. made'["empty"] <= made'["full"]
    <3>1. "full" \in Keys /\ "empty" \in Keys /\ made["empty"] <= made["full"]
      BY DEF Keys, Sems, SyncInv, EpochInv
    <3> QED  BY <1>0, <1>6, <1>7, <2>2, <3>1
  <2> QED  BY <1>0, <1>3, <1>6, <2>1, <2>3 DEF EpochInv
<1>9. \A k \in Keys : made[k] <= made'[k]
  BY <1>0, <1>6, <1>7
<1>10. IdInv'
  <2>1. \A q \in Programs : Starting(q)' => \A k \in Keys : id'[q][k] \in {0, bound'[k]}
    BY <1>0, <1>2, <1>6, <1>7 DEF SyncInv, IdInv
  <2>2. \A q \in Programs, k \in Keys : id'[q][k] <= made'[k]
    BY <1>0, <1>6, <1>7, <1>9 DEF SyncInv, IdInv
  <2>3. \A q \in Programs, k \in Keys : id'[q][k] = 0 => at'[q] \in Before(q, k)
    BY <1>0, <1>1, <1>6, <1>7 DEF SyncInv, IdInv, Onward
  <2>4. \A q \in Programs : InLoop(q)' => \A k \in Keys : id'[q][k] = id'[q]["buff"]
    BY <1>0, <1>1, <1>7 DEF SyncInv, IdInv, InLoop, StartCalls, LoopCalls
  <2> QED  BY <1>0, <2>1, <2>2, <2>3, <2>4 DEF IdInv
<1>11. /\ \A q \in Programs : Inside(q)' => q # p /\ Inside(q) /\ id'[q] = id[q]
       /\ \A g \in Gens : Count(g)' = Count(g)
  BY <1>0, <1>1, <1>4, <1>7, QuietMove DEF Count
<1>12. MutexInv'
  BY <1>0, <1>6, <1>9, <1>11 DEF SyncInv, MutexInv, Keys, Sems, Gens
<1>13. CountInv'
  BY <1>0, <1>6, <1>9, <1>11 DEF SyncInv, CountInv, Keys, Sems, Gens
<1>14. k0 \in Sems => Unused(k0, e)'
  <2>1. e \in Gens
    BY <1>0, <1>6 DEF Gens
  <2>2. k0 = "mutex" => val["mutex"][e] = 0 /\ \A q \in Programs : id[q]["mutex"] # e
    BY <1>0, <1>6, <2>1 DEF SyncInv, MutexInv, IdInv, Keys, Sems
  <2>3. made["empty"] <= made["full"] /\ "full" \in Keys /\ "empty" \in Keys
    BY DEF SyncInv, EpochInv, Keys, Sems
  <2>4. k0 \in {"full", "empty"} => Count(e) = 0
    BY <1>0, <1>6, <2>1, <2>3 DEF SyncInv, CountInv
  <2> QED  BY <1>0, <1>11, <2>1, <2>2, <2>4 DEF Unused, Sems
<1>15. FreshInv'
  <2>1. ASSUME NEW q \in Producers, NEW k \in Sems, q \notin gone, k \in unseen[q],
               at'[q] \in {<<"get", k>>, <<"set", k>>}
        PROVE  /\ at'[q] = <<"get", k>> => bound'[k] = 0
               /\ at'[q] = <<"set", k>> => Unused(k, id[q][k])'
    <3>1. q \in Programs
      BY DEF Programs
    <3>2. CASE q = p
      BY <1>0, <1>1, <1>7, <1>14, <2>1, <3>2
    <3>3. CASE q # p /\ k0 \in Sems
      <4>1. Starting(q)
        BY <1>0, <1>1, <2>1, <3>1, <3>3 DEF Starting
      <4> QED  BY <1>0, <3>3, <4>1 DEF SyncInv, LaunchInv
    <3>4. CASE q # p /\ k0 \notin Sems
      <4>1. at[q] = at'[q] /\ id'[q] = id[q] /\ bound'[k] = bound[k]
        BY <1>0, <1>1, <1>7, <3>1, <3>4 DEF Keys
      <4>2. \A g \in Gens : Unused(k, g) => Unused(k, g)'
        BY <1>0, <1>11 DEF Unused
      <4>3. at[q] = <<"set", k>> => id[q][k] \in Gens
        <5>1. at[q] = <<"set", k>> => at[q] \notin Before(q, k)
          BY DEF Before, ProducerBefore, Sems
        <5>2. k \in Keys /\ id[q][k] \in 0 .. Incarnations
          BY <1>0, <1>6, <3>1 DEF Keys
        <5>3. at[q] = <<"set", k>> => id[q][k] # 0
          BY <1>0, <3>1, <5>1, <5>2 DEF SyncInv, IdInv
        <5> QED  BY <1>0, <5>2, <5>3, BoundsAssumption DEF Gens
      <4> QED  BY <1>0, <2>1, <4>1, <4>2, <4>3 DEF SyncInv, FreshInv
    <3> QED  BY <1>0, <3>2, <3>3, <3>4
  <2> QED  BY <1>0, <2>1 DEF FreshInv
<1>16. IndexInv'
  BY <1>0 DEF SyncInv, IndexInv
<1> QED  BY <1>0, <1>4, <1>8, <1>10, <1>12, <1>13, <1>15, <1>16 DEF SyncInv

(* A producer that did not see the object gives it its first value. *)
LEMMA SetMove ==
    ASSUME SyncInv, NEW p \in Producers, Running(p), Starting(p),
           NEW then \in StartPlaces, at' = [at EXCEPT ![p] = then], then[1] \in StartCalls,
           NEW k0 \in Sems \cup Indices, at[p] = <<"set", k0>>, k0 \in unseen[p],
           NEW g0 \in Gens, g0 = id[p][k0],
           NEW v, v = CASE k0 = "mutex" -> 1 [] k0 = "empty" -> BUFFSIZE [] OTHER -> 0,
           val' = [val EXCEPT ![k0][g0] = v],
           UNCHANGED <<bound, made, gone, undo, id>>, TypeOK',
           unseen' = [unseen EXCEPT ![p] = @ \ {k0}],
           Onward(p, then, {}),
           \A k \in Sems : then # <<"get", k>> /\ then # <<"set", k>>
    PROVE  SyncInv'
<1>1. /\ TypeOK /\ p \in Programs /\ at'[p] = then
      /\ \A q \in Programs : q # p => at'[q] = at[q]
  BY StartOrder DEF SyncInv, Programs
<1>2. \A q \in Programs : Starting(q)' => Starting(q)
  BY <1>1, StartOrder
<1>3. \A c \in Programs : ~Removing(c)'
  BY <1>1, StartOrder
<1>4. LaunchInv' /\ OffInv' /\ ~Between(p) /\ ~Between(p)'
  BY <1>1, StartOrder
<1>5. EpochInv'
  <2>1. PICK e \in 1 .. Incarnations + 1 : OfEpoch(e)
    BY <1>1, StartingEpoch
  <2>2. OfEpoch(e)'
    BY <2>1 DEF OfEpoch
  <2> QED  BY <1>3, <2>2 DEF SyncInv, EpochInv
<1>6. IdInv'
  <2>1. \A q \in Programs : Starting(q)' => \A k \in Keys : id'[q][k] \in {0, bound'[k]}
    BY <1>2 DEF SyncInv, IdInv
  <2>2. \A q \in Programs, k \in Keys : id'[q][k] <= made'[k]
    BY DEF SyncInv, IdInv
  <2>3. \A q \in Programs, k \in Keys : id'[q][k] = 0 => at'[q] \in Before(q, k)
    BY <1>1 DEF SyncInv, IdInv, Onward
  <2>4. \A q \in Programs : InLoop(q)' => \A k \in Keys : id'[q][k] = id'[q]["buff"]
    BY <1>1 DEF SyncInv, IdInv, InLoop, StartCalls, LoopCalls
  <2> QED  BY <2>1, <2>2, <2>3, <2>4 DEF IdInv
<1>7. /\ \A q \in Programs : Inside(q)' => q # p /\ Inside(q) /\ id'[q] = id[q]
      /\ \A g \in Gens : Turns(g)' = Turns(g)
  BY <1>1, <1>4, QuietMove
<1>8. k0 \in Sems => Unused(k0, g0)
  <2>1. p \notin gone
    BY DEF Running
  <2> QED  BY <2>1 DEF SyncInv, FreshInv
<1>9. g0 <= made[k0] /\ k0 \in Keys
  BY <1>1 DEF SyncInv, IdInv, Keys
<1>10. /\ val \in [Sems \cup Indices -> [Gens -> Nat]]
       /\ val'[k0][g0] = v
       /\ \A k \in Sems \cup Indices, g \in Gens : (k # k0 \/ g # g0) => val'[k][g] = val[k][g]
  BY <1>1 DEF TypeOK
<1>11. MutexInv'
  <2>1. "mutex" \in Sems
    BY DEF Sems
  <2>2. ASSUME k0 # "mutex" PROVE MutexInv'
    <3>1. \A g \in Gens : val'["mutex"][g] = val["mutex"][g]
      BY <1>10, <2>1, <2>2
    <3>2. \A q \in Programs : id[q]["mutex"] = 0 => ~Inside(q)
      BY DEF Inside, SyncInv, IdInv, Before, ProducerBefore, ConsumerBefore, Keys, Sems, Indices
    <3>3. \A q \in Programs : Inside(q) => id[q]["mutex"] \in Gens
      BY <1>1, <3>2, BoundsAssumption DEF TypeOK, Keys, Sems, Gens
    <3> QED  BY <1>7, <3>1, <3>3 DEF SyncInv, MutexInv
  <2>3. ASSUME k0 = "mutex" PROVE MutexInv'
    <3>1. v = 1 /\ \A q \in Programs : Inside(q) => id[q]["mutex"] # g0
      BY <1>8, <2>1, <2>3 DEF Unused
    <3>2. \A q \in Programs : Inside(q) => id[q]["mutex"] \in Gens
      <4>1. \A q \in Programs : id[q]["mutex"] = 0 => ~Inside(q)
        BY DEF Inside, SyncInv, IdInv, Before, ProducerBefore, ConsumerBefore, Keys, Sems, Indices
      <4> QED  BY <1>1, <4>1, BoundsAssumption DEF TypeOK, Keys, Sems, Gens
    <3>3. \A g \in Gens : val'["mutex"][g] \in {0, 1}
      BY <1>10, <2>1, <2>3, <3>1 DEF SyncInv, MutexInv
    <3>4. \A g \in Gens : g > made["mutex"] => val'["mutex"][g] = 0
      BY <1>9, <1>10, <1>1, <2>1, <2>3 DEF SyncInv, MutexInv, TypeOK, Keys, Gens
    <3>5. \A q \in Programs : Inside(q)' => val'["mutex"][id'[q]["mutex"]] = 0
      BY <1>7, <1>10, <2>1, <2>3, <3>1, <3>2 DEF SyncInv, MutexInv
    <3> QED  BY <1>7, <3>3, <3>4, <3>5 DEF SyncInv, MutexInv
  <2> QED  BY <2>2, <2>3
<1>12. CountInv'
  <2>1. "full" \in Sems /\ "empty" \in Sems
    BY DEF Sems
  <2>2. \A g \in Gens : (k0 \notin {"full", "empty"} \/ g # g0) => Count(g)' = Count(g)
    BY <1>7, <1>10, <2>1 DEF Count
  <2>3. ASSUME k0 \in {"full", "empty"}
        PROVE  Count(g0)' \in {0, BUFFSIZE} /\ (g0 > made["empty"] => Count(g0)' = 0)
    <3>1. Cardinality(Turns(g0)) \in Nat /\ val["full"][g0] \in Nat /\ val["empty"][g0] \in Nat
      <4>1. Turns(g0) \subseteq Programs
        BY DEF Turns
      <4>2. Cardinality(Turns(g0)) \in Nat
        BY <4>1, ProgramsAssumption, FS_Subset, FS_CardinalityType
      <4> QED  BY <1>10, <2>1, <4>2
    <3>2. Count(g0) = 0
      BY <1>8, <2>1, <2>3 DEF Unused
    <3>3. Cardinality(Turns(g0)) = 0 /\ val["full"][g0] = 0 /\ val["empty"][g0] = 0
      <4>1. ASSUME NEW i \in Nat, NEW j \in Nat, NEW l \in Nat, i + j + l = 0
            PROVE  i = 0 /\ j = 0 /\ l = 0
        BY <4>1
      <4>2. val["full"][g0] + val["empty"][g0] + Cardinality(Turns(g0)) = 0
        BY <3>2 DEF Count
      <4> QED  BY <3>1, <4>1, <4>2
    <3>4. Count(g0)' = IF k0 = "empty" THEN BUFFSIZE ELSE 0
      <4>1. Cardinality(Turns(g0))' = 0
        BY <1>7, <3>3
      <4>2. val'["full"][g0] + val'["empty"][g0] = IF k0 = "empty" THEN BUFFSIZE ELSE 0
        BY <1>10, <2>1, <2>3, <3>3, BuffSizeAssumption
      <4> QED  BY <4>1, <4>2, BuffSizeAssumption DEF Count
    <3>5. k0 = "empty" => ~(g0 > made["empty"])
      BY <1>1, <1>9 DEF TypeOK, Gens, Keys
    <3> QED  BY <2>3, <3>4, <3>5
  <2>4. \A g \in Gens : Count(g) \in {0, BUFFSIZE} /\ (g > made["empty"] => Count(g) = 0)
    BY DEF SyncInv, CountInv
  <2>5. made' = made
    OBVIOUS
  <2> QED  BY <2>2, <2>3, <2>4, <2>5 DEF CountInv
<1>13. FreshInv'
  <2>1. ASSUME NEW q \in Producers, NEW k \in Sems, q \notin gone, at'[q] \in {<<"get", k>>, <<"set", k>>}
        PROVE  FALSE
    <3>1. q # p /\ q \in Programs
      BY <1>1, <2>1 DEF Programs
    <3>2. Starting(q)
      BY <1>1, <2>1, <3>1 DEF Starting
    <3> QED  BY <3>1, <3>2 DEF SyncInv, LaunchInv
  <2> QED  BY <2>1 DEF FreshInv
<1>14. IndexInv'
  BY <1>10, BuffSizeAssumption DEF SyncInv, IndexInv, Slots, Indices
<1> QED  BY <1>4, <1>5, <1>6, <1>11, <1>12, <1>13, <1>14 DEF SyncInv

------------------------------------------------------------------------------
(* The steps of the start-up. *)
LEMMA StartPlacesType == StartPlaces \subseteq Places
  BY DEF StartPlaces, Places, Keys, Sems

LEMMA AtStart ==
    ASSUME NEW p \in Programs, Running(p), NEW c \in StartCalls, NEW k, At(p, c, k)
    PROVE  Starting(p)
  BY DEF Starting, StartCalls, Running, At

LEMMA LookStep ==
    ASSUME SyncInv, NEW p \in Producers, NEW k \in Keys, NEW then, StepFrom(p, then),
           Look(p, k, then),
           Onward(p, then, {}),
           \A k2 \in Sems : then # <<"set", k2>> /\ (then = <<"get", k2>> => k2 = k)
    PROVE  SyncInv'
<1>1. p \in Programs /\ TypeOK
  BY DEF Programs, SyncInv
<1>2. Starting(p) /\ then \in StartPlaces /\ at' = [at EXCEPT ![p] = then]
  BY <1>1, AtStart DEF Look, StepFrom, StartCalls, Goto
<1>3. TypeOK'
  BY <1>1, <1>2, StartPlacesType DEF TypeOK, Look, StepFrom, kernel
<1>4. \A k2 \in Keys : id'[p][k2] = 0 => then \in Before(p, k2)
  BY <1>1 DEF Look, SyncInv, IdInv, Onward
<1>5. \A k2 \in Sems : k2 \in unseen'[p] /\ then = <<"get", k2>> => bound[k2] = 0
  BY <1>1 DEF Look, Exists, TypeOK
<1>6. \A q \in Programs : q # p => id'[q] = id[q] /\ unseen'[q] = unseen[q]
  BY <1>1 DEF Look, TypeOK
<1> QED  BY <1>1, <1>2, <1>3, <1>4, <1>5, <1>6, StartMove DEF Look, StepFrom, kernel

LEMMA GetStep ==
    ASSUME SyncInv, NEW p \in Programs, NEW k \in Keys, NEW then, StepFrom(p, then),
           Get(p, k, then), then[1] \in StartCalls,
           Onward(p, then, {k}),
           \A k2 \in Sems : then # <<"get", k2>> /\ (then = <<"set", k2>> => k2 = k),
           k \in Sems => p \in Producers /\ then = <<"set", k>>
    PROVE  SyncInv'
<1>1. TypeOK
  BY DEF SyncInv
<1>2. Starting(p) /\ then \in StartPlaces /\ at' = [at EXCEPT ![p] = then]
  BY AtStart DEF Get, StepFrom, StartCalls, Goto
<1>3. TypeOK'
  <2>1. bound' \in [Keys -> 0 .. Incarnations] /\ made' \in [Keys -> 0 .. Incarnations]
    <3>1. made[k] < Incarnations => made[k] + 1 \in 0 .. Incarnations
      BY <1>1, BoundsAssumption DEF TypeOK
    <3> QED  BY <1>1, <3>1 DEF TypeOK, Get
  <2>2. id' \in [Programs -> [Keys -> 0 .. Incarnations]]
    BY <1>1, <2>1 DEF TypeOK, Get
  <2> QED  BY <1>1, <1>2, <2>1, <2>2, StartPlacesType DEF TypeOK, Get, StepFrom
<1>4. \A q \in Programs : q # p => id'[q] = id[q]
  BY <1>1 DEF Get, TypeOK
<1>5. id'[p][k] = bound'[k] /\ \A k2 \in Keys \ {k} : id'[p][k2] = id[p][k2]
  BY <1>1 DEF Get, TypeOK
<1>6. ASSUME Exists(k), UNCHANGED <<bound, made>> PROVE SyncInv'
  <2>1. \A k2 \in Keys : id'[p][k2] = 0 => then \in Before(p, k2)
    BY <1>5, <1>6 DEF Exists, SyncInv, IdInv, Onward
  <2>2. \A k2 \in Sems : k2 \in unseen'[p] /\ p \in Producers /\ then = <<"set", k2>> => FALSE
    BY <1>1, <1>6 DEF SyncInv, FreshInv, Get, At, Exists, StepFrom, Running
  <2>3. \A k2 \in Keys : id'[p][k2] \in {id[p][k2], bound[k2]}
    BY <1>5, <1>6
  <2> QED  BY <1>2, <1>3, <1>4, <2>1, <2>2, <2>3, <1>6, StartMove DEF Get, StepFrom
<1>7. ASSUME ~Exists(k) PROVE SyncInv'
  <2>1. k = "empty" => id[p]["full"] # 0
    <3>1. k = "empty" => p \in Producers /\ at[p] \notin Before(p, "full")
      BY DEF Get, At, Before, ProducerBefore, Sems
    <3> QED  BY <3>1 DEF SyncInv, IdInv, Keys, Sems
  <2> QED  BY <1>2, <1>3, <1>7, <2>1, CreateMove
<1> QED  BY <1>6, <1>7 DEF Get

(* A consumer takes what there is, perhaps nothing. *)
LEMMA FindStep ==
    ASSUME SyncInv, NEW p \in Consumers, NEW k \in Keys, NEW then, StepFrom(p, then),
           GetSem(p, k, then) \/ Find(p, k, then), Onward(p, then, {k}),
           Find(p, k, then) => then \in Before(p, k)
    PROVE  SyncInv'
<1>0. /\ Starting(p) /\ at' = [at EXCEPT ![p] = then]
      /\ id' = [id EXCEPT ![p][k] = bound[k]]
      /\ bound[k] = 0 => then \in Before(p, k)
      /\ UNCHANGED <<kernel, gone, unseen, value, item>>
  BY AtStart DEF Programs, StepFrom, GetSem, Find, Goto, Exists, StartCalls
<1>1. p \in Programs /\ p \notin Producers /\ TypeOK
  BY ProgramsAssumption DEF Programs, SyncInv
<1>2. TypeOK'
  BY <1>0, <1>1, StartPlacesType DEF TypeOK, StepFrom, kernel
<1>3. \A q \in Programs : q # p => id'[q] = id[q]
  BY <1>0, <1>1 DEF TypeOK
<1>4. id'[p][k] = bound[k] /\ \A k2 \in Keys \ {k} : id'[p][k2] = id[p][k2]
  BY <1>0, <1>1 DEF TypeOK
<1>5. \A k2 \in Keys : id'[p][k2] = 0 => then \in Before(p, k2)
  BY <1>0, <1>1, <1>4 DEF SyncInv, IdInv, Onward
<1>6. \A k2 \in Keys : id'[p][k2] \in {id[p][k2], bound[k2]}
  BY <1>0, <1>4
<1> QED  BY <1>0, <1>1, <1>2, <1>3, <1>5, <1>6, StartMove DEF StepFrom, kernel

(* A program goes on without having changed anything that others see. *)
LEMMA PassStep ==
    ASSUME SyncInv, NEW p \in Programs, NEW then, StepFrom(p, then), Starting(p),
           at' = [at EXCEPT ![p] = then],
           UNCHANGED <<kernel, gone, id, value, item>>, unseen' \in [Programs -> SUBSET Keys],
           \A q \in Programs : q # p => unseen'[q] = unseen[q],
           \A k \in Keys : id[p][k] = 0 => then \in Before(p, k),
           \A k \in Sems : then # <<"get", k>> /\ then # <<"set", k>>
    PROVE  SyncInv'
<1>1. TypeOK'
  BY StartPlacesType DEF SyncInv, TypeOK, StepFrom, kernel
<1> QED  BY <1>1, StartMove DEF StepFrom, kernel

(* A program ends, but not in the middle of removing the objects. *)
LEMMA ExitStep ==
    ASSUME SyncInv, NEW p \in Programs, gone' = gone \cup {p}, ~Removing(p),
           UNCHANGED <<bound, made, val, at, undo, id>>, TypeOK',
           \A q \in Programs : q # p => unseen'[q] = unseen[q]
    PROVE  SyncInv'
<1>1. /\ \A q \in Programs : Starting(q)' => Starting(q)
      /\ \A q \in Programs : TearingDown(q)' => TearingDown(q)
      /\ \A q \in Programs : Removing(q)' <=> Removing(q)
  BY DEF Starting, TearingDown, Removing
<1>2. \A g \in Gens : Count(g)' = Count(g)
  BY DEF Count, Turns, Between, Inside
<1>3. LaunchInv' /\ IdInv' /\ IndexInv' /\ OffInv'
  <2>1. LaunchInv'
    <3>1. \A q, r \in Producers : Starting(q)' /\ Starting(r)' => q = r
      BY <1>1 DEF SyncInv, LaunchInv, Programs
    <3>2. \A c \in Programs : TearingDown(c)' => c \in Consumers /\ InLoop(c)'
      BY <1>1 DEF SyncInv, LaunchInv, InLoop
    <3>3. \A c, q \in Programs : TearingDown(c)' => ~Starting(q)'
      BY <1>1 DEF SyncInv, LaunchInv
    <3> QED  BY <3>1, <3>2, <3>3 DEF LaunchInv
  <2>2. IdInv'
    <3>1. \A q \in Programs : Starting(q)' => \A k \in Keys : id[q][k] \in {0, bound[k]}
      BY <1>1 DEF SyncInv, IdInv
    <3> QED  BY <3>1 DEF SyncInv, IdInv, InLoop
  <2> QED  BY <2>1, <2>2 DEF SyncInv, IndexInv, OffInv, At
<1>4. EpochInv'
  <2>1. EpochInv
    BY DEF SyncInv
  <2>2. \A e \in 1 .. Incarnations + 1 : OfEpoch(e) => OfEpoch(e)'
    BY DEF OfEpoch
  <2>3. \A c \in Programs : Removing(c)' =>
            \A k \in Keys : /\ made[k] = id[c]["buff"]
                            /\ bound[k] = IF k \in Left(undo[c]) THEN made[k] ELSE 0
    BY <1>1, <2>1 DEF EpochInv
  <2>4. (\A c \in Programs : ~Removing(c)') => \E e \in 1 .. Incarnations + 1 : OfEpoch(e)'
    BY <1>1, <2>1, <2>2 DEF EpochInv
  <2>5. \A c, d \in Programs : Removing(c)' /\ Removing(d)' => c = d
    BY <1>1, <2>1 DEF EpochInv
  <2> QED  BY <2>1, <2>3, <2>4, <2>5 DEF EpochInv, Left
<1>5. MutexInv' /\ CountInv'
  BY <1>2 DEF SyncInv, MutexInv, CountInv, Inside
<1>6. FreshInv'
  <2>1. ASSUME NEW q \in Producers, NEW k \in Sems, q \notin gone', k \in unseen'[q]
        PROVE  /\ at[q] = <<"get", k>> => bound[k] = 0
               /\ at[q] = <<"set", k>> => Unused(k, id[q][k])'
    <3>1. q # p /\ q \in Programs /\ q \notin gone /\ unseen'[q] = unseen[q] /\ k \in Keys
      BY <2>1 DEF Programs, Keys
    <3>2. at[q] = <<"set", k>> => id[q][k] \in Gens
      <4>1. at[q] = <<"set", k>> => at[q] \notin Before(q, k)
        BY DEF Before, ProducerBefore, Sems
      <4>2. id[q][k] \in 0 .. Incarnations
        BY <3>1 DEF SyncInv, TypeOK
      <4> QED  BY <3>1, <4>1, <4>2, BoundsAssumption DEF SyncInv, IdInv, Gens
    <3>3. \A g \in Gens : Unused(k, g) => Unused(k, g)'
      BY <1>2 DEF Unused, Inside
    <3> QED  BY <2>1, <3>1, <3>2, <3>3 DEF SyncInv, FreshInv
  <2> QED  BY <2>1 DEF FreshInv
<1> QED  BY <1>3, <1>4, <1>5, <1>6 DEF SyncInv

LEMMA AttachStep ==
    ASSUME SyncInv, NEW p \in Programs, NEW k, NEW with, NEW then, StepFrom(p, then),
           Attach(p, k, with, then),
           Onward(p, then, with),
           \A k2 \in Sems : then # <<"get", k2>> /\ then # <<"set", k2>>
    PROVE  SyncInv'
<1>1. Starting(p) /\ TypeOK /\ UNCHANGED <<kernel, local>>
  BY AtStart DEF Attach, StepFrom, StartCalls, SyncInv
<1>2. ASSUME Exit(p) PROVE SyncInv'
  <2>1. TypeOK'
    BY <1>1, <1>2 DEF TypeOK, Exit, StepFrom, kernel, local
  <2>2. ~Removing(p)
    BY DEF Removing, StepFrom, Running
  <2> QED  BY <1>1, <1>2, <2>1, <2>2, ExitStep DEF Exit, StepFrom, kernel, local
<1>3. ASSUME \A memory \in with : id[p][memory] # 0, Goto(p, then), UNCHANGED gone PROVE SyncInv'
  <2>1. \A k2 \in Keys : id[p][k2] = 0 => then \in Before(p, k2)
    BY <1>3 DEF SyncInv, IdInv, Onward
  <2>2. unseen' \in [Programs -> SUBSET Keys]
    BY <1>1 DEF TypeOK, local
  <2> QED  BY <1>1, <1>3, <2>1, <2>2, PassStep DEF Goto, local
<1> QED  BY <1>2, <1>3 DEF Attach

LEMMA BindStep ==
    ASSUME SyncInv, NEW p \in Programs, NEW then, StepFrom(p, then), Bind(p, then),
           \A k2 \in Sems : then # <<"get", k2>> /\ then # <<"set", k2>>
    PROVE  SyncInv'
<1>1. Starting(p)
  BY AtStart DEF Bind, StepFrom, StartCalls
<1>2. \A k2 \in Keys : id[p][k2] # 0
  BY DEF Bind, At, SyncInv, IdInv, Before, ProducerBefore, ConsumerBefore, Keys, Sems, Indices
<1>3. unseen' \in [Programs -> SUBSET Keys]
  BY DEF SyncInv, TypeOK, Bind, local
<1> QED  BY <1>1, <1>2, <1>3, PassStep DEF Bind, Goto, local

LEMMA SetStep ==
    ASSUME SyncInv, NEW p \in Producers, NEW k \in Sems \cup Indices, NEW then, StepFrom(p, then),
           NEW v, v = CASE k = "mutex" -> 1 [] k = "empty" -> BUFFSIZE [] OTHER -> 0,
           Set(p, k, v, then), then[1] \in StartCalls,
           Onward(p, then, {}),
           \A k2 \in Sems : then # <<"get", k2>> /\ then # <<"set", k2>>
    PROVE  SyncInv'
<1>1. /\ p \in Programs /\ Starting(p) /\ TypeOK
      /\ UNCHANGED <<bound, made, slots, id, value, item>>
      /\ unseen' = [unseen EXCEPT ![p] = @ \ {k}]
  BY AtStart DEF Set, StepFrom, StartCalls, SyncInv, Programs
<1>2. unseen' \in [Programs -> SUBSET Keys] /\ \A q \in Programs : q # p => unseen'[q] = unseen[q]
  BY <1>1 DEF TypeOK
<1>3. ASSUME k \notin unseen[p] PROVE SyncInv'
  <2>1. \A k2 \in Keys : id[p][k2] = 0 => then \in Before(p, k2)
    BY <1>1 DEF SyncInv, IdInv, Onward
  <2> QED  BY <1>1, <1>2, <1>3, <2>1, PassStep DEF Set, Goto, kernel
<1>4. ASSUME Exit(p), UNCHANGED val PROVE SyncInv'
  <2>1. TypeOK'
    BY <1>1, <1>2, <1>4 DEF TypeOK, Exit, StepFrom
  <2>2. ~Removing(p)
    BY DEF Removing, StepFrom, Running
  <2> QED  BY <1>1, <1>2, <1>4, <2>1, <2>2, ExitStep DEF Exit, StepFrom
<1>5. ASSUME k \in unseen[p], Write(p, k, v), Goto(p, then), UNCHANGED gone PROVE SyncInv'
  <2>1. PICK g0 \in Gens : g0 = id[p][k]
    <3>1. at[p] \notin Before(p, k) /\ k \in Keys
      BY DEF Set, At, Before, ProducerBefore, Sems, Indices, Keys
    <3> QED  BY <1>1, <3>1, BoundsAssumption DEF SyncInv, IdInv, TypeOK, Gens
  <2>2. val' = [val EXCEPT ![k][g0] = v]
    BY <1>5, <2>1 DEF Write
  <2>3. TypeOK'
    <3>1. v \in Nat
      BY BuffSizeAssumption
    <3> QED  BY <1>1, <1>2, <1>5, <2>2, <3>1, StartPlacesType DEF TypeOK, StepFrom, Goto
  <2> QED  BY <1>1, <1>5, <2>1, <2>2, <2>3, SetMove DEF StepFrom, Goto, Set, At
<1> QED  BY <1>3, <1>4, <1>5 DEF Set

LEMMA StartPlacesAre ==
    /\ \A c \in StartCalls \ {"bind"}, k \in Keys : <<c, k>> \in StartPlaces
    /\ {<<"bind", "-">>, <<"produce", "-">>, <<"down", "full">>} \subseteq StartPlaces
  BY DEF StartPlaces, StartCalls, Places, Keys, Sems

LEMMA ProducerStart ==
    ASSUME SyncInv, NEW p \in Producers, Running(p), UNCHANGED undo,
           \/ InitIndices(p, <<"get", "buff">>)
           \/ InitBuff(p, <<"look", "full">>)
           \/ CreateSem(p, "full", 0, <<"look", "empty">>)
           \/ CreateSem(p, "empty", BUFFSIZE, <<"look", "mutex">>)
           \/ CreateSem(p, "mutex", 1, <<"bind", "-">>)
           \/ Bind(p, <<"produce", "-">>)
    PROVE  SyncInv'
<1> USE DEF Keys, Sems, Indices, StartCalls
<1>1. p \in Programs /\ \A k \in Keys : Before(p, k) = ProducerBefore(k)
  BY DEF Programs, Before
<1>2. /\ \A c \in StartCalls \ {"bind"}, k \in Keys : StepFrom(p, <<c, k>>)
      /\ StepFrom(p, <<"bind", "-">>) /\ StepFrom(p, <<"produce", "-">>) /\ StepFrom(p, <<"down", "full">>)
  BY StartPlacesAre DEF StepFrom
<1>3. CASE InitIndices(p, <<"get", "buff">>)
  <2>1. CASE Look(p, "read", <<"look", "write">>)
    <3>1. Onward(p, <<"look", "write">>, {})
      BY <1>1, <2>1 DEF Onward, Look, At, ProducerBefore
    <3> QED  BY <1>1, <1>2, <2>1, <3>1, LookStep
  <2>2. CASE Look(p, "write", <<"get", "read">>)
    <3>1. Onward(p, <<"get", "read">>, {})
      BY <1>1, <2>2 DEF Onward, Look, At, ProducerBefore
    <3> QED  BY <1>1, <1>2, <2>2, <3>1, LookStep
  <2>3. CASE Get(p, "read", <<"get", "write">>)
    <3>1. Onward(p, <<"get", "write">>, {"read"})
      BY <1>1, <2>3 DEF Onward, Get, At, ProducerBefore
    <3> QED  BY <1>1, <1>2, <2>3, <3>1, GetStep
  <2>4. CASE Get(p, "write", <<"attach", "write">>)
    <3>1. Onward(p, <<"attach", "write">>, {"write"})
      BY <1>1, <2>4 DEF Onward, Get, At, ProducerBefore
    <3> QED  BY <1>1, <1>2, <2>4, <3>1, GetStep
  <2>5. CASE Attach(p, "write", Indices, <<"set", "read">>)
    <3>1. Onward(p, <<"set", "read">>, Indices)
      BY <1>1, <2>5 DEF Onward, Attach, At, ProducerBefore
    <3> QED  BY <1>1, <1>2, <2>5, <3>1, AttachStep
  <2>6. CASE Set(p, "read", 0, <<"set", "write">>)
    <3>1. Onward(p, <<"set", "write">>, {})
      BY <1>1, <2>6 DEF Onward, Set, At, ProducerBefore
    <3> QED  BY <1>1, <1>2, <2>6, <3>1, SetStep
  <2>7. CASE Set(p, "write", 0, <<"get", "buff">>)
    <3>1. Onward(p, <<"get", "buff">>, {})
      BY <1>1, <2>7 DEF Onward, Set, At, ProducerBefore
    <3> QED  BY <1>1, <1>2, <2>7, <3>1, SetStep
  <2> QED  BY <1>3, <2>1, <2>2, <2>3, <2>4, <2>5, <2>6, <2>7 DEF InitIndices
<1>4. CASE InitBuff(p, <<"look", "full">>)
  <2>1. CASE Get(p, "buff", <<"attach", "buff">>)
    <3>1. Onward(p, <<"attach", "buff">>, {"buff"})
      BY <1>1, <2>1 DEF Onward, Get, At, ProducerBefore
    <3> QED  BY <1>1, <1>2, <2>1, <3>1, GetStep
  <2>2. CASE Attach(p, "buff", {"buff"}, <<"look", "full">>)
    <3>1. Onward(p, <<"look", "full">>, {"buff"})
      BY <1>1, <2>2 DEF Onward, Attach, At, ProducerBefore
    <3> QED  BY <1>1, <1>2, <2>2, <3>1, AttachStep
  <2> QED  BY <1>4, <2>1, <2>2 DEF InitBuff
<1>5. ASSUME NEW k \in Sems, NEW then, Look(p, k, <<"get", k>>) \/ Get(p, k, <<"set", k>>)
      PROVE  SyncInv'
  <2>1. CASE Look(p, k, <<"get", k>>)
    <3>1. Onward(p, <<"get", k>>, {})
      BY <1>1, <1>5, <2>1 DEF Onward, Look, At, ProducerBefore
    <3> QED  BY <1>1, <1>2, <1>5, <2>1, <3>1, LookStep
  <2>2. CASE Get(p, k, <<"set", k>>)
    <3>1. Onward(p, <<"set", k>>, {k})
      BY <1>1, <1>5, <2>2 DEF Onward, Get, At, ProducerBefore
    <3> QED  BY <1>1, <1>2, <1>5, <2>2, <3>1, GetStep
  <2> QED  BY <1>5, <2>1, <2>2
<1>6. CASE Set(p, "full", 0, <<"look", "empty">>)
  <2>1. Onward(p, <<"look", "empty">>, {})
    BY <1>1, <1>6 DEF Onward, Set, At, ProducerBefore
  <2> QED  BY <1>1, <1>2, <1>6, <2>1, SetStep
<1>7. CASE Set(p, "empty", BUFFSIZE, <<"look", "mutex">>)
  <2>1. Onward(p, <<"look", "mutex">>, {})
    BY <1>1, <1>7 DEF Onward, Set, At, ProducerBefore
  <2> QED  BY <1>1, <1>2, <1>7, <2>1, SetStep
<1>8. CASE Set(p, "mutex", 1, <<"bind", "-">>)
  <2>1. Onward(p, <<"bind", "-">>, {})
    BY <1>1, <1>8 DEF Onward, Set, At, ProducerBefore
  <2> QED  BY <1>1, <1>2, <1>8, <2>1, SetStep
<1>9. CASE Bind(p, <<"produce", "-">>)
  BY <1>1, <1>2, <1>9, BindStep
<1> QED  BY <1>3, <1>4, <1>5, <1>6, <1>7, <1>8, <1>9 DEF CreateSem

LEMMA ConsumerStart ==
    ASSUME SyncInv, NEW p \in Consumers, Running(p), UNCHANGED undo,
           \/ InitBuff(p, <<"await", "full">>)
           \/ GetSem(p, "full", <<"await", "empty">>)
           \/ GetSem(p, "empty", <<"await", "mutex">>)
           \/ GetSem(p, "mutex", <<"find", "read">>)
           \/ FindIndices(p, <<"bind", "-">>)
           \/ Bind(p, <<"down", "full">>)
    PROVE  SyncInv'
<1> USE DEF Keys, Sems, Indices, StartCalls
<1>1. p \in Programs /\ \A k \in Keys : Before(p, k) = ConsumerBefore(k)
  BY ProgramsAssumption DEF Programs, Before
<1>2. /\ \A c \in StartCalls \ {"bind"}, k \in Keys : StepFrom(p, <<c, k>>)
      /\ StepFrom(p, <<"bind", "-">>) /\ StepFrom(p, <<"produce", "-">>) /\ StepFrom(p, <<"down", "full">>)
  BY StartPlacesAre DEF StepFrom
<1>3. CASE InitBuff(p, <<"await", "full">>)
  <2>1. CASE Get(p, "buff", <<"attach", "buff">>)
    <3>1. Onward(p, <<"attach", "buff">>, {"buff"})
      BY <1>1, <2>1 DEF Onward, Get, At, ConsumerBefore
    <3> QED  BY <1>1, <1>2, <2>1, <3>1, GetStep
  <2>2. CASE Attach(p, "buff", {"buff"}, <<"await", "full">>)
    <3>1. Onward(p, <<"await", "full">>, {"buff"})
      BY <1>1, <2>2 DEF Onward, Attach, At, ConsumerBefore
    <3> QED  BY <1>1, <1>2, <2>2, <3>1, AttachStep
  <2> QED  BY <1>3, <2>1, <2>2 DEF InitBuff
<1>4. CASE GetSem(p, "full", <<"await", "empty">>)
  <2>1. Onward(p, <<"await", "empty">>, {"full"})
    BY <1>1, <1>4 DEF Onward, GetSem, At, ConsumerBefore
  <2>2. ~Find(p, "full", <<"await", "empty">>)
    BY <1>4 DEF GetSem, Find, At
  <2> QED  BY <1>1, <1>2, <1>4, <2>1, <2>2, FindStep
<1>5. CASE GetSem(p, "empty", <<"await", "mutex">>)
  <2>1. Onward(p, <<"await", "mutex">>, {"empty"})
    BY <1>1, <1>5 DEF Onward, GetSem, At, ConsumerBefore
  <2>2. ~Find(p, "empty", <<"await", "mutex">>)
    BY <1>5 DEF GetSem, Find, At
  <2> QED  BY <1>1, <1>2, <1>5, <2>1, <2>2, FindStep
<1>6. CASE GetSem(p, "mutex", <<"find", "read">>)
  <2>1. Onward(p, <<"find", "read">>, {"mutex"})
    BY <1>1, <1>6 DEF Onward, GetSem, At, ConsumerBefore
  <2>2. ~Find(p, "mutex", <<"find", "read">>)
    BY <1>6 DEF GetSem, Find, At
  <2> QED  BY <1>1, <1>2, <1>6, <2>1, <2>2, FindStep
<1>7. CASE FindIndices(p, <<"bind", "-">>)
  <2>1. CASE Find(p, "read", <<"find", "write">>)
    <3>1. Onward(p, <<"find", "write">>, {"read"}) /\ <<"find", "write">> \in Before(p, "read")
      BY <1>1, <2>1 DEF Onward, Find, At, ConsumerBefore
    <3> QED  BY <1>1, <1>2, <2>1, <3>1, FindStep
  <2>2. CASE Find(p, "write", <<"attach", "write">>)
    <3>1. Onward(p, <<"attach", "write">>, {"write"}) /\ <<"attach", "write">> \in Before(p, "write")
      BY <1>1, <2>2 DEF Onward, Find, At, ConsumerBefore
    <3> QED  BY <1>1, <1>2, <2>2, <3>1, FindStep
  <2>3. CASE Attach(p, "write", Indices, <<"bind", "-">>)
    <3>1. Onward(p, <<"bind", "-">>, Indices)
      BY <1>1, <2>3 DEF Onward, Attach, At, ConsumerBefore
    <3> QED  BY <1>1, <1>2, <2>3, <3>1, AttachStep
  <2> QED  BY <1>7, <2>1, <2>2, <2>3 DEF FindIndices
<1>8. CASE Bind(p, <<"down", "full">>)
  BY <1>1, <1>2, <1>8, BindStep
<1> QED  BY <1>3, <1>4, <1>5, <1>6, <1>7, <1>8

------------------------------------------------------------------------------
(* The steps of the loops. *)

(* A program goes on with its turn, or with its next one. *)
LEMMA LoopMove ==
    ASSUME SyncInv, NEW p \in Programs, Running(p), InLoop(p),
           NEW then \in Places, at' = [at EXCEPT ![p] = then], then[1] \in LoopCalls,
           UNCHANGED <<bound, made, gone, undo, id, unseen>>, TypeOK', IndexInv', MutexInv',
           \A g \in Gens : Count(g)' = Count(g),
           \A g \in Gens : Unused("mutex", g) => Unused("mutex", g)'
    PROVE  SyncInv'
<1>1. TypeOK /\ at'[p] = then /\ \A q \in Programs : q # p => at'[q] = at[q]
  BY DEF SyncInv, TypeOK
<1>2. /\ \A q \in Programs : Starting(q)' => Starting(q)
      /\ \A q \in Programs : TearingDown(q)' => TearingDown(q)
      /\ \A q \in Programs : Removing(q)' <=> Removing(q)
      /\ \A q \in Programs : InLoop(q)' <=> InLoop(q)
  BY <1>1 DEF Starting, LoopCalls, TearingDown, Removing, InLoop
<1>3. LaunchInv'
  <2>1. \A q, r \in Producers : Starting(q)' /\ Starting(r)' => q = r
    BY <1>2 DEF SyncInv, LaunchInv, Programs
  <2>2. \A c \in Programs : TearingDown(c)' => c \in Consumers /\ InLoop(c)'
    BY <1>2 DEF SyncInv, LaunchInv
  <2>3. \A c, q \in Programs : TearingDown(c)' => ~Starting(q)'
    BY <1>2 DEF SyncInv, LaunchInv
  <2> QED  BY <2>1, <2>2, <2>3 DEF LaunchInv
<1>4. IdInv'
  <2>1. \A q \in Programs : Starting(q)' => \A k \in Keys : id[q][k] \in {0, bound[k]}
    BY <1>2 DEF SyncInv, IdInv
  <2>2. \A k \in Keys : id[p][k] # 0
    BY BoundsAssumption, LoopPlaces DEF SyncInv, Gens
  <2>3. \A q \in Programs, k \in Keys : id[q][k] = 0 => at'[q] \in Before(q, k)
    BY <1>1, <2>2 DEF SyncInv, IdInv
  <2> QED  BY <1>2, <2>1, <2>3 DEF SyncInv, IdInv
<1>5. EpochInv'
  <2>1. EpochInv
    BY DEF SyncInv
  <2>2. \A e \in 1 .. Incarnations + 1 : OfEpoch(e) => OfEpoch(e)'
    BY DEF OfEpoch
  <2>3. \A c \in Programs : Removing(c)' =>
            \A k \in Keys : /\ made[k] = id[c]["buff"]
                            /\ bound[k] = IF k \in Left(undo[c]) THEN made[k] ELSE 0
    BY <1>2, <2>1 DEF EpochInv
  <2>4. (\A c \in Programs : ~Removing(c)') => \E e \in 1 .. Incarnations + 1 : OfEpoch(e)'
    BY <1>2, <2>1, <2>2 DEF EpochInv
  <2>5. \A c, d \in Programs : Removing(c)' /\ Removing(d)' => c = d
    BY <1>2, <2>1 DEF EpochInv
  <2> QED  BY <2>1, <2>3, <2>4, <2>5 DEF EpochInv, Left
<1>6. CountInv'
  BY DEF SyncInv, CountInv
<1>7. FreshInv'
  <2>1. ASSUME NEW q \in Producers, NEW k \in Sems, q \notin gone, k \in unseen[q]
        PROVE  /\ at'[q] = <<"get", k>> => bound[k] = 0
               /\ at'[q] = <<"set", k>> => Unused(k, id[q][k])'
    <3>1. q \in Programs /\ k \in Keys
      BY DEF Programs, Keys
    <3>2. at'[q] \in {<<"get", k>>, <<"set", k>>} => at'[q] = at[q]
      BY <1>1, <3>1 DEF LoopCalls
    <3>3. at[q] = <<"set", k>> => id[q][k] \in Gens
      <4>1. at[q] = <<"set", k>> => at[q] \notin Before(q, k)
        BY DEF Before, ProducerBefore, Sems
      <4>2. id[q][k] \in 0 .. Incarnations
        BY <1>1, <3>1 DEF TypeOK
      <4> QED  BY <3>1, <4>1, <4>2, BoundsAssumption DEF SyncInv, IdInv, Gens
    <3>4. \A g \in Gens : Unused(k, g) => Unused(k, g)'
      <4>1. CASE k = "mutex"
        BY <4>1
      <4>2. CASE k # "mutex"
        BY <4>2 DEF Unused
      <4> QED  BY <4>1, <4>2
    <3> QED  BY <2>1, <3>1, <3>2, <3>3, <3>4 DEF SyncInv, FreshInv
  <2> QED  BY <2>1 DEF FreshInv
<1>8. OffInv'
  BY <1>1 DEF SyncInv, OffInv, At, LoopCalls
<1> QED  BY <1>3, <1>4, <1>5, <1>6, <1>7, <1>8 DEF SyncInv

LoopFrom(p, then) ==
    /\ Running(p) /\ UNCHANGED undo
    /\ then \in Places /\ then[1] \in LoopCalls

(* A turn involves nobody else. *)
LEMMA OthersStay ==
    ASSUME TypeOK, NEW p \in Programs, NEW then, at' = [at EXCEPT ![p] = then], UNCHANGED id
    PROVE  /\ at'[p] = then
           /\ \A q \in Programs : q # p => (Inside(q)' <=> Inside(q)) /\ (Between(q)' <=> Between(q))
<1>1. at'[p] = then /\ \A q \in Programs : q # p => at'[q] = at[q]
  BY DEF TypeOK
<1> QED  BY <1>1 DEF Inside, Between

LEMMA InLoopNow ==
    ASSUME SyncInv, NEW p \in Programs, NEW c \in LoopCalls, NEW k, At(p, c, k)
    PROVE  /\ InLoop(p) /\ id[p]["buff"] \in Gens
           /\ \A k2 \in Keys : id[p][k2] = id[p]["buff"]
<1>1. InLoop(p)
  BY DEF InLoop, At
<1> QED  BY <1>1, LoopPlaces DEF SyncInv

(* Between two calls that touch no semaphore. *)
LEMMA SidewaysStep ==
    ASSUME SyncInv, NEW p \in Programs, NEW then, LoopFrom(p, then), InLoop(p),
           at' = [at EXCEPT ![p] = then], UNCHANGED <<bound, made, gone, id, unseen>>,
           TypeOK', IndexInv', \A k \in Sems : val'[k] = val[k],
           Inside(p)' <=> Inside(p), Between(p)' <=> Between(p)
    PROVE  SyncInv'
<1>1. \A q \in Programs : (Inside(q)' <=> Inside(q)) /\ (Between(q)' <=> Between(q))
  BY OthersStay DEF SyncInv
<1>2. val'["full"] = val["full"] /\ val'["empty"] = val["empty"] /\ val'["mutex"] = val["mutex"]
  BY DEF Sems
<1>3. \A g \in Gens : Count(g)' = Count(g)
  <2>1. \A g \in Gens : Turns(g)' = Turns(g)
    BY <1>1 DEF Turns
  <2> QED  BY <1>2, <2>1 DEF Count
<1>4. MutexInv'
  BY <1>1, <1>2 DEF SyncInv, MutexInv
<1>5. \A g \in Gens : Unused("mutex", g) => Unused("mutex", g)'
  BY <1>1, <1>2 DEF Unused
<1> QED  BY <1>3, <1>4, <1>5, LoopMove DEF LoopFrom

(* A semaphore goes up or down. *)
LEMMA SemMove ==
    ASSUME SyncInv, NEW p \in Programs, NEW then, LoopFrom(p, then), Goto(p, then),
           NEW k \in Sems, NEW g0 \in Gens, g0 = id[p][k], NEW n \in Nat, Write(p, k, n),
           UNCHANGED <<bound, made, slots, gone, local>>
    PROVE  /\ TypeOK' /\ IndexInv'
           /\ val'[k][g0] = n
           /\ \A k2 \in Sems, g \in Gens : k2 # k \/ g # g0 => val'[k2][g] = val[k2][g]
<1>1. TypeOK /\ k \in Sems \cup Indices
  BY DEF SyncInv
<1>2. val' = [val EXCEPT ![k][g0] = n]
  BY DEF Write
<1>3. TypeOK'
  BY <1>1, <1>2 DEF TypeOK, local, Goto, LoopFrom
<1>4. /\ val'[k][g0] = n
      /\ \A k2 \in Sems \cup Indices, g \in Gens : k2 # k \/ g # g0 => val'[k2][g] = val[k2][g]
  BY <1>1, <1>2 DEF TypeOK
<1>5. IndexInv'
  BY <1>4 DEF SyncInv, IndexInv, Sems, Indices
<1> QED  BY <1>3, <1>4, <1>5

LEMMA LostStep ==
    ASSUME SyncInv, NEW p \in Programs, Running(p), Exit(p),
           UNCHANGED <<kernel, undo, local>>
    PROVE  SyncInv'
<1>1. TypeOK'
  BY DEF SyncInv, TypeOK, Exit, kernel, local
<1>2. ~Removing(p)
  BY DEF Removing, Running
<1> QED  BY <1>1, <1>2, ExitStep DEF Exit, kernel, local

(* A turn begins: the slot passes from the semaphore to the program. *)
LEMMA EnterStep ==
    ASSUME SyncInv, NEW p \in Programs, NEW k \in {"full", "empty"},
           LoopFrom(p, <<"down", "mutex">>), Down(p, k, <<"down", "mutex">>)
    PROVE  SyncInv'
<1>0. PICK g0 \in Gens : g0 = id[p]["buff"]
  BY InLoopNow DEF Down, LoopCalls
<1>1. /\ TypeOK /\ InLoop(p)
      /\ k \in Sems /\ id[p][k] = g0 /\ id[p]["full"] = g0
  <2>1. k \in Keys /\ "full" \in Keys /\ k \in Sems
    BY DEF Keys, Sems
  <2> QED  BY <1>0, <2>1, InLoopNow DEF Down, LoopCalls, SyncInv
<1>2. CASE Lost(p, k)
  <2>1. Exit(p) /\ UNCHANGED <<kernel, undo, local>> /\ Running(p)
    BY <1>2 DEF Down, kernel, LoopFrom
  <2> QED  BY <2>1, LostStep
<1>3. CASE ~Lost(p, k)
  <2>1. /\ at' = [at EXCEPT ![p] = <<"down", "mutex">>] /\ Goto(p, <<"down", "mutex">>)
        /\ val[k][g0] > 0 /\ Write(p, k, val[k][g0] - 1)
        /\ UNCHANGED <<bound, made, slots, gone, undo, local>>
    BY <1>1, <1>3 DEF Down, Goto, LoopFrom
  <2>2. PICK n \in Nat : Write(p, k, n) /\ val[k][g0] = n + 1
    <3>1. val[k][g0] - 1 \in Nat /\ val[k][g0] = (val[k][g0] - 1) + 1
      BY <1>1, <2>1 DEF TypeOK
    <3> QED  BY <2>1, <3>1
  <2>3. /\ TypeOK' /\ IndexInv' /\ val'[k][g0] = n
        /\ \A k2 \in Sems, g \in Gens : k2 # k \/ g # g0 => val'[k2][g] = val[k2][g]
    <3> QED  BY <1>1, <2>1, <2>2, SemMove
  <2>4. ~Inside(p) /\ ~Inside(p)' /\ ~Between(p) /\ Between(p)'
    <3>1. at[p] = <<"down", k>> /\ at'[p] = <<"down", "mutex">>
      BY <1>1, <2>1, OthersStay DEF Down, At, local
    <3> QED  BY <3>1 DEF Inside, Between
  <2>5. \A q \in Programs : q # p => (Inside(q)' <=> Inside(q)) /\ (Between(q)' <=> Between(q))
    BY <1>1, <2>1, OthersStay DEF local
  <2>6. UNCHANGED id
    BY <2>1 DEF local
  <2>7. /\ Turns(g0)' = Turns(g0) \cup {p} /\ p \notin Turns(g0)
        /\ \A g \in Gens : g # g0 => Turns(g)' = Turns(g)
    BY <1>1, <2>4, <2>5, <2>6 DEF Turns
  <2>8. \A g \in Gens : Count(g)' = Count(g)
    <3>1. Cardinality(Turns(g0)') = Cardinality(Turns(g0)) + 1 /\ Cardinality(Turns(g0)) \in Nat
      <4>1. IsFiniteSet(Turns(g0))
        BY ProgramsAssumption, FS_Subset DEF Turns
      <4> QED  BY <4>1, <2>7, FS_AddElement, FS_CardinalityType
    <3>2. Count(g0)' = Count(g0)
      <4>1. ASSUME NEW i \in Nat, NEW c \in Nat, NEW m \in Nat
            PROVE  (m + 1) + i + c = m + i + (c + 1) /\ i + (m + 1) + c = i + m + (c + 1)
        OBVIOUS
      <4>2. val["full"][g0] \in Nat /\ val["empty"][g0] \in Nat
        BY <1>1 DEF TypeOK, Sems
      <4>3. \/ /\ val["full"][g0] = n + 1 /\ val'["full"][g0] = n
               /\ val'["empty"][g0] = val["empty"][g0]
            \/ /\ val["empty"][g0] = n + 1 /\ val'["empty"][g0] = n
               /\ val'["full"][g0] = val["full"][g0]
        BY <1>1, <2>2, <2>3 DEF Sems
      <4> QED  BY <3>1, <4>1, <4>2, <4>3 DEF Count
    <3>3. ASSUME NEW g \in Gens, g # g0 PROVE Count(g)' = Count(g)
      BY <2>3, <2>7, <3>3 DEF Count, Sems
    <3> QED  BY <3>2, <3>3
  <2>9. \A g \in Gens : val'["mutex"][g] = val["mutex"][g]
    BY <2>3 DEF Sems
  <2>10. MutexInv'
    <3>1. \A q \in Programs : Inside(q)' <=> Inside(q)
      BY <2>4, <2>5
    <3>2. \A q \in Programs : Inside(q) => id[q]["mutex"] \in Gens
      BY <1>1, InsideLoop, LoopPlaces DEF SyncInv, Keys, Sems
    <3> QED  BY <2>1, <2>6, <2>9, <3>1, <3>2 DEF SyncInv, MutexInv
  <2>11. \A g \in Gens : Unused("mutex", g) => Unused("mutex", g)'
    BY <2>4, <2>5, <2>6, <2>9 DEF Unused
  <2> QED  BY <1>1, <2>1, <2>3, <2>8, <2>10, <2>11, LoopMove DEF LoopFrom, local
<1> QED  BY <1>2, <1>3

(* A turn ends: the program hands the slot to the other semaphore. *)
LEMMA LeaveStep ==
    ASSUME SyncInv, NEW p \in Programs, NEW k \in {"full", "empty"},
           NEW then \in {<<"produce", "-">>, <<"down", "full">>}, LoopFrom(p, then), Up(p, k, then)
    PROVE  SyncInv'
<1>0. PICK g0 \in Gens : g0 = id[p]["buff"]
  BY InLoopNow DEF Up, LoopCalls
<1>1. /\ TypeOK /\ InLoop(p)
      /\ k \in Sems /\ id[p][k] = g0 /\ id[p]["full"] = g0
  <2>1. k \in Keys /\ "full" \in Keys /\ k \in Sems
    BY DEF Keys, Sems
  <2> QED  BY <1>0, <2>1, InLoopNow DEF Up, LoopCalls, SyncInv
<1>2. CASE Lost(p, k)
  <2>1. Exit(p) /\ UNCHANGED <<kernel, undo, local>> /\ Running(p)
    BY <1>2 DEF Up, kernel, LoopFrom
  <2> QED  BY <2>1, LostStep
<1>3. CASE ~Lost(p, k)
  <2>1. /\ at' = [at EXCEPT ![p] = then] /\ Goto(p, then)
        /\ Write(p, k, val[k][g0] + 1)
        /\ UNCHANGED <<bound, made, slots, gone, undo, local>>
    BY <1>1, <1>3 DEF Up, Goto, LoopFrom
  <2>2. PICK n \in Nat : n = val[k][g0]
    BY <1>1 DEF TypeOK
  <2>3. /\ TypeOK' /\ IndexInv' /\ val'[k][g0] = n + 1
        /\ \A k2 \in Sems, g \in Gens : k2 # k \/ g # g0 => val'[k2][g] = val[k2][g]
    <3>1. PICK m \in Nat : m = n + 1
      OBVIOUS
    <3> QED  BY <1>1, <2>1, <2>2, <3>1, SemMove
  <2>4. ~Inside(p) /\ ~Inside(p)' /\ Between(p) /\ ~Between(p)'
    <3>1. at[p] = <<"up", k>> /\ at'[p] = then
      BY <1>1, <2>1, OthersStay DEF Up, At, local
    <3> QED  BY <3>1 DEF Inside, Between, Indices
  <2>5. \A q \in Programs : q # p => (Inside(q)' <=> Inside(q)) /\ (Between(q)' <=> Between(q))
    BY <1>1, <2>1, OthersStay DEF local
  <2>6. UNCHANGED id
    BY <2>1 DEF local
  <2>7. /\ Turns(g0)' = Turns(g0) \ {p} /\ p \in Turns(g0)
        /\ \A g \in Gens : g # g0 => Turns(g)' = Turns(g)
    BY <1>1, <2>4, <2>5, <2>6 DEF Turns
  <2>8. \A g \in Gens : Count(g)' = Count(g)
    <3>1. PICK c \in Nat : Cardinality(Turns(g0)') = c /\ Cardinality(Turns(g0)) = c + 1
      <4>1. IsFiniteSet(Turns(g0)) /\ IsFiniteSet(Turns(g0) \ {p})
        BY ProgramsAssumption, FS_Subset DEF Turns
      <4>2. p \notin Turns(g0) \ {p} /\ Turns(g0) = (Turns(g0) \ {p}) \cup {p}
        BY <2>7
      <4> QED  BY <4>1, <4>2, <2>7, FS_AddElement, FS_CardinalityType
    <3>2. Count(g0)' = Count(g0)
      <4>1. ASSUME NEW i \in Nat, NEW d \in Nat, NEW m \in Nat
            PROVE  (m + 1) + i + d = m + i + (d + 1) /\ i + (m + 1) + d = i + m + (d + 1)
        OBVIOUS
      <4>2. val["full"][g0] \in Nat /\ val["empty"][g0] \in Nat
        BY <1>1 DEF TypeOK, Sems
      <4>3. \/ /\ val["full"][g0] = n /\ val'["full"][g0] = n + 1
               /\ val'["empty"][g0] = val["empty"][g0]
            \/ /\ val["empty"][g0] = n /\ val'["empty"][g0] = n + 1
               /\ val'["full"][g0] = val["full"][g0]
        BY <1>1, <2>2, <2>3 DEF Sems
      <4> QED  BY <3>1, <4>1, <4>2, <4>3 DEF Count
    <3>3. ASSUME NEW g \in Gens, g # g0 PROVE Count(g)' = Count(g)
      BY <2>3, <2>7, <3>3 DEF Count, Sems
    <3> QED  BY <3>2, <3>3
  <2>9. \A g \in Gens : val'["mutex"][g] = val["mutex"][g]
    BY <2>3 DEF Sems
  <2>10. MutexInv'
    <3>1. \A q \in Programs : Inside(q)' <=> Inside(q)
      BY <2>4, <2>5
    <3>2. \A q \in Programs : Inside(q) => id[q]["mutex"] \in Gens
      BY <1>1, InsideLoop, LoopPlaces DEF SyncInv, Keys, Sems
    <3> QED  BY <2>1, <2>6, <2>9, <3>1, <3>2 DEF SyncInv, MutexInv
  <2>11. \A g \in Gens : Unused("mutex", g) => Unused("mutex", g)'
    BY <2>4, <2>5, <2>6, <2>9 DEF Unused
  <2> QED  BY <1>1, <2>1, <2>3, <2>8, <2>10, <2>11, LoopMove DEF LoopFrom, local
<1> QED  BY <1>2, <1>3

(* Into the critical region and out of it. *)
LEMMA MutexStep ==
    ASSUME SyncInv, NEW p \in Programs, NEW then, LoopFrom(p, then),
           \/ Down(p, "mutex", then) /\ then \in {<<"store", "buff">>, <<"load", "buff">>}
           \/ Up(p, "mutex", then) /\ then \in {<<"up", "full">>, <<"up", "empty">>}
    PROVE  SyncInv'
<1>0. PICK g0 \in Gens : g0 = id[p]["buff"]
  BY InLoopNow DEF Down, Up, LoopCalls
<1>1. /\ TypeOK /\ InLoop(p) /\ "mutex" \in Sems
      /\ id[p]["mutex"] = g0 /\ id[p]["full"] = g0
  <2>1. "mutex" \in Keys /\ "full" \in Keys /\ "mutex" \in Sems
    BY DEF Keys, Sems
  <2> QED  BY <1>0, <2>1, InLoopNow DEF Down, Up, LoopCalls, SyncInv
<1>2. CASE Lost(p, "mutex")
  <2>1. Exit(p) /\ UNCHANGED <<kernel, undo, local>> /\ Running(p)
    BY <1>2 DEF Down, Up, kernel, LoopFrom
  <2> QED  BY <2>1, LostStep
<1>3. ASSUME ~Lost(p, "mutex"), NEW n \in Nat, Write(p, "mutex", n), n \in {0, 1}, Goto(p, then),
             n = 0 => val["mutex"][g0] > 0 /\ ~Inside(p) /\ Inside(p)',
             n = 1 => val["mutex"][g0] = 0 /\ Inside(p) /\ ~Inside(p)',
             Between(p), Between(p)', UNCHANGED <<bound, made, slots, gone, undo, local>>
      PROVE  SyncInv'
  <2>1. /\ TypeOK' /\ IndexInv' /\ val'["mutex"][g0] = n
        /\ \A k2 \in Sems, g \in Gens : k2 # "mutex" \/ g # g0 => val'[k2][g] = val[k2][g]
    BY <1>1, <1>3, SemMove
  <2>2. /\ at' = [at EXCEPT ![p] = then] /\ UNCHANGED id
        /\ \A q \in Programs : q # p => (Inside(q)' <=> Inside(q)) /\ (Between(q)' <=> Between(q))
    BY <1>1, <1>3, OthersStay DEF local, Goto
  <2>3. \A g \in Gens : Count(g)' = Count(g)
    <3>1. \A q \in Programs : Between(q)' <=> Between(q)
      BY <1>3, <2>2
    <3>2. \A g \in Gens : Turns(g)' = Turns(g)
      BY <2>2, <3>1 DEF Turns
    <3>3. \A g \in Gens : val'["full"][g] = val["full"][g] /\ val'["empty"][g] = val["empty"][g]
      BY <2>1 DEF Sems
    <3> QED  BY <3>2, <3>3 DEF Count
  <2>4. \A q \in Programs : Inside(q) => id[q]["mutex"] \in Gens
    BY <1>1, InsideLoop, LoopPlaces DEF SyncInv, Keys, Sems
  <2>5. /\ val["mutex"][g0] > 0 => \A q \in Programs : Inside(q) => id[q]["mutex"] # g0
        /\ Inside(p) => \A q \in Programs : q # p /\ Inside(q) => id[q]["mutex"] # g0
    <3>1. \A q \in Programs : Inside(q) /\ id[q]["mutex"] = g0 => val["mutex"][g0] = 0
      BY DEF SyncInv, MutexInv
    <3>2. Inside(p) => \A q \in Programs : q # p /\ Inside(q) => id[q]["mutex"] # g0
      BY <1>1 DEF SyncInv, MutexInv
    <3> QED  BY <3>1, <3>2
  <2>6. g0 <= made["mutex"]
    BY <1>1 DEF SyncInv, IdInv, Keys
  <2>7. MutexInv'
    <3>1. \A g \in Gens : val'["mutex"][g] \in {0, 1}
      BY <1>1, <1>3, <2>1 DEF SyncInv, MutexInv
    <3>2. \A g \in Gens : g > made["mutex"] => val'["mutex"][g] = 0
      <4>1. \A g \in Gens : g > made["mutex"] => g # g0
        BY <1>1, <2>6 DEF TypeOK, Keys, Gens
      <4> QED  BY <1>1, <2>1, <4>1 DEF SyncInv, MutexInv
    <3>3. \A q \in Programs : Inside(q)' => val'["mutex"][id[q]["mutex"]] = 0
      <4>1. \A q \in Programs : q # p /\ Inside(q) =>
                id[q]["mutex"] # g0 /\ val["mutex"][id[q]["mutex"]] = 0
        BY <1>3, <2>5 DEF SyncInv, MutexInv
      <4>2. \A q \in Programs : q # p /\ Inside(q)' => val'["mutex"][id[q]["mutex"]] = 0
        BY <1>1, <2>1, <2>2, <2>4, <4>1
      <4> QED  BY <1>1, <1>3, <2>1, <4>2
    <3>4. \A q, r \in Programs :
              Inside(q)' /\ Inside(r)' /\ id[q]["mutex"] = id[r]["mutex"] => q = r
      <4>1. \A q, r \in Programs :
                q # p /\ r # p /\ Inside(q)' /\ Inside(r)' /\ id[q]["mutex"] = id[r]["mutex"] => q = r
        BY <2>2 DEF SyncInv, MutexInv
      <4>2. \A q \in Programs : q # p /\ Inside(p)' /\ Inside(q)' => id[q]["mutex"] # g0
        BY <1>3, <2>2, <2>5
      <4> QED  BY <1>1, <4>1, <4>2
    <3> QED  BY <1>3, <2>2, <3>1, <3>2, <3>3, <3>4 DEF MutexInv
  <2>8. \A g \in Gens : Unused("mutex", g) => Unused("mutex", g)'
    <3>1. \A g \in Gens : Unused("mutex", g) => g # g0
      BY <1>1, <1>3 DEF Unused
    <3>2. ASSUME NEW g \in Gens, Unused("mutex", g), g # g0 PROVE Unused("mutex", g)'
      <4>1. val'["mutex"][g] = 0
        BY <1>1, <2>1, <3>2 DEF Unused
      <4>2. \A q \in Programs : Inside(q)' => id[q]["mutex"] # g
        BY <1>1, <2>2, <3>2 DEF Unused
      <4> QED  BY <2>2, <4>1, <4>2 DEF Unused
    <3> QED  BY <3>1, <3>2
  <2> QED  BY <1>1, <1>3, <2>1, <2>2, <2>3, <2>7, <2>8, LoopMove DEF LoopFrom, local
<1>4. ASSUME ~Lost(p, "mutex"), Down(p, "mutex", then), then \in {<<"store", "buff">>, <<"load", "buff">>}
      PROVE  SyncInv'
  <2>1. val["mutex"][g0] \in {0, 1} /\ val["mutex"][g0] > 0
    BY <1>1, <1>4 DEF Down, SyncInv, MutexInv
  <2>2. val["mutex"][g0] - 1 = 0
    BY <2>1
  <2>3. Write(p, "mutex", 0) /\ Goto(p, then) /\ UNCHANGED <<bound, made, slots, gone, undo, local>>
    BY <1>1, <1>4, <2>2 DEF Down, LoopFrom
  <2>4. at[p] = <<"down", "mutex">> /\ at'[p] = then
    BY <1>1, <1>4, <2>3, OthersStay DEF Down, At, Goto, local
  <2>5. ~Inside(p) /\ Inside(p)' /\ Between(p) /\ Between(p)'
    BY <1>4, <2>4 DEF Inside, Between
  <2> QED  BY <1>3, <1>4, <2>1, <2>3, <2>5
<1>5. ASSUME ~Lost(p, "mutex"), Up(p, "mutex", then), then \in {<<"up", "full">>, <<"up", "empty">>}
      PROVE  SyncInv'
  <2>1. at[p] = <<"up", "mutex">>
    BY <1>5 DEF Up, At
  <2>2. Inside(p) /\ Between(p)
    BY <2>1 DEF Inside, Between
  <2>3. val["mutex"][g0] = 0 /\ val["mutex"][g0] + 1 = 1
    BY <1>1, <2>2 DEF SyncInv, MutexInv
  <2>4. Write(p, "mutex", 1) /\ Goto(p, then) /\ UNCHANGED <<bound, made, slots, gone, undo, local>>
    BY <1>1, <1>5, <2>3 DEF Up, LoopFrom
  <2>5. at'[p] = then
    BY <1>1, <2>4, OthersStay DEF Goto, local
  <2>6. ~Inside(p)' /\ Between(p)'
    BY <1>5, <2>5 DEF Inside, Between, Indices
  <2> QED  BY <1>3, <1>5, <2>2, <2>3, <2>4, <2>6
<1> QED  BY <1>2, <1>4, <1>5

LEMMA ProduceStep ==
    ASSUME SyncInv, NEW p \in Producers, LoopFrom(p, <<"down", "empty">>),
           ProduceItem(p, <<"down", "empty">>)
    PROVE  SyncInv'
<1>1. /\ p \in Programs /\ TypeOK /\ InLoop(p)
      /\ at' = [at EXCEPT ![p] = <<"down", "empty">>]
      /\ UNCHANGED <<bound, made, val, gone, id, unseen>>
  BY InLoopNow DEF Programs, SyncInv, ProduceItem, LoopCalls, Goto, kernel
<1>2. TypeOK'
  <2>1. \A n \in Numbers : (n + 1) % Values \in Numbers
    BY BoundsAssumption DEF Numbers
  <2>2. value' \in [Producers -> Numbers]
    BY <1>1, <2>1 DEF TypeOK, ProduceItem
  <2> QED  BY <1>1, <2>2 DEF TypeOK, ProduceItem, LoopFrom, kernel
<1>3. at[p] = <<"produce", "-">> /\ at'[p] = <<"down", "empty">>
  BY <1>1 DEF TypeOK, ProduceItem, At
<1>4. ~Inside(p) /\ ~Inside(p)' /\ ~Between(p) /\ ~Between(p)'
  BY <1>3 DEF Inside, Between, Indices
<1>5. IndexInv'
  BY <1>1 DEF SyncInv, IndexInv
<1> QED  BY <1>1, <1>2, <1>4, <1>5, SidewaysStep

LEMMA StoreStep ==
    ASSUME SyncInv, NEW p \in Producers, LoopFrom(p, <<"advance", "write">>),
           Store(p, <<"advance", "write">>)
    PROVE  SyncInv'
<1>1. /\ p \in Programs /\ TypeOK /\ InLoop(p)
      /\ at' = [at EXCEPT ![p] = <<"advance", "write">>]
      /\ UNCHANGED <<bound, made, val, gone, id, unseen>>
  BY InLoopNow DEF Programs, SyncInv, Store, LoopCalls, Goto, local
<1>2. TypeOK'
  <2>1. \A n \in Numbers : (n + Values - 1) % Values \in Numbers
    BY BoundsAssumption DEF Numbers
  <2>2. slots' \in [Gens -> [Slots -> Numbers]]
    BY <1>1, <2>1 DEF TypeOK, Store
  <2> QED  BY <1>1, <2>2 DEF TypeOK, Store, LoopFrom, local
<1>3. at[p] = <<"store", "buff">> /\ at'[p] = <<"advance", "write">>
  BY <1>1 DEF TypeOK, Store, At
<1>4. Inside(p) /\ Inside(p)' /\ Between(p) /\ Between(p)'
  BY <1>3 DEF Inside, Between, Indices
<1>5. IndexInv'
  BY <1>1 DEF SyncInv, IndexInv
<1> QED  BY <1>1, <1>2, <1>4, <1>5, SidewaysStep

LEMMA LoadStep ==
    ASSUME SyncInv, NEW p \in Consumers, LoopFrom(p, <<"advance", "read">>),
           Load(p, <<"advance", "read">>)
    PROVE  SyncInv'
<1>1. /\ p \in Programs /\ TypeOK /\ InLoop(p)
      /\ at' = [at EXCEPT ![p] = <<"advance", "read">>]
      /\ UNCHANGED <<bound, made, val, slots, gone, id, unseen>>
      /\ id[p]["buff"] \in Gens /\ id[p]["read"] \in Gens
  BY InLoopNow DEF Programs, SyncInv, Load, LoopCalls, Goto, kernel, Keys, Indices
<1>2. TypeOK'
  <2>1. val["read"][id[p]["read"]] \in Slots
    BY <1>1 DEF SyncInv, IndexInv, Indices
  <2>2. item' \in [Consumers -> Numbers \cup {Values}]
    BY <1>1, <2>1 DEF TypeOK, Load
  <2> QED  BY <1>1, <2>2 DEF TypeOK, Load, LoopFrom
<1>3. at[p] = <<"load", "buff">> /\ at'[p] = <<"advance", "read">>
  BY <1>1 DEF TypeOK, Load, At
<1>4. Inside(p) /\ Inside(p)' /\ Between(p) /\ Between(p)'
  BY <1>3 DEF Inside, Between, Indices
<1>5. IndexInv'
  BY <1>1 DEF SyncInv, IndexInv
<1> QED  BY <1>1, <1>2, <1>4, <1>5, SidewaysStep

LEMMA AdvanceStep ==
    ASSUME SyncInv, NEW p \in Programs, NEW k \in Indices, LoopFrom(p, <<"up", "mutex">>),
           Advance(p, k, <<"up", "mutex">>)
    PROVE  SyncInv'
<1>1. /\ TypeOK /\ InLoop(p)
      /\ at' = [at EXCEPT ![p] = <<"up", "mutex">>]
      /\ UNCHANGED <<bound, made, slots, gone, id, unseen>>
  BY InLoopNow DEF SyncInv, Advance, LoopCalls, Goto, local
<1>2. PICK g0 \in Gens : g0 = id[p][k]
  <2>1. k \in Keys
    BY DEF Keys
  <2> QED  BY <2>1, InLoopNow DEF Advance, LoopCalls
<1>3. PICK n \in Slots : val' = [val EXCEPT ![k][g0] = n]
  <2>1. \A s \in Slots : (s + 1) % BUFFSIZE \in Slots
    BY BuffSizeAssumption DEF Slots
  <2>2. val[k][g0] \in Slots
    BY DEF SyncInv, IndexInv
  <2>3. val' = [val EXCEPT ![k][g0] = (val[k][g0] + 1) % BUFFSIZE]
    BY <1>2 DEF Advance, Write
  <2> QED  BY <2>1, <2>2, <2>3
<1>4. n \in Nat
  BY BuffSizeAssumption DEF Slots
<1>5. TypeOK'
  <2>1. val' \in [Sems \cup Indices -> [Gens -> Nat]]
    BY <1>1, <1>3, <1>4 DEF TypeOK
  <2> QED  BY <1>1, <2>1 DEF TypeOK, Advance, LoopFrom, local
<1>6. IndexInv'
  BY <1>1, <1>3 DEF SyncInv, IndexInv, TypeOK
<1>7. \A k2 \in Sems : val'[k2] = val[k2]
  BY <1>1, <1>3 DEF TypeOK, Sems, Indices
<1>8. at[p] = <<"advance", k>> /\ at'[p] = <<"up", "mutex">>
  BY <1>1 DEF TypeOK, Advance, At
<1>9. Inside(p) /\ Inside(p)' /\ Between(p) /\ Between(p)'
  BY <1>8 DEF Inside, Between
<1> QED  BY <1>1, <1>5, <1>6, <1>7, <1>9, SidewaysStep

LEMMA LoopPlacesAre ==
    /\ \A c \in {"down", "up", "advance"}, k \in Keys : <<c, k>> \in Places
    /\ {<<"produce", "-">>, <<"store", "buff">>, <<"load", "buff">>} \subseteq Places
  BY DEF Places

LEMMA ProducerStep ==
    ASSUME SyncInv, NEW p \in Producers, Running(p), UNCHANGED undo, Producer(p)
    PROVE  SyncInv'
<1>1. p \in Programs
  BY DEF Programs
<1>2. /\ \A c \in {"down", "up", "advance"}, k \in Keys : LoopFrom(p, <<c, k>>)
      /\ LoopFrom(p, <<"produce", "-">>) /\ LoopFrom(p, <<"store", "buff">>)
  BY LoopPlacesAre DEF LoopFrom, LoopCalls
<1>3. LoopFrom(p, <<"down", "empty">>) /\ LoopFrom(p, <<"down", "mutex">>)
      /\ LoopFrom(p, <<"advance", "write">>) /\ LoopFrom(p, <<"up", "mutex">>)
      /\ LoopFrom(p, <<"up", "full">>)
  BY <1>2 DEF Keys, Sems, Indices
<1>4. CASE ProduceItem(p, <<"down", "empty">>)
  BY <1>3, <1>4, ProduceStep
<1>5. CASE Down(p, "empty", <<"down", "mutex">>)
  BY <1>1, <1>3, <1>5, EnterStep
<1>6. CASE Down(p, "mutex", <<"store", "buff">>)
  BY <1>1, <1>2, <1>6, MutexStep
<1>7. CASE InsertItem(p, <<"up", "mutex">>)
  <2>1. CASE Store(p, <<"advance", "write">>)
    BY <1>3, <2>1, StoreStep
  <2>2. CASE Advance(p, "write", <<"up", "mutex">>)
    BY <1>1, <1>3, <2>2, AdvanceStep DEF Indices
  <2> QED  BY <1>7, <2>1, <2>2 DEF InsertItem
<1>8. CASE Up(p, "mutex", <<"up", "full">>)
  BY <1>1, <1>3, <1>8, MutexStep
<1>9. CASE Up(p, "full", <<"produce", "-">>)
  BY <1>1, <1>2, <1>9, LeaveStep
<1> QED  BY <1>4, <1>5, <1>6, <1>7, <1>8, <1>9, ProducerStart DEF Producer

LEMMA ConsumerStep ==
    ASSUME SyncInv, NEW p \in Consumers, Running(p), UNCHANGED undo, Consumer(p)
    PROVE  SyncInv'
<1>1. p \in Programs
  BY DEF Programs
<1>2. /\ \A c \in {"down", "up", "advance"}, k \in Keys : LoopFrom(p, <<c, k>>)
      /\ LoopFrom(p, <<"load", "buff">>)
  BY LoopPlacesAre DEF LoopFrom, LoopCalls
<1>3. LoopFrom(p, <<"down", "full">>) /\ LoopFrom(p, <<"down", "mutex">>)
      /\ LoopFrom(p, <<"advance", "read">>) /\ LoopFrom(p, <<"up", "mutex">>)
      /\ LoopFrom(p, <<"up", "empty">>)
  BY <1>2 DEF Keys, Sems, Indices
<1>4. CASE Down(p, "full", <<"down", "mutex">>)
  BY <1>1, <1>3, <1>4, EnterStep
<1>5. CASE Down(p, "mutex", <<"load", "buff">>)
  BY <1>1, <1>2, <1>5, MutexStep
<1>6. CASE RemoverItem(p, <<"up", "mutex">>)
  <2>1. CASE Load(p, <<"advance", "read">>)
    BY <1>3, <2>1, LoadStep
  <2>2. CASE Advance(p, "read", <<"up", "mutex">>)
    BY <1>1, <1>3, <2>2, AdvanceStep DEF Indices
  <2> QED  BY <1>6, <2>1, <2>2 DEF RemoverItem
<1>7. CASE Up(p, "mutex", <<"up", "empty">>)
  BY <1>1, <1>3, <1>7, MutexStep
<1>8. CASE Up(p, "empty", <<"down", "full">>)
  BY <1>1, <1>3, <1>8, LeaveStep
<1> QED  BY <1>4, <1>5, <1>6, <1>7, <1>8, ConsumerStart DEF Consumer

------------------------------------------------------------------------------
(* The shell: programs are started and interrupted. *)
LEMMA StartStep ==
    ASSUME SyncInv, NEW p \in Programs, Start(p), Launch = "orderly"
    PROVE  SyncInv'
<1> DEFINE first == IF p \in Producers THEN <<"look", "read">> ELSE <<"get", "buff">>
<1>1. /\ TypeOK /\ at[p] = <<"off", "-">> /\ at' = [at EXCEPT ![p] = first]
      /\ UNCHANGED <<bound, made, val, slots, undo, gone, local>>
  BY DEF SyncInv, Start, At, Goto, kernel
<1>2. at'[p] = first /\ \A q \in Programs : q # p => at'[q] = at[q]
  BY <1>1 DEF TypeOK
<1>3. TypeOK' /\ IndexInv'
  <2>1. first \in Places
    BY DEF Places, Keys, Indices
  <2> HIDE DEF first
  <2>2. TypeOK'
    BY <1>1, <2>1 DEF TypeOK, local
  <2> QED  BY <1>1, <2>2 DEF SyncInv, IndexInv
<1>4. \A c \in Programs : ~TearingDown(c)' /\ ~Removing(c)' /\ ~Removing(c)
  BY <1>1 DEF Start, MayStart, TearingDown, Removing
<1>5. LaunchInv'
  <2>1. \A q \in Programs : q # p /\ Starting(q)' => Starting(q)
    BY <1>1, <1>2 DEF Starting
  <2>2. \A q, r \in Producers : Starting(q)' /\ Starting(r)' => q = r
    BY <2>1 DEF Start, MayStart, SyncInv, LaunchInv, Programs
  <2> QED  BY <1>4, <2>2 DEF LaunchInv
<1>6. OffInv' /\ IdInv'
  <2>1. \A k \in Keys : id[p][k] = 0
    BY <1>1 DEF SyncInv, OffInv, At
  <2>2. \A k \in Keys : first \in Before(p, k)
    BY DEF Before, ProducerBefore, ConsumerBefore, Keys, Sems, Indices
  <2>3. id' = id
    BY <1>1 DEF local
  <2>4. \A q \in Programs : Starting(q)' => \A k \in Keys : id[q][k] \in {0, bound[k]}
    BY <1>1, <1>2, <2>1 DEF Starting, SyncInv, IdInv
  <2>5. \A q \in Programs, k \in Keys : id[q][k] = 0 => at'[q] \in Before(q, k)
    BY <1>2, <2>2 DEF SyncInv, IdInv
  <2>6. \A q \in Programs : InLoop(q)' => InLoop(q)
    BY <1>2 DEF InLoop, LoopCalls
  <2>7. \A q \in Programs : at'[q] = <<"off", "-">> => at[q] = <<"off", "-">>
    BY <1>2
  <2> QED  BY <1>1, <2>3, <2>4, <2>5, <2>6, <2>7 DEF SyncInv, OffInv, IdInv, At
<1>7. EpochInv'
  <2>1. PICK e \in 1 .. Incarnations + 1 : OfEpoch(e)
    BY <1>4 DEF SyncInv, EpochInv
  <2>2. OfEpoch(e)'
    BY <1>1, <2>1 DEF OfEpoch
  <2> QED  BY <1>1, <1>4, <2>2 DEF SyncInv, EpochInv
<1>8. /\ \A q \in Programs : Inside(q)' => q # p /\ Inside(q)
      /\ \A g \in Gens : Count(g)' = Count(g)
  <2>1. ~Between(p) /\ ~Between(p)'
    BY <1>1, <1>2 DEF Between, Inside, Indices
  <2> QED  BY <1>1, <1>2, <2>1, QuietMove DEF Count, local
<1>9. MutexInv' /\ CountInv'
  BY <1>1, <1>8 DEF SyncInv, MutexInv, CountInv, local
<1>10. FreshInv'
  <2>1. ASSUME NEW q \in Producers, NEW k \in Sems, q \notin gone, k \in unseen[q]
        PROVE  /\ at'[q] = <<"get", k>> => bound[k] = 0
               /\ at'[q] = <<"set", k>> => Unused(k, id[q][k])'
    <3>1. q \in Programs /\ k \in Keys /\ id' = id
      BY <1>1 DEF Programs, Keys, local
    <3>2. at'[q] \in {<<"get", k>>, <<"set", k>>} => at'[q] = at[q]
      BY <1>2, <3>1 DEF Sems
    <3>3. at[q] = <<"set", k>> => id[q][k] \in Gens
      <4>1. at[q] = <<"set", k>> => at[q] \notin Before(q, k)
        BY DEF Before, ProducerBefore, Sems
      <4>2. id[q][k] \in 0 .. Incarnations
        BY <1>1, <3>1 DEF TypeOK
      <4> QED  BY <3>1, <4>1, <4>2, BoundsAssumption DEF SyncInv, IdInv, Gens
    <3>4. \A g \in Gens : Unused(k, g) => Unused(k, g)'
      BY <1>1, <1>8, <3>1 DEF Unused
    <3> QED  BY <2>1, <3>1, <3>2, <3>3, <3>4 DEF SyncInv, FreshInv
  <2> QED  BY <1>1, <2>1 DEF FreshInv, local
<1> QED  BY <1>3, <1>5, <1>6, <1>7, <1>9, <1>10 DEF SyncInv

(* What a consumer that removes leaves alone: nobody starts meanwhile. *)
LEMMA RemovalFrame ==
    ASSUME SyncInv, NEW p \in Programs, TearingDown(p), gone \subseteq gone',
           UNCHANGED <<made, val, slots, at, local>>, TypeOK', EpochInv',
           \A q \in Programs : q # p => undo'[q] = undo[q]
    PROVE  SyncInv'
<1>1. \A q \in Programs : ~Starting(q)
  BY DEF SyncInv, LaunchInv
<1>2. /\ \A q \in Programs : ~Starting(q)'
      /\ \A q \in Programs : TearingDown(q)' => TearingDown(q)
  BY <1>1 DEF Starting, TearingDown
<1>3. LaunchInv'
  <2>1. \A c \in Programs : TearingDown(c)' => c \in Consumers /\ InLoop(c)
    BY <1>2 DEF SyncInv, LaunchInv
  <2> QED  BY <1>2, <2>1 DEF LaunchInv, InLoop, Programs
<1>4. id' = id /\ unseen' = unseen
  BY DEF local
<1>5. IdInv' /\ OffInv' /\ IndexInv'
  BY <1>2, <1>4 DEF SyncInv, IdInv, OffInv, IndexInv, InLoop, At
<1>6. \A g \in Gens : Count(g)' = Count(g)
  BY <1>4 DEF Count, Turns, Between, Inside
<1>7. MutexInv' /\ CountInv'
  BY <1>4, <1>6 DEF SyncInv, MutexInv, CountInv, Inside
<1>8. FreshInv'
  <2>1. \A q \in Producers, k \in Sems :
            q \notin gone' => at[q] # <<"get", k>> /\ at[q] # <<"set", k>>
    BY <1>1 DEF Starting, Programs
  <2> QED  BY <2>1 DEF FreshInv
<1> QED  BY <1>3, <1>5, <1>7, <1>8 DEF SyncInv

LEMMA InterruptStep ==
    ASSUME SyncInv, NEW p \in Programs, Interrupt(p), Launch = "orderly"
    PROVE  SyncInv'
<1>1. TypeOK /\ Running(p) /\ at[p] # <<"off", "-">> /\ UNCHANGED <<kernel, at, local>>
  BY DEF SyncInv, Interrupt, At
<1>2. ASSUME gone' = gone \cup {p}, UNCHANGED undo PROVE SyncInv'
  BY <1>1, <1>2, LostStep DEF Exit
<1>3. ASSUME p \notin Producers, ~Starting(p), MayTearDown, undo' = [undo EXCEPT ![p] = "full"],
             UNCHANGED gone
      PROVE  SyncInv'
  <2>1. TypeOK'
    BY <1>1, <1>3 DEF TypeOK, kernel, local, Keys, Sems
  <2>2. p \in Consumers /\ InLoop(p)
    <3>1. at[p] \in Places
      BY <1>1 DEF TypeOK
    <3> QED  BY <1>1, <1>3, <3>1 DEF Programs, Places, InLoop, LoopCalls, Starting, Running
  <2>3. /\ undo'[p] = "full" /\ undo[p] = "-"
        /\ \A q \in Programs : q # p => undo'[q] = undo[q]
    BY <1>1, <1>3 DEF TypeOK, Running
  <2>4. \A c \in Programs : Removing(c)' <=> Removing(c)
    BY <1>3, <2>3 DEF Removing
  <2>5. \A c \in Programs : Removing(c) => undo'[c] = undo[c]
    BY <2>3 DEF Removing
  <2>6. LaunchInv'
    <3>1. \A q \in Programs : ~Starting(q)'
      BY <1>1, <1>3 DEF MayTearDown, Starting
    <3>2. \A c \in Programs : TearingDown(c)' => c \in Consumers /\ InLoop(c)
      BY <1>3, <2>2, <2>3 DEF TearingDown, SyncInv, LaunchInv
    <3> QED  BY <1>1, <3>1, <3>2 DEF LaunchInv, InLoop, Programs
  <2>7. EpochInv'
    <3>1. EpochInv /\ UNCHANGED <<bound, made, id>>
      BY <1>1 DEF SyncInv, kernel, local
    <3>2. \A e \in 1 .. Incarnations + 1 : OfEpoch(e) => OfEpoch(e)'
      BY <3>1 DEF OfEpoch
    <3>3. \A c \in Programs : Removing(c)' =>
              \A k \in Keys : /\ made[k] = id[c]["buff"]
                              /\ bound[k] = IF k \in Left(undo'[c]) THEN made[k] ELSE 0
      BY <2>4, <2>5, <3>1 DEF EpochInv
    <3>4. (\A c \in Programs : ~Removing(c)') => \E e \in 1 .. Incarnations + 1 : OfEpoch(e)'
      BY <2>4, <3>1, <3>2 DEF EpochInv
    <3>5. \A c, d \in Programs : Removing(c)' /\ Removing(d)' => c = d
      BY <2>4, <3>1 DEF EpochInv
    <3> QED  BY <3>1, <3>3, <3>4, <3>5 DEF EpochInv, Left
  <2>8. \A q \in Programs : ~Starting(q)
    BY <1>3 DEF MayTearDown
  <2>9. FreshInv'
    <3>1. \A q \in Producers, k \in Sems :
              q \notin gone => at[q] # <<"get", k>> /\ at[q] # <<"set", k>>
      BY <2>8 DEF Starting, Programs
    <3> QED  BY <1>1, <1>3, <3>1 DEF FreshInv
  <2>10. id' = id /\ \A g \in Gens : Count(g)' = Count(g)
    BY <1>1 DEF Count, Turns, Between, Inside, kernel, local
  <2>11. MutexInv' /\ CountInv'
    BY <1>1, <2>10 DEF SyncInv, MutexInv, CountInv, Inside, kernel
  <2>12. IdInv' /\ OffInv' /\ IndexInv'
    BY <1>1, <2>10, <1>3 DEF SyncInv, IdInv, OffInv, IndexInv, InLoop, At, Starting, kernel
  <2> QED  BY <2>1, <2>6, <2>7, <2>9, <2>11, <2>12 DEF SyncInv
<1> QED  BY <1>1, <1>2, <1>3 DEF Interrupt

(* The first removal: all there is belongs to the epoch of the consumer. *)
LEMMA FirstRemoval ==
    ASSUME SyncInv, NEW p \in Programs, p \notin gone, DestroySem(p, "full", "empty")
    PROVE  SyncInv'
<1>1. /\ TypeOK /\ undo[p] = "full" /\ ~Removing(p) /\ TearingDown(p)
      /\ UNCHANGED <<made, val, slots, at, local>>
  BY DEF SyncInv, DestroySem, Removing, TearingDown
<1>2. CASE Lost(p, "full")
  <2>1. gone' = gone \cup {p} /\ UNCHANGED <<bound, undo>>
    BY <1>2 DEF DestroySem
  <2>2. TypeOK'
    BY <1>1, <2>1 DEF TypeOK, local
  <2> QED  BY <1>1, <2>1, <2>2, ExitStep DEF local
<1>3. CASE ~Lost(p, "full")
  <2>1. /\ bound' = [bound EXCEPT !["full"] = 0] /\ undo' = [undo EXCEPT ![p] = "empty"]
        /\ UNCHANGED gone /\ bound["full"] # 0 /\ id[p]["full"] = bound["full"]
    BY <1>3 DEF DestroySem, Lost
  <2>2. TypeOK'
    BY <1>1, <2>1, BoundsAssumption DEF TypeOK, local, Keys, Sems
  <2>3. PICK e \in 1 .. Incarnations + 1 : OfEpoch(e)
    <3>1. \A c \in Programs : Removing(c) => bound["full"] = 0
      <4>1. \A c \in Programs : Removing(c) => "full" \notin Left(undo[c])
        BY <1>1 DEF Removing, TypeOK, Left, Keys, Sems, Indices
      <4> QED  BY <4>1 DEF SyncInv, EpochInv, Keys, Sems
    <3> QED  BY <2>1, <3>1 DEF SyncInv, EpochInv
  <2>4. \A k \in Keys : id[p][k] = e
    <3>1. InLoop(p)
      BY <1>1 DEF SyncInv, LaunchInv
    <3>2. \A k \in Keys : id[p][k] = id[p]["buff"]
      BY <1>1, <3>1, LoopPlaces DEF SyncInv
    <3>3. bound["full"] = e /\ "full" \in Keys
      BY <2>1, <2>3 DEF OfEpoch, Keys, Sems
    <3> QED  BY <2>1, <3>2, <3>3
  <2>5. \A k \in Keys : bound[k] = e /\ made[k] = e
    <3>1. \A k \in Keys : e <= made[k]
      BY <1>1, <2>4 DEF SyncInv, IdInv
    <3> QED  BY <2>3, <3>1 DEF OfEpoch
  <2>6. /\ undo'[p] = "empty" /\ bound'["full"] = 0
        /\ \A k \in Keys \ {"full"} : bound'[k] = bound[k]
        /\ \A q \in Programs : q # p => undo'[q] = undo[q]
    BY <1>1, <2>1 DEF TypeOK, Keys, Sems
  <2>7. \A c \in Programs : Removing(c)' => c = p
    <3>1. \A c \in Programs : Removing(c) => FALSE
      <4>1. \A c \in Programs : Removing(c) => "full" \notin Left(undo[c])
        BY <1>1 DEF Removing, TypeOK, Left, Keys, Sems, Indices
      <4> QED  BY <2>1, <4>1 DEF SyncInv, EpochInv, Keys, Sems
    <3> QED  BY <2>1, <2>6, <3>1 DEF Removing
  <2>8. EpochInv'
    <3>1. Removing(p)'
      BY <1>1, <2>1, <2>6 DEF Removing, TearingDown
    <3>2. Left("empty") = Keys \ {"full"} /\ "buff" \in Keys
      BY DEF Left, Keys, Sems, Indices
    <3>3. \A k \in Keys : /\ made[k] = id[p]["buff"]
                          /\ bound'[k] = IF k \in Left("empty") THEN made[k] ELSE 0
      BY <2>4, <2>5, <2>6, <3>2
    <3>4. id' = id /\ made' = made
      BY <1>1 DEF local
    <3>5. \A c \in Programs : Removing(c)' =>
              \A k \in Keys : /\ made'[k] = id'[c]["buff"]
                              /\ bound'[k] = IF k \in Left(undo'[c]) THEN made'[k] ELSE 0
      BY <2>6, <2>7, <3>3, <3>4
    <3> QED  BY <2>7, <3>1, <3>4, <3>5 DEF SyncInv, EpochInv, Left
  <2> QED  BY <1>1, <2>1, <2>2, <2>6, <2>8, RemovalFrame
<1> QED  BY <1>2, <1>3

(* The next removals. *)
LEMMA NextRemoval ==
    ASSUME SyncInv, NEW p \in Programs, p \notin gone,
           NEW k \in Keys \ {"full"}, undo[p] = k,
           NEW then \in Keys \ {"full"}, Left(then) = Left(k) \ {k}, k \in Left(k),
           DestroySem(p, k, then) \/ RemoveMemory(p, k, then)
    PROVE  SyncInv'
<1>1. /\ TypeOK /\ Removing(p) /\ TearingDown(p) /\ then # "-"
      /\ UNCHANGED <<made, val, slots, at, local>>
  BY DEF SyncInv, DestroySem, RemoveMemory, Removing, TearingDown, Keys, Sems, Indices
<1>2. \A k2 \in Keys : /\ made[k2] = id[p]["buff"]
                       /\ bound[k2] = IF k2 \in Left(k) THEN made[k2] ELSE 0
  BY <1>1 DEF SyncInv, EpochInv
<1>3. id[p]["buff"] \in Gens /\ \A k2 \in Keys : id[p][k2] = id[p]["buff"]
  BY <1>1, LoopPlaces DEF SyncInv, LaunchInv
<1>4. ~Lost(p, k)
  <2>1. bound[k] = id[p][k] /\ id[p][k] \in Gens
    BY <1>2, <1>3
  <2> QED  BY <2>1, BoundsAssumption DEF Lost, Gens
<1>5. /\ bound' = [bound EXCEPT ![k] = 0] /\ undo' = [undo EXCEPT ![p] = then] /\ UNCHANGED gone
  BY <1>1, <1>4 DEF DestroySem, RemoveMemory
<1>6. TypeOK'
  BY <1>1, <1>5, BoundsAssumption DEF TypeOK, local
<1>7. /\ undo'[p] = then /\ bound'[k] = 0
      /\ \A k2 \in Keys \ {k} : bound'[k2] = bound[k2]
      /\ \A q \in Programs : q # p => undo'[q] = undo[q]
  BY <1>1, <1>5 DEF TypeOK
<1>8. EpochInv'
  <2>1. \A c \in Programs : Removing(c)' => c = p
    <3>1. \A c \in Programs : Removing(c) => c = p
      BY <1>1 DEF SyncInv, EpochInv
    <3> QED  BY <1>5, <1>7, <3>1 DEF Removing
  <2>2. Removing(p)'
    BY <1>1, <1>5, <1>7 DEF Removing
  <2>3. id' = id /\ made' = made
    BY <1>1 DEF local
  <2>4. \A k2 \in Keys : /\ made[k2] = id[p]["buff"]
                         /\ bound'[k2] = IF k2 \in Left(then) THEN made[k2] ELSE 0
    BY <1>2, <1>7
  <2>5. \A c \in Programs : Removing(c)' =>
            \A k2 \in Keys : /\ made'[k2] = id'[c]["buff"]
                             /\ bound'[k2] = IF k2 \in Left(undo'[c]) THEN made'[k2] ELSE 0
    BY <1>7, <2>1, <2>3, <2>4
  <2> QED  BY <2>1, <2>2, <2>3, <2>5 DEF SyncInv, EpochInv, Left
<1> QED  BY <1>1, <1>5, <1>6, <1>7, <1>8, RemovalFrame

(* The last removal makes room for the next epoch. *)
LEMMA LastRemoval ==
    ASSUME SyncInv, NEW p \in Programs, p \notin gone, RemoveMemory(p, "buff", "-")
    PROVE  SyncInv'
<1>1. /\ TypeOK /\ undo[p] = "buff" /\ Removing(p) /\ TearingDown(p)
      /\ UNCHANGED <<made, val, slots, at, local>>
  BY DEF SyncInv, RemoveMemory, Removing, TearingDown
<1>2. \A k \in Keys : /\ made[k] = id[p]["buff"]
                      /\ bound[k] = IF k = "buff" THEN made[k] ELSE 0
  BY <1>1 DEF SyncInv, EpochInv, Left
<1>3. PICK e \in 1 .. Incarnations + 1 : e = id[p]["buff"] + 1 /\ id[p]["buff"] = e - 1
  <2>1. id[p]["buff"] \in Gens
    BY <1>1, LoopPlaces DEF SyncInv, LaunchInv
  <2> QED  BY <2>1, BoundsAssumption DEF Gens
<1>4. ~Lost(p, "buff")
  <2>1. bound["buff"] = id[p]["buff"] /\ id[p]["buff"] \in Gens
    BY <1>1, <1>2, LoopPlaces DEF SyncInv, LaunchInv, Keys
  <2> QED  BY <2>1, BoundsAssumption DEF Lost, Gens
<1>5. bound' = [bound EXCEPT !["buff"] = 0] /\ gone' = gone \cup {p} /\ UNCHANGED undo
  BY <1>4 DEF RemoveMemory
<1>6. TypeOK'
  BY <1>1, <1>5, BoundsAssumption DEF TypeOK, local
<1>7. EpochInv'
  <2>1. \A c \in Programs : ~Removing(c)'
    BY <1>1, <1>5 DEF SyncInv, EpochInv, Removing
  <2>2. OfEpoch(e)'
    <3>1. \A k \in Keys : bound'[k] = 0 /\ made[k] = e - 1
      BY <1>1, <1>2, <1>3, <1>5 DEF TypeOK
    <3> QED  BY <1>1, <3>1 DEF OfEpoch
  <2> QED  BY <1>1, <2>1, <2>2 DEF SyncInv, EpochInv
<1> QED  BY <1>1, <1>5, <1>6, <1>7, RemovalFrame

LEMMA FreeStep ==
    ASSUME SyncInv, NEW p \in Programs, FreeResources(p)
    PROVE  SyncInv'
<1>1. p \notin gone
  BY DEF FreeResources
<1>2. CASE DestroySem(p, "full", "empty")
  BY <1>1, <1>2, FirstRemoval
<1>3. /\ Left("mutex") = Left("empty") \ {"empty"} /\ "empty" \in Left("empty")
      /\ Left("read") = Left("mutex") \ {"mutex"} /\ "mutex" \in Left("mutex")
      /\ Left("write") = Left("read") \ {"read"} /\ "read" \in Left("read")
      /\ Left("buff") = Left("write") \ {"write"} /\ "write" \in Left("write")
  BY DEF Left
<1>4. {"empty", "mutex", "read", "write", "buff"} \subseteq Keys \ {"full"}
  BY DEF Keys, Sems, Indices
<1>5. CASE DestroySem(p, "empty", "mutex")
  BY <1>1, <1>3, <1>4, <1>5, NextRemoval DEF DestroySem
<1>6. CASE DestroySem(p, "mutex", "read")
  BY <1>1, <1>3, <1>4, <1>6, NextRemoval DEF DestroySem
<1>7. CASE RemoveMemory(p, "read", "write")
  BY <1>1, <1>3, <1>4, <1>7, NextRemoval DEF RemoveMemory
<1>8. CASE RemoveMemory(p, "write", "buff")
  BY <1>1, <1>3, <1>4, <1>8, NextRemoval DEF RemoveMemory
<1>9. CASE RemoveMemory(p, "buff", "-")
  BY <1>1, <1>9, LastRemoval
<1> QED  BY <1>2, <1>5, <1>6, <1>7, <1>8, <1>9 DEF FreeResources

------------------------------------------------------------------------------
LEMMA SyncNext ==
    ASSUME Launch = "orderly", SyncInv, [Next]_vars
    PROVE  SyncInv'
<1>1. ASSUME NEW p \in Programs, Main(p) PROVE SyncInv'
  <2>1. Running(p) /\ UNCHANGED undo
    BY <1>1 DEF Main
  <2>2. CASE p \in Producers
    BY <1>1, <2>1, <2>2, ProducerStep DEF Main
  <2>3. CASE p \notin Producers
    BY <1>1, <2>1, <2>3, ConsumerStep DEF Main, Programs
  <2> QED  BY <2>2, <2>3
<1>2. ASSUME UNCHANGED vars PROVE SyncInv'
  <2>1. UNCHANGED <<bound, made, val, slots, at, undo, gone, id, unseen, value, item>>
    BY <1>2 DEF vars, kernel, local
  <2>2. TypeOK' /\ IndexInv' /\ OffInv'
    BY <2>1 DEF SyncInv, TypeOK, IndexInv, OffInv, At
  <2>3. LaunchInv' /\ IdInv'
    BY <2>1 DEF SyncInv, LaunchInv, IdInv, Starting, TearingDown, InLoop
  <2>4. EpochInv'
    BY <2>1 DEF SyncInv, EpochInv, Removing, OfEpoch, Left
  <2>5. MutexInv'
    BY <2>1 DEF SyncInv, MutexInv, Inside
  <2>6. CountInv'
    BY <2>1 DEF SyncInv, CountInv, Count, Turns, Between, Inside
  <2>7. FreshInv'
    <3>1. \A g : Count(g)' = Count(g)
      BY <2>1 DEF Count, Turns, Between, Inside
    <3>2. \A q \in Programs : Inside(q)' <=> Inside(q)
      BY <2>1 DEF Inside
    <3>3. \A k \in Sems : \A g : Unused(k, g) => Unused(k, g)'
      BY <2>1, <3>1, <3>2 DEF Unused
    <3> QED  BY <2>1, <3>3 DEF SyncInv, FreshInv
  <2> QED  BY <2>2, <2>3, <2>4, <2>5, <2>6, <2>7 DEF SyncInv
<1> QED  BY <1>1, <1>2, StartStep, InterruptStep, FreeStep DEF Next

THEOREM SyncInvariant == Launch = "orderly" => (Spec => []SyncInv)
<1> SUFFICES ASSUME Launch = "orderly" PROVE Spec => []SyncInv
  OBVIOUS
<1>1. SyncInv /\ [Next]_vars => SyncInv'
  BY SyncNext
<1> QED  BY SyncInit, <1>1, PTL DEF Spec

(* Programs launched in good order never leave their types: every semaphore   *)
(* they use is there and its value is no less than 0.                         *)
THEOREM SyncTypeCorrect == Launch = "orderly" => (Spec => []TypeOK)
<1> SUFFICES ASSUME Launch = "orderly" PROVE Spec => []TypeOK
  OBVIOUS
<1>1. SyncInv => TypeOK
  BY DEF SyncInv
<1> QED  BY SyncInvariant, <1>1, PTL

(* However many producers and consumers there are, and whenever they are      *)
(* interrupted, two are never in the critical region of the same buffer.      *)
THEOREM SyncMutualExclusion == Launch = "orderly" => (Spec => []MutualExclusion)
<1> SUFFICES ASSUME Launch = "orderly" PROVE Spec => []MutualExclusion
  OBVIOUS
<1>1. SyncInv => MutualExclusion
  <2> SUFFICES ASSUME SyncInv, NEW p \in Programs, NEW q \in Programs, p # q, Inside(p), Inside(q)
               PROVE  id[p]["buff"] # id[q]["buff"]
    BY DEF MutualExclusion
  <2>1. id[p]["mutex"] = id[p]["buff"] /\ id[q]["mutex"] = id[q]["buff"]
    BY InsideLoop, LoopPlaces DEF SyncInv, Keys, Sems
  <2> QED  BY <2>1 DEF SyncInv, MutexInv
<1> QED  BY SyncInvariant, <1>1, PTL

(* No slot of any incarnation of the buffer is counted twice or forgotten.    *)
THEOREM SyncSlotsAccounted == Launch = "orderly" => (Spec => []SlotsAccounted)
<1> SUFFICES ASSUME Launch = "orderly" PROVE Spec => []SlotsAccounted
  OBVIOUS
<1>1. SyncInv => SlotsAccounted
  BY DEF SyncInv, CountInv, Count, SlotsAccounted
<1> QED  BY SyncInvariant, <1>1, PTL

------------------------------------------------------------------------------
(* The incarnations of the buffer are bounded buffers. *)

(* The slot of the oldest item of incarnation g. *)
Oldest(g) == (val["read"][g] + Cardinality(With(g, {<<"advance", "read">>}))) % BUFFSIZE

(* The programs whose item is in incarnation g without being counted as full. *)
Carries(p) ==
    \/ p \in Consumers /\ at[p] \in {<<"down", "mutex">>, <<"load", "buff">>}
    \/ p \in Producers /\ at[p] \in {<<"up", "mutex">>, <<"up", "full">>}

Carriers(g) == {p \in Programs : id[p]["buff"] = g /\ Carries(p)}
Steppers(g) == With(g, {<<"advance", "read">>})

(* Between a producer's look for an index and its initialisation. *)
Looked(k) ==
    {<<"get", "read">>, <<"get", "write">>, <<"attach", "write">>, <<"set", "read">>}
        \cup IF k = "read" THEN {<<"look", "write">>} ELSE {<<"set", "write">>}

(* The objects of an incarnation are made in this order. *)
MadeInv ==
    /\ made["mutex"] <= made["empty"] /\ made["empty"] <= made["full"]
    /\ made["full"] <= made["write"] /\ made["write"] <= made["read"]

(* Who initialises an index initialises it before anybody has a mutex for it. *)
LookedInv ==
    \A p \in Producers, k \in Indices :
        p \notin gone /\ k \in unseen[p] /\ at[p] \in Looked(k) => bound["mutex"] = 0

UntouchedInv == \A k \in Indices, g \in Gens : g > made["mutex"] => val[k][g] = 0

(* The producers write behind the last item. *)
RearInv == \A g \in Gens : val["write"][g] = (Oldest(g) + Length(g)) % BUFFSIZE

(* A consumer that has not got through its start-up has removed nothing. *)
ItemInv == \A c \in Consumers : ~InLoop(c) => item[c] = Values

BufferInv == SyncInv /\ MadeInv /\ LookedInv /\ UntouchedInv /\ RearInv /\ ItemInv

(* A set that does not change in its other elements nor in this one. *)
LEMMA NoneMoves ==
    ASSUME NEW S, NEW T, NEW x, T \ {x} = S \ {x}, x \notin S, x \notin T
    PROVE  T = S
  OBVIOUS

(* A set that changes in one element only. *)
LEMMA OneMoves ==
    ASSUME NEW S, IsFiniteSet(S), NEW T, NEW x, T \ {x} = S \ {x}
    PROVE  /\ IsFiniteSet(T)
           /\ x \in S /\ x \in T => Cardinality(T) = Cardinality(S)
           /\ x \notin S /\ x \notin T => Cardinality(T) = Cardinality(S)
           /\ x \notin S /\ x \in T => Cardinality(T) = Cardinality(S) + 1
           /\ x \in S /\ x \notin T => Cardinality(T) + 1 = Cardinality(S)
<1>1. CASE (x \in S) <=> (x \in T)
  <2>1. T = S
    BY <1>1
  <2> QED  BY <1>1, <2>1
<1>2. CASE x \notin S /\ x \in T
  <2>1. T = S \cup {x}
    BY <1>2
  <2> QED  BY <1>2, <2>1, FS_AddElement
<1>3. CASE x \in S /\ x \notin T
  <2>1. T = S \ {x} /\ S = T \cup {x}
    BY <1>3
  <2>2. IsFiniteSet(T)
    BY <2>1, FS_RemoveElement
  <2>3. Cardinality(S) = Cardinality(T) + 1
    BY <1>3, <2>1, <2>2, FS_AddElement
  <2> QED  BY <1>3, <2>2, <2>3
<1> QED  BY <1>1, <1>2, <1>3

(* Each item is counted as full or carried by one program, which is in the    *)
(* middle of a turn; there are as many as the count of the slots allows.      *)
LEMMA Lengths ==
    ASSUME SyncInv, NEW g \in Gens
    PROVE  /\ IsFiniteSet(Carriers(g)) /\ Cardinality(Carriers(g)) \in Nat
           /\ Length(g) = val["full"][g] + Cardinality(Carriers(g))
           /\ Length(g) \in 0 .. BUFFSIZE
           /\ \A p \in Carriers(g) : Length(g) > 0
           /\ \A p \in Turns(g) \ Carriers(g) : Length(g) < BUFFSIZE
<1> DEFINE taking == With(g, {<<"down", "mutex">>, <<"load", "buff">>}) \cap Consumers
           putting == With(g, {<<"up", "mutex">>, <<"up", "full">>}) \cap Producers
<1>1. /\ TypeOK /\ IsFiniteSet(Programs) /\ BUFFSIZE \in Nat \ {0}
      /\ val["full"][g] \in Nat /\ val["empty"][g] \in Nat
  BY ProgramsAssumption, BuffSizeAssumption DEF SyncInv, TypeOK, Sems
<1>2. Carriers(g) \subseteq Turns(g) /\ Turns(g) \subseteq Programs
  <2>1. ASSUME NEW p \in Carriers(g) PROVE p \in Turns(g)
    <3>1. p \in Programs /\ id[p]["buff"] = g /\ Between(p)
      BY <2>1 DEF Carriers, Carries, Between, Inside
    <3>2. id[p]["full"] = g
      BY <1>1, <3>1, InsideLoop, LoopPlaces DEF SyncInv, Keys, Sems
    <3> QED  BY <3>1, <3>2 DEF Turns
  <2> QED  BY <2>1 DEF Turns
<1>3. /\ IsFiniteSet(Turns(g)) /\ IsFiniteSet(Carriers(g))
      /\ Cardinality(Turns(g)) \in Nat /\ Cardinality(Carriers(g)) \in Nat
      /\ Cardinality(Carriers(g)) <= Cardinality(Turns(g))
  BY <1>1, <1>2, FS_Subset, FS_CardinalityType
<1>4. Length(g) = val["full"][g] + Cardinality(Carriers(g))
  <2>1. Carriers(g) = taking \cup putting /\ taking \cap putting = {}
    BY ProgramsAssumption DEF Carriers, Carries, With, Programs
  <2>2. IsFiniteSet(taking) /\ IsFiniteSet(putting)
    BY <1>3, <2>1, FS_Subset
  <2>3. Cardinality(taking) \in Nat /\ Cardinality(putting) \in Nat
    BY <2>2, FS_CardinalityType
  <2>4. Cardinality(Carriers(g)) = Cardinality(taking) + Cardinality(putting)
    <3>1. Cardinality(taking \cap putting) = 0
      BY <2>1, FS_EmptySet
    <3> HIDE DEF taking, putting
    <3>2. Cardinality(taking \cup putting)
              = Cardinality(taking) + Cardinality(putting) - Cardinality(taking \cap putting)
      BY <2>2, FS_Union
    <3> QED  BY <2>1, <2>3, <3>1, <3>2
  <2>5. Length(g) = val["full"][g] + Cardinality(taking) + Cardinality(putting)
    BY DEF Length
  <2> HIDE DEF taking, putting
  <2> QED  BY <1>1, <2>3, <2>4, <2>5
<1>5. val["full"][g] + val["empty"][g] + Cardinality(Turns(g)) \in {0, BUFFSIZE}
  BY DEF SyncInv, CountInv, Count
<1>6. Length(g) \in 0 .. BUFFSIZE
  BY <1>1, <1>3, <1>4, <1>5
<1>7. ASSUME NEW p \in Carriers(g) PROVE Length(g) > 0
  <2>1. Cardinality(Carriers(g)) # 0
    BY <1>3, FS_EmptySet
  <2> QED  BY <1>1, <1>3, <1>4, <2>1
<1>8. ASSUME NEW p \in Turns(g) \ Carriers(g) PROVE Length(g) < BUFFSIZE
  <2>1. Cardinality(Turns(g)) # Cardinality(Carriers(g)) /\ Cardinality(Turns(g)) # 0
    BY <1>2, <1>3, FS_Subset, FS_EmptySet
  <2> QED  BY <1>1, <1>3, <1>4, <1>5, <2>1
<1> QED  BY <1>3, <1>4, <1>6, <1>7, <1>8

(* Nobody is with the read index while another is inside. *)
LEMMA OneStepper ==
    ASSUME SyncInv, NEW p \in Programs, Inside(p)
    PROVE  Steppers(id[p]["buff"]) \subseteq {p}
<1>1. ASSUME NEW q \in Steppers(id[p]["buff"]) PROVE q = p
  <2>1. q \in Programs /\ Inside(q) /\ id[q]["buff"] = id[p]["buff"]
    BY <1>1 DEF Steppers, With, Inside, Indices
  <2>2. id[q]["mutex"] = id[p]["mutex"]
    BY <2>1, InsideLoop, LoopPlaces DEF SyncInv, Keys, Sems
  <2> QED  BY <2>1, <2>2 DEF SyncInv, MutexInv
<1> QED  BY <1>1

(* Where the oldest item is. *)
LEMMA SteppersType ==
    ASSUME SyncInv, NEW g \in Gens
    PROVE  /\ IsFiniteSet(Steppers(g)) /\ Cardinality(Steppers(g)) \in Nat
           /\ Oldest(g) = (val["read"][g] + Cardinality(Steppers(g))) % BUFFSIZE
           /\ Oldest(g) \in Slots
<1>1. Steppers(g) \subseteq Programs /\ IsFiniteSet(Programs) /\ BUFFSIZE \in Nat \ {0}
  BY ProgramsAssumption, BuffSizeAssumption DEF Steppers, With
<1>2. IsFiniteSet(Steppers(g)) /\ Cardinality(Steppers(g)) \in Nat
  BY <1>1, FS_Subset, FS_CardinalityType
<1>3. Oldest(g) = (val["read"][g] + Cardinality(Steppers(g))) % BUFFSIZE
  BY DEF Oldest, Steppers
<1>4. val["read"][g] \in Nat
  BY <1>1 DEF SyncInv, IndexInv, Indices, Slots
<1> QED  BY <1>1, <1>2, <1>3, <1>4 DEF Slots

(* An incarnation of the buffer is a ring in good order. *)
LEMMA BufferRing ==
    ASSUME SyncInv, NEW g \in Gens
    PROVE  /\ IsRing(slots[g], Oldest(g), Length(g), BUFFSIZE, Numbers)
           /\ Contents(g) = RingSeq(slots[g], Oldest(g), Length(g), BUFFSIZE)
           /\ Len(Contents(g)) = Length(g)
<1>1. slots[g] \in [0 .. BUFFSIZE - 1 -> Numbers] /\ Oldest(g) \in 0 .. BUFFSIZE - 1
  BY SteppersType DEF SyncInv, TypeOK, Slots
<1>2. IsRing(slots[g], Oldest(g), Length(g), BUFFSIZE, Numbers)
  BY <1>1, Lengths, BuffSizeAssumption DEF IsRing
<1>3. Contents(g) = RingSeq(slots[g], Oldest(g), Length(g), BUFFSIZE)
  BY DEF Contents, Oldest
<1> QED  BY <1>2, <1>3, RingSeqType

(* The same of the next state. *)
Measured ==
    \A g \in Gens :
        /\ IsFiniteSet(Carriers(g)) /\ Cardinality(Carriers(g)) \in Nat
        /\ Length(g) = val["full"][g] + Cardinality(Carriers(g))
        /\ Length(g) \in 0 .. BUFFSIZE
        /\ IsFiniteSet(Steppers(g)) /\ Cardinality(Steppers(g)) \in Nat
        /\ Oldest(g) = (val["read"][g] + Cardinality(Steppers(g))) % BUFFSIZE
        /\ Oldest(g) \in Slots

LEMMA MeasuredNext == SyncInv' => Measured'
<1>1. SyncInv => Measured
  BY Lengths, SteppersType DEF Measured
<1> QED  BY <1>1, PTL

(* In the beginning every incarnation is empty. *)
LEMMA BufferInit == Init => BufferInv /\ \A g \in Gens : Buffer(g)!Init
<1> SUFFICES ASSUME Init PROVE BufferInv /\ \A g \in Gens : Buffer(g)!Init
  OBVIOUS
<1>1. SyncInv
  BY SyncInit
<1>2. MadeInv /\ LookedInv /\ UntouchedInv /\ ItemInv
  BY DEF Init, MadeInv, LookedInv, UntouchedInv, ItemInv, Keys, Sems, Indices, Programs
<1>3. ASSUME NEW g \in Gens
      PROVE  Oldest(g) = 0 /\ Length(g) = 0 /\ val["write"][g] = 0
  <2>1. Carriers(g) = {} /\ Steppers(g) = {}
    BY DEF Init, Carriers, Carries, Steppers, With
  <2>2. Cardinality({}) = 0
    BY FS_EmptySet
  <2>3. val["full"][g] = 0 /\ val["read"][g] = 0 /\ val["write"][g] = 0
    BY DEF Init, Sems, Indices
  <2>7. Cardinality(Carriers(g)) = 0 /\ Cardinality(Steppers(g)) = 0
    BY <2>1, <2>2
  <2>4. Length(g) = 0
    <3>1. Length(g) = val["full"][g] + Cardinality(Carriers(g))
      BY <1>1, Lengths
    <3> QED  BY <2>3, <2>7, <3>1
  <2>6. Oldest(g) = 0 % BUFFSIZE
    <3>1. Oldest(g) = (val["read"][g] + Cardinality(Steppers(g))) % BUFFSIZE
      BY <1>1, SteppersType
    <3>2. 0 + 0 = 0
      OBVIOUS
    <3> QED  BY <2>3, <2>7, <3>1, <3>2
  <2>5. 0 % BUFFSIZE = 0
    BY BuffSizeAssumption, ModOnce
  <2> QED  BY <2>3, <2>4, <2>5, <2>6
<1>4. RearInv
  <2>1. 0 % BUFFSIZE = 0
    BY BuffSizeAssumption, ModOnce
  <2>2. \A g \in Gens : val["write"][g] = (Oldest(g) + Length(g)) % BUFFSIZE
    BY <1>3, <2>1
  <2> QED  BY <2>2 DEF RearInv
<1>5. ASSUME NEW g \in Gens PROVE Buffer(g)!Init
  <2>1. Contents(g) \in Seq(Numbers) /\ Len(Contents(g)) = 0
    BY <1>1, <1>3, BufferRing, RingSeqType
  <2>2. Contents(g) = <<>>
    BY <2>1
  <2>3. \A c \in Consumers : item[c] = Values
    BY DEF Init
  <2> QED  BY <2>2, <2>3 DEF Buffer!Init
<1> QED  BY <1>1, <1>2, <1>4, <1>5 DEF BufferInv

(* What leaves a ring as it is. *)
LEMMA SameRing ==
    ASSUME RearInv, NEW g \in Gens, Oldest(g)' = Oldest(g), Length(g)' = Length(g),
           slots'[g] = slots[g], val'["write"][g] = val["write"][g]
    PROVE  /\ Contents(g)' = Contents(g)
           /\ val'["write"][g] = (Oldest(g)' + Length(g)') % BUFFSIZE
  BY DEF RearInv, Contents, Oldest

(* No item and no index belongs to a program that is in no turn. *)
LEMMA NotInTurn ==
    ASSUME NEW p, ~Between(p)
    PROVE  ~Carries(p) /\ at[p] # <<"advance", "read">>
<1>1. ~Carries(p)
  BY DEF Carries, Between, Inside
<1>2. at[p] # <<"advance", "read">>
  BY DEF Between, Inside, Indices
<1> QED  BY <1>1, <1>2

(* A program that moves outside of the turns leaves every ring as it is. *)
LEMMA QuietRings ==
    ASSUME SyncInv, SyncInv', RearInv, NEW p \in Programs, ~Between(p), ~Between(p)',
           \A q \in Programs : q # p => at'[q] = at[q] /\ id'[q] = id[q],
           slots' = slots, \A k \in {"read", "write", "full"} : val'[k] = val[k]
    PROVE  RearInv' /\ \A g \in Gens : Contents(g)' = Contents(g)
<1>1. ASSUME NEW g \in Gens
      PROVE  /\ Contents(g)' = Contents(g)
             /\ val'["write"][g] = (Oldest(g)' + Length(g)') % BUFFSIZE
  <2>1. \A q \in Programs : q # p => (Carries(q)' <=> Carries(q))
    BY DEF Carries
  <2>2. /\ ~Carries(p) /\ at[p] # <<"advance", "read">>
        /\ ~Carries(p)' /\ at'[p] # <<"advance", "read">>
    <3>1. ~Carries(p) /\ at[p] # <<"advance", "read">>
      BY NotInTurn
    <3>2. ~Carries(p)'
      BY DEF Carries, Between, Inside
    <3>3. at'[p] # <<"advance", "read">>
      BY DEF Between, Inside, Indices
    <3> QED  BY <3>1, <3>2, <3>3
  <2>3. Carriers(g)' = Carriers(g)
    BY <2>1, <2>2 DEF Carriers
  <2>4. Steppers(g)' = Steppers(g)
    BY <2>2 DEF Steppers, With
  <2>5. Length(g)' = Length(g)
    BY <2>3, Lengths, MeasuredNext DEF Measured
  <2>6. Oldest(g)' = Oldest(g)
    BY <2>4, SteppersType, MeasuredNext DEF Measured
  <2> QED  BY <2>5, <2>6, SameRing
<1> QED  BY <1>1 DEF RearInv

(* A buffer does not change with its items and with who has taken which. *)
LEMMA SameBuffer ==
    ASSUME NEW g \in Gens, Contents(g)' = Contents(g), item' = item,
           \A c \in Consumers : id'[c]["buff"] = id[c]["buff"] \/ item[c] = Values
    PROVE  UNCHANGED Buffer(g)!vars
<1>1. \A c \in Consumers : (IF id'[c]["buff"] = g THEN item'[c] ELSE Values)
                            = (IF id[c]["buff"] = g THEN item[c] ELSE Values)
  OBVIOUS
<1> QED  BY <1>1 DEF Buffer!vars

(* What a step does to the buffers: nothing or what a bounded buffer may. *)
BuffersStep == \A g \in Gens : Buffer(g)!Next \/ UNCHANGED Buffer(g)!vars

(* A step of the start-up is none of the buffers. *)
LEMMA StartUp ==
    ASSUME BufferInv, SyncInv', NEW p \in Programs, Starting(p), ~Between(p)',
           \A q \in Programs : q # p => at'[q] = at[q] /\ id'[q] = id[q] /\ unseen'[q] = unseen[q],
           slots' = slots, item' = item, gone \subseteq gone',
           \A k \in {"read", "write", "full"} : val'[k] = val[k],
           made["mutex"] <= made'["mutex"], MadeInv',
           bound'["mutex"] = bound["mutex"] \/ p \in Producers,
           p \in Producers => \A k \in Indices :
                p \notin gone' /\ k \in unseen'[p] /\ at'[p] \in Looked(k) => bound'["mutex"] = 0
    PROVE  BufferInv' /\ BuffersStep
<1>1. SyncInv /\ RearInv /\ ItemInv /\ ~InLoop(p)
  BY DEF BufferInv, Starting, InLoop, LoopCalls
<1>2. ~Between(p)
  BY <1>1, InsideLoop DEF SyncInv
<1>3. RearInv' /\ \A g \in Gens : Contents(g)' = Contents(g)
  BY <1>1, <1>2, QuietRings
<1>4. LookedInv'
  <2>1. ASSUME NEW q \in Producers, NEW k \in Indices, q # p,
               q \notin gone', k \in unseen'[q], at'[q] \in Looked(k)
        PROVE  bound'["mutex"] = 0
    <3>1. q \in Programs /\ q \notin gone /\ k \in unseen[q] /\ at[q] \in Looked(k)
      BY <2>1 DEF Programs
    <3>2. Starting(q)
      BY <3>1 DEF Starting, Looked
    <3>3. p \notin Producers
      BY <1>1, <2>1, <3>2 DEF SyncInv, LaunchInv
    <3> QED  BY <3>1, <3>3 DEF BufferInv, LookedInv
  <2> QED  BY <2>1 DEF LookedInv
<1>5. UntouchedInv'
  <2>1. \A k \in Indices : val'[k] = val[k]
    BY DEF Indices
  <2>2. made["mutex"] \in Nat /\ made'["mutex"] \in Nat
    BY <1>1, BoundsAssumption DEF SyncInv, TypeOK, Keys, Sems
  <2>3. \A g \in Gens : g > made'["mutex"] => g > made["mutex"]
    BY <2>2 DEF Gens
  <2> QED  BY <2>1, <2>3 DEF BufferInv, UntouchedInv
<1>6. ItemInv'
  <2>1. \A q \in Programs : q # p => (InLoop(q)' <=> InLoop(q))
    BY DEF InLoop
  <2> QED  BY <1>1, <2>1 DEF ItemInv, Programs
<1>7. BuffersStep
  <2>1. \A c \in Consumers : id'[c]["buff"] = id[c]["buff"] \/ item[c] = Values
    BY <1>1 DEF ItemInv, Programs
  <2> QED  BY <1>3, <2>1, SameBuffer DEF BuffersStep
<1> QED  BY <1>3, <1>4, <1>5, <1>6, <1>7 DEF BufferInv

(* The start-up leads to no place in a turn. *)
LEMMA StartPlacesQuiet ==
    ASSUME NEW then \in StartPlaces
    PROVE  /\ then \notin {<<"store", "buff">>, <<"load", "buff">>, <<"up", "mutex">>,
                           <<"down", "mutex">>, <<"up", "full">>, <<"up", "empty">>}
           /\ then \notin {"advance"} \X Indices
  BY DEF StartPlaces, StartCalls

(* A call that makes no object and initialises none. *)
LEMMA PlainStartUp ==
    ASSUME BufferInv, SyncInv', NEW p \in Programs, Starting(p), NEW then \in StartPlaces,
           at' = [at EXCEPT ![p] = then] \/ at' = at,
           \A q \in Programs : q # p => id'[q] = id[q] /\ unseen'[q] = unseen[q],
           UNCHANGED <<bound, made, slots, item>>, gone \subseteq gone',
           \A k \in {"read", "write", "full"} : val'[k] = val[k],
           p \in Producers => \A k \in Indices :
                p \notin gone' /\ k \in unseen'[p] /\ at'[p] \in Looked(k) => bound["mutex"] = 0
    PROVE  BufferInv' /\ BuffersStep
<1>1. SyncInv /\ TypeOK
  BY DEF BufferInv, SyncInv
<1>2. \A q \in Programs : q # p => at'[q] = at[q]
  BY <1>1 DEF TypeOK
<1>3. ~Between(p)'
  <2>1. CASE at'[p] = then
    BY <2>1, StartPlacesQuiet DEF Between, Inside
  <2>2. CASE at' = at
    BY <2>2 DEF Starting, Between, Inside, Indices
  <2> QED  BY <1>1, <2>1, <2>2 DEF TypeOK
<1>4. made["mutex"] <= made'["mutex"] /\ MadeInv'
  <2>1. made["mutex"] \in Nat
    BY <1>1 DEF TypeOK, Keys, Sems
  <2> QED  BY <2>1 DEF BufferInv, MadeInv
<1> QED  BY <1>2, <1>3, <1>4, StartUp

(* Without an index there is no mutex of that incarnation yet. *)
LEMMA LookBuffer ==
    ASSUME BufferInv, SyncInv', NEW p \in Producers, NEW k \in Keys, NEW then, StepFrom(p, then),
           Look(p, k, then),
           \A k2 \in Indices : then \in Looked(k2) => k2 = k \/ at[p] \in Looked(k2)
    PROVE  BufferInv' /\ BuffersStep
<1>1. p \in Programs /\ Starting(p) /\ SyncInv /\ TypeOK /\ then \in StartPlaces
  BY AtStart DEF Programs, BufferInv, SyncInv, StepFrom, Look, StartCalls
<1>2. /\ at' = [at EXCEPT ![p] = then] /\ at'[p] = then
      /\ UNCHANGED <<bound, made, val, slots, gone, id, item>>
      /\ unseen' = [unseen EXCEPT ![p] = IF Exists(k) THEN @ \ {k} ELSE @ \cup {k}]
  BY <1>1 DEF Look, Goto, kernel, TypeOK
<1>3. \A q \in Programs : q # p => unseen'[q] = unseen[q]
  BY <1>1, <1>2 DEF TypeOK
<1>4. ASSUME NEW k2 \in Indices, p \notin gone, k2 \in unseen'[p], then \in Looked(k2)
      PROVE  bound["mutex"] = 0
  <2>1. CASE k2 # k
    <3>1. k2 \in unseen[p]
      BY <1>1, <1>2, <1>4, <2>1 DEF TypeOK
    <3> QED  BY <1>4, <2>1, <3>1 DEF BufferInv, LookedInv
  <2>2. CASE k2 = k
    <3>1. bound[k] = 0
      BY <1>1, <1>2, <1>4, <2>2 DEF TypeOK, Exists
    <3>2. PICK e \in 1 .. Incarnations + 1 : OfEpoch(e)
      BY <1>1, StartingEpoch
    <3>3. /\ made[k] = e - 1
          /\ bound["mutex"] # 0 => made["mutex"] = e
          /\ made["mutex"] <= made[k]
          /\ e \in Nat
      <4>1. made["mutex"] \in Nat /\ made["empty"] \in Nat /\ made["full"] \in Nat
            /\ made["write"] \in Nat /\ made["read"] \in Nat
        BY <1>1 DEF TypeOK, Keys, Sems, Indices
      <4> QED  BY <2>2, <3>1, <3>2, <4>1 DEF OfEpoch, Keys, Sems, Indices, BufferInv, MadeInv
    <3> QED  BY <3>3
  <2> QED  BY <2>1, <2>2
<1> QED  BY <1>1, <1>2, <1>3, <1>4, PlainStartUp

(* An object is made after those that are made before it. *)
LEMMA GetBuffer ==
    ASSUME BufferInv, SyncInv', NEW p \in Programs, NEW k \in Keys, NEW then, StepFrom(p, then),
           Get(p, k, then), p \in Producers \/ k = "buff",
           \A k2 \in Indices : then \in Looked(k2) => at[p] \in Looked(k2)
    PROVE  BufferInv' /\ BuffersStep
<1>1. Starting(p) /\ SyncInv /\ TypeOK /\ then \in StartPlaces /\ at[p] = <<"get", k>>
  BY AtStart DEF BufferInv, SyncInv, StepFrom, Get, StartCalls, At
<1>2. /\ at' = [at EXCEPT ![p] = then] /\ at'[p] = then
      /\ UNCHANGED <<val, slots, gone, unseen, item>>
      /\ \A q \in Programs : q # p => at'[q] = at[q] /\ id'[q] = id[q]
  BY <1>1 DEF Get, Goto, TypeOK
<1>3. ASSUME NEW k2 \in Indices, p \in Producers, p \notin gone, k2 \in unseen[p], then \in Looked(k2)
      PROVE  bound["mutex"] = 0 /\ at[p] \in Looked(k2)
  BY <1>3 DEF BufferInv, LookedInv
<1>4. CASE UNCHANGED <<bound, made>>
  BY <1>1, <1>2, <1>3, <1>4, PlainStartUp
<1>5. ASSUME ~Exists(k), made' = [made EXCEPT ![k] = @ + 1],
             bound' = [bound EXCEPT ![k] = made[k] + 1]
      PROVE  BufferInv' /\ BuffersStep
  <2>1. /\ made'[k] = made[k] + 1 /\ \A k2 \in Keys \ {k} : made'[k2] = made[k2]
        /\ \A k2 \in Keys \ {k} : bound'[k2] = bound[k2]
    BY <1>1, <1>5 DEF TypeOK
  <2>2. PICK e \in 1 .. Incarnations + 1 : OfEpoch(e)
    BY <1>1, StartingEpoch
  <2>3. /\ made[k] = e - 1 /\ e \in Nat
        /\ \A k2 \in Keys : made[k2] \in Nat /\ made[k2] \in {e - 1, e}
    BY <1>1, <1>5, <2>2 DEF OfEpoch, Exists, TypeOK
  <2>4. ASSUME p \in Producers, NEW k2 \in Keys, at[p] \notin ProducerBefore(k2) PROVE made[k2] = e
    <3>1. bound[k2] # 0
      BY <1>1, <2>4 DEF SyncInv, IdInv, Before
    <3> QED  BY <2>2, <3>1 DEF OfEpoch
  <2>5. /\ k = "empty" => made["full"] = e
        /\ k = "mutex" => made["empty"] = e
        /\ k = "full" => made["write"] = e
        /\ k = "write" => made["read"] = e
    BY <1>1, <2>4 DEF ProducerBefore, Keys, Sems, Indices
  <2>6. \A k2 \in Keys : made'[k2] = IF k2 = k THEN e ELSE made[k2]
    BY <2>1, <2>3
  <2>7. MadeInv'
    <3>1. {"mutex", "empty", "full", "write", "read"} \subseteq Keys
      BY DEF Keys, Sems, Indices
    <3>2. made["mutex"] <= made["empty"] /\ made["empty"] <= made["full"]
          /\ made["full"] <= made["write"] /\ made["write"] <= made["read"]
      BY DEF BufferInv, MadeInv
    <3>3. made'["mutex"] <= made'["empty"]
      BY <2>3, <2>5, <2>6, <3>1, <3>2
    <3>4. made'["empty"] <= made'["full"]
      BY <2>3, <2>5, <2>6, <3>1, <3>2
    <3>5. made'["full"] <= made'["write"]
      BY <2>3, <2>5, <2>6, <3>1, <3>2
    <3>6. made'["write"] <= made'["read"]
      BY <2>3, <2>5, <2>6, <3>1, <3>2
    <3> QED  BY <3>3, <3>4, <3>5, <3>6 DEF MadeInv
  <2>8. made["mutex"] <= made'["mutex"]
    BY <2>3, <2>6 DEF Keys, Sems
  <2>9. bound'["mutex"] = bound["mutex"] \/ p \in Producers
    BY <2>1 DEF Keys, Sems
  <2>10. ASSUME NEW k2 \in Indices, p \in Producers, p \notin gone, k2 \in unseen[p], then \in Looked(k2)
         PROVE  bound'["mutex"] = 0
    <3>1. k # "mutex"
      BY <1>1, <1>3, <2>10 DEF Looked
    <3> QED  BY <1>3, <2>1, <2>10, <3>1 DEF Keys, Sems
  <2>11. ~Between(p)'
    BY <1>1, <1>2, StartPlacesQuiet DEF Between, Inside
  <2> QED  BY <1>1, <1>2, <2>7, <2>8, <2>9, <2>10, <2>11, StartUp
<1> QED  BY <1>4, <1>5 DEF Get

(* Find, GetSem, Attach and Bind. *)
LEMMA PassBuffer ==
    ASSUME BufferInv, SyncInv', NEW p \in Programs, NEW then, StepFrom(p, then), Starting(p),
           at' = [at EXCEPT ![p] = then] \/ at' = at,
           \A q \in Programs : q # p => id'[q] = id[q],
           UNCHANGED <<bound, made, val, slots, unseen, item>>, gone \subseteq gone',
           \A k \in Indices : then \in Looked(k) => at[p] \in Looked(k)
    PROVE  BufferInv' /\ BuffersStep
<1>1. SyncInv /\ TypeOK /\ then \in StartPlaces
  BY DEF BufferInv, SyncInv, StepFrom
<1>2. at'[p] = then \/ at'[p] = at[p]
  BY <1>1 DEF TypeOK
<1>3. ASSUME NEW k \in Indices, p \in Producers, p \notin gone', k \in unseen'[p], at'[p] \in Looked(k)
      PROVE  bound["mutex"] = 0
  <2>1. at[p] \in Looked(k) /\ p \notin gone /\ k \in unseen[p]
    BY <1>2, <1>3
  <2> QED  BY <1>3, <2>1 DEF BufferInv, LookedInv
<1> QED  BY <1>1, <1>3, PlainStartUp

(* A consumer looks for what the producers have made. *)
LEMMA FindBuffer ==
    ASSUME BufferInv, SyncInv', NEW p \in Programs, NEW k \in Keys, NEW then, StepFrom(p, then),
           Find(p, k, then) \/ GetSem(p, k, then),
           \A k2 \in Indices : then \notin Looked(k2)
    PROVE  BufferInv' /\ BuffersStep
<1>1. Starting(p) /\ at' = [at EXCEPT ![p] = then]
  BY AtStart DEF StepFrom, Find, GetSem, StartCalls, Goto
<1>2. /\ UNCHANGED <<bound, made, val, slots, unseen, item, gone>>
      /\ \A q \in Programs : q # p => id'[q] = id[q]
  BY DEF BufferInv, SyncInv, TypeOK, Find, GetSem, kernel
<1> QED  BY <1>1, <1>2, PassBuffer

(* The memory is attached, or the program ends. *)
LEMMA AttachBuffer ==
    ASSUME BufferInv, SyncInv', NEW p \in Programs, NEW k \in Keys, NEW with, NEW then,
           StepFrom(p, then), Attach(p, k, with, then),
           \A k2 \in Indices : then \in Looked(k2) => at[p] \in Looked(k2)
    PROVE  BufferInv' /\ BuffersStep
<1>1. Starting(p) /\ (at' = [at EXCEPT ![p] = then] \/ at' = at) /\ gone \subseteq gone'
  BY AtStart DEF StepFrom, Attach, StartCalls, Goto, Exit
<1>2. UNCHANGED <<bound, made, val, slots, unseen, item, id>>
  BY DEF Attach, kernel, local
<1> QED  BY <1>1, <1>2, PassBuffer

(* The handler is bound. *)
LEMMA BindBuffer ==
    ASSUME BufferInv, SyncInv', NEW p \in Programs, NEW then, StepFrom(p, then), Bind(p, then),
           \A k2 \in Indices : then \notin Looked(k2)
    PROVE  BufferInv' /\ BuffersStep
<1>1. Starting(p) /\ at' = [at EXCEPT ![p] = then]
  BY AtStart DEF StepFrom, Bind, StartCalls, Goto
<1>2. UNCHANGED <<bound, made, val, slots, unseen, item, id, gone>>
  BY DEF Bind, kernel, local
<1> QED  BY <1>1, <1>2, PassBuffer

(* What an object is initialised to is what it was made with, except for the  *)
(* semaphores whose value is not seen in the buffer.                          *)
LEMMA SetBuffer ==
    ASSUME BufferInv, SyncInv', NEW p \in Producers, NEW k \in Sems \cup Indices, NEW then,
           StepFrom(p, then), NEW v, k \in Indices \cup {"full"} => v = 0,
           Set(p, k, v, then),
           \A k2 \in Indices : then \in Looked(k2) => k2 # k /\ at[p] \in Looked(k2)
    PROVE  BufferInv' /\ BuffersStep
<1>1. /\ p \in Programs /\ Starting(p) /\ SyncInv /\ TypeOK /\ then \in StartPlaces
      /\ at[p] = <<"set", k>> /\ p \notin gone
  BY AtStart DEF Programs, BufferInv, SyncInv, StepFrom, Set, StartCalls, At, Running
<1>2. /\ UNCHANGED <<bound, made, slots, id, item>> /\ gone \subseteq gone'
      /\ at' = [at EXCEPT ![p] = then] \/ (at' = at /\ gone' = gone \cup {p})
      /\ unseen' = [unseen EXCEPT ![p] = @ \ {k}]
  BY DEF Set, Goto, Exit
<1>3. /\ \A q \in Programs : q # p => unseen'[q] = unseen[q]
      /\ unseen'[p] = unseen[p] \ {k}
      /\ at'[p] = then \/ p \in gone'
  BY <1>1, <1>2 DEF TypeOK
<1>4. ASSUME NEW k2 \in Indices, p \notin gone', k2 \in unseen'[p], at'[p] \in Looked(k2)
      PROVE  bound["mutex"] = 0
  <2>1. at[p] \in Looked(k2) /\ k2 \in unseen[p]
    BY <1>3, <1>4
  <2> QED  BY <1>1, <2>1 DEF BufferInv, LookedInv
<1>5. ASSUME k \in unseen[p], Write(p, k, v)
      PROVE  \A k2 \in {"read", "write", "full"} : val'[k2] = val[k2]
  <2>1. k \in Keys /\ at[p] \notin Before(p, k)
    BY <1>1 DEF Before, ProducerBefore, Sems, Indices, Keys
  <2>2. PICK g0 \in Gens : g0 = id[p][k]
    <3>1. id[p][k] \in 0 .. Incarnations
      BY <1>1, <2>1 DEF TypeOK
    <3>2. id[p][k] # 0
      BY <1>1, <2>1 DEF SyncInv, IdInv
    <3> QED  BY <3>1, <3>2, BoundsAssumption DEF Gens
  <2>3. val' = [val EXCEPT ![k][g0] = v]
    BY <1>5, <2>2 DEF Write
  <2>4. ASSUME k \in Indices PROVE val[k][g0] = 0
    <3>1. bound["mutex"] = 0
      BY <1>1, <1>5, <2>4 DEF BufferInv, LookedInv, Looked, Indices
    <3>2. PICK e \in 1 .. Incarnations + 1 : OfEpoch(e)
      BY <1>1, StartingEpoch
    <3>3. g0 \in {0, bound[k]} /\ g0 # 0
      BY <1>1, <2>1, <2>2 DEF SyncInv, IdInv, Gens
    <3>4. g0 = e /\ made["mutex"] = e - 1
      BY <2>1, <3>1, <3>2, <3>3 DEF OfEpoch, Keys, Sems
    <3> QED  BY <2>4, <3>4 DEF BufferInv, UntouchedInv
  <2>5. ASSUME k = "full" PROVE val[k][g0] = 0
    <3>1. Count(g0) = 0
      BY <1>1, <1>5, <2>2, <2>5 DEF SyncInv, FreshInv, Unused, Sems
    <3>2. IsFiniteSet(Turns(g0)) /\ Cardinality(Turns(g0)) \in Nat
      BY ProgramsAssumption, FS_Subset, FS_CardinalityType DEF Turns
    <3>3. val["full"][g0] \in Nat /\ val["empty"][g0] \in Nat
      BY <1>1 DEF TypeOK, Sems
    <3>4. val["full"][g0] + val["empty"][g0] + Cardinality(Turns(g0)) = 0
      BY <3>1 DEF Count
    <3>5. val["full"][g0] = 0
      BY <3>2, <3>3, <3>4
    <3> QED  BY <2>5, <3>5
  <2>6. CASE k \in Indices \cup {"full"}
    <3>1. val[k][g0] = v
      BY <2>4, <2>5, <2>6
    <3>2. val' = val
      BY <1>1, <2>3, <3>1 DEF TypeOK
    <3> QED  BY <3>2
  <2>7. CASE k \notin Indices \cup {"full"}
    BY <1>1, <2>3, <2>7 DEF TypeOK, Sems, Indices
  <2> QED  BY <2>6, <2>7
<1>6. \A k2 \in {"read", "write", "full"} : val'[k2] = val[k2]
  BY <1>5 DEF Set
<1> QED  BY <1>1, <1>2, <1>3, <1>4, <1>6, PlainStartUp

(* The calls of the start-up. *)
LEMMA StartFroms ==
    ASSUME NEW p \in Programs, Running(p), UNCHANGED undo
    PROVE  /\ \A c \in StartCalls \ {"bind"}, k \in Keys : StepFrom(p, <<c, k>>)
           /\ StepFrom(p, <<"bind", "-">>) /\ StepFrom(p, <<"produce", "-">>)
           /\ StepFrom(p, <<"down", "full">>)
  BY StartPlacesAre DEF StepFrom

(* The start-up of a producer. *)
LEMMA ProducerStartBuffer ==
    ASSUME BufferInv, SyncInv', NEW p \in Producers, Running(p), UNCHANGED undo,
           \/ InitIndices(p, <<"get", "buff">>)
           \/ InitBuff(p, <<"look", "full">>)
           \/ CreateSem(p, "full", 0, <<"look", "empty">>)
           \/ CreateSem(p, "empty", BUFFSIZE, <<"look", "mutex">>)
           \/ CreateSem(p, "mutex", 1, <<"bind", "-">>)
           \/ Bind(p, <<"produce", "-">>)
    PROVE  BufferInv' /\ BuffersStep
<1>1. p \in Programs
  BY DEF Programs
<1>2. /\ \A c \in {"look", "get", "attach", "set"}, k \in Keys : StepFrom(p, <<c, k>>)
      /\ StepFrom(p, <<"bind", "-">>) /\ StepFrom(p, <<"produce", "-">>)
  BY <1>1, StartFroms DEF StartCalls
<1> USE DEF Keys, Sems, Indices
<1>3. CASE InitIndices(p, <<"get", "buff">>)
  <2>1. CASE Look(p, "read", <<"look", "write">>)
    <3>1. \A k \in Indices : <<"look", "write">> \in Looked(k) => k = "read"
      BY DEF Looked
    <3> QED  BY <1>2, <2>1, <3>1, LookBuffer
  <2>2. CASE Look(p, "write", <<"get", "read">>)
    <3>1. \A k \in Indices : k = "write" \/ at[p] \in Looked(k)
      BY <2>2 DEF Looked, Look, At
    <3> QED  BY <1>2, <2>2, <3>1, LookBuffer
  <2>3. CASE Get(p, "read", <<"get", "write">>)
    <3>1. \A k \in Indices : at[p] \in Looked(k)
      BY <2>3 DEF Looked, Get, At
    <3> QED  BY <1>1, <1>2, <2>3, <3>1, GetBuffer
  <2>4. CASE Get(p, "write", <<"attach", "write">>)
    <3>1. \A k \in Indices : at[p] \in Looked(k)
      BY <2>4 DEF Looked, Get, At
    <3> QED  BY <1>1, <1>2, <2>4, <3>1, GetBuffer
  <2>5. CASE Attach(p, "write", Indices, <<"set", "read">>)
    <3>1. \A k \in Indices : at[p] \in Looked(k)
      BY <2>5 DEF Looked, Attach, At
    <3> QED  BY <1>1, <1>2, <2>5, <3>1, AttachBuffer
  <2>6. CASE Set(p, "read", 0, <<"set", "write">>)
    <3>1. \A k \in Indices : <<"set", "write">> \in Looked(k) => k # "read" /\ at[p] \in Looked(k)
      BY <2>6 DEF Looked, Set, At
    <3> QED  BY <1>2, <2>6, <3>1, SetBuffer
  <2>7. CASE Set(p, "write", 0, <<"get", "buff">>)
    <3>1. \A k \in Indices : <<"get", "buff">> \notin Looked(k)
      BY DEF Looked
    <3> QED  BY <1>2, <2>7, <3>1, SetBuffer
  <2> QED  BY <1>3, <2>1, <2>2, <2>3, <2>4, <2>5, <2>6, <2>7 DEF InitIndices
<1>4. CASE InitBuff(p, <<"look", "full">>)
  <2>1. CASE Get(p, "buff", <<"attach", "buff">>)
    <3>1. \A k \in Indices : <<"attach", "buff">> \notin Looked(k)
      BY DEF Looked
    <3> QED  BY <1>1, <1>2, <2>1, <3>1, GetBuffer
  <2>2. CASE Attach(p, "buff", {"buff"}, <<"look", "full">>)
    <3>1. \A k \in Indices : <<"look", "full">> \notin Looked(k)
      BY DEF Looked
    <3> QED  BY <1>1, <1>2, <2>2, <3>1, AttachBuffer
  <2> QED  BY <1>4, <2>1, <2>2 DEF InitBuff
<1>5. ASSUME NEW k \in Sems, Look(p, k, <<"get", k>>) \/ Get(p, k, <<"set", k>>)
      PROVE  BufferInv' /\ BuffersStep
  <2>1. \A k2 \in Indices : <<"get", k>> \notin Looked(k2) /\ <<"set", k>> \notin Looked(k2)
    BY <1>5 DEF Looked
  <2>2. StepFrom(p, <<"get", k>>) /\ StepFrom(p, <<"set", k>>)
    BY <1>2, <1>5
  <2>3. CASE Look(p, k, <<"get", k>>)
    BY <1>5, <2>1, <2>2, <2>3, LookBuffer
  <2>4. CASE Get(p, k, <<"set", k>>)
    BY <1>1, <1>5, <2>1, <2>2, <2>4, GetBuffer
  <2> QED  BY <1>5, <2>3, <2>4
<1>6. \A k \in Indices : /\ <<"look", "empty">> \notin Looked(k) /\ <<"look", "mutex">> \notin Looked(k)
                         /\ <<"bind", "-">> \notin Looked(k) /\ <<"produce", "-">> \notin Looked(k)
  BY DEF Looked
<1>7. CASE Set(p, "full", 0, <<"look", "empty">>)
  BY <1>2, <1>6, <1>7, SetBuffer
<1>8. CASE Set(p, "empty", BUFFSIZE, <<"look", "mutex">>)
  BY <1>2, <1>6, <1>8, SetBuffer
<1>9. CASE Set(p, "mutex", 1, <<"bind", "-">>)
  BY <1>2, <1>6, <1>9, SetBuffer
<1>10. CASE Bind(p, <<"produce", "-">>)
  BY <1>1, <1>2, <1>6, <1>10, BindBuffer
<1> QED  BY <1>3, <1>4, <1>5, <1>7, <1>8, <1>9, <1>10 DEF CreateSem

(* The start-up of a consumer. *)
LEMMA ConsumerStartBuffer ==
    ASSUME BufferInv, SyncInv', NEW p \in Consumers, Running(p), UNCHANGED undo,
           \/ InitBuff(p, <<"await", "full">>)
           \/ GetSem(p, "full", <<"await", "empty">>)
           \/ GetSem(p, "empty", <<"await", "mutex">>)
           \/ GetSem(p, "mutex", <<"find", "read">>)
           \/ FindIndices(p, <<"bind", "-">>)
           \/ Bind(p, <<"down", "full">>)
    PROVE  BufferInv' /\ BuffersStep
<1>1. p \in Programs
  BY DEF Programs
<1>2. /\ \A c \in {"attach", "await", "find"}, k \in Keys : StepFrom(p, <<c, k>>)
      /\ StepFrom(p, <<"bind", "-">>) /\ StepFrom(p, <<"down", "full">>)
  BY <1>1, StartFroms DEF StartCalls
<1> USE DEF Keys, Sems, Indices
<1>3. CASE InitBuff(p, <<"await", "full">>)
  <2>1. CASE Get(p, "buff", <<"attach", "buff">>)
    <3>1. \A k \in Indices : <<"attach", "buff">> \notin Looked(k)
      BY DEF Looked
    <3> QED  BY <1>1, <1>2, <2>1, <3>1, GetBuffer
  <2>2. CASE Attach(p, "buff", {"buff"}, <<"await", "full">>)
    <3>1. \A k \in Indices : <<"await", "full">> \notin Looked(k)
      BY DEF Looked
    <3> QED  BY <1>1, <1>2, <2>2, <3>1, AttachBuffer
  <2> QED  BY <1>3, <2>1, <2>2 DEF InitBuff
<1>4. \A k \in Indices :
          /\ <<"await", "empty">> \notin Looked(k) /\ <<"await", "mutex">> \notin Looked(k)
          /\ <<"find", "read">> \notin Looked(k) /\ <<"find", "write">> \notin Looked(k)
          /\ <<"bind", "-">> \notin Looked(k) /\ <<"down", "full">> \notin Looked(k)
  BY DEF Looked
<1>5. CASE GetSem(p, "full", <<"await", "empty">>)
  BY <1>1, <1>2, <1>4, <1>5, FindBuffer
<1>6. CASE GetSem(p, "empty", <<"await", "mutex">>)
  BY <1>1, <1>2, <1>4, <1>6, FindBuffer
<1>7. CASE GetSem(p, "mutex", <<"find", "read">>)
  BY <1>1, <1>2, <1>4, <1>7, FindBuffer
<1>8. CASE FindIndices(p, <<"bind", "-">>)
  <2>1. CASE Find(p, "read", <<"find", "write">>)
    BY <1>1, <1>2, <1>4, <2>1, FindBuffer
  <2>2. CASE Find(p, "write", <<"attach", "write">>)
    <3>1. at[p] = <<"find", "write">> /\ at' = [at EXCEPT ![p] = <<"attach", "write">>]
          /\ UNCHANGED <<bound, made, val, slots, unseen, item, gone>>
          /\ \A q \in Programs : q # p => id'[q] = id[q]
      BY <2>2 DEF Find, At, Goto, kernel, BufferInv, SyncInv, TypeOK
    <3>2. Starting(p) /\ SyncInv /\ TypeOK /\ p \notin Producers
      BY <1>1, <3>1, ProgramsAssumption DEF Starting, Running, BufferInv, SyncInv
    <3>3. <<"attach", "write">> \in StartPlaces
      BY StartPlacesAre DEF StartCalls
    <3> QED  BY <1>1, <3>1, <3>2, <3>3, PlainStartUp
  <2>3. CASE Attach(p, "write", Indices, <<"bind", "-">>)
    BY <1>1, <1>2, <1>4, <2>3, AttachBuffer
  <2> QED  BY <1>8, <2>1, <2>2, <2>3 DEF FindIndices
<1>9. CASE Bind(p, <<"down", "full">>)
  BY <1>1, <1>2, <1>4, <1>9, BindBuffer
<1> QED  BY <1>3, <1>5, <1>6, <1>7, <1>8, <1>9

(* The counts in which a turn of p changes something. *)
LEMMA TurnMove ==
    ASSUME SyncInv, NEW p \in Programs, NEW g0 \in Gens, g0 = id[p]["buff"],
           NEW then, at' = [at EXCEPT ![p] = then], id' = id
    PROVE  /\ \A g \in Gens \ {g0} : Carriers(g)' = Carriers(g) /\ Steppers(g)' = Steppers(g)
           /\ Carriers(g0)' \ {p} = Carriers(g0) \ {p}
           /\ Steppers(g0)' \ {p} = Steppers(g0) \ {p}
           /\ p \in Carriers(g0) <=> Carries(p)
           /\ p \in Carriers(g0)' <=> Carries(p)'
           /\ p \in Steppers(g0) <=> at[p] = <<"advance", "read">>
           /\ p \in Steppers(g0)' <=> then = <<"advance", "read">>
<1>1. at'[p] = then /\ \A q \in Programs : q # p => at'[q] = at[q]
  BY DEF SyncInv, TypeOK
<1>2. \A q \in Programs : q # p => (Carries(q)' <=> Carries(q))
  BY <1>1 DEF Carries
<1>3. \A g \in Gens \ {g0} : Carriers(g)' = Carriers(g) /\ Steppers(g)' = Steppers(g)
  BY <1>1, <1>2 DEF Carriers, Steppers, With
<1>4. /\ Carriers(g0)' \ {p} = Carriers(g0) \ {p}
      /\ p \in Carriers(g0) <=> Carries(p)
      /\ p \in Carriers(g0)' <=> Carries(p)'
  BY <1>2 DEF Carriers
<1>5. /\ Steppers(g0)' \ {p} = Steppers(g0) \ {p}
      /\ p \in Steppers(g0) <=> at[p] = <<"advance", "read">>
      /\ p \in Steppers(g0)' <=> then = <<"advance", "read">>
  BY <1>1 DEF Steppers, With
<1> QED  BY <1>3, <1>4, <1>5

(* A turn involves one incarnation of the buffer. *)
LEMMA TurnStep ==
    ASSUME BufferInv, SyncInv', NEW p \in Programs, InLoop(p), NEW g0 \in Gens, g0 = id[p]["buff"],
           NEW then, then[1] \in LoopCalls, at' = [at EXCEPT ![p] = then],
           UNCHANGED <<bound, made, gone, id, unseen>>,
           \A g \in Gens \ {g0} : /\ slots'[g] = slots[g]
                                  /\ \A k \in {"read", "write", "full"} : val'[k][g] = val[k][g],
           \A c \in Consumers \ {p} : item'[c] = item[c],
           val'["write"][g0] = (Oldest(g0)' + Length(g0)') % BUFFSIZE,
           Buffer(g0)!Next \/ UNCHANGED Buffer(g0)!vars
    PROVE  BufferInv' /\ BuffersStep
<1>1. SyncInv /\ TypeOK
  BY DEF BufferInv, SyncInv
<1>2. at'[p] = then /\ \A q \in Programs : q # p => at'[q] = at[q]
  BY <1>1 DEF TypeOK
<1>3. ASSUME NEW g \in Gens \ {g0}
      PROVE  /\ Contents(g)' = Contents(g)
             /\ val'["write"][g] = (Oldest(g)' + Length(g)') % BUFFSIZE
  <2>1. Carriers(g)' = Carriers(g) /\ Steppers(g)' = Steppers(g)
    BY <1>1, TurnMove
  <2>2. val'["read"][g] = val["read"][g] /\ val'["full"][g] = val["full"][g]
        /\ val'["write"][g] = val["write"][g] /\ slots'[g] = slots[g]
    OBVIOUS
  <2>3. Length(g)' = Length(g)
    BY <1>1, <2>1, <2>2, Lengths, MeasuredNext DEF Measured
  <2>4. Oldest(g)' = Oldest(g)
    BY <1>1, <2>1, <2>2, SteppersType, MeasuredNext DEF Measured
  <2> QED  BY <2>2, <2>3, <2>4, SameRing DEF BufferInv
<1>4. RearInv'
  BY <1>3 DEF RearInv
<1>5. BuffersStep
  <2>1. ASSUME NEW g \in Gens \ {g0} PROVE UNCHANGED Buffer(g)!vars
    <3>1. \A c \in Consumers : (IF id'[c]["buff"] = g THEN item'[c] ELSE Values)
                                = (IF id[c]["buff"] = g THEN item[c] ELSE Values)
      OBVIOUS
    <3> QED  BY <1>3, <3>1 DEF Buffer!vars
  <2> QED  BY <2>1 DEF BuffersStep
<1>6. LookedInv'
  <2>1. \A k \in Indices : then \notin Looked(k)
    BY DEF Looked, LoopCalls
  <2> QED  BY <1>2, <2>1 DEF BufferInv, LookedInv, Programs
<1>7. UntouchedInv'
  <2>1. g0 <= made["mutex"] /\ made["mutex"] \in Nat
    <3>1. id[p]["mutex"] = g0
      BY <1>1, LoopPlaces DEF Keys, Sems, SyncInv
    <3> QED  BY <1>1, <3>1, BoundsAssumption DEF SyncInv, IdInv, TypeOK, Keys, Sems
  <2>2. \A g \in Gens : g > made["mutex"] => g # g0
    BY <2>1 DEF Gens
  <2> QED  BY <2>2 DEF BufferInv, UntouchedInv, Indices
<1>8. ItemInv'
  <2>1. \A q \in Programs : InLoop(q)' <=> InLoop(q)
    BY <1>2 DEF InLoop
  <2> QED  BY <2>1 DEF BufferInv, ItemInv, Programs
<1>9. MadeInv'
  BY DEF BufferInv, MadeInv
<1> QED  BY <1>4, <1>5, <1>6, <1>7, <1>8, <1>9 DEF BufferInv

(* A call of a turn that neither changes the number of items nor touches the  *)
(* memory.                                                                    *)
LEMMA PlainTurn ==
    ASSUME BufferInv, SyncInv', NEW p \in Programs, InLoop(p),
           NEW then, then[1] \in LoopCalls, at' = [at EXCEPT ![p] = then],
           UNCHANGED <<bound, made, gone, id, unseen, slots, item>>,
           at[p] # <<"advance", "read">>, then # <<"advance", "read">>,
           NEW g0 \in Gens, g0 = id[p]["buff"],
           val'["read"] = val["read"], val'["write"] = val["write"],
           \A g \in Gens \ {g0} : val'["full"][g] = val["full"][g],
           val'["full"][g0] + (IF Carries(p)' THEN 1 ELSE 0)
               = val["full"][g0] + (IF Carries(p) THEN 1 ELSE 0)
    PROVE  BufferInv' /\ BuffersStep
<1>1. SyncInv /\ RearInv
  BY DEF BufferInv
<1>2. Steppers(g0)' = Steppers(g0)
  <2>1. Steppers(g0)' \ {p} = Steppers(g0) \ {p} /\ p \notin Steppers(g0) /\ p \notin Steppers(g0)'
    BY <1>1, TurnMove
  <2> QED  BY <2>1, NoneMoves
<1>3. Oldest(g0)' = Oldest(g0)
  BY <1>1, <1>2, SteppersType, MeasuredNext DEF Measured
<1>4. Length(g0)' = Length(g0)
  <2>1. /\ Length(g0) = val["full"][g0] + Cardinality(Carriers(g0)) /\ IsFiniteSet(Carriers(g0))
        /\ Cardinality(Carriers(g0)) \in Nat
    BY <1>1, Lengths
  <2>2. Length(g0)' = val'["full"][g0] + Cardinality(Carriers(g0)')
    BY MeasuredNext DEF Measured
  <2>3. Carriers(g0)' \ {p} = Carriers(g0) \ {p}
        /\ (p \in Carriers(g0) <=> Carries(p)) /\ (p \in Carriers(g0)' <=> Carries(p)')
    BY <1>1, TurnMove
  <2>4. val["full"][g0] \in Nat /\ val'["full"][g0] \in Nat
    BY <1>1 DEF SyncInv, TypeOK, Sems
  <2>5. Cardinality(Carriers(g0)') + (IF Carries(p) THEN 1 ELSE 0)
            = Cardinality(Carriers(g0)) + (IF Carries(p)' THEN 1 ELSE 0)
    <3>1. Cardinality(Carriers(g0)') \in Nat
      BY MeasuredNext DEF Measured
    <3>2. CASE Carries(p) /\ Carries(p)'
      BY <2>1, <2>3, <3>1, <3>2, OneMoves
    <3>3. CASE ~Carries(p) /\ Carries(p)'
      BY <2>1, <2>3, <3>1, <3>3, OneMoves
    <3>4. CASE Carries(p) /\ ~Carries(p)'
      BY <2>1, <2>3, <3>1, <3>4, OneMoves
    <3>5. CASE ~Carries(p) /\ ~Carries(p)'
      BY <2>1, <2>3, <3>1, <3>5, OneMoves
    <3> QED  BY <3>2, <3>3, <3>4, <3>5
  <2>6. Cardinality(Carriers(g0)') \in Nat
    BY MeasuredNext DEF Measured
  <2> QED  BY <2>1, <2>2, <2>4, <2>5, <2>6
<1>5. /\ Contents(g0)' = Contents(g0)
      /\ val'["write"][g0] = (Oldest(g0)' + Length(g0)') % BUFFSIZE
  BY <1>1, <1>3, <1>4, SameRing
<1>6. UNCHANGED Buffer(g0)!vars
  BY <1>5, SameBuffer
<1>7. \A g \in Gens \ {g0} : /\ slots'[g] = slots[g]
                              /\ \A k \in {"read", "write", "full"} : val'[k][g] = val[k][g]
  OBVIOUS
<1> QED  BY <1>5, <1>6, <1>7, TurnStep

(* A program that only ends, or nothing at all. *)
LEMMA StayBuffer ==
    ASSUME BufferInv, SyncInv', UNCHANGED <<kernel, at, local>>, gone \subseteq gone'
    PROVE  BufferInv' /\ BuffersStep
<1>1. UNCHANGED <<bound, made, val, slots, at, id, unseen, item>>
  BY DEF kernel, local
<1>2. SyncInv /\ RearInv
  BY DEF BufferInv
<1>3. \A g \in Gens : /\ Contents(g)' = Contents(g) /\ Oldest(g)' = Oldest(g)
                      /\ Length(g)' = Length(g)
  BY <1>1 DEF Contents, Oldest, Length, With
<1>4. RearInv'
  BY <1>1, <1>2, <1>3 DEF RearInv
<1>5. MadeInv' /\ LookedInv' /\ UntouchedInv' /\ ItemInv'
  BY <1>1 DEF BufferInv, MadeInv, LookedInv, UntouchedInv, ItemInv, InLoop
<1>6. BuffersStep
  BY <1>1, <1>3, SameBuffer DEF BuffersStep
<1> QED  BY <1>4, <1>5, <1>6 DEF BufferInv

(* The number is made before the turn. *)
LEMMA ProduceBuffer ==
    ASSUME BufferInv, SyncInv', NEW p \in Producers, ProduceItem(p, <<"down", "empty">>)
    PROVE  BufferInv' /\ BuffersStep
<1>1. /\ p \in Programs /\ SyncInv /\ TypeOK /\ at[p] = <<"produce", "-">>
      /\ at' = [at EXCEPT ![p] = <<"down", "empty">>]
      /\ UNCHANGED <<bound, made, val, slots, gone, id, unseen, item>>
  BY DEF Programs, BufferInv, SyncInv, ProduceItem, At, Goto, kernel
<1>2. InLoop(p) /\ id[p]["buff"] \in Gens
  BY <1>1, InLoopNow DEF ProduceItem, LoopCalls
<1>3. at'[p] = <<"down", "empty">>
  BY <1>1 DEF TypeOK
<1>4. ~Carries(p) /\ ~Carries(p)'
  BY <1>1, <1>3 DEF Carries
<1>5. PICK g0 \in Gens : g0 = id[p]["buff"]
  BY <1>2
<1>6. val'["full"][g0] + (IF Carries(p)' THEN 1 ELSE 0)
          = val["full"][g0] + (IF Carries(p) THEN 1 ELSE 0)
  BY <1>1, <1>4
<1>7. /\ val'["read"] = val["read"] /\ val'["write"] = val["write"]
      /\ \A g \in Gens \ {g0} : val'["full"][g] = val["full"][g]
  BY <1>1
<1>8. <<"down", "empty">>[1] \in LoopCalls
  BY DEF LoopCalls
<1>9. at[p] # <<"advance", "read">> /\ <<"down", "empty">> # <<"advance", "read">>
  BY <1>1
<1> QED  BY <1>1, <1>2, <1>5, <1>6, <1>7, <1>8, <1>9, PlainTurn

(* A semaphore goes up or down: an item passes between it and the program, or *)
(* no item is involved.                                                       *)
LEMMA SemBuffer ==
    ASSUME BufferInv, SyncInv', NEW p \in Programs, NEW then, then[1] \in LoopCalls,
           NEW k \in Sems, NEW d \in {-1, 1}, InLoop(p), at[p] # <<"advance", "read">>,
           then # <<"advance", "read">>,
           IF Lost(p, k)
           THEN Exit(p) /\ UNCHANGED val
           ELSE Write(p, k, val[k][id[p][k]] + d) /\ Goto(p, then) /\ UNCHANGED gone,
           UNCHANGED <<bound, made, slots, local>>,
           at' = [at EXCEPT ![p] = then] =>
                IF k = "full" THEN (Carries(p)' <=> d = -1) /\ (Carries(p) <=> d = 1)
                              ELSE Carries(p)' <=> Carries(p)
    PROVE  BufferInv' /\ BuffersStep
<1>1. SyncInv /\ TypeOK
  BY DEF BufferInv, SyncInv
<1>2. PICK g0 \in Gens : g0 = id[p]["buff"] /\ id[p][k] = g0
  BY <1>1, LoopPlaces DEF SyncInv, Keys
<1>3. CASE Lost(p, k)
  <2>1. UNCHANGED <<kernel, at, local>> /\ gone \subseteq gone'
    BY <1>3 DEF kernel, Exit
  <2> QED  BY <2>1, StayBuffer
<1>4. CASE ~Lost(p, k)
  <2>1. /\ val' = [val EXCEPT ![k][g0] = val[k][g0] + d]
        /\ at' = [at EXCEPT ![p] = then]
        /\ UNCHANGED <<bound, made, gone, id, unseen, slots, item>>
    BY <1>2, <1>4 DEF Write, Goto, local
  <2>2. val'["read"] = val["read"] /\ val'["write"] = val["write"]
    BY <1>1, <2>1 DEF TypeOK, Sems, Indices
  <2>3. \A g \in Gens \ {g0} : val'["full"][g] = val["full"][g]
    BY <1>1, <2>1 DEF TypeOK, Sems, Indices
  <2>4. val'["full"][g0] = IF k = "full" THEN val["full"][g0] + d ELSE val["full"][g0]
    BY <1>1, <2>1 DEF TypeOK, Sems, Indices
  <2>5. val'["full"][g0] + (IF Carries(p)' THEN 1 ELSE 0)
            = val["full"][g0] + (IF Carries(p) THEN 1 ELSE 0)
    <3>1. val["full"][g0] \in Nat
      BY <1>1 DEF TypeOK, Sems
    <3>2. CASE k = "full"
      <4>1. (Carries(p)' <=> d = -1) /\ (Carries(p) <=> d = 1)
        BY <2>1, <3>2
      <4>2. CASE d = -1
        BY <2>4, <3>1, <3>2, <4>1, <4>2
      <4>3. CASE d = 1
        BY <2>4, <3>1, <3>2, <4>1, <4>3
      <4> QED  BY <4>2, <4>3
    <3>3. CASE k # "full"
      BY <2>1, <2>4, <3>1, <3>3
    <3> QED  BY <3>2, <3>3
  <2> QED  BY <1>1, <1>2, <2>1, <2>2, <2>3, <2>5, PlainTurn
<1> QED  BY <1>3, <1>4

(* The item is stored where no item is; it is not in the buffer before the    *)
(* write index steps.                                                         *)
LEMMA StoreBuffer ==
    ASSUME BufferInv, SyncInv', NEW p \in Producers, Store(p, <<"advance", "write">>)
    PROVE  BufferInv' /\ BuffersStep
<1>1. /\ p \in Programs /\ SyncInv /\ TypeOK /\ RearInv /\ at[p] = <<"store", "buff">>
      /\ at' = [at EXCEPT ![p] = <<"advance", "write">>]
      /\ UNCHANGED <<bound, made, val, gone, id, unseen, item>>
  BY DEF Programs, BufferInv, SyncInv, Store, At, Goto, local
<1>2. PICK g0 \in Gens : g0 = id[p]["buff"] /\ \A k \in Keys : id[p][k] = g0
  BY <1>1, InLoopNow DEF Store, LoopCalls
<1>3. InLoop(p) /\ at'[p] = <<"advance", "write">>
  BY <1>1 DEF InLoop, LoopCalls, TypeOK
<1>4. /\ ~Carries(p) /\ ~Carries(p)' /\ p \in Turns(g0)
      /\ at[p] # <<"advance", "read">> /\ <<"advance", "write">> # <<"advance", "read">>
  BY <1>1, <1>2, <1>3 DEF Carries, Turns, Between, Inside, Keys, Sems
<1>5. Carriers(g0)' = Carriers(g0) /\ Steppers(g0)' = Steppers(g0) /\ p \notin Carriers(g0)
  <2>1. /\ Carriers(g0)' \ {p} = Carriers(g0) \ {p} /\ Steppers(g0)' \ {p} = Steppers(g0) \ {p}
        /\ p \notin Carriers(g0) /\ p \notin Carriers(g0)'
        /\ p \notin Steppers(g0) /\ p \notin Steppers(g0)'
    BY <1>1, <1>2, <1>4, TurnMove
  <2> QED  BY <2>1, NoneMoves
<1>6. Length(g0)' = Length(g0) /\ Oldest(g0)' = Oldest(g0)
  BY <1>1, <1>5, Lengths, SteppersType, MeasuredNext DEF Measured
<1>7. Length(g0) # BUFFSIZE
  BY <1>1, <1>4, <1>5, Lengths, BuffSizeAssumption
<1> DEFINE x == (value[p] + Values - 1) % Values
<1>8. x \in Numbers
  <2>1. value[p] \in Numbers
    BY <1>1 DEF TypeOK
  <2> QED  BY <2>1, BoundsAssumption DEF Numbers
<1>9. /\ slots'[g0] = Written(slots[g0], Oldest(g0), Length(g0), BUFFSIZE, x)
      /\ \A g \in Gens \ {g0} : slots'[g] = slots[g]
  <2>1. slots' = [slots EXCEPT ![g0][val["write"][g0]] = x]
    BY <1>2 DEF Store, Keys, Indices
  <2>2. val["write"][g0] = (Oldest(g0) + Length(g0)) % BUFFSIZE
    BY <1>1 DEF RearInv
  <2> HIDE DEF x
  <2> QED  BY <1>1, <2>1, <2>2 DEF TypeOK, Written
<1> HIDE DEF x
<1>10. Contents(g0)' = Contents(g0)
  <2>1. Contents(g0)' = RingSeq(slots'[g0], Oldest(g0)', Length(g0)', BUFFSIZE)
    BY DEF Contents, Oldest
  <2>2. /\ IsRing(slots[g0], Oldest(g0), Length(g0), BUFFSIZE, Numbers)
        /\ Contents(g0) = RingSeq(slots[g0], Oldest(g0), Length(g0), BUFFSIZE)
    BY <1>1, BufferRing
  <2>3. RingSeq(Written(slots[g0], Oldest(g0), Length(g0), BUFFSIZE, x), Oldest(g0), Length(g0), BUFFSIZE)
            = RingSeq(slots[g0], Oldest(g0), Length(g0), BUFFSIZE)
    BY <1>7, <1>8, <2>2, RingBehind
  <2> QED  BY <1>6, <1>9, <2>1, <2>2, <2>3
<1>11. val'["write"][g0] = (Oldest(g0)' + Length(g0)') % BUFFSIZE
  BY <1>1, <1>6 DEF RearInv
<1>12. UNCHANGED Buffer(g0)!vars
  BY <1>1, <1>10, SameBuffer
<1>13. <<"advance", "write">>[1] \in LoopCalls
  BY DEF LoopCalls
<1> QED  BY <1>1, <1>2, <1>3, <1>9, <1>11, <1>12, <1>13, TurnStep

(* With the step of the write index the item is in the buffer. *)
LEMMA PutBuffer ==
    ASSUME BufferInv, SyncInv', NEW p \in Producers, Advance(p, "write", <<"up", "mutex">>)
    PROVE  BufferInv' /\ BuffersStep
<1>1. /\ p \in Programs /\ SyncInv /\ TypeOK /\ RearInv /\ at[p] = <<"advance", "write">>
      /\ at' = [at EXCEPT ![p] = <<"up", "mutex">>]
      /\ UNCHANGED <<bound, made, slots, gone, id, unseen, item>>
  BY DEF Programs, BufferInv, SyncInv, Advance, At, Goto, local
<1>2. PICK g0 \in Gens : g0 = id[p]["buff"] /\ \A k \in Keys : id[p][k] = g0
  BY <1>1, InLoopNow DEF Advance, LoopCalls
<1>3. InLoop(p) /\ at'[p] = <<"up", "mutex">>
  BY <1>1 DEF InLoop, LoopCalls, TypeOK
<1>4. /\ ~Carries(p) /\ Carries(p)' /\ p \in Turns(g0)
      /\ at[p] # <<"advance", "read">> /\ <<"up", "mutex">> # <<"advance", "read">>
  BY <1>1, <1>2, <1>3, ProgramsAssumption DEF Carries, Turns, Between, Inside, Keys, Sems, Indices
<1>5. /\ Steppers(g0)' = Steppers(g0) /\ p \notin Carriers(g0)
      /\ Cardinality(Carriers(g0)') = Cardinality(Carriers(g0)) + 1
  <2>1. /\ Carriers(g0)' \ {p} = Carriers(g0) \ {p} /\ Steppers(g0)' \ {p} = Steppers(g0) \ {p}
        /\ p \notin Carriers(g0) /\ p \in Carriers(g0)'
        /\ p \notin Steppers(g0) /\ p \notin Steppers(g0)'
    BY <1>1, <1>2, <1>4, TurnMove
  <2>2. IsFiniteSet(Carriers(g0))
    BY <1>1, Lengths
  <2>3. Steppers(g0)' = Steppers(g0)
    BY <2>1, NoneMoves
  <2>4. Cardinality(Carriers(g0)') = Cardinality(Carriers(g0)) + 1
    BY <2>1, <2>2, OneMoves
  <2> QED  BY <2>1, <2>3, <2>4
<1>6. /\ val'["write"][g0] = (val["write"][g0] + 1) % BUFFSIZE
      /\ val'["read"] = val["read"] /\ val'["full"] = val["full"]
      /\ \A g \in Gens \ {g0} : val'["write"][g] = val["write"][g]
  <2>1. val' = [val EXCEPT !["write"][g0] = (val["write"][g0] + 1) % BUFFSIZE]
    BY <1>2 DEF Advance, Write, Keys, Indices
  <2> QED  BY <1>1, <2>1 DEF TypeOK, Sems, Indices
<1>7. Length(g0)' = Length(g0) + 1 /\ Oldest(g0)' = Oldest(g0)
  <2>1. /\ Length(g0) = val["full"][g0] + Cardinality(Carriers(g0))
        /\ Cardinality(Carriers(g0)) \in Nat /\ val["full"][g0] \in Nat
        /\ Length(g0)' = val'["full"][g0] + Cardinality(Carriers(g0)')
    BY <1>1, Lengths, MeasuredNext DEF Measured, TypeOK, Sems
  <2>2. Length(g0)' = Length(g0) + 1
    BY <1>5, <1>6, <2>1
  <2>3. Oldest(g0)' = Oldest(g0)
    BY <1>1, <1>5, <1>6, SteppersType, MeasuredNext DEF Measured
  <2> QED  BY <2>2, <2>3
<1>8. /\ Length(g0) \in 0 .. BUFFSIZE - 1 /\ Oldest(g0) \in 0 .. BUFFSIZE - 1
      /\ BUFFSIZE \in Nat \ {0}
  <2>1. Length(g0) \in 0 .. BUFFSIZE /\ Length(g0) < BUFFSIZE
    BY <1>1, <1>4, <1>5, Lengths
  <2> QED  BY <1>1, <2>1, SteppersType, BuffSizeAssumption DEF Slots
<1>9. val["write"][g0] = (Oldest(g0) + Length(g0)) % BUFFSIZE
  BY <1>1 DEF RearInv
<1>10. val'["write"][g0] = (Oldest(g0)' + Length(g0)') % BUFFSIZE
  <2>1. PICK f \in 0 .. BUFFSIZE - 1 : f = Oldest(g0)
    BY <1>8
  <2>2. PICK n \in 0 .. BUFFSIZE - 1 : n = Length(g0)
    BY <1>8
  <2>3. (((f + n) % BUFFSIZE) + 1) % BUFFSIZE = (f + (n + 1)) % BUFFSIZE
    BY <1>8, RearAfterAppend
  <2> QED  BY <1>6, <1>7, <1>9, <2>1, <2>2, <2>3
<1> DEFINE x == slots[g0][val["write"][g0]]
<1>11. x \in Numbers
  BY <1>1 DEF SyncInv, IndexInv, TypeOK, Indices
<1>12. Contents(g0)' = Append(Contents(g0), x) /\ Len(Contents(g0)) < BUFFSIZE
  <2>1. Contents(g0)' = RingSeq(slots[g0], Oldest(g0), Length(g0) + 1, BUFFSIZE)
    BY <1>1, <1>7 DEF Contents, Oldest
  <2>2. /\ IsRing(slots[g0], Oldest(g0), Length(g0), BUFFSIZE, Numbers)
        /\ Contents(g0) = RingSeq(slots[g0], Oldest(g0), Length(g0), BUFFSIZE)
        /\ Len(Contents(g0)) = Length(g0)
    BY <1>1, BufferRing
  <2>3. Written(slots[g0], Oldest(g0), Length(g0), BUFFSIZE, x) = slots[g0]
    BY <1>1, <1>9 DEF Written, TypeOK
  <2> HIDE DEF x
  <2>4. Length(g0) # BUFFSIZE /\ Length(g0) < BUFFSIZE
    BY <1>8
  <2>5. RingSeq(Written(slots[g0], Oldest(g0), Length(g0), BUFFSIZE, x), Oldest(g0), Length(g0) + 1, BUFFSIZE)
            = Append(RingSeq(slots[g0], Oldest(g0), Length(g0), BUFFSIZE), x)
    BY <1>11, <2>2, <2>4, RingAppend
  <2> QED  BY <2>1, <2>2, <2>3, <2>4, <2>5
<1> HIDE DEF x
<1>13. Buffer(g0)!Next
  <2>1. \A c \in Consumers : (IF id'[c]["buff"] = g0 THEN item'[c] ELSE Values)
                              = (IF id[c]["buff"] = g0 THEN item[c] ELSE Values)
    BY <1>1
  <2> QED  BY <1>11, <1>12, <2>1 DEF Buffer!Next, Buffer!Put
<1>14. /\ <<"up", "mutex">>[1] \in LoopCalls
       /\ \A g \in Gens \ {g0} : \A k \in {"read", "write", "full"} : val'[k][g] = val[k][g]
  BY <1>6 DEF LoopCalls
<1> QED  BY <1>1, <1>2, <1>3, <1>10, <1>13, <1>14, TurnStep

(* With the load the oldest item is taken, whoever has the read index next. *)
LEMMA TakeBuffer ==
    ASSUME BufferInv, SyncInv', NEW p \in Consumers, Load(p, <<"advance", "read">>)
    PROVE  BufferInv' /\ BuffersStep
<1>1. /\ p \in Programs /\ SyncInv /\ TypeOK /\ RearInv /\ at[p] = <<"load", "buff">>
      /\ at' = [at EXCEPT ![p] = <<"advance", "read">>]
      /\ UNCHANGED <<bound, made, val, slots, gone, id, unseen>>
  BY DEF Programs, BufferInv, SyncInv, Load, At, Goto, kernel
<1>2. PICK g0 \in Gens : g0 = id[p]["buff"] /\ \A k \in Keys : id[p][k] = g0
  BY <1>1, InLoopNow DEF Load, LoopCalls
<1>3. InLoop(p) /\ at'[p] = <<"advance", "read">>
  BY <1>1 DEF InLoop, LoopCalls, TypeOK
<1>4. /\ Carries(p) /\ ~Carries(p)' /\ Inside(p)
      /\ at[p] # <<"advance", "read">>
  BY <1>1, <1>3, ProgramsAssumption DEF Carries, Inside
<1>5. /\ Steppers(g0) = {} /\ Steppers(g0)' = {p} /\ p \in Carriers(g0)
      /\ Cardinality(Carriers(g0)') + 1 = Cardinality(Carriers(g0))
  <2>1. /\ Carriers(g0)' \ {p} = Carriers(g0) \ {p} /\ Steppers(g0)' \ {p} = Steppers(g0) \ {p}
        /\ p \in Carriers(g0) /\ p \notin Carriers(g0)'
        /\ p \notin Steppers(g0) /\ p \in Steppers(g0)'
    BY <1>1, <1>2, <1>4, TurnMove
  <2>2. IsFiniteSet(Carriers(g0))
    BY <1>1, Lengths
  <2>3. Steppers(g0) \subseteq {p}
    BY <1>1, <1>2, <1>4, OneStepper
  <2>4. Steppers(g0) = {} /\ Steppers(g0)' = {p}
    BY <2>1, <2>3
  <2>5. Cardinality(Carriers(g0)') + 1 = Cardinality(Carriers(g0))
    BY <2>1, <2>2, OneMoves
  <2> QED  BY <2>1, <2>4, <2>5
<1>6. /\ Length(g0) \in 1 .. BUFFSIZE /\ Oldest(g0) \in 0 .. BUFFSIZE - 1
      /\ BUFFSIZE \in Nat \ {0} /\ val["read"][g0] \in 0 .. BUFFSIZE - 1
  <2>1. Length(g0) \in 0 .. BUFFSIZE /\ Length(g0) > 0
    BY <1>1, <1>5, Lengths
  <2>2. val["read"][g0] \in 0 .. BUFFSIZE - 1
    BY <1>1 DEF SyncInv, IndexInv, Indices, Slots
  <2> QED  BY <1>1, <2>1, <2>2, SteppersType, BuffSizeAssumption DEF Slots
<1>7. Length(g0)' = Length(g0) - 1
  <2>1. /\ Length(g0) = val["full"][g0] + Cardinality(Carriers(g0))
        /\ Cardinality(Carriers(g0)) \in Nat /\ val["full"][g0] \in Nat
        /\ Length(g0)' = val'["full"][g0] + Cardinality(Carriers(g0)')
        /\ Cardinality(Carriers(g0)') \in Nat
    BY <1>1, Lengths, MeasuredNext DEF Measured, TypeOK, Sems
  <2> QED  BY <1>1, <1>5, <2>1
<1>8. Oldest(g0) = val["read"][g0] /\ Oldest(g0)' = (Oldest(g0) + 1) % BUFFSIZE
  <2>1. Cardinality(Steppers(g0)) = 0 /\ Cardinality(Steppers(g0)') = 1
    BY <1>5, FS_EmptySet, FS_Singleton
  <2>2. PICK r \in 0 .. BUFFSIZE - 1 : r = val["read"][g0]
    BY <1>6
  <2>3. Oldest(g0) = (r + 0) % BUFFSIZE
    BY <1>1, <2>1, <2>2, SteppersType
  <2>4. Oldest(g0)' = (r + 1) % BUFFSIZE
    BY <1>1, <2>1, <2>2, MeasuredNext DEF Measured
  <2>5. (r + 0) % BUFFSIZE = r
    <3>1. r + 0 = r /\ r \in 0 .. 2 * BUFFSIZE - 1
      BY <1>6
    <3>2. r % BUFFSIZE = IF r < BUFFSIZE THEN r ELSE r - BUFFSIZE
      BY <3>1, BuffSizeAssumption, ModOnce
    <3>3. r < BUFFSIZE
      BY BuffSizeAssumption
    <3> QED  BY <3>1, <3>2, <3>3
  <2> QED  BY <2>2, <2>3, <2>4, <2>5
<1>9. val'["write"][g0] = (Oldest(g0)' + Length(g0)') % BUFFSIZE
  <2>1. PICK f \in 0 .. BUFFSIZE - 1 : f = Oldest(g0)
    BY <1>6
  <2>2. PICK n \in 1 .. BUFFSIZE : n = Length(g0)
    BY <1>6
  <2>3. (((f + 1) % BUFFSIZE) + (n - 1)) % BUFFSIZE = (f + n) % BUFFSIZE
    BY <1>6, RearAfterTail
  <2>4. val["write"][g0] = (f + n) % BUFFSIZE
    BY <1>1, <2>1, <2>2 DEF RearInv
  <2> QED  BY <1>1, <1>7, <1>8, <2>1, <2>2, <2>3, <2>4
<1>10. /\ Head(Contents(g0)) = slots[g0][Oldest(g0)] /\ Contents(g0)' = Tail(Contents(g0))
       /\ Contents(g0) # <<>>
  <2>1. Contents(g0)' = RingSeq(slots[g0], (Oldest(g0) + 1) % BUFFSIZE, Length(g0) - 1, BUFFSIZE)
    <3>1. Contents(g0)' = RingSeq(slots'[g0], Oldest(g0)', Length(g0)', BUFFSIZE)
      BY DEF Contents, Oldest
    <3> QED  BY <1>1, <1>7, <1>8, <3>1
  <2>2. /\ IsRing(slots[g0], Oldest(g0), Length(g0), BUFFSIZE, Numbers)
        /\ Contents(g0) = RingSeq(slots[g0], Oldest(g0), Length(g0), BUFFSIZE)
        /\ Len(Contents(g0)) = Length(g0)
    BY <1>1, BufferRing
  <2>3. Length(g0) # 0
    BY <1>6
  <2>4. Contents(g0) # <<>>
    BY <2>2, <2>3
  <2> QED  BY <2>1, <2>2, <2>3, <2>4, RingTail
<1>11. Buffer(g0)!Next
  <2>1. item' = [item EXCEPT ![p] = Head(Contents(g0))]
    BY <1>2, <1>8, <1>10 DEF Load, Keys, Indices
  <2>2. item'[p] = Head(Contents(g0)) /\ \A c \in Consumers \ {p} : item'[c] = item[c]
    BY <1>1, <2>1 DEF TypeOK
  <2>3. [c \in Consumers |-> IF id'[c]["buff"] = g0 THEN item'[c] ELSE Values]
            = [[c \in Consumers |-> IF id[c]["buff"] = g0 THEN item[c] ELSE Values]
                  EXCEPT ![p] = Head(Contents(g0))]
    BY <1>1, <1>2, <2>2
  <2> QED  BY <1>10, <2>3 DEF Buffer!Next, Buffer!Take
<1>12. /\ <<"advance", "read">>[1] \in LoopCalls
       /\ \A c \in Consumers \ {p} : item'[c] = item[c]
       /\ \A g \in Gens \ {g0} : \A k \in {"read", "write", "full"} : val'[k][g] = val[k][g]
  BY <1>1 DEF LoopCalls, Load, TypeOK
<1> QED  BY <1>1, <1>2, <1>3, <1>9, <1>11, <1>12, TurnStep

(* The step of the read index makes up for a load. *)
LEMMA ReadBuffer ==
    ASSUME BufferInv, SyncInv', NEW p \in Consumers, Advance(p, "read", <<"up", "mutex">>)
    PROVE  BufferInv' /\ BuffersStep
<1>1. /\ p \in Programs /\ SyncInv /\ TypeOK /\ RearInv /\ at[p] = <<"advance", "read">>
      /\ at' = [at EXCEPT ![p] = <<"up", "mutex">>]
      /\ UNCHANGED <<bound, made, slots, gone, id, unseen, item>>
  BY DEF Programs, BufferInv, SyncInv, Advance, At, Goto, local
<1>2. PICK g0 \in Gens : g0 = id[p]["buff"] /\ \A k \in Keys : id[p][k] = g0
  BY <1>1, InLoopNow DEF Advance, LoopCalls
<1>3. InLoop(p) /\ at'[p] = <<"up", "mutex">>
  BY <1>1 DEF InLoop, LoopCalls, TypeOK
<1>4. /\ ~Carries(p) /\ ~Carries(p)' /\ Inside(p) /\ <<"up", "mutex">> # <<"advance", "read">>
  BY <1>1, <1>3, ProgramsAssumption DEF Carries, Inside, Indices
<1>5. Steppers(g0) = {p} /\ Steppers(g0)' = {} /\ Carriers(g0)' = Carriers(g0)
  <2>1. /\ Carriers(g0)' \ {p} = Carriers(g0) \ {p} /\ Steppers(g0)' \ {p} = Steppers(g0) \ {p}
        /\ p \notin Carriers(g0) /\ p \notin Carriers(g0)'
        /\ p \in Steppers(g0) /\ p \notin Steppers(g0)'
    <3>1. /\ Carriers(g0)' \ {p} = Carriers(g0) \ {p} /\ Steppers(g0)' \ {p} = Steppers(g0) \ {p}
          /\ (p \in Carriers(g0) <=> Carries(p)) /\ (p \in Carriers(g0)' <=> Carries(p)')
          /\ p \in Steppers(g0) <=> at[p] = <<"advance", "read">>
          /\ p \in Steppers(g0)' <=> <<"up", "mutex">> = <<"advance", "read">>
      BY <1>1, <1>2, TurnMove
    <3> QED  BY <1>1, <1>4, <3>1
  <2>2. Steppers(g0) \subseteq {p}
    BY <1>1, <1>2, <1>4, OneStepper
  <2> QED  BY <2>1, <2>2
<1>6. /\ val'["read"][g0] = (val["read"][g0] + 1) % BUFFSIZE
      /\ val'["write"] = val["write"] /\ val'["full"] = val["full"]
      /\ \A g \in Gens \ {g0} : val'["read"][g] = val["read"][g]
  <2>1. val' = [val EXCEPT !["read"][g0] = (val["read"][g0] + 1) % BUFFSIZE]
    BY <1>2 DEF Advance, Write, Keys, Indices
  <2> QED  BY <1>1, <2>1 DEF TypeOK, Sems, Indices
<1>7. Length(g0)' = Length(g0)
  BY <1>1, <1>5, <1>6, Lengths, MeasuredNext DEF Measured
<1>8. Oldest(g0)' = Oldest(g0)
  <2>1. Cardinality(Steppers(g0)) = 1 /\ Cardinality(Steppers(g0)') = 0
    BY <1>5, FS_EmptySet, FS_Singleton
  <2>2. PICK r \in 0 .. BUFFSIZE - 1 : r = val["read"][g0]
    BY <1>1 DEF SyncInv, IndexInv, Indices, Slots
  <2>3. Oldest(g0) = (r + 1) % BUFFSIZE
    BY <1>1, <2>1, <2>2, SteppersType
  <2>4. PICK s \in 0 .. BUFFSIZE - 1 : s = (r + 1) % BUFFSIZE
    BY BuffSizeAssumption, ModStep
  <2>5. Oldest(g0)' = (s + 0) % BUFFSIZE
    BY <1>6, <2>1, <2>2, <2>4, MeasuredNext DEF Measured
  <2>6. (s + 0) % BUFFSIZE = s
    <3>1. s + 0 = s /\ s \in 0 .. 2 * BUFFSIZE - 1
      BY BuffSizeAssumption
    <3>2. s % BUFFSIZE = IF s < BUFFSIZE THEN s ELSE s - BUFFSIZE
      BY <3>1, BuffSizeAssumption, ModOnce
    <3>3. s < BUFFSIZE
      BY BuffSizeAssumption
    <3> QED  BY <3>1, <3>2, <3>3
  <2> QED  BY <2>3, <2>4, <2>5, <2>6
<1>9. /\ Contents(g0)' = Contents(g0)
      /\ val'["write"][g0] = (Oldest(g0)' + Length(g0)') % BUFFSIZE
  BY <1>1, <1>6, <1>7, <1>8, SameRing
<1>10. UNCHANGED Buffer(g0)!vars
  BY <1>1, <1>9, SameBuffer
<1>11. /\ <<"up", "mutex">>[1] \in LoopCalls
       /\ \A g \in Gens \ {g0} : \A k \in {"read", "write", "full"} : val'[k][g] = val[k][g]
  BY <1>6 DEF LoopCalls
<1> QED  BY <1>1, <1>2, <1>3, <1>9, <1>10, <1>11, TurnStep

(* The waits of a turn. *)
LEMMA DownBuffer ==
    ASSUME BufferInv, SyncInv', NEW p \in Programs, NEW k \in Sems, NEW then, Down(p, k, then),
           \/ p \in Producers /\ k = "empty" /\ then = <<"down", "mutex">>
           \/ p \in Producers /\ k = "mutex" /\ then = <<"store", "buff">>
           \/ p \in Consumers /\ k = "full" /\ then = <<"down", "mutex">>
           \/ p \in Consumers /\ k = "mutex" /\ then = <<"load", "buff">>
    PROVE  BufferInv' /\ BuffersStep
<1>1. /\ SyncInv /\ TypeOK /\ InLoop(p) /\ at[p] = <<"down", k>>
      /\ at[p] # <<"advance", "read">> /\ then # <<"advance", "read">> /\ then[1] \in LoopCalls
  BY DEF BufferInv, SyncInv, Down, At, InLoop, LoopCalls
<1>2. ASSUME at' = [at EXCEPT ![p] = then]
      PROVE  IF k = "full" THEN Carries(p)' /\ ~Carries(p) ELSE Carries(p)' <=> Carries(p)
  <2>1. at'[p] = then
    BY <1>1, <1>2 DEF TypeOK
  <2> QED  BY <1>1, <2>1, ProgramsAssumption DEF Carries
<1>3. ~Lost(p, k) => Write(p, k, val[k][id[p][k]] + (-1))
  <2>1. id[p][k] \in Gens
    BY <1>1, LoopPlaces DEF SyncInv, Keys
  <2>2. val[k][id[p][k]] \in Nat
    BY <1>1, <2>1 DEF TypeOK
  <2>3. val[k][id[p][k]] - 1 = val[k][id[p][k]] + (-1)
    BY <2>2
  <2> QED  BY <2>3 DEF Down
<1>4. /\ IF Lost(p, k)
         THEN Exit(p) /\ UNCHANGED val
         ELSE Write(p, k, val[k][id[p][k]] + (-1)) /\ Goto(p, then) /\ UNCHANGED gone
      /\ UNCHANGED <<bound, made, slots, local>>
  BY <1>3 DEF Down
<1> QED  BY <1>1, <1>2, <1>4, SemBuffer

(* The signals of a turn. *)
LEMMA UpBuffer ==
    ASSUME BufferInv, SyncInv', NEW p \in Programs, NEW k \in Sems, NEW then, Up(p, k, then),
           \/ p \in Producers /\ k = "mutex" /\ then = <<"up", "full">>
           \/ p \in Producers /\ k = "full" /\ then = <<"produce", "-">>
           \/ p \in Consumers /\ k = "mutex" /\ then = <<"up", "empty">>
           \/ p \in Consumers /\ k = "empty" /\ then = <<"down", "full">>
    PROVE  BufferInv' /\ BuffersStep
<1>1. /\ SyncInv /\ TypeOK /\ InLoop(p) /\ at[p] = <<"up", k>>
      /\ at[p] # <<"advance", "read">> /\ then # <<"advance", "read">> /\ then[1] \in LoopCalls
  BY DEF BufferInv, SyncInv, Up, At, InLoop, LoopCalls
<1>2. ASSUME at' = [at EXCEPT ![p] = then]
      PROVE  IF k = "full" THEN ~Carries(p)' /\ Carries(p) ELSE Carries(p)' <=> Carries(p)
  <2>1. at'[p] = then
    BY <1>1, <1>2 DEF TypeOK
  <2> QED  BY <1>1, <2>1, ProgramsAssumption DEF Carries
<1>3. /\ IF Lost(p, k)
         THEN Exit(p) /\ UNCHANGED val
         ELSE Write(p, k, val[k][id[p][k]] + 1) /\ Goto(p, then) /\ UNCHANGED gone
      /\ UNCHANGED <<bound, made, slots, local>>
  BY DEF Up
<1> QED  BY <1>1, <1>2, <1>3, SemBuffer

(* All steps of a producer, ... *)
LEMMA ProducerBuffer ==
    ASSUME BufferInv, SyncInv', NEW p \in Producers, Running(p), UNCHANGED undo, Producer(p)
    PROVE  BufferInv' /\ BuffersStep
<1>1. p \in Programs /\ Sems = {"full", "empty", "mutex"}
  BY DEF Programs, Sems
<1>2. CASE Down(p, "empty", <<"down", "mutex">>)
  BY <1>1, <1>2, DownBuffer
<1>3. CASE Down(p, "mutex", <<"store", "buff">>)
  BY <1>1, <1>3, DownBuffer
<1>4. CASE Up(p, "mutex", <<"up", "full">>)
  BY <1>1, <1>4, UpBuffer
<1>5. CASE Up(p, "full", <<"produce", "-">>)
  BY <1>1, <1>5, UpBuffer
<1>6. CASE InsertItem(p, <<"up", "mutex">>)
  BY <1>6, StoreBuffer, PutBuffer DEF InsertItem
<1> QED  BY <1>2, <1>3, <1>4, <1>5, <1>6, ProduceBuffer, ProducerStartBuffer DEF Producer

(* ... and all of a consumer. *)
LEMMA ConsumerBuffer ==
    ASSUME BufferInv, SyncInv', NEW p \in Consumers, Running(p), UNCHANGED undo, Consumer(p)
    PROVE  BufferInv' /\ BuffersStep
<1>1. p \in Programs /\ Sems = {"full", "empty", "mutex"}
  BY DEF Programs, Sems
<1>2. CASE Down(p, "full", <<"down", "mutex">>)
  BY <1>1, <1>2, DownBuffer
<1>3. CASE Down(p, "mutex", <<"load", "buff">>)
  BY <1>1, <1>3, DownBuffer
<1>4. CASE Up(p, "mutex", <<"up", "empty">>)
  BY <1>1, <1>4, UpBuffer
<1>5. CASE Up(p, "empty", <<"down", "full">>)
  BY <1>1, <1>5, UpBuffer
<1>6. CASE RemoverItem(p, <<"up", "mutex">>)
  BY <1>6, TakeBuffer, ReadBuffer DEF RemoverItem
<1> QED  BY <1>2, <1>3, <1>4, <1>5, <1>6, ConsumerStartBuffer DEF Consumer

(* Starts, interrupts and removals. *)
LEMMA ShellBuffer ==
    ASSUME BufferInv, SyncInv', NEW p \in Programs,
           Start(p) \/ Interrupt(p) \/ FreeResources(p)
    PROVE  BufferInv' /\ BuffersStep
<1>1. SyncInv /\ TypeOK /\ RearInv
  BY DEF BufferInv, SyncInv
<1>2. /\ UNCHANGED <<made, val, slots, id, unseen, value, item>> /\ gone \subseteq gone'
      /\ bound'["mutex"] \in {0, bound["mutex"]}
  <2>1. CASE Start(p)
    BY <2>1 DEF Start, kernel, local
  <2>2. CASE Interrupt(p)
    BY <2>2 DEF Interrupt, kernel, local
  <2>3. CASE FreeResources(p)
    BY <1>1, <2>3 DEF FreeResources, DestroySem, RemoveMemory, local, TypeOK, Keys, Sems, Indices
  <2> QED  BY <2>1, <2>2, <2>3
<1>3. at' = at \/ (at[p] = <<"off", "-">> /\ \E then \in {<<"look", "read">>, <<"get", "buff">>} :
                                                  at' = [at EXCEPT ![p] = then])
  BY DEF Start, At, Goto, Interrupt, FreeResources, DestroySem, RemoveMemory
<1>4. \A q \in Programs : /\ Carries(q)' <=> Carries(q)
                          /\ at'[q] = <<"advance", "read">> <=> at[q] = <<"advance", "read">>
                          /\ InLoop(q)' <=> InLoop(q)
                          /\ \A k \in Indices : at'[q] \in Looked(k) => at[q] \in Looked(k)
  <2>1. CASE at' = at
    BY <2>1 DEF Carries, InLoop
  <2>2. ASSUME at[p] = <<"off", "-">>, NEW then \in {<<"look", "read">>, <<"get", "buff">>},
               at' = [at EXCEPT ![p] = then], NEW q \in Programs
        PROVE  /\ Carries(q)' <=> Carries(q)
               /\ at'[q] = <<"advance", "read">> <=> at[q] = <<"advance", "read">>
               /\ InLoop(q)' <=> InLoop(q)
               /\ \A k \in Indices : at'[q] \in Looked(k) => at[q] \in Looked(k)
    <3>1. CASE q = p
      <4>1. at'[q] = then
        BY <1>1, <2>2, <3>1 DEF TypeOK
      <4> QED  BY <2>2, <3>1, <4>1 DEF Carries, InLoop, LoopCalls, Looked
    <3>2. CASE q # p
      <4>1. at'[q] = at[q]
        BY <1>1, <2>2, <3>2 DEF TypeOK
      <4> QED  BY <4>1 DEF Carries, InLoop
    <3> QED  BY <3>1, <3>2
  <2> QED  BY <1>3, <2>1, <2>2
<1>5. ASSUME NEW g \in Gens
      PROVE  /\ Contents(g)' = Contents(g)
             /\ val'["write"][g] = (Oldest(g)' + Length(g)') % BUFFSIZE
  <2>1. Carriers(g)' = Carriers(g) /\ Steppers(g)' = Steppers(g)
    BY <1>2, <1>4 DEF Carriers, Steppers, With
  <2>2. Length(g)' = Length(g)
    BY <1>1, <1>2, <2>1, Lengths, MeasuredNext DEF Measured
  <2>3. Oldest(g)' = Oldest(g)
    BY <1>1, <1>2, <2>1, SteppersType, MeasuredNext DEF Measured
  <2> QED  BY <1>1, <1>2, <2>2, <2>3, SameRing
<1>6. RearInv' /\ MadeInv' /\ UntouchedInv'
  BY <1>2, <1>5 DEF BufferInv, RearInv, MadeInv, UntouchedInv
<1>7. LookedInv' /\ ItemInv'
  BY <1>2, <1>4 DEF BufferInv, LookedInv, ItemInv, Programs
<1>8. BuffersStep
  BY <1>2, <1>5, SameBuffer DEF BuffersStep
<1> QED  BY <1>6, <1>7, <1>8 DEF BufferInv

(* The invariant is inductive, and each step is one of the bounded buffers. *)
LEMMA BufferNext ==
    ASSUME Launch = "orderly", BufferInv, [Next]_vars
    PROVE  BufferInv' /\ BuffersStep
<1>1. SyncInv'
  BY SyncNext DEF BufferInv
<1>2. ASSUME NEW p \in Programs, Main(p) PROVE BufferInv' /\ BuffersStep
  <2>1. Running(p) /\ UNCHANGED undo
    BY <1>2 DEF Main
  <2>2. CASE p \in Producers
    BY <1>1, <1>2, <2>1, <2>2, ProducerBuffer DEF Main
  <2>3. CASE p \notin Producers
    BY <1>1, <1>2, <2>1, <2>3, ConsumerBuffer DEF Main, Programs
  <2> QED  BY <2>2, <2>3
<1>3. ASSUME UNCHANGED vars PROVE BufferInv' /\ BuffersStep
  <2>1. UNCHANGED <<kernel, at, local>> /\ gone \subseteq gone'
    BY <1>3 DEF vars
  <2> QED  BY <1>1, <2>1, StayBuffer
<1> QED  BY <1>1, <1>2, <1>3, ShellBuffer DEF Next

(* Every incarnation of the buffer is a bounded buffer, for any number of     *)
(* programs, any size of the buffer, and interrupts anywhere: no item is      *)
(* lost, overwritten or taken twice, and the oldest is taken first.           *)
THEOREM SyncImplementsBuffers == Launch = "orderly" => (Spec => ImplementsBuffers)
<1> SUFFICES ASSUME Launch = "orderly" PROVE Spec => ImplementsBuffers
  OBVIOUS
<1>1. BufferInv /\ [Next]_vars => BufferInv'
  BY BufferNext
<1>2. BufferInv /\ [Next]_vars => [\A g \in Gens : Buffer(g)!Next \/ UNCHANGED Buffer(g)!vars]_vars
  BY BufferNext DEF BuffersStep
<1>3. Init => BufferInv /\ \A g \in Gens : Buffer(g)!Init
  BY BufferInit
<1> QED  BY <1>1, <1>2, <1>3, PTL DEF Spec, ImplementsBuffers
===============================================================================
