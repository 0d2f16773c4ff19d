-------------------------- MODULE ProjectLoopProofs --------------------------
(***************************************************************************)
(* Proofs about the project loop, for any names, catalogues, evaluators of *)
(* users and bounds: it never makes a second evaluator of a name unless a  *)
(* write was lost, and a pass that succeeds undisturbed has published the  *)
(* whole catalogue.  Both rest on what a finished listing tells the writes *)
(* that follow it: the name and the owner of an id never change, so the    *)
(* evaluators of a name still to be written are those that were listed, up *)
(* to what was executed late.                                              *)
(***************************************************************************)
EXTENDS ProjectLoop, FiniteSetTheorems, NaturalsInduction, WellFoundedInduction, TLAPS

-----------------------------------------------------------------------------
(***************************************************************************)
(* The inductive invariant.                                                *)
(***************************************************************************)

HubShape == hub = [at |-> hub.at, seen |-> hub.seen, todo |-> hub.todo, ok |-> hub.ok, calm |-> hub.calm]

\* What was listed is of the evaluator that still has the id.
SeenInv ==
  /\ \A i \in DOMAIN hub.seen : hub.seen[i].name = evaluators[i].name /\ hub.seen[i].ours = evaluators[i].ours
  /\ hub.at \notin {"list", "write"} => DOMAIN hub.seen = {}

\* A write that may still come is of an evaluator there is, or makes a new one.
LateInv == lateWrite # None => lateWrite.id \in 0..Len(evaluators) /\ lost >= 1

\* The evaluators of the name a write executed late would make.
Late(n) == IF lateWrite # None /\ lateWrite.id = 0 /\ lateWrite.name = n THEN 1 ELSE 0

SeenOurs(n) == {i \in DOMAIN hub.seen : hub.seen[i].name = n /\ hub.seen[i].ours}

\* There is room for the one evaluator that a pass would make of a name it has not seen.
RoomInv ==
  \A n \in Names :
    /\ Cardinality(Ours(n)) + Late(n) <= 1 + lost
    /\ hub.at = "write" /\ n \in hub.todo /\ SeenOurs(n) = {} => Cardinality(Ours(n)) + Late(n) <= lost

\* Undisturbed, what was listed still holds of the names to be written, and the others
\* are as the chart says.
CalmInv ==
  hub.calm =>
    /\ hub.at \in {"list", "write"} /\ hub.ok => connection = Models(catalog)
    /\ hub.at = "list" => \A i \in DOMAIN hub.seen : hub.seen[i] = evaluators[i]
    /\ hub.at = "write" =>
         \A n \in Wanted(catalog) :
           /\ n \in hub.todo =>
                Ours(n) = SeenOurs(n) /\ \A i \in SeenOurs(n) : hub.seen[i] = evaluators[i]
           /\ n \notin hub.todo /\ hub.ok => PublishedName(n)

IInv == ProjectTypeOK /\ HubShape /\ SeenInv /\ LateInv /\ RoomInv /\ CalmInv

-----------------------------------------------------------------------------
\* A set of ids has an oldest.
LEMMA Oldest ==
  ASSUME NEW S \in SUBSET Nat, S # {}
  PROVE  \E i \in S : \A j \in S : i <= j
<1>1. PICK R : R = OpToRel(<, Nat)
  OBVIOUS
<1>2. IsWellFoundedOn(R, Nat)
  BY <1>1, NatLessThanWellFounded
<1>3. PICK i \in S : \A j \in S : ~(<<j, i>> \in R)
  BY <1>2, WFMin
<1>4. ASSUME NEW j \in S
      PROVE  i <= j
  <2>1. ~(j < i)
    BY <1>1, <1>3, <1>4 DEF OpToRel
  <2> QED BY <2>1
<1> QED BY <1>4

-----------------------------------------------------------------------------
(***************************************************************************)
(* What a write does to the evaluators.                                    *)
(***************************************************************************)

LEMMA OursFinite ==
  ASSUME evaluators \in Seq(Evaluator), NEW n
  PROVE  /\ Ours(n) \subseteq 1..Len(evaluators) /\ Len(evaluators) \in Nat
         /\ IsFiniteSet(Ours(n)) /\ Cardinality(Ours(n)) \in Nat
<1>1. Ours(n) \subseteq 1..Len(evaluators) /\ Len(evaluators) \in Nat
  BY DEF Ours
<1>2. IsFiniteSet(1..Len(evaluators))
  BY <1>1, FS_Interval
<1> QED BY <1>1, <1>2, FS_Subset, FS_CardinalityType

\* An update: the evaluator of that id alone, and neither its name nor its owner.
LEMMA Updated ==
  ASSUME evaluators \in Seq(Evaluator), NEW w \in Write, w.id \in 1..Len(evaluators)
  PROVE  /\ Applied(w) \in Seq(Evaluator) /\ Len(Applied(w)) = Len(evaluators)
         /\ \A i \in 1..Len(evaluators) :
              Applied(w)[i].name = evaluators[i].name /\ Applied(w)[i].ours = evaluators[i].ours
         /\ \A i \in 1..Len(evaluators) : i # w.id => Applied(w)[i] = evaluators[i]
         /\ Applied(w)[w.id].def = w.def /\ Applied(w)[w.id].paused = "no"
         /\ Applied(w)[w.id].versions = evaluators[w.id].versions + 1
<1>1. PICK e, v : e = evaluators[w.id] /\ v = [evaluators[w.id] EXCEPT !.def = w.def, !.paused = "no", !.versions = @ + 1]
  OBVIOUS
<1>2. e \in Evaluator
  BY <1>1
<1>3. /\ v \in Evaluator /\ v.name = e.name /\ v.ours = e.ours /\ v.def = w.def /\ v.paused = "no"
      /\ v.versions = e.versions + 1
  <2>1. e = [name |-> e.name, ours |-> e.ours, def |-> e.def, paused |-> e.paused, versions |-> e.versions]
    BY <1>2 DEF Evaluator
  <2>2. v = [name |-> e.name, ours |-> e.ours, def |-> w.def, paused |-> "no", versions |-> e.versions + 1]
    BY <1>1, <2>1
  <2>3. e.name \in Names /\ e.ours \in BOOLEAN /\ e.versions + 1 \in Nat /\ w.def \in Definitions
    BY <1>2 DEF Evaluator, Write
  <2> QED BY <2>2, <2>3 DEF Evaluator
<1>4. w.id # 0
  OBVIOUS
<1>5. Applied(w) = [evaluators EXCEPT ![w.id] = v]
  BY <1>1, <1>4 DEF Applied
<1>6. PICK after : after = [evaluators EXCEPT ![w.id] = v]
  OBVIOUS
<1>7. /\ after \in Seq(Evaluator) /\ Len(after) = Len(evaluators)
      /\ \A i \in 1..Len(evaluators) : after[i] = IF i = w.id THEN v ELSE evaluators[i]
  BY <1>3, <1>6
<1> QED BY <1>1, <1>3, <1>5, <1>6, <1>7

\* A create: a new evaluator of the name, after all the others.
LEMMA Created ==
  ASSUME evaluators \in Seq(Evaluator), NEW w \in Write, w.id = 0
  PROVE  /\ Applied(w) \in Seq(Evaluator) /\ Len(Applied(w)) = Len(evaluators) + 1
         /\ \A i \in 1..Len(evaluators) : Applied(w)[i] = evaluators[i]
         /\ LET e == Applied(w)[Len(evaluators) + 1] IN
            e.name = w.name /\ e.ours /\ e.def = w.def /\ e.paused = "no" /\ e.versions = 1
<1>1. PICK e : e = [name |-> w.name, ours |-> TRUE, def |-> w.def, paused |-> "no", versions |-> 1]
  OBVIOUS
<1>2. e \in Evaluator
  BY <1>1 DEF Evaluator, Write
<1>3. Applied(w) = Append(evaluators, e)
  BY <1>1 DEF Applied
<1> QED BY <1>1, <1>2, <1>3

\* What either leaves: the ids there were, with their names and owners; and of the
\* names other than the one written, the very evaluators.
LEMMA AppliedFacts ==
  ASSUME ProjectTypeOK, NEW w \in Write, w.id \in 0..Len(evaluators), evaluators' = Applied(w),
         w.id # 0 => evaluators[w.id].name = w.name
  PROVE  /\ evaluators' \in Seq(Evaluator) /\ Len(evaluators) \in Nat /\ Len(evaluators') >= Len(evaluators)
         /\ DOMAIN evaluators = 1..Len(evaluators) /\ DOMAIN evaluators \subseteq DOMAIN evaluators'
         /\ \A i \in 1..Len(evaluators) :
              evaluators'[i].name = evaluators[i].name /\ evaluators'[i].ours = evaluators[i].ours
         /\ \A n : n # w.name => Ours(n)' = Ours(n) /\ \A i \in Ours(n) : evaluators'[i] = evaluators[i]
<1>1. evaluators \in Seq(Evaluator) /\ Len(evaluators) \in Nat /\ DOMAIN evaluators = 1..Len(evaluators)
  BY DEF ProjectTypeOK
<1>2. CASE w.id = 0
  <2>1. /\ evaluators' \in Seq(Evaluator) /\ Len(evaluators') = Len(evaluators) + 1
        /\ \A i \in 1..Len(evaluators) : evaluators'[i] = evaluators[i]
        /\ evaluators'[Len(evaluators) + 1].name = w.name
    BY <1>1, <1>2, Created
  <2>2. DOMAIN evaluators' = 1..(Len(evaluators) + 1)
    BY <1>1, <2>1
  <2> QED BY <1>1, <2>1, <2>2 DEF Ours
<1>3. CASE w.id # 0
  <2>1. /\ evaluators' \in Seq(Evaluator) /\ Len(evaluators') = Len(evaluators)
        /\ \A i \in 1..Len(evaluators) :
             evaluators'[i].name = evaluators[i].name /\ evaluators'[i].ours = evaluators[i].ours
        /\ \A i \in 1..Len(evaluators) : i # w.id => evaluators'[i] = evaluators[i]
    <3>1. w.id \in 1..Len(evaluators)
      BY <1>1, <1>3
    <3> QED BY <1>1, <3>1, Updated
  <2>2. DOMAIN evaluators' = 1..Len(evaluators)
    BY <1>1, <2>1
  <2>3. \A n : n # w.name => w.id \notin Ours(n)
    BY <1>3 DEF Ours
  <2> QED BY <1>1, <2>1, <2>2, <2>3 DEF Ours
<1> QED BY <1>2, <1>3

\* A write makes at most one evaluator more, of its own name, and only by a create.
LEMMA AppliedCount ==
  ASSUME ProjectTypeOK, NEW w \in Write, w.id \in 0..Len(evaluators), evaluators' = Applied(w), NEW n
  PROVE  /\ Cardinality(Ours(n)') \in Nat /\ Cardinality(Ours(n)) \in Nat
         /\ Cardinality(Ours(n)') <= Cardinality(Ours(n)) + IF w.id = 0 /\ w.name = n THEN 1 ELSE 0
<1>1. /\ evaluators \in Seq(Evaluator) /\ Len(evaluators) \in Nat /\ DOMAIN evaluators = 1..Len(evaluators)
      /\ IsFiniteSet(Ours(n)) /\ Cardinality(Ours(n)) \in Nat /\ Ours(n) \subseteq 1..Len(evaluators)
  BY OursFinite DEF ProjectTypeOK
<1>2. CASE w.id = 0
  <2>1. /\ evaluators' \in Seq(Evaluator) /\ Len(evaluators') = Len(evaluators) + 1
        /\ \A i \in 1..Len(evaluators) : evaluators'[i] = evaluators[i]
        /\ evaluators'[Len(evaluators) + 1].name = w.name /\ evaluators'[Len(evaluators) + 1].ours
    BY <1>1, <1>2, Created
  <2>2. DOMAIN evaluators' = 1..(Len(evaluators) + 1)
    BY <1>1, <2>1
  <2>3. Ours(n)' = IF w.name = n THEN Ours(n) \union {Len(evaluators) + 1} ELSE Ours(n)
    BY <1>1, <2>1, <2>2 DEF Ours
  <2>4. Cardinality(Ours(n) \union {Len(evaluators) + 1}) = Cardinality(Ours(n)) + 1
    <3>1. Len(evaluators) + 1 \notin Ours(n)
      BY <1>1
    <3> QED BY <1>1, <3>1, FS_AddElement
  <2> QED BY <1>1, <1>2, <2>3, <2>4
<1>3. CASE w.id # 0
  <2>1. /\ evaluators' \in Seq(Evaluator) /\ Len(evaluators') = Len(evaluators)
        /\ \A i \in 1..Len(evaluators) :
             evaluators'[i].name = evaluators[i].name /\ evaluators'[i].ours = evaluators[i].ours
    <3>1. w.id \in 1..Len(evaluators)
      BY <1>1, <1>3
    <3> QED BY <1>1, <3>1, Updated
  <2>2. DOMAIN evaluators' = 1..Len(evaluators)
    BY <1>1, <2>1
  <2>3. Ours(n)' = Ours(n)
    BY <1>1, <2>1, <2>2 DEF Ours
  <2> QED BY <1>1, <1>3, <2>3
<1> QED BY <1>2, <1>3

-----------------------------------------------------------------------------
(***************************************************************************)
(* What a pass writes.                                                     *)
(***************************************************************************)

LEMMA MaintainedIsOldest ==
  ASSUME ProjectTypeOK, NEW n
  PROVE  /\ SeenOurs(n) = {} => Maintained(n) = 0
         /\ SeenOurs(n) # {} => Maintained(n) \in SeenOurs(n) /\ \A j \in SeenOurs(n) : Maintained(n) <= j
         /\ SeenOurs(n) \subseteq 1..Len(evaluators) /\ Len(evaluators) \in Nat
<1>1. DOMAIN hub.seen \subseteq 1..Len(evaluators) /\ Len(evaluators) \in Nat
  BY DEF ProjectTypeOK
<1>2. SeenOurs(n) \subseteq 1..Len(evaluators)
  BY <1>1 DEF SeenOurs
<1>3. Maintained(n) = IF SeenOurs(n) = {} THEN 0 ELSE CHOOSE i \in SeenOurs(n) : \A j \in SeenOurs(n) : i <= j
  BY DEF Maintained, SeenOurs
<1>4. SeenOurs(n) # {} => \E i \in SeenOurs(n) : \A j \in SeenOurs(n) : i <= j
  BY <1>1, <1>2, Oldest
<1> QED BY <1>1, <1>2, <1>3, <1>4

\* The write of a name is of one of its evaluators as they were listed, or makes the first.
LEMMA WriteOfShape ==
  ASSUME ProjectTypeOK, SeenInv, NEW n \in Wanted(catalog)
  PROVE  /\ WriteOf(n) \in Write /\ WriteOf(n).id \in 0..Len(evaluators) /\ WriteOf(n).name = n
         /\ WriteOf(n).def = catalog[n] /\ WriteOf(n).id = Maintained(n)
         /\ (WriteOf(n).id = 0 <=> SeenOurs(n) = {})
         /\ WriteOf(n).id # 0 => evaluators[WriteOf(n).id].name = n
<1>1. n \in Names /\ catalog[n] \in Definitions
  BY CatalogsAssumption DEF ProjectTypeOK, Wanted
<1>2. PICK i : i = Maintained(n)
  OBVIOUS
<1>3. /\ i \in 0..Len(evaluators) /\ i \in Nat /\ (i = 0 <=> SeenOurs(n) = {})
      /\ i # 0 => evaluators[i].name = n
  <2>1. SeenOurs(n) \subseteq 1..Len(evaluators) /\ Len(evaluators) \in Nat
    BY MaintainedIsOldest
  <2>2. CASE SeenOurs(n) = {}
    BY <1>2, <2>1, <2>2, MaintainedIsOldest
  <2>3. CASE SeenOurs(n) # {}
    <3>1. i \in SeenOurs(n)
      BY <1>2, <2>3, MaintainedIsOldest
    <3> QED BY <2>1, <2>3, <3>1 DEF SeenInv, SeenOurs
  <2> QED BY <2>2, <2>3
<1>4. WriteOf(n) = [id |-> i, name |-> n, def |-> catalog[n]]
  BY <1>2 DEF WriteOf
<1> QED BY <1>1, <1>2, <1>3, <1>4 DEF Write

LEMMA CatalogModels ==
  ASSUME catalog \in Catalogs
  PROVE  Models(catalog) \in SUBSET {d.model : d \in Definitions}
BY CatalogsAssumption DEF Models

-----------------------------------------------------------------------------
(***************************************************************************)
(* Every step keeps the invariant.                                         *)
(***************************************************************************)

LEMMA RestingFields ==
  /\ Resting.at = "idle" /\ DOMAIN Resting.seen = {} /\ Resting.todo = {}
  /\ Resting.ok = TRUE /\ Resting.calm = TRUE
BY DEF Resting

\* Steps that start or end a pass: nothing of an earlier one is left.
LEMMA RestsKeep ==
  ASSUME IInv, hub' = Resting \/ hub' = [Resting EXCEPT !.at = "connection"],
         evaluators' = evaluators, lateWrite' = lateWrite, connection' = connection,
         catalog' \in Catalogs, ready' \in BOOLEAN, counters' \in Nat \X Nat \X Nat, lost' = lost
  PROVE  IInv'
<1>1. /\ hub'.at \in {"idle", "connection"} /\ DOMAIN hub'.seen = {} /\ hub'.todo = {}
      /\ hub'.ok = TRUE /\ hub'.calm = TRUE
  BY DEF Resting
<1>2. HubShape'
  BY DEF HubShape, Resting
<1>3. ProjectTypeOK'
  BY <1>1 DEF IInv, ProjectTypeOK
<1>4. RoomInv'
  <2>1. \A n : Ours(n)' = Ours(n) /\ Late(n)' = Late(n)
    BY DEF Ours, Late
  <2> QED BY <1>1, <2>1 DEF IInv, RoomInv
<1> QED BY <1>1, <1>2, <1>3, <1>4 DEF IInv, SeenInv, LateInv, CalmInv

LEMMA StutterKeeps ==
  ASSUME IInv, UNCHANGED projectVars
  PROVE  IInv'
<1>1. UNCHANGED <<catalog, evaluators, connection, lateWrite, hub, ready, restarts, pauses, lost>>
  BY DEF projectVars
<1>2. \A n : Ours(n)' = Ours(n) /\ Late(n)' = Late(n) /\ SeenOurs(n)' = SeenOurs(n) /\ PublishedName(n)' = PublishedName(n)
  BY <1>1 DEF Ours, Late, SeenOurs, PublishedName, Differs
<1>3. ProjectTypeOK' /\ HubShape' /\ SeenInv' /\ LateInv'
  BY <1>1 DEF IInv, ProjectTypeOK, counters, HubShape, SeenInv, LateInv
<1>4. RoomInv' /\ CalmInv'
  BY <1>1, <1>2 DEF IInv, RoomInv, CalmInv
<1> QED BY <1>3, <1>4 DEF IInv

LEMMA RestartKeeps ==
  ASSUME IInv, Restart
  PROVE  IInv'
<1>1. /\ restarts' = restarts + 1 /\ catalog' \in Catalogs /\ hub' = Resting /\ ready' = FALSE
      /\ UNCHANGED <<evaluators, connection, pauses>>
  BY DEF Restart
<1>2. ProjectTypeOK /\ SeenInv /\ LateInv /\ RoomInv
  BY DEF IInv
<1>3. restarts \in Nat /\ pauses \in Nat /\ lost \in Nat
  BY <1>2 DEF ProjectTypeOK, counters
<1>4. CASE UNCHANGED <<lateWrite, lost>>
  <2>1. counters' \in Nat \X Nat \X Nat
    BY <1>1, <1>3, <1>4 DEF counters
  <2> QED BY <1>1, <1>4, <2>1, RestsKeep
<1>5. CASE /\ lateWrite = None /\ lost < MaxLost
           /\ lateWrite' \in {WriteOf(n) : n \in {m \in Names : Writing(m) /\ Needed(m)}}
           /\ lost' = lost + 1
  <2>1. PICK n \in Names : Writing(n) /\ lateWrite' = WriteOf(n)
    BY <1>5
  <2>2. n \in Wanted(catalog) /\ n \in hub.todo /\ hub.at = "write"
    BY <1>2, <2>1 DEF Writing, ProjectTypeOK
  <2>3. WriteOf(n) \in Write /\ WriteOf(n).id \in 0..Len(evaluators)
    BY <1>2, <2>2, WriteOfShape
  <2>4. HubShape' /\ SeenInv' /\ CalmInv'
    BY <1>1, RestingFields DEF HubShape, Resting, SeenInv, CalmInv
  <2>5. ProjectTypeOK'
    <3>1. counters' \in Nat \X Nat \X Nat
      BY <1>1, <1>3, <1>5 DEF counters
    <3>2. lateWrite' \in Write
      BY <2>1, <2>3
    <3>3. /\ hub'.at = "idle" /\ DOMAIN hub'.seen = {} /\ hub'.todo = {} /\ hub'.ok = TRUE /\ hub'.calm = TRUE
      BY <1>1, RestingFields
    <3> QED BY <1>1, <1>2, <3>1, <3>2, <3>3 DEF ProjectTypeOK
  <2>6. LateInv'
    BY <1>1, <1>3, <1>5, <2>1, <2>3 DEF LateInv
  <2>7. RoomInv'
    <3>1. \A m : Ours(m)' = Ours(m)
      BY <1>1 DEF Ours
    <3>2. \A m : Late(m)' \in {0, 1} /\ Late(m) = 0
      BY <1>5 DEF Late
    <3>3. \A m \in Names : Cardinality(Ours(m)) <= 1 + lost /\ Cardinality(Ours(m)) \in Nat
      BY <1>2, <3>2, OursFinite DEF RoomInv, ProjectTypeOK
    <3>4. hub'.at # "write" /\ lost' = lost + 1
      BY <1>1, <1>5, RestingFields
    <3> QED BY <1>3, <3>1, <3>2, <3>3, <3>4 DEF RoomInv
  <2> QED BY <2>4, <2>5, <2>6, <2>7 DEF IInv
<1> QED BY <1>4, <1>5 DEF Restart

LEMMA PassEdgesKeep ==
  ASSUME IInv, BeginPass \/ EndPass \/ Raises \/ ListingFails
  PROVE  IInv'
<1>1. ProjectTypeOK
  BY DEF IInv
<1>2. /\ hub' = Resting \/ hub' = [Resting EXCEPT !.at = "connection"]
      /\ UNCHANGED <<catalog, evaluators, connection, lateWrite, counters>>
      /\ ready' \in {ready, FALSE, hub.ok}
  BY DEF BeginPass, EndPass, Raises, ListingFails
<1>3. counters' = counters /\ lost' = lost
  BY <1>2 DEF counters
<1> QED BY <1>1, <1>2, <1>3, RestsKeep DEF ProjectTypeOK

\* The connection is settled before anything is listed.
LEMMA ConnectionKeeps ==
  ASSUME IInv, ConnectionRead \/ ConnectionUpserted \/ ConnectionFails
  PROVE  IInv'
<1>1. ProjectTypeOK /\ HubShape /\ SeenInv /\ LateInv /\ RoomInv
  BY DEF IInv
<1>2. UNCHANGED <<catalog, evaluators, lateWrite, ready, restarts, pauses, lost>> /\ hub.at \in {"connection", "upsert"}
  BY DEF ConnectionRead, ConnectionUpserted, ConnectionFails, counters
<1>3. PICK at \in {"list", "upsert"}, ok \in BOOLEAN :
        /\ hub' = [hub EXCEPT !.at = at, !.ok = ok]
        /\ at = "list" /\ ok => connection' = Models(catalog)
  <2>1. hub.ok \in BOOLEAN
    BY <1>1 DEF ProjectTypeOK
  <2>2. hub = [at |-> hub.at, seen |-> hub.seen, todo |-> hub.todo, ok |-> hub.ok, calm |-> hub.calm]
    BY <1>1 DEF HubShape
  <2>3. \A a : [hub EXCEPT !.at = a] = [hub EXCEPT !.at = a, !.ok = hub.ok]
    BY <2>2
  <2>4. CASE ConnectionRead
    BY <2>1, <2>3, <2>4 DEF ConnectionRead
  <2>5. CASE ConnectionUpserted
    BY <2>1, <2>3, <2>5 DEF ConnectionUpserted
  <2>6. CASE ConnectionFails
    BY <2>6 DEF ConnectionFails
  <2> QED BY <2>4, <2>5, <2>6
<1>4. /\ hub'.at = at /\ hub'.ok = ok /\ hub'.seen = hub.seen /\ hub'.todo = hub.todo /\ hub'.calm = hub.calm
      /\ HubShape'
  BY <1>1, <1>3 DEF HubShape
<1>5. DOMAIN hub.seen = {}
  BY <1>1, <1>2 DEF SeenInv
<1>6. connection' \in (SUBSET {d.model : d \in Definitions}) \union {None}
  <2>1. connection' \in {connection, Models(catalog)}
    BY DEF ConnectionRead, ConnectionUpserted, ConnectionFails
  <2> QED BY <1>1, <2>1, CatalogModels DEF ProjectTypeOK
<1>7. ProjectTypeOK'
  BY <1>1, <1>2, <1>3, <1>4, <1>6 DEF ProjectTypeOK, counters
<1>8. SeenInv' /\ LateInv'
  BY <1>1, <1>2, <1>4, <1>5 DEF SeenInv, LateInv
<1>9. RoomInv'
  <2>1. \A n : Ours(n)' = Ours(n) /\ Late(n)' = Late(n)
    BY <1>2 DEF Ours, Late
  <2> QED BY <1>1, <1>2, <1>3, <1>4, <2>1 DEF RoomInv
<1>10. CalmInv'
  BY <1>2, <1>3, <1>4, <1>5 DEF CalmInv, Models
<1> QED BY <1>4, <1>7, <1>8, <1>9, <1>10 DEF IInv

\* The last page leaves nothing unlisted, so a name not seen has no evaluator.
LEMMA PageKeeps ==
  ASSUME IInv, PageRead
  PROVE  IInv'
<1>1. ProjectTypeOK /\ HubShape /\ SeenInv /\ LateInv /\ RoomInv /\ CalmInv
  BY DEF IInv
<1>2. UNCHANGED <<catalog, evaluators, connection, lateWrite, ready, restarts, pauses, lost>> /\ hub.at = "list"
  BY DEF PageRead, counters
<1>3. PICK page \in SUBSET Unseen :
        LET seen == [i \in DOMAIN hub.seen \union page |-> IF i \in page THEN evaluators[i] ELSE hub.seen[i]]
        IN  hub' = [hub EXCEPT !.seen = seen,
                               !.at = IF AllListed(seen) THEN "write" ELSE "list",
                               !.todo = IF AllListed(seen) THEN Wanted(catalog) ELSE {}]
  BY DEF PageRead
<1>4. PICK seen, over :
        /\ seen = [i \in DOMAIN hub.seen \union page |-> IF i \in page THEN evaluators[i] ELSE hub.seen[i]]
        /\ over = (DOMAIN evaluators \subseteq DOMAIN seen)
        /\ hub' = [hub EXCEPT !.seen = seen, !.at = IF over THEN "write" ELSE "list",
                              !.todo = IF over THEN Wanted(catalog) ELSE {}]
  BY <1>3 DEF AllListed
<1>5. /\ hub'.seen = seen /\ hub'.at = (IF over THEN "write" ELSE "list")
      /\ hub'.todo = (IF over THEN Wanted(catalog) ELSE {}) /\ hub'.ok = hub.ok /\ hub'.calm = hub.calm
      /\ HubShape'
  <2>1. hub = [at |-> hub.at, seen |-> hub.seen, todo |-> hub.todo, ok |-> hub.ok, calm |-> hub.calm]
    BY <1>1 DEF HubShape
  <2> QED BY <1>4, <2>1 DEF HubShape
<1>6. /\ DOMAIN seen \subseteq DOMAIN evaluators
      /\ \A i \in DOMAIN seen : seen[i] \in Evaluator /\ seen[i].name = evaluators[i].name /\ seen[i].ours = evaluators[i].ours
      /\ (\A i \in DOMAIN hub.seen : hub.seen[i] = evaluators[i]) => \A i \in DOMAIN seen : seen[i] = evaluators[i]
  <2>1. page \subseteq DOMAIN evaluators
    BY <1>3 DEF Unseen
  <2>2. \A i \in DOMAIN evaluators : evaluators[i] \in Evaluator
    BY <1>1 DEF ProjectTypeOK
  <2> QED BY <1>1, <1>4, <2>1, <2>2 DEF ProjectTypeOK, SeenInv
<1>7. ProjectTypeOK'
  BY <1>1, <1>2, <1>4, <1>5, <1>6 DEF ProjectTypeOK, counters, Wanted
<1>8. SeenInv' /\ LateInv'
  BY <1>1, <1>2, <1>5, <1>6 DEF SeenInv, LateInv
<1>9. \A n : /\ Ours(n)' = Ours(n) /\ Late(n)' = Late(n)
             /\ over => SeenOurs(n)' = Ours(n)
  <2>1. \A n : Ours(n)' = Ours(n) /\ Late(n)' = Late(n)
    BY <1>2 DEF Ours, Late
  <2>2. \A n : SeenOurs(n)' = {i \in DOMAIN seen : seen[i].name = n /\ seen[i].ours}
    BY <1>5 DEF SeenOurs
  <2>3. over => DOMAIN seen = DOMAIN evaluators
    BY <1>4, <1>6
  <2>4. ASSUME NEW n, over
        PROVE  {i \in DOMAIN seen : seen[i].name = n /\ seen[i].ours} = Ours(n)
    BY <1>6, <2>3, <2>4 DEF Ours
  <2> QED BY <2>1, <2>2, <2>4
<1>10. RoomInv'
  <2>1. \A n : Late(n) \in {0, 1} /\ (Late(n) = 1 => lost >= 1) /\ lost \in Nat
    BY <1>1 DEF Late, LateInv, ProjectTypeOK, counters
  <2>2. ASSUME NEW n \in Names, over, SeenOurs(n)' = {}
        PROVE  Cardinality(Ours(n)) + Late(n) <= lost
    <3>1. Ours(n) = {}
      BY <1>9, <2>2
    <3>2. Cardinality(Ours(n)) = 0
      BY <3>1, FS_EmptySet
    <3> QED BY <2>1, <3>2
  <2> QED BY <1>1, <1>2, <1>5, <1>9, <2>2 DEF RoomInv
<1>11. CalmInv'
  <2>1. SUFFICES ASSUME hub.calm
                 PROVE  /\ hub.ok => connection = Models(catalog)
                        /\ \A i \in DOMAIN seen : seen[i] = evaluators[i]
    BY <1>2, <1>5, <1>9 DEF CalmInv, Models, Wanted, SeenOurs
  <2> QED BY <1>1, <1>2, <1>6, <2>1 DEF CalmInv
<1> QED BY <1>5, <1>7, <1>8, <1>10, <1>11 DEF IInv

\* What is known of the evaluators of a name is untouched by a step that leaves them alone.
LEMMA NameUntouched ==
  ASSUME NEW n, Ours(n)' = Ours(n), \A i \in Ours(n) : evaluators'[i] = evaluators[i], catalog' = catalog
  PROVE  PublishedName(n)' <=> PublishedName(n)
BY DEF PublishedName, Differs

\* A name is dealt with: its listed evaluators are all there are, and the one maintained is right.
LEMMA UnchangedKeeps ==
  ASSUME IInv, NEW n \in Names, Unchanged(n)
  PROVE  IInv'
<1>1. ProjectTypeOK /\ HubShape /\ SeenInv /\ LateInv /\ RoomInv /\ CalmInv
  BY DEF IInv
<1>2. /\ UNCHANGED <<catalog, evaluators, connection, lateWrite, ready, restarts, pauses, lost>>
      /\ hub.at = "write" /\ n \in hub.todo /\ ~Needed(n) /\ hub' = [hub EXCEPT !.todo = @ \ {n}]
  BY DEF Unchanged, Writing, counters
<1>3. /\ hub'.at = "write" /\ hub'.todo = hub.todo \ {n} /\ hub'.ok = hub.ok /\ hub'.calm = hub.calm
      /\ hub'.seen = hub.seen /\ HubShape'
  BY <1>1, <1>2 DEF HubShape
<1>4. ProjectTypeOK' /\ SeenInv' /\ LateInv'
  BY <1>1, <1>2, <1>3 DEF ProjectTypeOK, counters, SeenInv, LateInv, Wanted
<1>5. \A m : Ours(m)' = Ours(m) /\ Late(m)' = Late(m) /\ SeenOurs(m)' = SeenOurs(m) /\ PublishedName(m)' = PublishedName(m)
  BY <1>2, <1>3 DEF Ours, Late, SeenOurs, PublishedName, Differs
<1>6. RoomInv'
  BY <1>1, <1>2, <1>3, <1>5 DEF RoomInv
<1>7. CalmInv'
  <2>1. SUFFICES ASSUME hub.calm PROVE PublishedName(n)
    BY <1>1, <1>2, <1>3, <1>5 DEF CalmInv, Models, Wanted
  <2>2. n \in Wanted(catalog)
    BY <1>1, <1>2 DEF ProjectTypeOK
  <2>3. Ours(n) = SeenOurs(n) /\ \A i \in SeenOurs(n) : hub.seen[i] = evaluators[i]
    BY <1>1, <1>2, <2>1, <2>2 DEF CalmInv
  <2>4. Maintained(n) # 0 /\ ~Differs(hub.seen[Maintained(n)], catalog[n])
    BY <1>2 DEF Needed
  <2>5. Maintained(n) \in SeenOurs(n) /\ \A j \in SeenOurs(n) : Maintained(n) <= j
    BY <1>1, <2>4, MaintainedIsOldest
  <2> QED BY <2>3, <2>4, <2>5 DEF PublishedName
<1> QED BY <1>3, <1>4, <1>6, <1>7 DEF IInv

LEMMA WrittenKeeps ==
  ASSUME IInv, NEW n \in Names, Written(n)
  PROVE  IInv'
<1>1. ProjectTypeOK /\ HubShape /\ SeenInv /\ LateInv /\ RoomInv /\ CalmInv
  BY DEF IInv
<1>2. /\ UNCHANGED <<catalog, connection, lateWrite, ready, restarts, pauses, lost>>
      /\ hub.at = "write" /\ n \in hub.todo /\ hub' = [hub EXCEPT !.todo = @ \ {n}]
      /\ evaluators' = Applied(WriteOf(n))
  BY DEF Written, Writing, counters
<1>3. /\ hub'.at = "write" /\ hub'.todo = hub.todo \ {n} /\ hub'.ok = hub.ok /\ hub'.calm = hub.calm
      /\ hub'.seen = hub.seen /\ HubShape'
  BY <1>1, <1>2 DEF HubShape
<1>4. n \in Wanted(catalog)
  BY <1>1, <1>2 DEF ProjectTypeOK
<1>5. PICK w \in Write :
        /\ w = WriteOf(n) /\ w.id \in 0..Len(evaluators) /\ w.name = n /\ w.def = catalog[n] /\ w.id = Maintained(n)
        /\ (w.id = 0 <=> SeenOurs(n) = {})
        /\ w.id # 0 => evaluators[w.id].name = n
  BY <1>1, <1>4, WriteOfShape
<1>6. evaluators' = Applied(w)
  BY <1>2, <1>5
<1>7. /\ evaluators' \in Seq(Evaluator) /\ Len(evaluators) \in Nat /\ Len(evaluators') >= Len(evaluators)
      /\ DOMAIN evaluators = 1..Len(evaluators) /\ DOMAIN evaluators \subseteq DOMAIN evaluators'
      /\ \A i \in 1..Len(evaluators) :
           evaluators'[i].name = evaluators[i].name /\ evaluators'[i].ours = evaluators[i].ours
      /\ \A m : m # n => Ours(m)' = Ours(m) /\ \A i \in Ours(m) : evaluators'[i] = evaluators[i]
  BY <1>1, <1>5, <1>6, AppliedFacts
<1>8. DOMAIN hub.seen \subseteq 1..Len(evaluators)
  BY <1>1, <1>7 DEF ProjectTypeOK
<1>9. ProjectTypeOK'
  <2>1. counters' = counters
    BY <1>2 DEF counters
  <2> QED BY <1>1, <1>2, <1>3, <1>7, <2>1 DEF ProjectTypeOK, Wanted
<1>10. SeenInv'
  BY <1>1, <1>3, <1>7, <1>8 DEF SeenInv
<1>11. LateInv'
  <2>1. lateWrite # None => lateWrite.id \in 0..Len(evaluators')
    <3>1. Len(evaluators') \in Nat
      BY <1>7
    <3> QED BY <1>1, <1>7, <3>1 DEF LateInv
  <2> QED BY <1>1, <1>2, <2>1 DEF LateInv
<1>12. \A m : Late(m)' = Late(m) /\ SeenOurs(m)' = SeenOurs(m)
  BY <1>2, <1>3 DEF Late, SeenOurs
<1>13. lost \in Nat /\ \A m : Late(m) \in {0, 1}
  BY <1>1 DEF Late, ProjectTypeOK, counters
<1>14. RoomInv'
  <2>1. ASSUME NEW m \in Names, m # n
        PROVE  /\ Cardinality(Ours(m)') + Late(m) <= 1 + lost
               /\ m \in hub.todo /\ SeenOurs(m) = {} => Cardinality(Ours(m)') + Late(m) <= lost
    BY <1>1, <1>2, <1>7, <2>1 DEF RoomInv
  <2>2. Cardinality(Ours(n)') + Late(n) <= 1 + lost
    <3>1. /\ Cardinality(Ours(n)') \in Nat /\ Cardinality(Ours(n)) \in Nat
          /\ Cardinality(Ours(n)') <= Cardinality(Ours(n)) + IF w.id = 0 /\ w.name = n THEN 1 ELSE 0
      BY <1>1, <1>5, <1>6, AppliedCount
    <3>2. /\ Cardinality(Ours(n)) + Late(n) <= 1 + lost
          /\ w.id = 0 => Cardinality(Ours(n)) + Late(n) <= lost
      BY <1>1, <1>2, <1>5 DEF RoomInv
    <3>3. PICK c, d, l : c = Cardinality(Ours(n)) /\ d = Cardinality(Ours(n)') /\ l = Late(n)
      OBVIOUS
    <3> QED BY <1>13, <3>1, <3>2, <3>3
  <2> QED BY <1>2, <1>3, <1>12, <2>1, <2>2 DEF RoomInv
<1>15. CalmInv'
  <2>1. \A m : m # n => (PublishedName(m)' <=> PublishedName(m))
    BY <1>2, <1>7, NameUntouched
  <2>2. SUFFICES ASSUME hub.calm PROVE PublishedName(n)'
    <3>1. \A m \in Wanted(catalog) : m # n /\ SeenOurs(m) = Ours(m) /\ (\A i \in SeenOurs(m) : hub.seen[i] = evaluators[i]) =>
            Ours(m)' = SeenOurs(m) /\ \A i \in SeenOurs(m) : hub.seen[i] = evaluators'[i]
      BY <1>7
    <3> QED BY <1>1, <1>2, <1>3, <1>12, <2>1, <3>1 DEF CalmInv, Models, Wanted
  <2>3. Ours(n) = SeenOurs(n)
    BY <1>1, <1>2, <1>4, <2>2 DEF CalmInv
  <2>4. CASE w.id = 0
    <3>1. /\ Len(evaluators') = Len(evaluators) + 1
          /\ \A i \in 1..Len(evaluators) : evaluators'[i] = evaluators[i]
          /\ evaluators'[Len(evaluators) + 1].name = n /\ evaluators'[Len(evaluators) + 1].ours
          /\ evaluators'[Len(evaluators) + 1].def = catalog[n] /\ evaluators'[Len(evaluators) + 1].paused = "no"
      BY <1>1, <1>5, <1>6, <2>4, Created DEF ProjectTypeOK
    <3>2. DOMAIN evaluators' = 1..(Len(evaluators) + 1)
      BY <1>7, <3>1
    <3>3. Ours(n) = {}
      BY <1>5, <2>3, <2>4
    <3>4. Ours(n)' = {Len(evaluators) + 1}
      BY <1>7, <3>1, <3>2, <3>3 DEF Ours
    <3> QED BY <1>2, <1>7, <3>1, <3>4 DEF PublishedName, Differs
  <2>5. CASE w.id # 0
    <3>1. w.id \in SeenOurs(n) /\ \A j \in SeenOurs(n) : w.id <= j
      BY <1>1, <1>5, <2>5, MaintainedIsOldest
    <3>2. /\ Len(evaluators') = Len(evaluators)
          /\ evaluators'[w.id].def = catalog[n] /\ evaluators'[w.id].paused = "no"
      <4>1. w.id \in 1..Len(evaluators)
        BY <1>5, <1>7, <2>5
      <4> QED BY <1>1, <1>5, <1>6, <4>1, Updated DEF ProjectTypeOK
    <3>3. DOMAIN evaluators' = 1..Len(evaluators)
      BY <1>7, <3>2
    <3>4. Ours(n)' = Ours(n)
      BY <1>7, <3>3 DEF Ours
    <3> QED BY <1>2, <2>3, <3>1, <3>2, <3>4 DEF PublishedName, Differs
  <2> QED BY <2>4, <2>5
<1> QED BY <1>3, <1>9, <1>10, <1>11, <1>14, <1>15 DEF IInv

\* A name given up is not claimed as published: the pass no longer counts as a success.
LEMMA FailedKeeps ==
  ASSUME IInv, NEW n \in Names, ErrorAnswered(n) \/ WriteLost(n)
  PROVE  IInv'
<1>1. ProjectTypeOK /\ HubShape /\ SeenInv /\ LateInv /\ RoomInv /\ CalmInv
  BY DEF IInv
<1>2. /\ UNCHANGED <<catalog, evaluators, connection, ready, restarts, pauses>>
      /\ hub.at = "write" /\ n \in hub.todo /\ Needed(n)
      /\ hub' = [hub EXCEPT !.todo = @ \ {n}, !.ok = FALSE]
      /\ \/ UNCHANGED <<lateWrite, lost>>
         \/ lateWrite = None /\ lateWrite' = WriteOf(n) /\ lost' = lost + 1
  BY DEF ErrorAnswered, WriteLost, Writing, counters
<1>3. /\ hub'.at = "write" /\ hub'.todo = hub.todo \ {n} /\ hub'.ok = FALSE /\ hub'.calm = hub.calm
      /\ hub'.seen = hub.seen /\ HubShape'
  BY <1>1, <1>2 DEF HubShape
<1>4. n \in Wanted(catalog) /\ lost \in Nat
  BY <1>1, <1>2 DEF ProjectTypeOK, counters
<1>5. /\ WriteOf(n) \in Write /\ WriteOf(n).id \in 0..Len(evaluators) /\ WriteOf(n).name = n
      /\ (WriteOf(n).id = 0 <=> SeenOurs(n) = {})
  BY <1>1, <1>4, WriteOfShape
<1>6. ProjectTypeOK'
  <2>1. lateWrite' \in Write \union {None} /\ counters' \in Nat \X Nat \X Nat
    BY <1>1, <1>2, <1>4, <1>5 DEF ProjectTypeOK, counters
  <2> QED BY <1>1, <1>2, <1>3, <2>1 DEF ProjectTypeOK, Wanted
<1>7. SeenInv' /\ LateInv'
  BY <1>1, <1>2, <1>3, <1>4, <1>5 DEF SeenInv, LateInv
<1>8. \A m : Ours(m)' = Ours(m) /\ SeenOurs(m)' = SeenOurs(m) /\ PublishedName(m)' = PublishedName(m)
  BY <1>2, <1>3 DEF Ours, SeenOurs, PublishedName, Differs
<1>9. RoomInv'
  <2>1. CASE UNCHANGED <<lateWrite, lost>>
    <3>1. \A m : Late(m)' = Late(m)
      BY <2>1 DEF Late
    <3> QED BY <1>1, <1>2, <1>3, <1>8, <2>1, <3>1 DEF RoomInv
  <2>2. CASE lateWrite = None /\ lateWrite' = WriteOf(n) /\ lost' = lost + 1
    <3>1. \A m : Late(m) = 0 /\ Late(m)' \in {0, 1} /\ (m # n => Late(m)' = 0)
      BY <1>5, <2>2 DEF Late
    <3>2. \A m \in Names : Cardinality(Ours(m)) \in Nat
      BY <1>1, OursFinite DEF ProjectTypeOK
    <3>3. ASSUME NEW m \in Names
          PROVE  /\ Cardinality(Ours(m)) + Late(m)' <= 1 + lost'
                 /\ m # n /\ m \in hub.todo /\ SeenOurs(m) = {} => Cardinality(Ours(m)) + Late(m)' <= lost'
      <4>1. /\ Cardinality(Ours(m)) <= 1 + lost
            /\ m \in hub.todo /\ SeenOurs(m) = {} => Cardinality(Ours(m)) <= lost
        BY <1>1, <1>2, <3>1, <3>2 DEF RoomInv
      <4> QED BY <1>4, <2>2, <3>1, <3>2, <4>1
    <3> QED BY <1>3, <1>8, <3>3 DEF RoomInv
  <2> QED BY <1>2, <2>1, <2>2
<1>10. CalmInv'
  BY <1>1, <1>2, <1>3, <1>8 DEF CalmInv, Models, Wanted
<1> QED BY <1>3, <1>6, <1>7, <1>9, <1>10 DEF IInv

LEMMA LateKeeps ==
  ASSUME IInv, LateWriteArrives
  PROVE  IInv'
<1>1. ProjectTypeOK /\ HubShape /\ SeenInv /\ LateInv /\ RoomInv
  BY DEF IInv
<1>2. /\ lateWrite # None /\ lateWrite' = None
      /\ evaluators' = IF Accepted(lateWrite) THEN Applied(lateWrite) ELSE evaluators
      /\ hub' = [hub EXCEPT !.calm = FALSE]
      /\ UNCHANGED <<catalog, connection, ready, restarts, pauses, lost>>
  BY DEF LateWriteArrives, counters
<1>3. /\ hub'.at = hub.at /\ hub'.todo = hub.todo /\ hub'.ok = hub.ok /\ hub'.calm = FALSE
      /\ hub'.seen = hub.seen /\ HubShape'
  BY <1>1, <1>2 DEF HubShape
<1>4. PICK w \in Write : w = lateWrite /\ w.id \in 0..Len(evaluators)
  BY <1>1, <1>2 DEF ProjectTypeOK, LateInv
<1>5. lost \in Nat /\ \A m : Late(m)' = 0 /\ Late(m) = IF w.id = 0 /\ w.name = m THEN 1 ELSE 0
  BY <1>1, <1>2, <1>4 DEF Late, ProjectTypeOK, counters
<1>6. /\ evaluators' \in Seq(Evaluator) /\ Len(evaluators) \in Nat /\ Len(evaluators') >= Len(evaluators)
      /\ \A i \in 1..Len(evaluators) :
           evaluators'[i].name = evaluators[i].name /\ evaluators'[i].ours = evaluators[i].ours
  <2>1. evaluators \in Seq(Evaluator)
    BY <1>1 DEF ProjectTypeOK
  <2>2. CASE evaluators' = evaluators
    BY <2>1, <2>2
  <2>3. CASE evaluators' = Applied(w) /\ w.id = 0
    BY <2>1, <2>3, Created
  <2>4. CASE evaluators' = Applied(w) /\ w.id # 0
    <3>1. w.id \in 1..Len(evaluators)
      BY <1>4, <2>1, <2>4
    <3> QED BY <2>1, <2>4, <3>1, Updated
  <2> QED BY <1>2, <1>4, <2>2, <2>3, <2>4
<1>7. DOMAIN evaluators' = 1..Len(evaluators') /\ DOMAIN hub.seen \subseteq 1..Len(evaluators)
  BY <1>1, <1>6 DEF ProjectTypeOK
<1>8. ProjectTypeOK'
  <2>1. counters' = counters
    BY <1>2 DEF counters
  <2> QED BY <1>1, <1>2, <1>3, <1>6, <1>7, <2>1 DEF ProjectTypeOK, Wanted
<1>9. SeenInv' /\ LateInv'
  BY <1>1, <1>2, <1>3, <1>6, <1>7 DEF SeenInv, LateInv
<1>10. \A m : /\ Cardinality(Ours(m)') \in Nat /\ Cardinality(Ours(m)) \in Nat
              /\ Cardinality(Ours(m)') <= Cardinality(Ours(m)) + Late(m)
  <2>1. CASE evaluators' = Applied(w)
    BY <1>1, <1>4, <1>5, <2>1, AppliedCount
  <2>2. CASE evaluators' = evaluators
    <3>1. \A m : Ours(m)' = Ours(m)
      BY <2>2 DEF Ours
    <3>2. \A m : Cardinality(Ours(m)) \in Nat
      BY <1>1, OursFinite DEF ProjectTypeOK
    <3> QED BY <1>5, <3>1, <3>2
  <2> QED BY <1>2, <1>4, <2>1, <2>2
<1>11. RoomInv'
  <2>1. \A m : SeenOurs(m)' = SeenOurs(m)
    BY <1>3 DEF SeenOurs
  <2>2. ASSUME NEW m \in Names
        PROVE  /\ Cardinality(Ours(m)') + Late(m)' <= 1 + lost
               /\ hub.at = "write" /\ m \in hub.todo /\ SeenOurs(m) = {} => Cardinality(Ours(m)') + Late(m)' <= lost
    <3>1. PICK c, d, l : c = Cardinality(Ours(m)) /\ d = Cardinality(Ours(m)') /\ l = Late(m)
      OBVIOUS
    <3>2. c \in Nat /\ d \in Nat /\ d <= c + l /\ l \in {0, 1}
      BY <1>5, <1>10, <3>1
    <3>3. c + l <= 1 + lost /\ (hub.at = "write" /\ m \in hub.todo /\ SeenOurs(m) = {} => c + l <= lost)
      BY <1>1, <3>1 DEF RoomInv
    <3> QED BY <1>5, <3>1, <3>2, <3>3
  <2> QED BY <1>2, <1>3, <2>1, <2>2 DEF RoomInv
<1>12. CalmInv'
  BY <1>3 DEF CalmInv
<1> QED BY <1>3, <1>8, <1>9, <1>11, <1>12 DEF IInv

LEMMA PauseKeeps ==
  ASSUME IInv, Pauses
  PROVE  IInv'
<1>1. ProjectTypeOK /\ HubShape /\ SeenInv /\ LateInv /\ RoomInv
  BY DEF IInv
<1>2. PICK i \in DOMAIN evaluators, reason \in {"clearable", "other"} :
        /\ evaluators' = [evaluators EXCEPT ![i].paused = reason]
        /\ hub' = [hub EXCEPT !.calm = FALSE] /\ pauses' = pauses + 1
        /\ UNCHANGED <<catalog, connection, lateWrite, ready, restarts, lost>>
  BY DEF Pauses
<1>3. /\ hub'.at = hub.at /\ hub'.todo = hub.todo /\ hub'.ok = hub.ok /\ hub'.calm = FALSE
      /\ hub'.seen = hub.seen /\ HubShape'
  BY <1>1, <1>2 DEF HubShape
<1>4. PICK e, v : e = evaluators[i] /\ v = [evaluators[i] EXCEPT !.paused = reason]
  OBVIOUS
<1>5. evaluators \in Seq(Evaluator) /\ e \in Evaluator
  BY <1>1, <1>4 DEF ProjectTypeOK
<1>6. v \in Evaluator /\ v.name = e.name /\ v.ours = e.ours
  <2>1. v = [name |-> e.name, ours |-> e.ours, def |-> e.def, paused |-> reason, versions |-> e.versions]
    BY <1>4, <1>5 DEF Evaluator
  <2> QED BY <1>5, <2>1 DEF Evaluator
<1>7. evaluators' = [evaluators EXCEPT ![i] = v]
  BY <1>2, <1>4
<1>8. /\ evaluators' \in Seq(Evaluator) /\ Len(evaluators') = Len(evaluators) /\ DOMAIN evaluators' = DOMAIN evaluators
      /\ \A j \in DOMAIN evaluators : evaluators'[j] = IF j = i THEN v ELSE evaluators[j]
  BY <1>5, <1>6, <1>7
<1>9. \A j \in DOMAIN evaluators : evaluators'[j].name = evaluators[j].name /\ evaluators'[j].ours = evaluators[j].ours
  BY <1>4, <1>6, <1>8
<1>10. ProjectTypeOK'
  <2>1. counters' \in Nat \X Nat \X Nat
    BY <1>1, <1>2 DEF ProjectTypeOK, counters
  <2> QED BY <1>1, <1>2, <1>3, <1>8, <2>1 DEF ProjectTypeOK, Wanted
<1>11. SeenInv' /\ LateInv'
  <2>1. DOMAIN hub.seen \subseteq DOMAIN evaluators
    BY <1>1 DEF ProjectTypeOK
  <2> QED BY <1>1, <1>2, <1>3, <1>8, <1>9, <2>1 DEF SeenInv, LateInv
<1>12. RoomInv'
  <2>1. \A m : Ours(m)' = Ours(m)
    BY <1>8, <1>9 DEF Ours
  <2>2. \A m : Late(m)' = Late(m) /\ SeenOurs(m)' = SeenOurs(m)
    BY <1>2, <1>3 DEF Late, SeenOurs
  <2> QED BY <1>1, <1>2, <1>3, <2>1, <2>2 DEF RoomInv
<1>13. CalmInv'
  BY <1>3 DEF CalmInv
<1> QED BY <1>3, <1>10, <1>11, <1>12, <1>13 DEF IInv

-----------------------------------------------------------------------------
LEMMA InitHolds ==
  ASSUME ProjectInit
  PROVE  IInv
<1>1. /\ catalog \in Catalogs /\ evaluators \in {<<>>} \union {<<user>> : user \in UserEvaluators}
      /\ connection = None /\ lateWrite = None /\ hub = Resting /\ ready = FALSE
      /\ restarts = 0 /\ pauses = 0 /\ lost = 0
  BY DEF ProjectInit
<1>2. evaluators \in Seq(Evaluator) /\ \A i \in DOMAIN evaluators : ~evaluators[i].ours
  <2>1. CASE evaluators = <<>>
    BY <2>1
  <2>2. CASE \E user \in UserEvaluators : evaluators = <<user>>
    <3>1. PICK user \in UserEvaluators : evaluators = <<user>>
      BY <2>2
    <3>2. user \in Evaluator /\ ~user.ours
      BY UserEvaluatorsAssumption
    <3> QED BY <3>1, <3>2
  <2> QED BY <1>1, <2>1, <2>2
<1>3. HubShape /\ SeenInv /\ LateInv /\ CalmInv
  BY <1>1, RestingFields DEF HubShape, Resting, SeenInv, LateInv, CalmInv
<1>4. ProjectTypeOK
  <2>1. counters \in Nat \X Nat \X Nat
    BY <1>1 DEF counters
  <2>2. /\ hub.at = "idle" /\ DOMAIN hub.seen = {} /\ hub.todo = {} /\ hub.ok = TRUE /\ hub.calm = TRUE
    BY <1>1, RestingFields
  <2> QED BY <1>1, <1>2, <2>1, <2>2 DEF ProjectTypeOK
<1>5. RoomInv
  <2>1. \A n : Ours(n) = {} /\ Late(n) = 0
    BY <1>1, <1>2 DEF Ours, Late
  <2>2. Cardinality({}) = 0
    BY FS_EmptySet
  <2>3. hub.at = "idle" /\ lost = 0
    BY <1>1, RestingFields
  <2>4. \A n : Cardinality(Ours(n)) = 0
    BY <2>1, <2>2
  <2> QED BY <2>1, <2>3, <2>4 DEF RoomInv
<1> QED BY <1>3, <1>4, <1>5 DEF IInv

LEMMA StepKeeps ==
  ASSUME IInv, [ProjectNext]_projectVars
  PROVE  IInv'
<1>1. CASE Progress
  BY <1>1, PassEdgesKeep, ConnectionKeeps, PageKeeps, UnchangedKeeps, WrittenKeeps, FailedKeeps DEF Progress, WriteRefused
<1>2. CASE Failures
  BY <1>2, PassEdgesKeep, ConnectionKeeps, FailedKeeps DEF Failures, WriteFails
<1> QED BY <1>1, <1>2, LateKeeps, PauseKeeps, RestartKeeps, StutterKeeps DEF ProjectNext

\* What a finished listing tells the writes that follow it, in every behaviour.
THEOREM InvariantHolds == ProjectSpec => []IInv
<1>1. ProjectInit => IInv
  BY InitHolds
<1>2. IInv /\ [ProjectNext]_projectVars => IInv'
  BY StepKeeps
<1> QED BY <1>1, <1>2, PTL DEF ProjectSpec

\* No step of a pass, of Langfuse or of a replacement of the pod leaves the shapes of the state.
THEOREM TypeCorrect == ProjectSpec => []ProjectTypeOK
<1>1. IInv => ProjectTypeOK
  BY DEF IInv
<1> QED BY <1>1, InvariantHolds, PTL

\* project_loop.py makes a second evaluator of a name only for a create that was given up
\* and executed: one more for each, however many passes and pods there are.
THEOREM FewDuplicates == ProjectSpec => []DuplicatesComeFromLostWrites
<1>1. ASSUME IInv, NEW n \in Names
      PROVE  Cardinality(Ours(n)) <= 1 + lost
  <2>1. Cardinality(Ours(n)) + Late(n) <= 1 + lost /\ Late(n) \in {0, 1} /\ lost \in Nat
    BY <1>1 DEF IInv, RoomInv, Late, ProjectTypeOK, counters
  <2>2. Cardinality(Ours(n)) \in Nat
    BY <1>1, OursFinite DEF IInv, ProjectTypeOK
  <2> QED BY <2>1, <2>2
<1>2. IInv => DuplicatesComeFromLostWrites
  BY <1>1 DEF DuplicatesComeFromLostWrites
<1> QED BY <1>2, InvariantHolds, PTL

\* When a pass ends without an error and was not interfered with, readiness is right: the
\* connection and every evaluator of the catalogue are as the chart says.
THEOREM SuccessIsTrue == ProjectSpec => []SuccessMeansPublished
<1>1. ASSUME IInv, PassOver, hub.ok, hub.calm
      PROVE  Published
  <2>1. CalmInv /\ hub.at = "write" /\ hub.todo = {}
    BY <1>1 DEF IInv, PassOver
  <2> QED BY <1>1, <2>1 DEF CalmInv, Published
<1>2. IInv => SuccessMeansPublished
  BY <1>1 DEF SuccessMeansPublished
<1> QED BY <1>2, InvariantHolds, PTL

-----------------------------------------------------------------------------
(***************************************************************************)
(* Versions.  Every new definition of an evaluator is paid for by a cause  *)
(* that came before: a version is owed while the evaluator, or what was    *)
(* listed of it and is still to be acted on, is not what the chart says; a *)
(* change of the chart or a pause can make one owed, and a write executed  *)
(* late is a version and can make another one owed.                        *)
(***************************************************************************)

Pending == IF lateWrite # None THEN 1 ELSE 0

Causes == restarts + pauses + 2 * (lost - Pending)

\* What was listed of it still asks for a write.
Asks(i) ==
  /\ i \in DOMAIN hub.seen /\ Differs(hub.seen[i], catalog[evaluators[i].name])
  /\ hub.at = "list" \/ (hub.at = "write" /\ evaluators[i].name \in hub.todo)

Owed(i) == IF Differs(evaluators[i], catalog[evaluators[i].name]) \/ Asks(i) THEN 1 ELSE 0

VersionInv ==
  /\ lateWrite # None /\ lateWrite.id # 0 => evaluators[lateWrite.id].ours
  /\ \A i \in DOMAIN evaluators :
       IF evaluators[i].ours THEN evaluators[i].versions + Owed(i) <= 1 + Causes ELSE evaluators[i].versions <= 1

LEMMA Counted ==
  ASSUME IInv
  PROVE  /\ restarts \in Nat /\ pauses \in Nat /\ lost \in Nat /\ Pending \in {0, 1} /\ Pending <= lost
         /\ Causes \in Nat /\ evaluators \in Seq(Evaluator) /\ Len(evaluators) \in Nat
         /\ DOMAIN evaluators = 1..Len(evaluators)
         /\ \A i \in DOMAIN evaluators : evaluators[i].versions \in Nat /\ Owed(i) \in {0, 1}
<1>1. restarts \in Nat /\ pauses \in Nat /\ lost \in Nat /\ evaluators \in Seq(Evaluator)
  BY DEF IInv, ProjectTypeOK, counters
<1>2. Pending \in {0, 1} /\ Pending <= lost
  BY <1>1 DEF IInv, LateInv, Pending
<1>3. Causes \in Nat
  BY <1>1, <1>2 DEF Causes
<1>4. \A i \in DOMAIN evaluators : evaluators[i] \in Evaluator /\ evaluators[i].versions \in Nat
  <2>1. \A i \in DOMAIN evaluators : evaluators[i] \in Evaluator
    BY <1>1
  <2> QED BY <2>1 DEF Evaluator
<1>5. \A i : Owed(i) \in {0, 1}
  BY DEF Owed
<1> QED BY <1>1, <1>2, <1>3, <1>4, <1>5

LEMMA CausesNext ==
  ASSUME IInv'
  PROVE  Causes' \in Nat
<1>1. restarts' \in Nat /\ pauses' \in Nat /\ lost' \in Nat
  BY DEF IInv, ProjectTypeOK, counters
<1>2. PICK r, p, l, d : r = restarts' /\ p = pauses' /\ l = lost' /\ d = Pending'
  OBVIOUS
<1>3. r \in Nat /\ p \in Nat /\ l \in Nat
  BY <1>1, <1>2
<1>4. d \in {0, 1} /\ d <= l
  BY <1>2, <1>3 DEF IInv, LateInv, Pending
<1>5. r + p + 2 * (l - d) \in Nat
  BY <1>3, <1>4
<1> QED BY <1>2, <1>5 DEF Causes

\* A step that leaves the evaluators alone: nothing more is owed, or there is a cause for it.
LEMMA NothingWritten ==
  ASSUME IInv, IInv', VersionInv, evaluators' = evaluators,
         \/ Causes' >= Causes + 1
         \/ Causes' >= Causes /\ \A i \in DOMAIN evaluators : Owed(i)' <= Owed(i),
         lateWrite' = lateWrite \/ (lateWrite'.id # 0 => evaluators[lateWrite'.id].ours)
  PROVE  VersionInv'
<1>1. /\ Causes \in Nat /\ Causes' \in Nat
      /\ \A i \in DOMAIN evaluators : evaluators[i].versions \in Nat /\ Owed(i) \in {0, 1}
      /\ \A i \in DOMAIN evaluators : Owed(i)' \in {0, 1}
  <2>1. \A i : Owed(i)' \in {0, 1}
    BY DEF Owed
  <2>2. Causes' \in Nat
    BY CausesNext
  <2> QED BY <2>1, <2>2, Counted
<1>2. ASSUME NEW i \in DOMAIN evaluators, evaluators[i].ours
      PROVE  evaluators[i].versions + Owed(i)' <= 1 + Causes'
  <2>1. PICK v, o, p, c, d : /\ v = evaluators[i].versions /\ o = Owed(i) /\ p = Owed(i)'
                             /\ c = Causes /\ d = Causes'
    OBVIOUS
  <2>2. v \in Nat /\ o \in {0, 1} /\ p \in {0, 1} /\ c \in Nat /\ d \in Nat /\ v + o <= 1 + c
    BY <1>1, <1>2, <2>1 DEF VersionInv
  <2>3. d >= c + 1 \/ (d >= c /\ p <= o)
    BY <2>1
  <2> QED BY <2>1, <2>2, <2>3
<1> QED BY <1>2 DEF VersionInv

LEMMA EdgesPay ==
  ASSUME IInv, IInv', VersionInv, BeginPass \/ EndPass \/ Raises \/ ListingFails
  PROVE  VersionInv'
<1>1. /\ UNCHANGED <<catalog, evaluators, lateWrite, restarts, pauses, lost>>
      /\ DOMAIN hub'.seen = {}
  BY DEF BeginPass, EndPass, Raises, ListingFails, Resting, counters
<1>2. Causes' = Causes /\ Causes \in Nat
  BY <1>1, Counted DEF Causes, Pending
<1>3. \A i \in DOMAIN evaluators : Owed(i)' <= Owed(i)
  BY <1>1 DEF Owed, Asks, Differs
<1> QED BY <1>1, <1>2, <1>3, NothingWritten

LEMMA ConnectionPays ==
  ASSUME IInv, IInv', VersionInv, ConnectionRead \/ ConnectionUpserted \/ ConnectionFails
  PROVE  VersionInv'
<1>1. UNCHANGED <<catalog, evaluators, lateWrite, restarts, pauses, lost>>
  BY DEF ConnectionRead, ConnectionUpserted, ConnectionFails, counters
<1>2. DOMAIN hub.seen = {} /\ hub'.seen = hub.seen
  <2>1. hub.at \in {"connection", "upsert"} /\ HubShape
    BY DEF ConnectionRead, ConnectionUpserted, ConnectionFails, IInv
  <2>2. hub'.seen = hub.seen
    BY <2>1 DEF ConnectionRead, ConnectionUpserted, ConnectionFails, HubShape
  <2> QED BY <2>1, <2>2 DEF IInv, SeenInv
<1>3. Causes' = Causes /\ Causes \in Nat
  BY <1>1, Counted DEF Causes, Pending
<1>4. \A i \in DOMAIN evaluators : Owed(i)' <= Owed(i)
  BY <1>1, <1>2 DEF Owed, Asks, Differs
<1> QED BY <1>1, <1>3, <1>4, NothingWritten

\* What is listed afresh asks for a write only if the evaluator does.
LEMMA PagePays ==
  ASSUME IInv, IInv', VersionInv, PageRead
  PROVE  VersionInv'
<1>1. UNCHANGED <<catalog, evaluators, lateWrite, restarts, pauses, lost>> /\ hub.at = "list"
  BY DEF PageRead, counters
<1>2. PICK page \in SUBSET Unseen :
        hub'.seen = [i \in DOMAIN hub.seen \union page |-> IF i \in page THEN evaluators[i] ELSE hub.seen[i]]
  <2>1. HubShape
    BY DEF IInv
  <2> QED BY <2>1 DEF PageRead, HubShape
<1>3. Causes' = Causes /\ Causes \in Nat
  BY <1>1, Counted DEF Causes, Pending
<1>4. ASSUME NEW i \in DOMAIN evaluators
      PROVE  Owed(i)' <= Owed(i)
  <2>1. Asks(i)' => Asks(i) \/ Differs(evaluators[i], catalog[evaluators[i].name])
    <3>1. CASE i \in page
      BY <1>1, <1>2, <3>1 DEF Asks, Differs
    <3>2. CASE i \notin page
      BY <1>1, <1>2, <3>2 DEF Asks, Differs
    <3> QED BY <3>1, <3>2
  <2>2. Differs(evaluators[i], catalog[evaluators[i].name])' <=> Differs(evaluators[i], catalog[evaluators[i].name])
    BY <1>1 DEF Differs
  <2> QED BY <2>1, <2>2 DEF Owed
<1> QED BY <1>1, <1>3, <1>4, NothingWritten

LEMMA DroppedPays ==
  ASSUME IInv, IInv', VersionInv, NEW n \in Names, Unchanged(n) \/ ErrorAnswered(n) \/ WriteLost(n)
  PROVE  VersionInv'
<1>1. /\ UNCHANGED <<catalog, evaluators, restarts, pauses>>
      /\ \/ UNCHANGED <<lateWrite, lost>>
         \/ lateWrite = None /\ lateWrite' = WriteOf(n) /\ lost' = lost + 1
      /\ hub.at = "write" /\ n \in hub.todo
  BY DEF Unchanged, ErrorAnswered, WriteLost, Writing, counters
<1>2. hub'.seen = hub.seen /\ hub'.at = hub.at /\ hub'.todo = hub.todo \ {n}
  <2>1. HubShape
    BY DEF IInv
  <2> QED BY <2>1 DEF Unchanged, ErrorAnswered, WriteLost, HubShape
<1>3. Causes' >= Causes
  <2>1. restarts \in Nat /\ pauses \in Nat /\ lost \in Nat
    BY Counted
  <2> QED BY <1>1, <2>1 DEF Causes, Pending
<1>4. \A i \in DOMAIN evaluators : Owed(i)' <= Owed(i)
  BY <1>1, <1>2 DEF Owed, Asks, Differs
<1>5. lateWrite' = lateWrite \/ (lateWrite'.id # 0 => evaluators[lateWrite'.id].ours)
  <2>1. ProjectTypeOK /\ SeenInv /\ n \in Wanted(catalog)
    BY <1>1 DEF IInv, ProjectTypeOK
  <2>2. WriteOf(n).id # 0 => WriteOf(n).id \in SeenOurs(n)
    BY <2>1, WriteOfShape, MaintainedIsOldest
  <2> QED BY <1>1, <2>1, <2>2 DEF SeenInv, SeenOurs
<1> QED BY <1>1, <1>3, <1>4, <1>5, NothingWritten

LEMMA RestartPays ==
  ASSUME IInv, IInv', VersionInv, Restart
  PROVE  VersionInv'
<1>1. /\ UNCHANGED <<evaluators, pauses>> /\ restarts' = restarts + 1
      /\ \/ UNCHANGED <<lateWrite, lost>>
         \/ /\ lateWrite = None /\ lost' = lost + 1
            /\ \E n \in Names : lateWrite' = WriteOf(n) /\ Writing(n)
  BY DEF Restart
<1>2. Causes' >= Causes + 1
  <2>1. restarts \in Nat /\ pauses \in Nat /\ lost \in Nat
    BY Counted
  <2> QED BY <1>1, <2>1 DEF Causes, Pending
<1>3. lateWrite' = lateWrite \/ (lateWrite'.id # 0 => evaluators[lateWrite'.id].ours)
  <2>1. ASSUME NEW n \in Names, Writing(n), WriteOf(n).id # 0
        PROVE  evaluators[WriteOf(n).id].ours
    <3>1. ProjectTypeOK /\ SeenInv /\ n \in Wanted(catalog)
      BY <2>1 DEF IInv, ProjectTypeOK, Writing
    <3>2. WriteOf(n).id \in SeenOurs(n)
      BY <2>1, <3>1, WriteOfShape, MaintainedIsOldest
    <3> QED BY <3>1, <3>2 DEF SeenInv, SeenOurs
  <2> QED BY <1>1, <2>1
<1> QED BY <1>1, <1>2, <1>3, NothingWritten

LEMMA PausePays ==
  ASSUME IInv, IInv', VersionInv, Pauses
  PROVE  VersionInv'
<1>1. PICK i \in DOMAIN evaluators, reason \in {"clearable", "other"} :
        /\ evaluators' = [evaluators EXCEPT ![i].paused = reason]
        /\ pauses' = pauses + 1 /\ UNCHANGED <<lateWrite, restarts, lost>>
  BY DEF Pauses
<1>2. PICK e, v : e = evaluators[i] /\ v = [evaluators[i] EXCEPT !.paused = reason]
  OBVIOUS
<1>3. evaluators \in Seq(Evaluator) /\ e \in Evaluator
  BY <1>2 DEF IInv, ProjectTypeOK
<1>4. v.ours = e.ours /\ v.versions = e.versions
  <2>1. v = [name |-> e.name, ours |-> e.ours, def |-> e.def, paused |-> reason, versions |-> e.versions]
    BY <1>2, <1>3 DEF Evaluator
  <2> QED BY <2>1
<1>5. evaluators' = [evaluators EXCEPT ![i] = v]
  BY <1>1, <1>2
<1>6. DOMAIN evaluators' = DOMAIN evaluators /\
      \A j \in DOMAIN evaluators : evaluators'[j].ours = evaluators[j].ours /\ evaluators'[j].versions = evaluators[j].versions
  BY <1>2, <1>3, <1>4, <1>5
<1>7. Causes' = Causes + 1
  <2>1. restarts \in Nat /\ pauses \in Nat /\ lost \in Nat /\ Pending \in {0, 1} /\ Pending <= lost /\ Pending' = Pending
    BY <1>1, Counted DEF Pending
  <2>2. lost - Pending \in Nat /\ lost' = lost
    BY <1>1, <2>1
  <2> QED BY <1>1, <2>1, <2>2 DEF Causes
<1>8. lateWrite # None /\ lateWrite.id # 0 => lateWrite.id \in DOMAIN evaluators
  BY <1>3 DEF IInv, LateInv
<1>9. ASSUME NEW j \in DOMAIN evaluators, evaluators[j].ours
      PROVE  evaluators[j].versions + Owed(j)' <= 1 + Causes'
  <2>1. PICK n, o, p, c : n = evaluators[j].versions /\ o = Owed(j) /\ p = Owed(j)' /\ c = Causes
    OBVIOUS
  <2>2. n \in Nat /\ o \in {0, 1} /\ c \in Nat /\ n + o <= 1 + c
    BY <1>9, <2>1, Counted DEF VersionInv
  <2>3. p \in {0, 1}
    BY <2>1 DEF Owed
  <2> QED BY <1>7, <2>1, <2>2, <2>3
<1> QED BY <1>1, <1>6, <1>8, <1>9 DEF VersionInv

\* A write that a pass makes is one that was owed, and afterwards it no longer is.
LEMMA WrittenPays ==
  ASSUME IInv, IInv', VersionInv, NEW n \in Names, Written(n)
  PROVE  VersionInv'
<1>1. ProjectTypeOK /\ HubShape /\ SeenInv /\ LateInv
  BY DEF IInv
<1>2. /\ UNCHANGED <<catalog, lateWrite, restarts, pauses, lost>>
      /\ hub.at = "write" /\ n \in hub.todo /\ Needed(n) /\ hub' = [hub EXCEPT !.todo = @ \ {n}]
      /\ evaluators' = Applied(WriteOf(n))
  BY DEF Written, Writing, counters
<1>3. hub'.at = "write" /\ hub'.todo = hub.todo \ {n} /\ hub'.seen = hub.seen
  BY <1>1, <1>2 DEF HubShape
<1>4. n \in Wanted(catalog)
  BY <1>1, <1>2 DEF ProjectTypeOK
<1>5. PICK w \in Write :
        /\ w = WriteOf(n) /\ w.id \in 0..Len(evaluators) /\ w.name = n /\ w.def = catalog[n] /\ w.id = Maintained(n)
        /\ (w.id = 0 <=> SeenOurs(n) = {})
  BY <1>1, <1>4, WriteOfShape
<1>6. evaluators' = Applied(w) /\ Causes' = Causes
  BY <1>2, <1>5 DEF Causes, Pending
<1>7. /\ Causes \in Nat /\ evaluators \in Seq(Evaluator) /\ Len(evaluators) \in Nat
      /\ DOMAIN evaluators = 1..Len(evaluators)
      /\ \A i \in DOMAIN evaluators : evaluators[i].versions \in Nat /\ Owed(i) \in {0, 1}
  BY Counted
<1>8. lateWrite # None /\ lateWrite.id # 0 => lateWrite.id \in DOMAIN evaluators /\ evaluators[lateWrite.id].ours
  BY <1>1, <1>7 DEF LateInv, VersionInv
<1>9. ASSUME NEW i \in DOMAIN evaluators, evaluators'[i] = evaluators[i]
      PROVE  IF evaluators'[i].ours THEN evaluators'[i].versions + Owed(i)' <= 1 + Causes' ELSE evaluators'[i].versions <= 1
  <2>1. Owed(i)' <= Owed(i)
    BY <1>2, <1>3, <1>9 DEF Owed, Asks, Differs
  <2>2. PICK v, o, p, c : v = evaluators[i].versions /\ o = Owed(i) /\ p = Owed(i)' /\ c = Causes
    OBVIOUS
  <2>3. v \in Nat /\ o \in {0, 1} /\ c \in Nat /\ p <= o /\ p \in {0, 1}
    BY <1>7, <2>1, <2>2 DEF Owed
  <2>4. IF evaluators[i].ours THEN v + o <= 1 + c ELSE v <= 1
    BY <2>2 DEF VersionInv
  <2> QED BY <1>6, <1>9, <2>2, <2>3, <2>4
<1>10. CASE w.id = 0
  <2>1. /\ Len(evaluators') = Len(evaluators) + 1 /\ evaluators' \in Seq(Evaluator)
        /\ \A i \in 1..Len(evaluators) : evaluators'[i] = evaluators[i]
        /\ LET e == evaluators'[Len(evaluators) + 1] IN
           e.name = n /\ e.ours /\ e.def = catalog[n] /\ e.paused = "no" /\ e.versions = 1
    BY <1>5, <1>6, <1>7, <1>10, Created
  <2>2. DOMAIN evaluators' = 1..(Len(evaluators) + 1)
    BY <1>7, <2>1
  <2>3. PICK k : k = Len(evaluators) + 1
    OBVIOUS
  <2>4. Owed(k)' = 0
    <3>1. k \notin DOMAIN hub.seen
      BY <1>1, <1>7, <2>3 DEF ProjectTypeOK
    <3> QED BY <1>2, <1>3, <2>1, <2>3, <3>1 DEF Owed, Asks, Differs
  <2>5. evaluators'[k].ours /\ evaluators'[k].versions + Owed(k)' <= 1 + Causes'
    BY <1>6, <1>7, <2>1, <2>3, <2>4
  <2>6. \A i \in DOMAIN evaluators' : i \in DOMAIN evaluators \/ i = k
    BY <1>7, <2>2, <2>3
  <2> QED BY <1>2, <1>7, <1>8, <1>9, <2>1, <2>5, <2>6 DEF VersionInv
<1>11. CASE w.id # 0
  <2>1. w.id \in DOMAIN evaluators
    BY <1>5, <1>7, <1>11
  <2>2. /\ Len(evaluators') = Len(evaluators) /\ evaluators' \in Seq(Evaluator)
        /\ \A i \in DOMAIN evaluators : evaluators'[i].name = evaluators[i].name /\ evaluators'[i].ours = evaluators[i].ours
        /\ \A i \in DOMAIN evaluators : i # w.id => evaluators'[i] = evaluators[i]
        /\ evaluators'[w.id].def = catalog[n] /\ evaluators'[w.id].paused = "no"
        /\ evaluators'[w.id].versions = evaluators[w.id].versions + 1
    BY <1>5, <1>6, <1>7, <2>1, Updated
  <2>3. DOMAIN evaluators' = DOMAIN evaluators
    BY <1>7, <2>2
  <2>4. PICK k \in DOMAIN evaluators : k = w.id
    BY <2>1
  <2>5. k \in SeenOurs(n) /\ evaluators[k].name = n /\ evaluators[k].ours
    <3>1. k \in SeenOurs(n)
      BY <1>1, <1>5, <1>11, <2>4, MaintainedIsOldest
    <3> QED BY <1>1, <3>1 DEF SeenInv, SeenOurs
  <2>6. Owed(k) = 1
    <3>1. Differs(hub.seen[k], catalog[n])
      BY <1>2, <1>5, <1>11, <2>4 DEF Needed
    <3> QED BY <1>2, <2>5, <3>1 DEF Owed, Asks, SeenOurs
  <2>7. Owed(k)' = 0
    BY <1>2, <1>3, <2>2, <2>4, <2>5 DEF Owed, Asks, Differs
  <2>8. evaluators'[k].ours /\ evaluators'[k].versions + Owed(k)' <= 1 + Causes'
    <3>1. PICK v, c : v = evaluators[k].versions /\ c = Causes
      OBVIOUS
    <3>2. v \in Nat /\ c \in Nat /\ v + 1 <= 1 + c
      BY <1>7, <2>5, <2>6, <3>1 DEF VersionInv
    <3> QED BY <1>6, <2>2, <2>4, <2>5, <2>7, <3>1, <3>2
  <2> QED BY <1>2, <1>8, <1>9, <2>2, <2>3, <2>4, <2>8 DEF VersionInv
<1> QED BY <1>10, <1>11

\* A write executed late costs a version, and may leave another one owed.
LEMMA LatePays ==
  ASSUME IInv, IInv', VersionInv, LateWriteArrives
  PROVE  VersionInv'
<1>1. /\ lateWrite # None /\ lateWrite' = None /\ UNCHANGED <<restarts, pauses, lost>>
      /\ evaluators' = IF Accepted(lateWrite) THEN Applied(lateWrite) ELSE evaluators
  BY DEF LateWriteArrives, counters
<1>2. PICK w \in Write : w = lateWrite /\ w.id \in 0..Len(evaluators) /\ (w.id # 0 => evaluators[w.id].ours)
  BY <1>1 DEF IInv, ProjectTypeOK, LateInv, VersionInv
<1>3. /\ Causes \in Nat /\ evaluators \in Seq(Evaluator) /\ Len(evaluators) \in Nat
      /\ DOMAIN evaluators = 1..Len(evaluators)
      /\ \A i \in DOMAIN evaluators : evaluators[i].versions \in Nat /\ Owed(i) \in {0, 1}
  BY Counted
<1>4. Causes' = Causes + 2
  <2>1. restarts \in Nat /\ pauses \in Nat /\ lost \in Nat /\ Pending = 1 /\ Pending' = 0 /\ 1 <= lost
    BY <1>1, Counted DEF Pending
  <2> QED BY <1>1, <2>1 DEF Causes
<1>5. \A i : Owed(i)' \in {0, 1}
  BY DEF Owed
<1>6. ASSUME NEW i \in DOMAIN evaluators, evaluators'[i].ours = evaluators[i].ours,
             \/ evaluators'[i].versions = evaluators[i].versions
             \/ evaluators[i].ours /\ evaluators'[i].versions = evaluators[i].versions + 1
      PROVE  IF evaluators'[i].ours THEN evaluators'[i].versions + Owed(i)' <= 1 + Causes' ELSE evaluators'[i].versions <= 1
  <2>1. PICK v, u, o, p, c : /\ v = evaluators[i].versions /\ u = evaluators'[i].versions
                             /\ o = Owed(i) /\ p = Owed(i)' /\ c = Causes
    OBVIOUS
  <2>2. v \in Nat /\ o \in {0, 1} /\ c \in Nat /\ p \in {0, 1}
    BY <1>3, <1>5, <2>1
  <2>3. IF evaluators[i].ours THEN v + o <= 1 + c ELSE v <= 1
    BY <2>1 DEF VersionInv
  <2>4. u = v \/ (evaluators[i].ours /\ u = v + 1)
    BY <1>6, <2>1
  <2> QED BY <1>4, <1>6, <2>1, <2>2, <2>3, <2>4
<1>7. CASE evaluators' = evaluators
  BY <1>1, <1>6, <1>7 DEF VersionInv
<1>8. CASE evaluators' = Applied(w) /\ w.id = 0
  <2>1. /\ Len(evaluators') = Len(evaluators) + 1 /\ evaluators' \in Seq(Evaluator)
        /\ \A i \in 1..Len(evaluators) : evaluators'[i] = evaluators[i]
        /\ evaluators'[Len(evaluators) + 1].ours /\ evaluators'[Len(evaluators) + 1].versions = 1
    BY <1>3, <1>8, Created
  <2>2. DOMAIN evaluators' = 1..(Len(evaluators) + 1)
    BY <1>3, <2>1
  <2>3. PICK k : k = Len(evaluators) + 1
    OBVIOUS
  <2>4. evaluators'[k].ours /\ evaluators'[k].versions + Owed(k)' <= 1 + Causes'
    BY <1>3, <1>4, <1>5, <2>1, <2>3
  <2>5. \A i \in DOMAIN evaluators' : i \in DOMAIN evaluators \/ i = k
    BY <1>3, <2>2, <2>3
  <2> QED BY <1>1, <1>3, <1>6, <2>1, <2>4, <2>5 DEF VersionInv
<1>9. CASE evaluators' = Applied(w) /\ w.id # 0
  <2>1. w.id \in DOMAIN evaluators
    BY <1>2, <1>3, <1>9
  <2>2. /\ Len(evaluators') = Len(evaluators) /\ evaluators' \in Seq(Evaluator)
        /\ \A i \in DOMAIN evaluators : evaluators'[i].ours = evaluators[i].ours
        /\ \A i \in DOMAIN evaluators : i # w.id => evaluators'[i] = evaluators[i]
        /\ evaluators'[w.id].versions = evaluators[w.id].versions + 1
    BY <1>3, <1>9, <2>1, Updated
  <2>3. DOMAIN evaluators' = DOMAIN evaluators
    BY <1>3, <2>2
  <2> QED BY <1>1, <1>2, <1>6, <1>9, <2>2, <2>3 DEF VersionInv
<1> QED BY <1>1, <1>2, <1>7, <1>8, <1>9

LEMMA StepPays ==
  ASSUME IInv, IInv', VersionInv, [ProjectNext]_projectVars
  PROVE  VersionInv'
<1>1. CASE Progress
  BY <1>1, EdgesPay, ConnectionPays, PagePays, DroppedPays, WrittenPays DEF Progress, WriteRefused
<1>2. CASE Failures
  BY <1>2, EdgesPay, ConnectionPays, DroppedPays DEF Failures, WriteFails
<1>3. CASE UNCHANGED projectVars
  <2>1. UNCHANGED <<catalog, evaluators, lateWrite, hub, restarts, pauses, lost>>
    BY <1>3 DEF projectVars
  <2>2. Causes' = Causes /\ Causes \in Nat
    BY <2>1, Counted DEF Causes, Pending
  <2>3. \A i \in DOMAIN evaluators : Owed(i)' <= Owed(i)
    BY <2>1 DEF Owed, Asks, Differs
  <2> QED BY <2>1, <2>2, <2>3, NothingWritten
<1> QED BY <1>1, <1>2, <1>3, LatePays, PausePays, RestartPays DEF ProjectNext

\* project_loop.py writes only on change: a definition is never replaced without a change
\* of the chart, a pause or a write executed late that calls for it, however many passes
\* there are, and an evaluator of a user never is.
THEOREM WritesHaveCauses == ProjectSpec => []VersionsHaveCauses
<1>1. ProjectInit => VersionInv
  <2> SUFFICES ASSUME ProjectInit PROVE VersionInv
    OBVIOUS
  <2>1. lateWrite = None /\ evaluators \in {<<>>} \union {<<user>> : user \in UserEvaluators}
    BY DEF ProjectInit
  <2>2. \A i \in DOMAIN evaluators : ~evaluators[i].ours /\ evaluators[i].versions = 1
    <3>1. CASE evaluators = <<>>
      BY <3>1
    <3>2. CASE \E user \in UserEvaluators : evaluators = <<user>>
      BY <3>2, UserEvaluatorsAssumption
    <3> QED BY <2>1, <3>1, <3>2
  <2> QED BY <2>1, <2>2 DEF VersionInv
<1>2. IInv /\ IInv' /\ VersionInv /\ [ProjectNext]_projectVars => VersionInv'
  BY StepPays
<1>3. ASSUME IInv, VersionInv, NEW i \in DOMAIN evaluators
      PROVE  evaluators[i].versions <= IF evaluators[i].ours THEN 1 + restarts + pauses + 2 * lost ELSE 1
  <2>1. PICK v, o, r, p, l, d : /\ v = evaluators[i].versions /\ o = Owed(i) /\ r = restarts /\ p = pauses
                                /\ l = lost /\ d = Pending
    OBVIOUS
  <2>2. v \in Nat /\ o \in {0, 1} /\ r \in Nat /\ p \in Nat /\ l \in Nat /\ d \in {0, 1} /\ d <= l
    BY <1>3, <2>1, Counted
  <2>3. IF evaluators[i].ours THEN v + o <= 1 + (r + p + 2 * (l - d)) ELSE v <= 1
    BY <1>3, <2>1 DEF VersionInv, Causes
  <2> QED BY <2>1, <2>2, <2>3
<1>4. IInv /\ VersionInv => VersionsHaveCauses
  BY <1>3 DEF VersionsHaveCauses
<1> QED BY <1>1, <1>2, <1>4, InvariantHolds, PTL DEF ProjectSpec
=============================================================================
