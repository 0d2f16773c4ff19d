------------------------ MODULE EvaluationRulesProofs ------------------------
(***************************************************************************)
(* TLAPS proofs about EvaluationRules.  Sound(c) is what a cluster relies  *)
(* on; the others keep it because they write no rule of c (RelyKeepsSound) *)
(* and c keeps it itself, action by action.  IInv follows, and from it the *)
(* safety properties.                                                      *)
(***************************************************************************)
EXTENDS EvaluationRules, FiniteSetTheorems, TLAPS

USE GroupsAssumption, EvaluatorOfAssumption, WishesAssumption, IdsAssumption,
    MaxActiveRulesAssumption, NoneAssumption

-----------------------------------------------------------------------------
(***************************************************************************)
(* What a request does.                                                    *)
(***************************************************************************)

\* A request of c that names a rule by its id names a rule of c.
OwnRequest(c, r) ==
  /\ r \in Request
  /\ r.id \in Existing => rules[r.id].owner = c /\ rules[r.id].group = r.group

\* What the request may do to the rule i.
Effect(c, r, i) ==
  \/ rules'[i] = rules[i]
  \/ /\ rules[i] = None /\ ~Remembered(i)
     /\ r.op = "create"
     /\ rules'[i] = [owner |-> c, group |-> r.group, tags |-> r.tags]
  \/ /\ rules[i] # None /\ rules[i].owner = c /\ rules[i].group = r.group
     /\ i = r.id
     /\ \/ r.op = "update" /\ rules'[i] = [owner |-> c, group |-> r.group, tags |-> r.tags]
        \/ r.op = "delete" /\ rules'[i] = None

\* A rule is its three fields.
LEMMA RuleFields ==
  ASSUME NEW u \in Rule
  PROVE  /\ u.owner \in Clusters /\ u.group \in Groups /\ u.tags \in SUBSET Agents
         /\ u = [owner |-> u.owner, group |-> u.group, tags |-> u.tags]
BY DEF Rule

\* A request has three fields of their types, and an id unless it creates.
LEMMA RequestFields ==
  ASSUME NEW r \in Request
  PROVE  /\ r.group \in Groups /\ r.tags \in SUBSET Agents
         /\ r.op = "create" => r.id = None
         /\ r.op # "create" => r.op \in {"update", "delete"} /\ r.id \in Ids
BY DEF Request

\* A request of c that is executed touches one rule of c, or makes one.
LEMMA ExecutesEffect ==
  ASSUME TypeOK, WithinCap, NEW c \in Clusters, NEW r, OwnRequest(c, r), Executes(c, r)
  PROVE  /\ rules' \in [Ids -> Rule \union {None}]
         /\ WithinCap'
         /\ \A i \in Ids : Effect(c, r, i)
         /\ r.op = "create" =>
              \E i \in Ids : rules'[i] = [owner |-> c, group |-> r.group, tags |-> r.tags]
         /\ r.op = "update" => rules'[r.id] = [owner |-> c, group |-> r.group, tags |-> r.tags]
         /\ r.op = "delete" => rules'[r.id] = None
<1>. DEFINE new == [owner |-> c, group |-> r.group, tags |-> r.tags]
<1>1. /\ r.group \in Groups /\ r.tags \in SUBSET Agents
      /\ r.op = "create" => r.id = None
      /\ r.op # "create" => r.op \in {"update", "delete"} /\ r.id \in Ids
  BY RequestFields DEF OwnRequest
<1>2. new \in Rule /\ new # None
  BY <1>1 DEF Rule
<1>3. rules \in [Ids -> Rule \union {None}] /\ IsFiniteSet(Existing) /\ Cardinality(Existing) \in Nat
  <2>1. Existing \in SUBSET Ids
    BY DEF Existing
  <2>. QED
    BY <2>1, FS_Subset, FS_CardinalityType DEF TypeOK
<1>4. CASE r.op = "create"
  <2>1. NextId \in Fresh
    BY <1>4 DEF Executes, NextId
  <2>2. /\ NextId \in Ids /\ rules[NextId] = None /\ ~Remembered(NextId)
        /\ NextId \notin Existing
    BY <2>1 DEF Fresh, Existing
  <2>3. /\ rules' = [rules EXCEPT ![NextId] = new]
        /\ Cardinality(Existing) < MaxActiveRules
    BY <1>4 DEF Executes
  <2>. HIDE DEF new
  <2>4. Existing' = Existing \union {NextId}
    BY <1>2, <1>3, <2>2, <2>3 DEF Existing
  <2>5. Cardinality(Existing') = Cardinality(Existing) + 1
    BY <1>3, <2>2, <2>4, FS_AddElement
  <2>6. WithinCap'
    BY <1>3, <2>3, <2>5 DEF WithinCap
  <2>7. rules' \in [Ids -> Rule \union {None}] /\ rules'[NextId] = new
    BY <1>2, <1>3, <2>2, <2>3
  <2>8. \A i \in Ids : i # NextId => rules'[i] = rules[i]
    BY <1>3, <2>3
  <2>. QED
    BY <1>4, <2>2, <2>6, <2>7, <2>8 DEF Effect, new
<1>5. CASE r.op = "update"
  <2>1. /\ r.id \in Ids /\ rules[r.id] # None
        /\ rules' = [rules EXCEPT ![r.id].tags = r.tags]
    BY <1>5 DEF Executes, Existing
  <2>2. rules[r.id] \in Rule /\ rules[r.id].owner = c /\ rules[r.id].group = r.group
    BY <1>3, <2>1 DEF OwnRequest, Existing
  <2>3. [rules[r.id] EXCEPT !.tags = r.tags] = new
    BY <2>2 DEF Rule
  <2>4. rules' = [rules EXCEPT ![r.id] = new]
    BY <1>3, <2>1, <2>3
  <2>. HIDE DEF new
  <2>5. rules' \in [Ids -> Rule \union {None}] /\ rules'[r.id] = new
    BY <1>2, <1>3, <2>1, <2>4
  <2>6. \A i \in Ids : i # r.id => rules'[i] = rules[i]
    BY <1>3, <2>4
  <2>7. Existing' = Existing
    BY <1>2, <2>1, <2>5, <2>6 DEF Existing
  <2>. QED
    BY <1>5, <2>1, <2>2, <2>5, <2>6, <2>7 DEF Effect, WithinCap, new
<1>6. CASE r.op = "delete"
  <2>1. /\ r.id \in Ids /\ rules[r.id] # None
        /\ rules' = [rules EXCEPT ![r.id] = None]
    BY <1>6 DEF Executes, Existing
  <2>2. rules[r.id].owner = c /\ rules[r.id].group = r.group
    BY <2>1 DEF OwnRequest, Existing
  <2>3. rules' \in [Ids -> Rule \union {None}] /\ rules'[r.id] = None
    BY <1>3, <2>1
  <2>4. \A i \in Ids : i # r.id => rules'[i] = rules[i]
    BY <1>3, <2>1
  <2>5. Existing' \in SUBSET Existing
    BY <2>3, <2>4 DEF Existing
  <2>6. Cardinality(Existing') <= Cardinality(Existing) /\ Cardinality(Existing') \in Nat
    BY <1>3, <2>5, FS_Subset, FS_CardinalityType
  <2>. QED
    BY <1>3, <1>6, <2>1, <2>2, <2>3, <2>4, <2>6 DEF Effect, WithinCap
<1>. QED
  BY <1>1, <1>4, <1>5, <1>6

-----------------------------------------------------------------------------
(***************************************************************************)
(* What the steps of others leave alone.                                   *)
(***************************************************************************)

\* The step does to rule i at most what a cluster other than d may do.
Foreign(d, i) ==
  \/ rules'[i] = rules[i]
  \/ rules[i] = None /\ ~Remembered(i) /\ (rules'[i] # None => rules'[i].owner # d)
  \/ rules[i] # None /\ rules[i].owner # d /\ (rules'[i] # None => rules'[i].owner # d)

\* The step does not touch what run_once of d works on.
SameLocals(d) ==
  /\ late'[d] = late[d]
  /\ at'[d] = at[d]
  /\ asked'[d] = asked[d]
  /\ plan'[d] = plan[d]
  /\ listed'[d] = listed[d]
  /\ todo'[d] = todo[d]
  /\ ok'[d] = ok[d]
  /\ calm'[d] = calm[d]

\* A cluster stays sound under whatever others do to rules that are not its own.
LEMMA RelyKeepsSound ==
  ASSUME TypeOK, TypeOK', NEW d \in Clusters, Sound(d), SameLocals(d),
         published \subseteq published', \A i \in Ids : Foreign(d, i)
  PROVE  Sound(d)'
<1>. USE DEF SameLocals
<1>1. KnowsOnlyOwn(d)'
  <2>1. ASSUME NEW g \in Groups, listed[d][g] # None, listed[d][g].id \in Existing'
        PROVE  rules'[listed[d][g].id].owner = d /\ rules'[listed[d][g].id].group = g
    <3>. DEFINE i == listed[d][g].id
    <3>1. i \in Ids /\ Remembered(i) /\ rules'[i] # None
      BY <2>1 DEF Existing, Remembered
    <3>2. rules[i] # None => rules[i].owner = d /\ rules[i].group = g
      BY <2>1, <3>1 DEF Sound, KnowsOnlyOwn, Existing
    <3>. QED
      BY <3>1, <3>2 DEF Foreign
  <2>2. ASSUME late[d] # None, late[d].id \in Existing'
        PROVE  rules'[late[d].id].owner = d /\ rules'[late[d].id].group = late[d].group
    <3>. DEFINE i == late[d].id
    <3>1. i \in Ids /\ Remembered(i) /\ rules'[i] # None
      BY <2>2 DEF Existing, Remembered
    <3>2. rules[i] # None => rules[i].owner = d /\ rules[i].group = late[d].group
      BY <2>2, <3>1 DEF Sound, KnowsOnlyOwn, Existing
    <3>. QED
      BY <3>1, <3>2 DEF Foreign
  <2>. QED
    BY <2>1, <2>2 DEF KnowsOnlyOwn
<1>2. PlansPublished(d)'
  BY DEF Sound, PlansPublished, Desired
<1>3. UnplannedAreNew(d)'
  <2>1. \A i \in Ids : rules'[i] # None /\ rules'[i].owner = d => rules'[i] = rules[i]
    BY DEF Foreign
  <2>. QED
    BY <2>1 DEF Sound, UnplannedAreNew, Desired, Existing
<1>4. TodoWired(d)'
  BY DEF Sound, TodoWired, Desired
<1>5. \A i \in Ids : rules[i] \in Rule /\ rules[i].owner = d => rules'[i] = rules[i]
  BY DEF Foreign
<1>6. SnapshotHolds(d)'
  <2>1. ASSUME Undisturbed(d), NEW g \in todo[d], listed[d][g] # None
        PROVE  rules'[listed[d][g].id] = [owner |-> d, group |-> g, tags |-> listed[d][g].tags]
    <3>. DEFINE i == listed[d][g].id
    <3>1. i \in Ids /\ rules[i] = [owner |-> d, group |-> g, tags |-> listed[d][g].tags]
      BY <2>1 DEF Sound, TodoWired, SnapshotHolds
    <3>2. g \in Groups /\ listed[d][g].tags \in SUBSET Agents
      BY <2>1 DEF TypeOK, Listing
    <3>3. rules[i] \in Rule /\ rules[i].owner = d
      BY <3>1, <3>2 DEF Rule
    <3>. QED
      BY <1>5, <3>1, <3>3
  <2>. QED
    BY <2>1 DEF Sound, SnapshotHolds, Undisturbed
<1>7. MeansItsDeletions(d)'
  BY DEF Sound, MeansItsDeletions, Desired
<1>8. AppliesItsPlan(d)'
  <2>1. ASSUME NEW g \in Groups, Applied(d, g)
        PROVE  Applied(d, g)'
    <3>1. CASE g \in Desired(d)
      <4>1. PICK i \in Existing : rules[i] = [owner |-> d, group |-> g, tags |-> plan[d][g]]
        BY <2>1, <3>1 DEF Applied
      <4>2. i \in Ids /\ rules[i] \in Rule /\ rules[i].owner = d
        BY <4>1 DEF TypeOK, Existing
      <4>3. rules'[i] = rules[i] /\ i \in Existing'
        BY <1>5, <4>2 DEF Existing
      <4>. QED
        BY <3>1, <4>1, <4>3 DEF Applied, Desired
    <3>2. CASE g \notin Desired(d) /\ listed[d][g] = None
      BY <3>2 DEF Applied, Desired
    <3>3. CASE g \notin Desired(d) /\ listed[d][g] # None
      <4>1. listed[d][g].id \notin Existing
        BY <2>1, <3>3 DEF Applied
      <4>2. listed[d][g].id \in Ids => rules'[listed[d][g].id] = None
        BY <3>3, <4>1 DEF Foreign, Existing, Remembered
      <4>. QED
        BY <3>3, <4>2 DEF Applied, Desired, Existing
    <3>. QED
      BY <3>1, <3>2, <3>3
  <2>. QED
    BY <2>1 DEF Sound, AppliesItsPlan, Undisturbed
<1>. QED
  BY <1>1, <1>2, <1>3, <1>4, <1>6, <1>7, <1>8 DEF Sound

\* The other clusters stay sound when c executes nothing but a request of its own.
LEMMA OthersStaySound ==
  ASSUME IInv, TypeOK', NEW c \in Clusters, published \subseteq published',
         \A d \in Clusters \ {c} : SameLocals(d),
         UNCHANGED rules \/ \E r \in Request : \A i \in Ids : Effect(c, r, i)
  PROVE  \A d \in Clusters \ {c} : Sound(d)'
<1>. SUFFICES ASSUME NEW d \in Clusters \ {c}
              PROVE  Sound(d)'
  OBVIOUS
<1>1. ASSUME NEW i \in Ids, NEW r \in Request, Effect(c, r, i)
      PROVE  Foreign(d, i)
  <2>1. [owner |-> c, group |-> r.group, tags |-> r.tags].owner # d
    OBVIOUS
  <2>. QED
    BY <1>1, <2>1 DEF Effect, Foreign
<1>2. \A i \in Ids : rules'[i] = rules[i] => Foreign(d, i)
  BY DEF Foreign
<1>3. \A i \in Ids : Foreign(d, i)
  BY <1>1, <1>2
<1>4. TypeOK /\ Sound(d) /\ SameLocals(d)
  BY DEF IInv
<1>. QED
  BY <1>3, <1>4, RelyKeepsSound

\* Rules are only made for evaluators that have been published.
LEMMA EvaluatorsKept ==
  ASSUME TypeOK, RulesHaveEvaluators, NEW c \in Clusters, NEW r \in Request,
         published \subseteq published', \A i \in Ids : Effect(c, r, i),
         r.op = "create" => EvaluatorOf[r.group] \in published
  PROVE  RulesHaveEvaluators'
<1>. SUFFICES ASSUME NEW i \in Ids, rules'[i] # None
              PROVE  EvaluatorOf[rules'[i].group] \in published'
  BY DEF RulesHaveEvaluators, Existing
<1>. QED
  BY DEF RulesHaveEvaluators, Existing, Effect

-----------------------------------------------------------------------------
(***************************************************************************)
(* One step of a pass.                                                     *)
(***************************************************************************)

\* The request is the one that the turn of g calls for.
Fitting(c, g, r) ==
  /\ r.group = g
  /\ r.op # "delete" => g \in Desired(c) /\ r.tags = plan[c][g]
  /\ r.op = "update" => listed[c][g] # None
  /\ r.op = "delete" => g \notin Desired(c) /\ listed[c][g] # None /\ r.id = listed[c][g].id

\* The requests a pass sends are of its own, and fit.
LEMMA PassRequests ==
  ASSUME IInv, NEW c \in Clusters, NEW g, Turn(c, g)
  PROVE  /\ g \in Groups
         /\ g \in Desired(c) => /\ OwnRequest(c, CreateRequest(c, g))
                                /\ Fitting(c, g, CreateRequest(c, g))
                                /\ EvaluatorOf[g] \in published
         /\ g \in Desired(c) /\ listed[c][g] # None =>
              OwnRequest(c, UpdateRequest(c, g)) /\ Fitting(c, g, UpdateRequest(c, g))
         /\ g \notin Desired(c) =>
              OwnRequest(c, DeleteRequest(c, g)) /\ Fitting(c, g, DeleteRequest(c, g))
<1>1. TypeOK /\ Sound(c)
  BY DEF IInv
<1>2. g \in Groups /\ g \in todo[c] /\ plan[c][g] \in SUBSET Agents
  BY <1>1 DEF Turn, TypeOK
<1>3. g \in Desired(c) => EvaluatorOf[g] \in published
  BY <1>1 DEF Sound, PlansPublished
<1>4. /\ listed[c][g] # None => listed[c][g].id \in Ids
      /\ g \notin Desired(c) => listed[c][g] # None
  BY <1>1, <1>2 DEF Sound, TodoWired
<1>5. listed[c][g] # None /\ listed[c][g].id \in Existing =>
        rules[listed[c][g].id].owner = c /\ rules[listed[c][g].id].group = g
  BY <1>1, <1>2 DEF Sound, KnowsOnlyOwn
<1>6. None \notin Existing
  BY DEF Existing
<1>7. OwnRequest(c, CreateRequest(c, g))
  BY <1>2, <1>6 DEF OwnRequest, CreateRequest, Request
<1>8. ASSUME g \in Desired(c), listed[c][g] # None
      PROVE  OwnRequest(c, UpdateRequest(c, g))
  BY <1>2, <1>4, <1>5, <1>8 DEF OwnRequest, UpdateRequest, Request
<1>9. ASSUME g \notin Desired(c)
      PROVE  OwnRequest(c, DeleteRequest(c, g))
  BY <1>2, <1>4, <1>5, <1>9 DEF OwnRequest, DeleteRequest, Request
<1>10. /\ g \in Desired(c) => Fitting(c, g, CreateRequest(c, g))
       /\ g \in Desired(c) /\ listed[c][g] # None => Fitting(c, g, UpdateRequest(c, g))
       /\ g \notin Desired(c) => Fitting(c, g, DeleteRequest(c, g))
  BY <1>2, <1>4 DEF Fitting, CreateRequest, UpdateRequest, DeleteRequest
<1>. QED
  BY <1>2, <1>3, <1>7, <1>8, <1>9, <1>10

\* A pass that moves on to its next group, keeping the rest of its locals, needs
\* only show that the group is dealt with, or that it has failed.
LEMMA DoneKeepsSound ==
  ASSUME IInv, TypeOK', NEW c \in Clusters, NEW g \in Groups, Turn(c, g), Done(c, g),
         \A h \in Groups \ {g} : listed'[c][h] = listed[c][h],
         listed'[c][g] = listed[c][g] \/ (g \in Desired(c) /\ listed'[c][g].id = None),
         NEW r \in Request, OwnRequest(c, r), r.group = g,
         r.op = "create" => EvaluatorOf[g] \in published,
         late'[c] = late[c] \/ late'[c] = r,
         UNCHANGED rules \/ \A i \in Ids : Effect(c, r, i),
         ok'[c] /\ calm[c] => ok[c] /\ UNCHANGED late /\ Applied(c, g)'
  PROVE  Sound(c)'
<1>1. TypeOK /\ Sound(c)
  BY DEF IInv
<1>2. /\ at'[c] = "applying" /\ at[c] = "applying" /\ calm'[c] = calm[c]
      /\ plan'[c] = plan[c] /\ asked'[c] = asked[c] /\ published' = published
      /\ todo'[c] = todo[c] \ {g} /\ g \in todo[c]
  BY <1>1 DEF Turn, Done, inputs, reads, TypeOK
<1>3. Desired(c)' = Desired(c)
  BY <1>2 DEF Desired
<1>4. \A i \in Ids : Effect(c, r, i)
  BY DEF Effect
<1>5. KnowsOnlyOwn(c)'
  <2>1. ASSUME NEW h \in Groups, listed'[c][h] # None, listed'[c][h].id \in Existing'
        PROVE  rules'[listed'[c][h].id].owner = c /\ rules'[listed'[c][h].id].group = h
    <3>1. listed'[c][h] = listed[c][h]
      BY <2>1 DEF Existing
    <3>. DEFINE i == listed[c][h].id
    <3>2. i \in Ids /\ Remembered(i) /\ rules'[i] # None
      BY <2>1, <3>1 DEF Existing, Remembered
    <3>3. rules[i] # None => rules[i].owner = c /\ rules[i].group = h
      BY <1>1, <2>1, <3>1, <3>2 DEF Sound, KnowsOnlyOwn, Existing
    <3>. QED
      BY <1>4, <3>1, <3>2, <3>3 DEF Effect
  <2>2. ASSUME late'[c] # None, late'[c].id \in Existing'
        PROVE  rules'[late'[c].id].owner = c /\ rules'[late'[c].id].group = late'[c].group
    <3>. DEFINE i == late'[c].id
    <3>1. i \in Ids /\ rules'[i] # None
      BY <2>2 DEF Existing
    <3>2. CASE late'[c] = late[c]
      <4>1. Remembered(i)
        BY <2>2, <3>2 DEF Remembered
      <4>2. rules[i] # None => rules[i].owner = c /\ rules[i].group = late[c].group
        BY <1>1, <2>2, <3>1, <3>2 DEF Sound, KnowsOnlyOwn, Existing
      <4>. QED
        BY <1>4, <3>1, <3>2, <4>1, <4>2 DEF Effect
    <3>3. CASE late'[c] = r
      <4>1. rules[i] # None => rules[i].owner = c /\ rules[i].group = r.group
        BY <3>1, <3>3 DEF OwnRequest, Existing
      <4>2. r.op # "create"
        BY <3>1, <3>3, RequestFields
      <4>. QED
        BY <1>4, <3>1, <3>3, <4>1, <4>2 DEF Effect
    <3>. QED
      BY <3>2, <3>3
  <2>. QED
    BY <2>1, <2>2 DEF KnowsOnlyOwn
<1>6. PlansPublished(c)'
  BY <1>1, <1>2, <1>3 DEF Sound, PlansPublished
<1>7. UnplannedAreNew(c)'
  BY <1>2 DEF UnplannedAreNew
<1>8. TodoWired(c)'
  <2>1. \A h \in todo'[c] : h \in Groups \ {g}
    BY <1>1, <1>2 DEF TypeOK
  <2>. QED
    BY <1>1, <1>2, <1>3, <2>1 DEF Sound, TodoWired
<1>9. \A i \in Ids, h \in Groups \ {g} :
        rules[i] # None /\ rules[i].group = h => rules'[i] = rules[i]
  BY <1>4 DEF Effect
<1>10. ASSUME Undisturbed(c)'
       PROVE  /\ Undisturbed(c) /\ late[c] = None /\ late'[c] = None
              /\ Applied(c, g)'
  BY <1>1, <1>2, <1>10 DEF Undisturbed, Sound, SnapshotHolds
<1>11. SnapshotHolds(c)'
  <2>. SUFFICES ASSUME Undisturbed(c)'
                PROVE  SnapshotHolds(c)'
    BY DEF SnapshotHolds
  <2>1. Undisturbed(c) /\ late'[c] = None
    BY <1>10
  <2>2. ASSUME NEW h \in todo'[c], listed'[c][h] # None
        PROVE  rules'[listed'[c][h].id] = [owner |-> c, group |-> h, tags |-> listed'[c][h].tags]
    <3>1. h \in Groups \ {g} /\ h \in todo[c] /\ listed'[c][h] = listed[c][h]
      BY <1>1, <1>2 DEF TypeOK
    <3>. DEFINE i == listed[c][h].id
    <3>2. i \in Ids /\ rules[i] = [owner |-> c, group |-> h, tags |-> listed[c][h].tags]
      BY <1>1, <2>1, <2>2, <3>1 DEF Sound, SnapshotHolds, TodoWired
    <3>3. listed[c][h].tags \in SUBSET Agents
      BY <1>1, <2>2, <3>1 DEF TypeOK, Listing
    <3>4. rules[i] \in Rule /\ rules[i].group = h
      BY <3>1, <3>2, <3>3 DEF Rule
    <3>. QED
      BY <1>9, <3>1, <3>2, <3>4
  <2>. QED
    BY <2>1, <2>2 DEF SnapshotHolds
<1>12. MeansItsDeletions(c)'
  BY <1>1, <1>2, <1>3 DEF Sound, MeansItsDeletions
<1>13. AppliesItsPlan(c)'
  <2>. SUFFICES ASSUME Undisturbed(c)', NEW h \in Groups \ todo'[c]
                PROVE  Applied(c, h)'
    BY DEF AppliesItsPlan
  <2>1. CASE h = g
    BY <1>10, <2>1
  <2>2. CASE h # g
    <3>1. Applied(c, h) /\ listed'[c][h] = listed[c][h]
      BY <1>1, <1>2, <1>10, <2>2 DEF Sound, AppliesItsPlan
    <3>2. CASE h \in Desired(c)
      <4>1. PICK i \in Existing : rules[i] = [owner |-> c, group |-> h, tags |-> plan[c][h]]
        BY <3>1, <3>2 DEF Applied
      <4>2. i \in Ids /\ rules[i] # None /\ rules[i].group = h /\ h \in Groups \ {g}
        BY <2>2, <4>1, <1>2 DEF Existing
      <4>3. rules'[i] = rules[i] /\ i \in Existing'
        BY <1>9, <4>2 DEF Existing
      <4>. QED
        BY <1>2, <1>3, <3>2, <4>1, <4>3 DEF Applied
    <3>3. CASE h \notin Desired(c) /\ listed[c][h] # None
      <4>1. listed[c][h].id \notin Existing
        BY <3>1, <3>3 DEF Applied
      <4>2. listed[c][h].id \in Ids => rules'[listed[c][h].id] = None
        BY <1>4, <3>3, <4>1 DEF Effect, Existing, Remembered
      <4>. QED
        BY <1>3, <3>1, <3>3, <4>2 DEF Applied, Existing
    <3>4. CASE h \notin Desired(c) /\ listed[c][h] = None
      BY <1>3, <3>1, <3>4 DEF Applied
    <3>. QED
      BY <3>2, <3>3, <3>4
  <2>. QED
    BY <2>1, <2>2
<1>. QED
  BY <1>5, <1>6, <1>7, <1>8, <1>11, <1>12, <1>13 DEF Sound

\* What is left of a request once it has been answered or given up.
LEMMA SentEffect ==
  ASSUME IInv, NEW c \in Clusters, NEW r, OwnRequest(c, r), Answered(c, r) \/ Failed(c, r)
  PROVE  /\ rules' \in [Ids -> Rule \union {None}]
         /\ late' \in [Clusters -> Request \union {None}]
         /\ ok' \in [Clusters -> BOOLEAN]
         /\ faults' \in Nat
         /\ WithinCap'
         /\ \A i \in Ids : Effect(c, r, i)
         /\ late'[c] = late[c] \/ late'[c] = r
         /\ \A d \in Clusters \ {c} : late'[d] = late[d] /\ ok'[d] = ok[d]
         /\ ok'[c] => ok[c] /\ UNCHANGED late /\ Executes(c, r)
<1>1. TypeOK /\ WithinCap /\ r \in Request
  BY DEF IInv, OwnRequest
<1>4. /\ late' \in [Clusters -> Request \union {None}]
      /\ ok' \in [Clusters -> BOOLEAN]
      /\ faults' \in Nat
      /\ late'[c] = late[c] \/ late'[c] = r
      /\ \A d \in Clusters \ {c} : late'[d] = late[d] /\ ok'[d] = ok[d]
      /\ ok'[c] => ok[c] /\ UNCHANGED late
  <2>1. CASE Answered(c, r)
    BY <1>1, <2>1 DEF Answered, TypeOK
  <2>2. CASE Failed(c, r)
    <3>1. ok' = [ok EXCEPT ![c] = FALSE] /\ ok \in [Clusters -> BOOLEAN]
      BY <1>1, <2>2 DEF Failed, TypeOK
    <3>2. /\ late' = late \/ late' = [late EXCEPT ![c] = r]
          /\ faults' = faults \/ faults' = faults + 1
      BY <2>2 DEF Failed
    <3>3. /\ ok' \in [Clusters -> BOOLEAN] /\ ok'[c] = FALSE
          /\ \A d \in Clusters \ {c} : ok'[d] = ok[d]
      BY <3>1
    <3>4. /\ late' \in [Clusters -> Request \union {None}]
          /\ late'[c] = late[c] \/ late'[c] = r
          /\ \A d \in Clusters \ {c} : late'[d] = late[d]
      <4>1. late \in [Clusters -> Request \union {None}] /\ r \in Request
        BY <1>1 DEF TypeOK
      <4>2. CASE late' = late
        BY <4>1, <4>2
      <4>3. CASE late' = [late EXCEPT ![c] = r]
        BY <4>1, <4>3
      <4>. QED
        BY <3>2, <4>2, <4>3
    <3>5. faults' \in Nat
      BY <1>1, <3>2 DEF TypeOK
    <3>. QED
      BY <3>3, <3>4, <3>5
  <2>. QED
    BY <2>1, <2>2
<1>2. CASE Executes(c, r)
  <2>1. rules' \in [Ids -> Rule \union {None}] /\ WithinCap' /\ \A i \in Ids : Effect(c, r, i)
    BY <1>1, <1>2, ExecutesEffect
  <2>. QED
    BY <1>2, <1>4, <2>1
<1>3. CASE ~Executes(c, r) /\ UNCHANGED rules
  <2>1. rules' \in [Ids -> Rule \union {None}] /\ WithinCap' /\ \A i \in Ids : Effect(c, r, i)
    BY <1>1, <1>3 DEF TypeOK, WithinCap, Existing, Effect
  <2>2. ok'[c] = FALSE
    BY <1>1, <1>3 DEF Answered, Failed, TypeOK
  <2>. QED
    BY <1>3, <1>4, <2>1, <2>2
<1>. QED
  BY <1>2, <1>3 DEF Answered, Failed

\* The pass of c sends the request that g calls for.
LEMMA SendKeepsIInv ==
  ASSUME IInv, NEW c \in Clusters, NEW g \in Groups, Turn(c, g), Done(c, g),
         NEW r, OwnRequest(c, r), r.group = g,
         r.op = "create" => EvaluatorOf[g] \in published,
         Answered(c, r) \/ Failed(c, r),
         listed' \in [Clusters -> [Groups -> Listing \union {None}]],
         room' \in [Clusters -> Nat],
         \A d \in Clusters \ {c} : listed'[d] = listed[d],
         \A h \in Groups \ {g} : listed'[c][h] = listed[c][h],
         listed'[c][g] = listed[c][g] \/ (g \in Desired(c) /\ listed'[c][g].id = None),
         Executes(c, r) => Applied(c, g)'
  PROVE  IInv'
<1>1. TypeOK /\ RulesHaveEvaluators /\ r \in Request
  BY DEF IInv, OwnRequest
<1>2. /\ rules' \in [Ids -> Rule \union {None}]
      /\ late' \in [Clusters -> Request \union {None}]
      /\ ok' \in [Clusters -> BOOLEAN]
      /\ faults' \in Nat
      /\ WithinCap'
      /\ \A i \in Ids : Effect(c, r, i)
      /\ late'[c] = late[c] \/ late'[c] = r
      /\ \A d \in Clusters \ {c} : late'[d] = late[d] /\ ok'[d] = ok[d]
      /\ ok'[c] => ok[c] /\ UNCHANGED late /\ Executes(c, r)
  BY SentEffect
<1>3. TypeOK'
  BY <1>1, <1>2 DEF TypeOK, Done, inputs, reads
<1>4. published' = published
  BY DEF Done, inputs
<1>5. RulesHaveEvaluators'
  BY <1>1, <1>2, <1>4, EvaluatorsKept
<1>6. \A d \in Clusters \ {c} : SameLocals(d)
  BY <1>1, <1>2 DEF Done, inputs, reads, SameLocals, TypeOK
<1>7. \A d \in Clusters \ {c} : Sound(d)'
  BY <1>1, <1>2, <1>3, <1>4, <1>6, OthersStaySound
<1>8. Sound(c)'
  BY <1>1, <1>2, <1>3, DoneKeepsSound
<1>. QED
  BY <1>2, <1>3, <1>5, <1>7, <1>8 DEF IInv

\* The pass of c sends nothing for g.
LEMMA PassOverKeepsIInv ==
  ASSUME IInv, NEW c \in Clusters, NEW g \in Groups, Turn(c, g), g \in Desired(c), Done(c, g),
         UNCHANGED <<rules, late, faults, listed, room>>,
         ok' \in [Clusters -> BOOLEAN],
         \A d \in Clusters \ {c} : ok'[d] = ok[d],
         ok'[c] /\ calm[c] => ok[c] /\ Applied(c, g)'
  PROVE  IInv'
<1>1. TypeOK /\ WithinCap /\ RulesHaveEvaluators
  BY DEF IInv
<1>2. TypeOK'
  BY <1>1 DEF TypeOK, Done, inputs, reads
<1>3. WithinCap' /\ RulesHaveEvaluators'
  BY <1>1 DEF WithinCap, RulesHaveEvaluators, Existing, Done, inputs
<1>4. \A d \in Clusters \ {c} : SameLocals(d)
  BY <1>1 DEF Done, inputs, reads, SameLocals, TypeOK
<1>5. \A d \in Clusters \ {c} : Sound(d)'
  BY <1>2, <1>4, OthersStaySound DEF Done, inputs
<1>6. /\ OwnRequest(c, CreateRequest(c, g)) /\ Fitting(c, g, CreateRequest(c, g))
      /\ EvaluatorOf[g] \in published
  BY PassRequests
<1>7. Sound(c)'
  <2>1. PICK r \in Request : r = CreateRequest(c, g)
    BY <1>6 DEF OwnRequest
  <2>2. OwnRequest(c, r) /\ r.group = g
    BY <1>6, <2>1 DEF Fitting
  <2>3. ok'[c] /\ calm[c] => ok[c] /\ UNCHANGED late /\ Applied(c, g)'
    OBVIOUS
  <2>. QED
    BY <1>2, <1>6, <2>2, <2>3, DoneKeepsSound
<1>. QED
  BY <1>2, <1>3, <1>5, <1>7 DEF IInv

LEMMA SkipAtCapKeeps ==
  ASSUME IInv, NEW c \in Clusters, NEW g \in Groups, SkipAtCap(c, g)
  PROVE  IInv'
<1>1. TypeOK
  BY DEF IInv
<1>2. /\ ok' \in [Clusters -> BOOLEAN] /\ ok'[c] = FALSE
      /\ \A d \in Clusters \ {c} : ok'[d] = ok[d]
  BY <1>1 DEF SkipAtCap, TypeOK
<1>. QED
  BY <1>2, PassOverKeepsIInv DEF SkipAtCap

LEMMA LeaveRuleKeeps ==
  ASSUME IInv, NEW c \in Clusters, NEW g \in Groups, LeaveRule(c, g)
  PROVE  IInv'
<1>1. TypeOK /\ Sound(c)
  BY DEF IInv
<1>2. Turn(c, g) /\ g \in Desired(c) /\ listed[c][g] # None /\ Matches(c, g) /\ Done(c, g)
  BY DEF LeaveRule
<1>3. UNCHANGED <<rules, late, faults, listed, room, ok>>
  BY DEF LeaveRule
<1>4. ASSUME ok[c], calm[c]
      PROVE  Applied(c, g)'
  <2>1. Undisturbed(c) /\ g \in todo[c]
    BY <1>2, <1>4 DEF Turn, Undisturbed
  <2>. DEFINE i == listed[c][g].id
  <2>2. i \in Ids /\ rules[i] = [owner |-> c, group |-> g, tags |-> plan[c][g]]
    BY <1>1, <1>2, <2>1 DEF Sound, SnapshotHolds, TodoWired, Matches
  <2>3. [owner |-> c, group |-> g, tags |-> plan[c][g]] \in Rule
    BY <1>1 DEF TypeOK, Rule
  <2>4. i \in Existing'
    BY <1>3, <2>2, <2>3 DEF Existing
  <2>5. Desired(c)' = Desired(c) /\ plan' = plan
    BY <1>2 DEF Done, reads, Desired
  <2>. QED
    BY <1>2, <1>3, <2>2, <2>4, <2>5 DEF Applied
<1>5. ok \in [Clusters -> BOOLEAN]
  BY <1>1 DEF TypeOK
<1>. QED
  BY <1>2, <1>3, <1>4, <1>5, PassOverKeepsIInv

\* A request that has been executed leaves the rule as planned.
LEMMA ExecutedApplies ==
  ASSUME IInv, NEW c \in Clusters, NEW g \in Groups, NEW r, OwnRequest(c, r), Fitting(c, g, r),
         Executes(c, r), Done(c, g), r.op = "delete" => UNCHANGED listed
  PROVE  Applied(c, g)'
<1>1. TypeOK /\ WithinCap /\ r \in Request
  BY DEF IInv, OwnRequest
<1>2. Desired(c)' = Desired(c) /\ plan' = plan
  BY DEF Done, reads, Desired
<1>. DEFINE new == [owner |-> c, group |-> g, tags |-> r.tags]
<1>3. /\ r.op = "create" => \E i \in Ids : rules'[i] = new
      /\ r.op = "update" => rules'[r.id] = new
      /\ r.op = "delete" => rules'[r.id] = None
  BY <1>1, ExecutesEffect DEF Fitting
<1>4. /\ r.op \in {"create", "update", "delete"}
      /\ r.op # "create" => r.id \in Ids
      /\ new # None
  BY <1>1, RequestFields DEF Rule
<1>5. CASE r.op # "delete"
  <2>1. PICK i \in Ids : rules'[i] = new
    BY <1>3, <1>4, <1>5
  <2>. QED
    BY <1>2, <1>4, <1>5, <2>1 DEF Applied, Fitting, Existing
<1>6. CASE r.op = "delete"
  BY <1>2, <1>3, <1>6 DEF Applied, Fitting, Existing
<1>. QED
  BY <1>5, <1>6

LEMMA CreateRuleKeeps ==
  ASSUME IInv, NEW c \in Clusters, NEW g \in Groups, CreateRule(c, g)
  PROVE  IInv'
<1>1. TypeOK
  BY DEF IInv
<1>2. Turn(c, g) /\ g \in Desired(c) /\ ~AtCap(c) /\ Done(c, g)
  BY DEF CreateRule
<1>. DEFINE q == CreateRequest(c, g)
<1>3. OwnRequest(c, q) /\ Fitting(c, g, q) /\ EvaluatorOf[g] \in published
  BY <1>2, PassRequests
<1>4. Answered(c, q) \/ Failed(c, q)
  BY DEF CreateRule
<1>5. /\ listed' \in [Clusters -> [Groups -> Listing \union {None}]]
      /\ room' \in [Clusters -> Nat]
      /\ \A d \in Clusters \ {c} : listed'[d] = listed[d]
      /\ \A h \in Groups \ {g} : listed'[c][h] = listed[c][h]
      /\ listed'[c][g] = listed[c][g] \/ listed'[c][g].id = None
  <2>1. CASE UNCHANGED <<listed, room>>
    BY <1>1, <2>1 DEF TypeOK
  <2>2. CASE /\ listed' = [listed EXCEPT ![c][g] = [id |-> None, tags |-> plan[c][g]]]
             /\ room' = [room EXCEPT ![c] = @ - 1]
    <3>1. [id |-> None, tags |-> plan[c][g]] \in Listing
      BY <1>1 DEF TypeOK, Listing
    <3>2. room[c] - 1 \in Nat
      BY <1>1, <1>2 DEF AtCap, TypeOK
    <3>. QED
      BY <1>1, <2>2, <3>1, <3>2 DEF TypeOK
  <2>. QED
    BY <2>1, <2>2 DEF CreateRule
<1>6. Executes(c, q) => Applied(c, g)'
  BY <1>2, <1>3, ExecutedApplies DEF CreateRequest
<1>7. q.group = g
  BY <1>3 DEF Fitting
<1>8. PICK r : r = q
  OBVIOUS
<1>9. /\ OwnRequest(c, r) /\ r.group = g
      /\ r.op = "create" => EvaluatorOf[g] \in published
      /\ Executes(c, r) => Applied(c, g)'
  BY <1>3, <1>6, <1>7, <1>8 DEF Executes
<1>10. Answered(c, r) \/ Failed(c, r)
  BY <1>4, <1>8 DEF Answered, Failed, Executes, Refused
<1>. QED
  BY <1>2, <1>5, <1>9, <1>10, SendKeepsIInv

LEMMA UpdateRuleKeeps ==
  ASSUME IInv, NEW c \in Clusters, NEW g \in Groups, UpdateRule(c, g)
  PROVE  IInv'
<1>1. TypeOK
  BY DEF IInv
<1>2. Turn(c, g) /\ g \in Desired(c) /\ listed[c][g] # None /\ Done(c, g)
  BY DEF UpdateRule
<1>. DEFINE q == UpdateRequest(c, g)
<1>3. OwnRequest(c, q) /\ Fitting(c, g, q) /\ EvaluatorOf[g] \in published
  BY <1>2, PassRequests
<1>4. (Answered(c, q) \/ Failed(c, q)) /\ UNCHANGED <<listed, room>>
  BY DEF UpdateRule
<1>5. Executes(c, q) => Applied(c, g)'
  BY <1>2, <1>3, <1>4, ExecutedApplies
<1>6. q.group = g
  BY <1>3 DEF Fitting
<1>7. PICK r : r = q
  OBVIOUS
<1>8. /\ OwnRequest(c, r) /\ r.group = g
      /\ r.op = "create" => EvaluatorOf[g] \in published
      /\ Executes(c, r) => Applied(c, g)'
  BY <1>3, <1>5, <1>6, <1>7 DEF Executes
<1>9. Answered(c, r) \/ Failed(c, r)
  BY <1>4, <1>7 DEF Answered, Failed, Executes, Refused
<1>. QED
  BY <1>1, <1>2, <1>4, <1>8, <1>9, SendKeepsIInv DEF TypeOK

LEMMA DeleteRuleKeeps ==
  ASSUME IInv, NEW c \in Clusters, NEW g \in Groups, DeleteRule(c, g)
  PROVE  IInv'
<1>1. TypeOK
  BY DEF IInv
<1>2. Turn(c, g) /\ g \notin Desired(c) /\ Done(c, g)
  BY DEF DeleteRule
<1>. DEFINE q == DeleteRequest(c, g)
<1>3. OwnRequest(c, q) /\ Fitting(c, g, q)
  BY <1>2, PassRequests
<1>4. (Answered(c, q) \/ Failed(c, q)) /\ UNCHANGED <<listed, room>>
  BY DEF DeleteRule
<1>5. Executes(c, q) => Applied(c, g)'
  BY <1>2, <1>3, <1>4, ExecutedApplies
<1>6. q.group = g /\ q.op # "create"
  BY <1>3 DEF Fitting, DeleteRequest
<1>7. PICK r : r = q
  OBVIOUS
<1>8. /\ OwnRequest(c, r) /\ r.group = g
      /\ r.op = "create" => EvaluatorOf[g] \in published
      /\ Executes(c, r) => Applied(c, g)'
  BY <1>3, <1>5, <1>6, <1>7 DEF Executes
<1>9. Answered(c, r) \/ Failed(c, r)
  BY <1>4, <1>7 DEF Answered, Failed, Executes, Refused
<1>. QED
  BY <1>1, <1>2, <1>4, <1>8, <1>9, SendKeepsIInv DEF TypeOK

-----------------------------------------------------------------------------
(***************************************************************************)
(* The pass begins, lists and returns.                                     *)
(***************************************************************************)

\* A step of c that changes no rule leaves the other clusters, and what is said of the
\* rules alone, as they were.
LEMMA QuietKeeps ==
  ASSUME IInv, TypeOK', NEW c \in Clusters, UNCHANGED <<rules, published>>,
         \A d \in Clusters \ {c} : SameLocals(d), Sound(c)'
  PROVE  IInv'
<1>1. WithinCap' /\ RulesHaveEvaluators'
  BY DEF IInv, WithinCap, RulesHaveEvaluators, Existing
<1>2. \A d \in Clusters \ {c} : Sound(d)'
  BY OthersStaySound
<1>. QED
  BY <1>1, <1>2 DEF IInv

LEMMA PlanKeeps ==
  ASSUME IInv, NEW c \in Clusters, Plan(c)
  PROVE  IInv'
<1>1. TypeOK /\ RulesHaveEvaluators /\ Sound(c)
  BY DEF IInv
<1>2. UNCHANGED <<inputs, rules, late, listed, room, todo, ok, calm>> /\ at[c] = "idle"
  BY DEF Plan
<1>3. PICK seen \in {published, {}} :
        /\ CatalogueReads(seen)
        /\ \/ ~Trusts(seen) /\ UNCHANGED <<at, reads>>
           \/ /\ Trusts(seen)
              /\ at' = [at EXCEPT ![c] = "planned"]
              /\ asked' = [asked EXCEPT ![c] = wish[c]]
              /\ plan' = [plan EXCEPT ![c] = PlanOf(c, seen)]
  BY DEF Plan
<1>4. faults' \in Nat
  BY <1>1, <1>3 DEF CatalogueReads, TypeOK
<1>5. CASE ~Trusts(seen) /\ UNCHANGED <<at, reads>>
  <2>1. TypeOK'
    BY <1>1, <1>2, <1>4, <1>5 DEF TypeOK, inputs, reads
  <2>2. \A d \in Clusters : SameLocals(d)
    BY <1>2, <1>5 DEF SameLocals, reads
  <2>3. \A i \in Ids : Foreign(c, i)
    BY <1>2 DEF Foreign
  <2>4. Sound(c)'
    BY <1>1, <1>2, <2>1, <2>2, <2>3, RelyKeepsSound DEF inputs
  <2>. QED
    BY <1>2, <2>1, <2>2, <2>4, QuietKeeps DEF inputs
<1>6. CASE /\ Trusts(seen)
           /\ at' = [at EXCEPT ![c] = "planned"]
           /\ asked' = [asked EXCEPT ![c] = wish[c]]
           /\ plan' = [plan EXCEPT ![c] = PlanOf(c, seen)]
  <2>1. seen = published
    BY <1>3, <1>6 DEF Trusts
  <2>2. PlanOf(c, seen) \in [Groups -> SUBSET Agents]
    BY <1>1 DEF PlanOf, TypeOK
  <2>3. TypeOK'
    BY <1>1, <1>2, <1>4, <1>6, <2>2 DEF TypeOK, inputs
  <2>4. \A d \in Clusters \ {c} : SameLocals(d)
    BY <1>1, <1>2, <1>6 DEF SameLocals, TypeOK
  <2>5. /\ at'[c] = "planned" /\ asked'[c] = wish[c] /\ plan'[c] = PlanOf(c, published)
        /\ todo'[c] = {} /\ late' = late /\ rules' = rules /\ published' = published
        /\ listed' = listed
    BY <1>1, <1>2, <1>6, <2>1 DEF TypeOK, inputs, Sound, TodoWired
  <2>6. \A g \in Groups :
          /\ plan'[c][g] # {} => EvaluatorOf[g] \in published
          /\ plan'[c][g] = {} /\ asked'[c][g] # {} => EvaluatorOf[g] \notin published
    BY <2>5 DEF PlanOf
  <2>7. KnowsOnlyOwn(c)'
    BY <1>1, <2>5 DEF Sound, KnowsOnlyOwn, Existing
  <2>8. PlansPublished(c)'
    BY <1>1, <2>5, <2>6 DEF Sound, PlansPublished, Desired
  <2>9. UnplannedAreNew(c)'
    BY <1>1, <2>5, <2>6 DEF Sound, PlansPublished, RulesHaveEvaluators, UnplannedAreNew, Desired,
                            Existing
  <2>10. TodoWired(c)' /\ SnapshotHolds(c)' /\ MeansItsDeletions(c)' /\ AppliesItsPlan(c)'
    BY <2>5 DEF TodoWired, SnapshotHolds, MeansItsDeletions, AppliesItsPlan, Undisturbed
  <2>11. Sound(c)'
    BY <2>7, <2>8, <2>9, <2>10 DEF Sound
  <2>. QED
    BY <2>3, <2>4, <2>5, <2>11, QuietKeeps
<1>. QED
  BY <1>3, <1>5, <1>6

\* The rules of others and the own ones that are kept by name leave some room, or none.
LEMMA RoomIsNat ==
  ASSUME TypeOK, WithinCap, NEW c \in Clusters,
         NEW pick \in [Groups -> Ids \union {None}], ListedAs(c, pick),
         NEW mine, mine = {g \in Groups : pick[g] # None}
  PROVE  MaxActiveRules - Cardinality(Existing \ Owned(c)) - Cardinality(mine) \in Nat
<1>1. IsFiniteSet(Existing) /\ Cardinality(Existing) \in Nat
  <2>1. Existing \in SUBSET Ids
    BY DEF Existing
  <2>. QED
    BY <2>1, FS_Subset, FS_CardinalityType
<1>2. Owned(c) \in SUBSET Existing
  BY DEF Owned
<1>3. IsFiniteSet(Owned(c)) /\ Cardinality(Owned(c)) \in Nat
  BY <1>1, <1>2, FS_Subset, FS_CardinalityType
<1>4. Existing \cap Owned(c) = Owned(c)
  BY <1>2
<1>5. Cardinality(Existing \ Owned(c)) = Cardinality(Existing) - Cardinality(Owned(c))
  BY <1>1, <1>4, FS_Difference
<1>. DEFINE f == [g \in mine |-> pick[g]]
<1>6. \A g \in mine : pick[g] \in Owned(c) /\ rules[pick[g]].group = g
  BY DEF ListedAs
<1>7. f \in Injection(mine, Owned(c))
  <2>1. f \in [mine -> Owned(c)]
    BY <1>6
  <2>2. \A g, h \in mine : f[g] = f[h] => g = h
    BY <1>6
  <2>3. DOMAIN f = mine
    OBVIOUS
  <2>. HIDE DEF f
  <2>. QED
    BY <2>1, <2>2, <2>3 DEF Injection, IsInjective
<1>8. Cardinality(mine) <= Cardinality(Owned(c)) /\ IsFiniteSet(mine)
  BY <1>3, <1>7, FS_Injection
<1>9. Cardinality(mine) \in Nat
  BY <1>8, FS_CardinalityType
<1>. QED
  BY <1>1, <1>3, <1>5, <1>8, <1>9 DEF WithinCap

LEMMA ListRulesKeeps ==
  ASSUME IInv, NEW c \in Clusters, ListRules(c)
  PROVE  IInv'
<1>1. TypeOK /\ WithinCap /\ Sound(c)
  BY DEF IInv
<1>2. /\ UNCHANGED <<inputs, rules, late, faults, reads, ok>>
      /\ at[c] = "planned" /\ at' = [at EXCEPT ![c] = "applying"]
      /\ calm' = [calm EXCEPT ![c] = late[c] = None]
  BY DEF ListRules
<1>3. PICK pick \in [Groups -> Ids \union {None}] :
        LET mine == {g \in Groups : pick[g] # None}
        IN /\ ListedAs(c, pick)
           /\ listed' = [listed EXCEPT ![c] =
                [g \in Groups |-> IF g \in mine THEN [id |-> pick[g], tags |-> rules[pick[g]].tags]
                                                ELSE None]]
           /\ room' = [room EXCEPT ![c] =
                MaxActiveRules - Cardinality(Existing \ Owned(c)) - Cardinality(mine)]
           /\ todo' = [todo EXCEPT ![c] = ToReconcile(c, mine)]
  BY DEF ListRules
<1>. DEFINE mine == {g \in Groups : pick[g] # None}
            seen == [g \in Groups |-> IF g \in mine THEN [id |-> pick[g], tags |-> rules[pick[g]].tags]
                                                    ELSE None]
<1>4. MaxActiveRules - Cardinality(Existing \ Owned(c)) - Cardinality(mine) \in Nat
  BY <1>1, <1>3, RoomIsNat
<1>5. \A g \in mine :
        /\ pick[g] \in Ids /\ rules[pick[g]] \in Rule
        /\ rules[pick[g]].owner = c /\ rules[pick[g]].group = g
  BY <1>1, <1>3 DEF ListedAs, Owned, Existing, TypeOK
<1>6. \A g \in Groups \ mine, i \in Existing : rules[i].owner = c => rules[i].group # g
  <2>1. ASSUME NEW g \in Groups, pick[g] = None, NEW i \in Owned(c), rules[i].group = g
        PROVE  FALSE
    <3>1. pick[g] \in Owned(c)
      BY <1>3, <2>1 DEF ListedAs
    <3>. QED
      BY <2>1, <3>1 DEF Owned, Existing
  <2>. QED
    BY <2>1 DEF Owned
<1>7. \A g \in mine : [id |-> pick[g], tags |-> rules[pick[g]].tags] \in Listing
  BY <1>5, RuleFields DEF Listing
<1>8. seen \in [Groups -> Listing \union {None}] /\ \A g \in Groups : seen[g] = None <=> g \notin mine
  BY <1>7
<1>9. TypeOK'
  BY <1>1, <1>2, <1>3, <1>4, <1>8 DEF TypeOK, inputs, reads, ToReconcile, Desired
<1>10. \A d \in Clusters \ {c} : SameLocals(d)
  BY <1>1, <1>2, <1>3 DEF SameLocals, reads, TypeOK
<1>11. /\ at'[c] = "applying" /\ listed'[c] = seen /\ todo'[c] = Desired(c) \union mine
       /\ calm'[c] = (late[c] = None) /\ rules' = rules /\ late' = late
       /\ plan' = plan /\ asked' = asked /\ published' = published
  BY <1>1, <1>2, <1>3 DEF TypeOK, inputs, reads, ToReconcile
<1>12. Desired(c)' = Desired(c)
  BY <1>11 DEF Desired
<1>13. KnowsOnlyOwn(c)'
  BY <1>1, <1>5, <1>8, <1>11 DEF Sound, KnowsOnlyOwn, Existing
<1>14. PlansPublished(c)'
  BY <1>1, <1>11, <1>12 DEF Sound, PlansPublished
<1>15. UnplannedAreNew(c)'
  BY <1>11 DEF UnplannedAreNew
<1>16. TodoWired(c)'
  <2>1. \A g \in mine : seen[g].id \in Ids
    BY <1>5
  <2>2. todo'[c] \subseteq Groups /\ \A g \in todo'[c] : g \in Desired(c)' \/ g \in mine
    BY <1>11, <1>12 DEF Desired
  <2>. HIDE DEF seen, mine
  <2>. QED
    BY <1>8, <1>11, <2>1, <2>2 DEF TodoWired
<1>17. SnapshotHolds(c)'
  <2>1. \A g \in mine : rules[pick[g]] = [owner |-> c, group |-> g, tags |-> rules[pick[g]].tags]
    BY <1>5, RuleFields
  <2>2. \A g \in mine : seen[g] = [id |-> pick[g], tags |-> rules[pick[g]].tags]
    OBVIOUS
  <2>. HIDE DEF seen
  <2>3. ASSUME NEW g \in todo'[c], listed'[c][g] # None
        PROVE  rules'[listed'[c][g].id] = [owner |-> c, group |-> g, tags |-> listed'[c][g].tags]
    <3>1. g \in mine
      BY <1>8, <1>11, <2>3 DEF Desired
    <3>2. listed'[c][g] = [id |-> pick[g], tags |-> rules[pick[g]].tags]
      BY <1>11, <2>2, <3>1
    <3>3. rules' = rules /\ rules[pick[g]] = [owner |-> c, group |-> g, tags |-> rules[pick[g]].tags]
      BY <1>11, <2>1, <3>1
    <3>. HIDE DEF mine
    <3>. QED
      BY <3>2, <3>3
  <2>4. Undisturbed(c)' => late'[c] = None
    BY <1>11 DEF Undisturbed
  <2>. QED
    BY <2>3, <2>4 DEF SnapshotHolds
<1>18. MeansItsDeletions(c)'
  <2>1. ASSUME NEW g \in mine, g \notin Desired(c)
        PROVE  asked[c][g] = {}
    <3>1. pick[g] \in Existing /\ rules[pick[g]].owner = c /\ rules[pick[g]].group = g
      BY <1>3, <2>1 DEF ListedAs, Owned
    <3>. QED
      BY <1>1, <1>2, <2>1, <3>1 DEF Sound, UnplannedAreNew
  <2>. QED
    BY <1>11, <1>12, <2>1 DEF MeansItsDeletions
<1>19. AppliesItsPlan(c)'
  <2>1. \A g \in Groups \ todo'[c] : g \notin Desired(c) /\ listed'[c][g] = None
    BY <1>8, <1>11
  <2>. QED
    BY <1>12, <2>1 DEF AppliesItsPlan, Applied
<1>20. Sound(c)'
  BY <1>13, <1>14, <1>15, <1>16, <1>17, <1>18, <1>19 DEF Sound
<1>. QED
  BY <1>9, <1>10, <1>11, <1>20, QuietKeeps

\* A pass that returns, or dies, leaves only a request of its own behind.
LEMMA ReturnsKeeps ==
  ASSUME IInv, NEW c \in Clusters, Returns(c), UNCHANGED <<inputs, rules>>, faults' \in Nat,
         \/ UNCHANGED late
         \/ \E r \in Request : /\ late' = [late EXCEPT ![c] = r]
                               /\ OwnRequest(c, r)
                               /\ r.op = "create" => EvaluatorOf[r.group] \in published
  PROVE  IInv'
<1>1. TypeOK /\ Sound(c)
  BY DEF IInv
<1>2. /\ late' \in [Clusters -> Request \union {None}]
      /\ \A d \in Clusters \ {c} : late'[d] = late[d]
      /\ late'[c] # None /\ late'[c].id \in Existing =>
           rules[late'[c].id].owner = c /\ rules[late'[c].id].group = late'[c].group
      /\ late'[c] # None /\ late'[c].op = "create" => EvaluatorOf[late'[c].group] \in published
  <2>1. CASE UNCHANGED late
    BY <1>1, <2>1 DEF TypeOK, Sound, KnowsOnlyOwn, PlansPublished
  <2>2. CASE \E r \in Request : /\ late' = [late EXCEPT ![c] = r]
                                /\ OwnRequest(c, r)
                                /\ r.op = "create" => EvaluatorOf[r.group] \in published
    <3>1. PICK r \in Request : /\ late' = [late EXCEPT ![c] = r]
                               /\ OwnRequest(c, r)
                               /\ r.op = "create" => EvaluatorOf[r.group] \in published
      BY <2>2
    <3>2. late \in [Clusters -> Request \union {None}]
      BY <1>1 DEF TypeOK
    <3>. QED
      BY <3>1, <3>2 DEF OwnRequest
  <2>. QED
    BY <2>1, <2>2
<1>3. Nobody \in [Groups -> SUBSET Agents] /\ Nothing \in [Groups -> Listing \union {None}]
  BY DEF Nobody, Nothing
<1>4. TypeOK'
  BY <1>1, <1>2, <1>3 DEF TypeOK, Returns, inputs
<1>5. \A d \in Clusters \ {c} : SameLocals(d)
  BY <1>1, <1>2 DEF Returns, SameLocals, TypeOK
<1>6. /\ at'[c] = "idle" /\ plan'[c] = Nobody /\ listed'[c] = Nothing /\ todo'[c] = {}
      /\ rules' = rules /\ published' = published
  BY <1>1 DEF Returns, TypeOK, inputs
<1>7. KnowsOnlyOwn(c)' /\ PlansPublished(c)'
  BY <1>2, <1>6 DEF KnowsOnlyOwn, PlansPublished, Desired, Nobody, Nothing, Existing
<1>8. /\ UnplannedAreNew(c)' /\ TodoWired(c)' /\ SnapshotHolds(c)' /\ MeansItsDeletions(c)'
      /\ AppliesItsPlan(c)'
  BY <1>6 DEF UnplannedAreNew, TodoWired, SnapshotHolds, MeansItsDeletions, AppliesItsPlan,
              Undisturbed
<1>9. Sound(c)'
  BY <1>7, <1>8 DEF Sound
<1>. QED
  BY <1>4, <1>5, <1>6, <1>9, QuietKeeps

LEMMA ListFailsKeeps ==
  ASSUME IInv, NEW c \in Clusters, ListFails(c)
  PROVE  IInv'
BY ReturnsKeeps DEF ListFails, IInv, TypeOK

LEMMA FinishKeeps ==
  ASSUME IInv, NEW c \in Clusters, Finish(c)
  PROVE  IInv'
BY ReturnsKeeps DEF Finish, IInv, TypeOK

LEMMA RestartKeeps ==
  ASSUME IInv, NEW c \in Clusters, Restart(c)
  PROVE  IInv'
<1>1. TypeOK
  BY DEF IInv
<1>2. Returns(c) /\ UNCHANGED <<inputs, rules>> /\ faults' \in Nat
  BY <1>1 DEF Restart, TypeOK
<1>3. ASSUME NEW r \in UnderWay(c)
      PROVE  /\ r \in Request /\ OwnRequest(c, r)
             /\ r.op = "create" => EvaluatorOf[r.group] \in published
  <2>1. CASE r \in {CreateRequest(c, g) : g \in {h \in Desired(c) : Turn(c, h) /\ listed[c][h] = None /\ ~AtCap(c)}}
    <3>1. PICK g \in Desired(c) : Turn(c, g) /\ r = CreateRequest(c, g)
      BY <2>1
    <3>. QED
      BY <3>1, PassRequests DEF OwnRequest, Fitting
  <2>2. CASE r \in {UpdateRequest(c, g) : g \in {h \in Desired(c) : Turn(c, h) /\ listed[c][h] # None /\ ~Matches(c, h)}}
    <3>1. PICK g \in Desired(c) : Turn(c, g) /\ listed[c][g] # None /\ r = UpdateRequest(c, g)
      BY <2>2
    <3>. QED
      BY <3>1, PassRequests DEF OwnRequest, Fitting
  <2>3. CASE r \in {DeleteRequest(c, g) : g \in {h \in Groups \ Desired(c) : Turn(c, h)}}
    <3>1. PICK g \in Groups \ Desired(c) : Turn(c, g) /\ r = DeleteRequest(c, g)
      BY <2>3
    <3>2. r.op # "create"
      BY <3>1 DEF DeleteRequest
    <3>. QED
      BY <3>1, <3>2, PassRequests DEF OwnRequest
  <2>. QED
    BY <2>1, <2>2, <2>3 DEF UnderWay
<1>4. \/ UNCHANGED late
      \/ \E r \in Request : /\ late' = [late EXCEPT ![c] = r]
                            /\ OwnRequest(c, r)
                            /\ r.op = "create" => EvaluatorOf[r.group] \in published
  BY <1>3 DEF Restart
<1>. QED
  BY <1>2, <1>4, ReturnsKeeps

-----------------------------------------------------------------------------
(***************************************************************************)
(* What comes late, and what others do.                                    *)
(***************************************************************************)

LEMMA LateArrivesKeeps ==
  ASSUME IInv, NEW c \in Clusters, LateArrives(c)
  PROVE  IInv'
<1>1. TypeOK /\ WithinCap /\ RulesHaveEvaluators /\ Sound(c)
  BY DEF IInv
<1>2. PICK r \in Request :
        /\ r = late[c]
        /\ Executes(c, r) \/ UNCHANGED rules
  BY <1>1 DEF LateArrives, TypeOK, Executes, Refused
<1>3. OwnRequest(c, r) /\ (r.op = "create" => EvaluatorOf[r.group] \in published) /\ late[c] # None
  BY <1>1, <1>2 DEF Sound, KnowsOnlyOwn, PlansPublished, OwnRequest, LateArrives
<1>4. late' = [late EXCEPT ![c] = None] /\ UNCHANGED <<inputs, faults, locals>>
  BY DEF LateArrives
<1>5. /\ rules' \in [Ids -> Rule \union {None}] /\ WithinCap'
      /\ \A i \in Ids : Effect(c, r, i)
  <2>1. CASE Executes(c, r)
    BY <1>1, <1>3, <2>1, ExecutesEffect
  <2>2. CASE UNCHANGED rules
    BY <1>1, <2>2 DEF TypeOK, WithinCap, Existing, Effect
  <2>. QED
    BY <1>2, <2>1, <2>2
<1>6. TypeOK'
  BY <1>1, <1>4, <1>5 DEF TypeOK, inputs, locals
<1>7. /\ late'[c] = None /\ published' = published /\ at' = at /\ asked' = asked /\ plan' = plan
      /\ listed' = listed /\ todo' = todo /\ ok' = ok /\ calm' = calm
  BY <1>1, <1>4 DEF TypeOK, inputs, locals
<1>8. RulesHaveEvaluators'
  BY <1>1, <1>3, <1>5, <1>7, EvaluatorsKept
<1>9. \A d \in Clusters \ {c} : SameLocals(d)
  BY <1>1, <1>4, <1>7 DEF SameLocals, TypeOK
<1>10. \A d \in Clusters \ {c} : Sound(d)'
  BY <1>5, <1>6, <1>7, <1>9, OthersStaySound
<1>11. ~Undisturbed(c) /\ ~Undisturbed(c)'
  BY <1>1, <1>3, <1>7 DEF Sound, SnapshotHolds, Undisturbed
<1>12. KnowsOnlyOwn(c)'
  <2>1. ASSUME NEW g \in Groups, listed[c][g] # None, listed[c][g].id \in Existing'
        PROVE  rules'[listed[c][g].id].owner = c /\ rules'[listed[c][g].id].group = g
    <3>. DEFINE i == listed[c][g].id
    <3>1. i \in Ids /\ Remembered(i) /\ rules'[i] # None
      BY <2>1 DEF Existing, Remembered
    <3>2. rules[i] # None => rules[i].owner = c /\ rules[i].group = g
      BY <1>1, <2>1, <3>1 DEF Sound, KnowsOnlyOwn, Existing
    <3>. QED
      BY <1>5, <3>1, <3>2 DEF Effect
  <2>. QED
    BY <1>7, <2>1 DEF KnowsOnlyOwn
<1>13. PlansPublished(c)'
  BY <1>1, <1>7 DEF Sound, PlansPublished, Desired
<1>14. UnplannedAreNew(c)'
  <2>1. ASSUME at[c] = "planned", NEW g \in Groups \ Desired(c), asked[c][g] # {},
               NEW i \in Ids, rules'[i] # None, rules'[i].owner = c
        PROVE  rules'[i].group # g
    <3>1. /\ rules[i] # None /\ rules[i].owner = c => rules[i].group # g
          /\ r.op = "create" => r.group # g
      BY <1>1, <1>2, <1>3, <2>1 DEF Sound, UnplannedAreNew, Existing
    <3>. QED
      BY <1>5, <2>1, <3>1 DEF Effect
  <2>. QED
    BY <1>7, <2>1 DEF UnplannedAreNew, Desired, Existing
<1>15. TodoWired(c)' /\ MeansItsDeletions(c)'
  BY <1>1, <1>7 DEF Sound, TodoWired, MeansItsDeletions, Desired
<1>16. SnapshotHolds(c)' /\ AppliesItsPlan(c)'
  BY <1>11 DEF SnapshotHolds, AppliesItsPlan
<1>17. Sound(c)'
  BY <1>12, <1>13, <1>14, <1>15, <1>16 DEF Sound
<1>. QED
  BY <1>5, <1>6, <1>8, <1>10, <1>17 DEF IInv

\* A step outside of the passes and of Langfuse.
LEMMA OutsideKeeps ==
  ASSUME IInv, TypeOK', UNCHANGED <<rules, late, locals>>, published \subseteq published'
  PROVE  IInv'
<1>1. TypeOK /\ WithinCap /\ RulesHaveEvaluators
  BY DEF IInv
<1>2. WithinCap' /\ RulesHaveEvaluators'
  BY <1>1 DEF WithinCap, RulesHaveEvaluators, Existing
<1>3. ASSUME NEW d \in Clusters
      PROVE  Sound(d)'
  <2>1. Sound(d) /\ SameLocals(d) /\ \A i \in Ids : Foreign(d, i)
    BY DEF IInv, SameLocals, Foreign, locals
  <2>. QED
    BY <1>1, <2>1, RelyKeepsSound
<1>. QED
  BY <1>2, <1>3 DEF IInv

LEMMA DeclareKeeps ==
  ASSUME IInv, NEW c \in Clusters, Declare(c)
  PROVE  IInv'
<1>1. TypeOK /\ \A w \in Wishes[c] : w \in [Groups -> SUBSET Agents]
  BY DEF IInv
<1>2. TypeOK'
  BY <1>1 DEF Declare, TypeOK, locals
<1>. QED
  BY <1>2, OutsideKeeps DEF Declare

LEMMA PublishKeeps ==
  ASSUME IInv, NEW e \in Evaluators, Publish(e)
  PROVE  IInv'
<1>1. TypeOK'
  BY DEF IInv, Publish, TypeOK, locals, bounds
<1>. QED
  BY <1>1, OutsideKeeps DEF Publish

-----------------------------------------------------------------------------
(***************************************************************************)
(* The theorems.                                                           *)
(***************************************************************************)

LEMMA InitIInv == Init => IInv
<1>. SUFFICES ASSUME Init
              PROVE  IInv
  OBVIOUS
<1>1. Nobody \in [Groups -> SUBSET Agents] /\ Nothing \in [Groups -> Listing \union {None}]
  BY DEF Nobody, Nothing
<1>2. TypeOK
  BY <1>1 DEF Init, TypeOK
<1>3. Existing = {}
  BY DEF Init, Existing
<1>4. WithinCap /\ RulesHaveEvaluators
  BY <1>3, FS_EmptySet DEF WithinCap, RulesHaveEvaluators
<1>5. ASSUME NEW c \in Clusters
      PROVE  Sound(c)
  <2>1. /\ at[c] = "idle" /\ plan[c] = Nobody /\ listed[c] = Nothing /\ todo[c] = {}
        /\ late[c] = None
    BY DEF Init
  <2>2. KnowsOnlyOwn(c) /\ PlansPublished(c)
    BY <2>1 DEF KnowsOnlyOwn, PlansPublished, Desired, Nobody, Nothing
  <2>3. /\ UnplannedAreNew(c) /\ TodoWired(c) /\ SnapshotHolds(c) /\ MeansItsDeletions(c)
        /\ AppliesItsPlan(c)
    BY <2>1 DEF UnplannedAreNew, TodoWired, SnapshotHolds, MeansItsDeletions, AppliesItsPlan,
                Undisturbed
  <2>. QED
    BY <2>2, <2>3 DEF Sound
<1>. QED
  BY <1>2, <1>4, <1>5 DEF IInv

LEMMA StutterKeeps ==
  ASSUME IInv, UNCHANGED vars
  PROVE  IInv'
<1>1. TypeOK'
  BY DEF IInv, TypeOK, vars, bounds, locals
<1>. QED
  BY <1>1, OutsideKeeps DEF vars

LEMMA NextKeepsIInv == IInv /\ [Next]_vars => IInv'
<1>. SUFFICES ASSUME IInv, [Next]_vars
              PROVE  IInv'
  OBVIOUS
<1>1. ASSUME NEW c \in Clusters, PassStep(c)
      PROVE  IInv'
  <2>1. ASSUME NEW g \in Groups,
               \/ SkipAtCap(c, g) \/ CreateRule(c, g) \/ LeaveRule(c, g)
               \/ UpdateRule(c, g) \/ DeleteRule(c, g)
        PROVE  IInv'
    BY <2>1, SkipAtCapKeeps, CreateRuleKeeps, LeaveRuleKeeps, UpdateRuleKeeps, DeleteRuleKeeps
  <2>. QED
    BY <1>1, <2>1, PlanKeeps, ListRulesKeeps, ListFailsKeeps, FinishKeeps DEF PassStep
<1>2. ASSUME NEW c \in Clusters, Restart(c)
      PROVE  IInv'
  BY <1>2, RestartKeeps
<1>3. ASSUME NEW c \in Clusters, LateArrives(c)
      PROVE  IInv'
  BY <1>3, LateArrivesKeeps
<1>4. ASSUME NEW c \in Clusters, Declare(c)
      PROVE  IInv'
  BY <1>4, DeclareKeeps
<1>5. ASSUME NEW e \in Evaluators, Publish(e)
      PROVE  IInv'
  BY <1>5, PublishKeeps
<1>6. CASE UNCHANGED vars
  BY <1>6, StutterKeeps
<1>. QED
  BY <1>1, <1>2, <1>3, <1>4, <1>5, <1>6 DEF Next

\* The inductive invariant holds of every behaviour, whatever fails, and however the
\* passes of the clusters interleave.
THEOREM Invariance == Spec => []IInv
<1>. QED
  BY InitIInv, NextKeepsIInv, PTL DEF Spec

\* The variables keep their types; in particular the room a pass counts never goes
\* below nothing.
THEOREM TypeCorrect == Spec => []TypeOK
<1>1. IInv => TypeOK
  BY DEF IInv
<1>. QED
  BY <1>1, Invariance, PTL

\* No pass deletes the rule of a group the cluster's agents asked for when it read
\* them, whatever the catalogue of evaluators read like.
THEOREM DeletionsAreMeantAlways == Spec => []DeletionsAreMeant
<1>1. IInv => DeletionsAreMeant
  BY DEF IInv, Sound, DeletionsAreMeant
<1>. QED
  BY <1>1, Invariance, PTL

\* A pass without errors leaves the rules as it planned them, although other clusters
\* write between its requests: nobody but the cluster writes what it has listed.
THEOREM PassesApplyTheirPlanAlways == Spec => []PassesApplyTheirPlan
<1>1. IInv => PassesApplyTheirPlan
  BY DEF IInv, Sound, PassesApplyTheirPlan
<1>. QED
  BY <1>1, Invariance, PTL

\* Every rule has one writer.
LEMMA StepTouchesOwn ==
  ASSUME IInv, NEW c \in Clusters, PassStep(c) \/ LateArrives(c),
         NEW i \in Existing, rules[i].owner # c
  PROVE  rules'[i] = rules[i]
<1>1. TypeOK /\ WithinCap /\ Sound(c) /\ i \in Ids
  BY DEF IInv, Existing
<1>2. ASSUME NEW r, OwnRequest(c, r), Answered(c, r) \/ Failed(c, r)
      PROVE  rules'[i] = rules[i]
  <2>1. Effect(c, r, i)
    BY <1>1, <1>2, SentEffect
  <2>. QED
    BY <2>1 DEF Effect, Existing
<1>3. ASSUME NEW g \in Groups, CreateRule(c, g)
      PROVE  rules'[i] = rules[i]
  <2>1. PICK r : r = CreateRequest(c, g)
    OBVIOUS
  <2>2. OwnRequest(c, r)
    BY <1>3, <2>1, PassRequests DEF CreateRule
  <2>3. Answered(c, r) \/ Failed(c, r)
    BY <1>3, <2>1 DEF CreateRule, Answered, Failed, Executes, Refused
  <2>. QED
    BY <1>2, <2>2, <2>3
<1>4. ASSUME NEW g \in Groups, UpdateRule(c, g)
      PROVE  rules'[i] = rules[i]
  <2>1. PICK r : r = UpdateRequest(c, g)
    OBVIOUS
  <2>2. OwnRequest(c, r)
    BY <1>4, <2>1, PassRequests DEF UpdateRule
  <2>3. Answered(c, r) \/ Failed(c, r)
    BY <1>4, <2>1 DEF UpdateRule, Answered, Failed, Executes, Refused
  <2>. QED
    BY <1>2, <2>2, <2>3
<1>5. ASSUME NEW g \in Groups, DeleteRule(c, g)
      PROVE  rules'[i] = rules[i]
  <2>1. PICK r : r = DeleteRequest(c, g)
    OBVIOUS
  <2>2. OwnRequest(c, r)
    BY <1>5, <2>1, PassRequests DEF DeleteRule
  <2>3. Answered(c, r) \/ Failed(c, r)
    BY <1>5, <2>1 DEF DeleteRule, Answered, Failed, Executes, Refused
  <2>. QED
    BY <1>2, <2>2, <2>3
<1>6. ASSUME LateArrives(c)
      PROVE  rules'[i] = rules[i]
  <2>1. PICK r \in Request :
          /\ r = late[c]
          /\ Executes(c, r) \/ UNCHANGED rules
    BY <1>1, <1>6 DEF LateArrives, TypeOK, Executes, Refused
  <2>2. OwnRequest(c, r)
    BY <1>1, <1>6, <2>1 DEF Sound, KnowsOnlyOwn, OwnRequest, LateArrives
  <2>3. Executes(c, r) => Effect(c, r, i)
    BY <1>1, <2>2, ExecutesEffect
  <2>. QED
    BY <2>1, <2>3 DEF Effect, Existing
<1>7. CASE \/ Plan(c) \/ ListRules(c) \/ ListFails(c) \/ Finish(c)
           \/ \E g \in Groups : SkipAtCap(c, g) \/ LeaveRule(c, g)
  BY <1>7 DEF Plan, ListRules, ListFails, Finish, SkipAtCap, LeaveRule
<1>. QED
  BY <1>3, <1>4, <1>5, <1>6, <1>7 DEF PassStep

\* Whatever a cluster does, now or belatedly, changes no rule of another.
THEOREM OthersUntouchedAlways == Spec => OthersUntouched
<1>. DEFINE A == \A c \in Clusters : PassStep(c) \/ LateArrives(c) =>
                   \A i \in Existing : rules[i].owner # c => rules'[i] = rules[i]
<1>1. IInv => A
  BY StepTouchesOwn
<1>2. IInv /\ [Next]_vars => [A]_rules
  BY <1>1
<1>. QED
  BY <1>2, Invariance, PTL DEF Spec, OthersUntouched
=============================================================================
