--------------------------- MODULE EvaluationRules ---------------------------
(***************************************************************************)
(* The evaluation rules of one Langfuse project, reconciled by the rules   *)
(* loop of every cluster of the fleet                                      *)
(* (src/applications/agent-evaluation/app/cluster_loop.py).                *)
(*                                                                         *)
(* A pass plans from what the cluster's agents declare and the evaluators  *)
(* the hub has published, lists the rules of the project, and then creates,*)
(* updates and deletes its own rules one request at a time.  There are no  *)
(* transactions: other clusters write between any two requests, a request  *)
(* may fail, may be executed with its answer lost, or be executed after    *)
(* the caller has given up on it, and the pod may be killed at any point.  *)
(*                                                                         *)
(* A step of a pass decides what to do next and sends the request for it;  *)
(* the thread does nothing else until it is answered, so an answered       *)
(* request is one action.                                                  *)
(***************************************************************************)
EXTENDS Integers, FiniteSets

CONSTANTS
  Clusters,
  Groups,          \* (evaluator, judge, sampling) combinations, numbered in the order of their names
  Evaluators,      \* evaluator objects, one per evaluator and judge
  EvaluatorOf,     \* the evaluator object a group's rule is attached to
  Agents,
  Wishes,          \* what the agents of a cluster may declare: who is in which group
  Ids,             \* ids of rules; one that nobody remembers any more is as good as new
  MaxActiveRules,  \* settings.max_active_rules, the cap Langfuse enforces
  MaxFaults,       \* bound on the failures of one behaviour
  MaxChanges,      \* bound on the changes of declarations in one behaviour
  None

ASSUME GroupsAssumption == Groups \subseteq Nat /\ IsFiniteSet(Groups)
ASSUME EvaluatorOfAssumption == EvaluatorOf \in [Groups -> Evaluators]
ASSUME WishesAssumption == Wishes \in [Clusters -> SUBSET [Groups -> SUBSET Agents]]
ASSUME IdsAssumption == IsFiniteSet(Ids) /\ None \notin Ids
ASSUME MaxActiveRulesAssumption == MaxActiveRules \in Nat

Rule == [owner : Clusters, group : Groups, tags : SUBSET Agents]

\* What a pass knows of a rule: one that it created itself, it knows no id of.
Listing == [id : Ids \union {None}, tags : SUBSET Agents]

Request ==
  [op : {"create"}, group : Groups, id : {None}, tags : SUBSET Agents] \union
  [op : {"update", "delete"}, group : Groups, id : Ids, tags : SUBSET Agents]

ASSUME NoneAssumption == None \notin Rule /\ None \notin Listing /\ None \notin Request

VARIABLES
  \* The world.
  wish,       \* what the agents of each cluster declare
  published,  \* the evaluators the hub has published
  rules,      \* the rules in Langfuse, by id
  late,       \* a request of the cluster that was given up and may still be executed
  faults, changes,
  \* The locals of run_once.
  at,         \* where each cluster's pass is
  asked,      \* the declarations it read
  plan,       \* the tags of the rule each group should have; {} for no rule
  listed,     \* `mine`: the own rule it listed, or has created, for each group
  room,       \* max_active_rules - others - len(mine)
  todo,       \* the groups whose rule it has still to look at
  ok,
  \* History.
  calm        \* no request of an earlier pass was under way when the rules were listed

bounds == <<faults, changes>>
inputs == <<wish, published, changes>>
reads  == <<asked, plan>>
locals == <<at, asked, plan, listed, room, todo, ok, calm>>
vars   == <<wish, published, rules, late, bounds, locals>>

TypeOK ==
  /\ wish \in [Clusters -> [Groups -> SUBSET Agents]]
  /\ published \subseteq Evaluators
  /\ rules \in [Ids -> Rule \union {None}]
  /\ late \in [Clusters -> Request \union {None}]
  /\ faults \in Nat
  /\ changes \in Nat
  /\ at \in [Clusters -> {"idle", "planned", "applying"}]
  /\ asked \in [Clusters -> [Groups -> SUBSET Agents]]
  /\ plan \in [Clusters -> [Groups -> SUBSET Agents]]
  /\ listed \in [Clusters -> [Groups -> Listing \union {None}]]
  /\ room \in [Clusters -> Nat]
  /\ todo \in [Clusters -> SUBSET Groups]
  /\ ok \in [Clusters -> BOOLEAN]
  /\ calm \in [Clusters -> BOOLEAN]

Nobody  == [g \in Groups |-> {}]
Nothing == [g \in Groups |-> None]

Init ==
  /\ wish \in {w \in [Clusters -> [Groups -> SUBSET Agents]] : \A c \in Clusters : w[c] \in Wishes[c]}
  /\ published = {}
  /\ rules = [i \in Ids |-> None]
  /\ late = [c \in Clusters |-> None]
  /\ faults = 0
  /\ changes = 0
  /\ at = [c \in Clusters |-> "idle"]
  /\ asked = [c \in Clusters |-> Nobody]
  /\ plan = [c \in Clusters |-> Nobody]
  /\ listed = [c \in Clusters |-> Nothing]
  /\ room = [c \in Clusters |-> 0]
  /\ todo = [c \in Clusters |-> {}]
  /\ ok = [c \in Clusters |-> TRUE]
  /\ calm = [c \in Clusters |-> TRUE]

-----------------------------------------------------------------------------
(***************************************************************************)
(* Langfuse.                                                               *)
(***************************************************************************)

Existing == {i \in Ids : rules[i] # None}

\* Mutant: every rule of the platform counts as the cluster's own.
OwnedByThePlatform(c) == Existing

\* The rules that carry the cluster's owner token.  Tokens of different clusters
\* differ, and none is a prefix of another.
Owned(c) == {i \in Existing : rules[i].owner = c}

\* The ids some process or request still refers to.
Remembered(i) ==
  \E c \in Clusters :
    \/ late[c] # None /\ late[c].id = i
    \/ \E g \in Groups : listed[c][g] # None /\ listed[c][g].id = i

Fresh == {i \in Ids \ Existing : ~Remembered(i)}

NextId == CHOOSE i \in Fresh : TRUE

\* A request is executed.
Executes(c, r) ==
  \/ /\ r.op = "create"
     /\ Cardinality(Existing) < MaxActiveRules
     /\ Fresh # {}
     /\ rules' = [rules EXCEPT ![NextId] = [owner |-> c, group |-> r.group, tags |-> r.tags]]
  \/ /\ r.op = "update"
     /\ r.id \in Existing
     /\ rules' = [rules EXCEPT ![r.id].tags = r.tags]
  \/ /\ r.op = "delete"
     /\ r.id \in Existing
     /\ rules' = [rules EXCEPT ![r.id] = None]

\* 409 past the cap, 404 for a rule that is gone.
Refused(r) ==
  \/ r.op = "create" /\ Cardinality(Existing) >= MaxActiveRules
  \/ r.op # "create" /\ r.id \notin Existing

\* A request nobody waits for any more reaches Langfuse.
LateArrives(c) ==
  /\ late[c] # None
  /\ \/ Executes(c, late[c])
     \/ Refused(late[c]) /\ UNCHANGED rules
  /\ late' = [late EXCEPT ![c] = None]
  /\ UNCHANGED <<inputs, faults, locals>>

-----------------------------------------------------------------------------
(***************************************************************************)
(* The pass.                                                               *)
(***************************************************************************)

\* run_once returns, or dies with its pod.
Returns(c) ==
  /\ at' = [at EXCEPT ![c] = "idle"]
  /\ asked' = [asked EXCEPT ![c] = Nobody]
  /\ plan' = [plan EXCEPT ![c] = Nobody]
  /\ listed' = [listed EXCEPT ![c] = Nothing]
  /\ room' = [room EXCEPT ![c] = 0]
  /\ todo' = [todo EXCEPT ![c] = {}]
  /\ ok' = [ok EXCEPT ![c] = TRUE]
  /\ calm' = [calm EXCEPT ![c] = TRUE]

\* A group whose evaluator is not among the published ones is skipped.
PlanOf(c, seen) ==
  [g \in Groups |-> IF EvaluatorOf[g] \in seen THEN wish[c][g] ELSE {}]

\* The catalogue reads as it is, or, once in a while, as empty.
CatalogueReads(seen) ==
  \/ seen = published /\ UNCHANGED faults
  \/ seen = {} /\ published # {} /\ faults < MaxFaults /\ faults' = faults + 1

\* Mutant: an empty catalogue is planned from like any other.
TrustsAny(seen) == TRUE

\* An empty catalogue is no evidence that the rules of the cluster should go.
Trusts(seen) == seen # {}

\* The pass reads the declarations, then the evaluators, and returns if these came
\* back empty.
Plan(c) ==
  /\ at[c] = "idle"
  /\ \E seen \in {published, {}} :
       /\ CatalogueReads(seen)
       /\ \/ ~Trusts(seen) /\ UNCHANGED <<at, reads>>
          \/ /\ Trusts(seen)
             /\ at' = [at EXCEPT ![c] = "planned"]
             /\ asked' = [asked EXCEPT ![c] = wish[c]]
             /\ plan' = [plan EXCEPT ![c] = PlanOf(c, seen)]
  /\ UNCHANGED <<inputs, rules, late, listed, room, todo, ok, calm>>

Desired(c) == {g \in Groups : plan[c][g] # {}}

\* The listing keeps one rule per name; which of several is up to Langfuse's order.
ListedAs(c, pick) ==
  \A g \in Groups :
    IF \E i \in Owned(c) : rules[i].group = g
    THEN pick[g] \in Owned(c) /\ rules[pick[g]].group = g
    ELSE pick[g] = None

\* Mutant: rules nobody asks for any more are not looked at.
ToReconcileIfDesired(c, mine) == Desired(c)

ToReconcile(c, mine) == Desired(c) \union mine

\* The pass lists the rules of the project.
ListRules(c) ==
  /\ at[c] = "planned"
  /\ \E pick \in [Groups -> Ids \union {None}] :
       LET mine == {g \in Groups : pick[g] # None}
       IN /\ ListedAs(c, pick)
          /\ listed' = [listed EXCEPT ![c] =
               [g \in Groups |-> IF g \in mine THEN [id |-> pick[g], tags |-> rules[pick[g]].tags]
                                               ELSE None]]
          /\ room' = [room EXCEPT ![c] =
               MaxActiveRules - Cardinality(Existing \ Owned(c)) - Cardinality(mine)]
          /\ todo' = [todo EXCEPT ![c] = ToReconcile(c, mine)]
  /\ at' = [at EXCEPT ![c] = "applying"]
  /\ calm' = [calm EXCEPT ![c] = late[c] = None]
  /\ UNCHANGED <<inputs, rules, late, faults, reads, ok>>

\* The listing fails, and the pass with it.
ListFails(c) ==
  /\ at[c] = "planned"
  /\ faults < MaxFaults
  /\ faults' = faults + 1
  /\ Returns(c)
  /\ UNCHANGED <<inputs, rules, late>>

\* The desired rules come first, in the order of their names, then the others.
Turn(c, g) ==
  /\ at[c] = "applying"
  /\ g \in todo[c]
  /\ \A h \in todo[c] :
       \/ g \in Desired(c) /\ h \notin Desired(c)
       \/ (g \in Desired(c) <=> h \in Desired(c)) /\ g <= h

Done(c, g) ==
  /\ todo' = [todo EXCEPT ![c] = @ \ {g}]
  /\ UNCHANGED <<inputs, at, reads, calm>>

CreateRequest(c, g) == [op |-> "create", group |-> g, id |-> None, tags |-> plan[c][g]]
UpdateRequest(c, g) == [op |-> "update", group |-> g, id |-> listed[c][g].id, tags |-> plan[c][g]]
DeleteRequest(c, g) == [op |-> "delete", group |-> g, id |-> listed[c][g].id, tags |-> {}]

Answered(c, r) ==
  /\ Executes(c, r)
  /\ UNCHANGED <<late, faults, ok>>

\* LangfuseError: the request was refused; or it never arrived, or was executed
\* with its answer lost, or is still under way.  The pass goes on.
Failed(c, r) ==
  /\ \/ Refused(r) /\ UNCHANGED <<rules, late, faults>>
     \/ /\ faults < MaxFaults
        /\ faults' = faults + 1
        /\ \/ UNCHANGED <<rules, late>>
           \/ Executes(c, r) /\ UNCHANGED late
           \/ late[c] = None /\ late' = [late EXCEPT ![c] = r] /\ UNCHANGED rules
  /\ ok' = [ok EXCEPT ![c] = FALSE]

AtCap(c) == room[c] = 0

\* No rule for a desired group: it is reported at the cap, and created below it.
SkipAtCap(c, g) ==
  /\ Turn(c, g) /\ g \in Desired(c) /\ listed[c][g] = None
  /\ AtCap(c)
  /\ ok' = [ok EXCEPT ![c] = FALSE]
  /\ Done(c, g)
  /\ UNCHANGED <<rules, late, faults, listed, room>>

CreateRule(c, g) ==
  /\ Turn(c, g) /\ g \in Desired(c) /\ listed[c][g] = None
  /\ ~AtCap(c)
  /\ \/ /\ Answered(c, CreateRequest(c, g))
        /\ listed' = [listed EXCEPT ![c][g] = [id |-> None, tags |-> plan[c][g]]]
        /\ room' = [room EXCEPT ![c] = @ - 1]
     \/ /\ Failed(c, CreateRequest(c, g))
        /\ UNCHANGED <<listed, room>>
  /\ Done(c, g)

\* Mutant: a rule of the right name is taken to be right.
MatchesByName(c, g) == TRUE

\* _rule_matches.
Matches(c, g) == listed[c][g].tags = plan[c][g]

LeaveRule(c, g) ==
  /\ Turn(c, g) /\ g \in Desired(c) /\ listed[c][g] # None
  /\ Matches(c, g)
  /\ Done(c, g)
  /\ UNCHANGED <<rules, late, faults, listed, room, ok>>

UpdateRule(c, g) ==
  /\ Turn(c, g) /\ g \in Desired(c) /\ listed[c][g] # None
  /\ ~Matches(c, g)
  /\ Answered(c, UpdateRequest(c, g)) \/ Failed(c, UpdateRequest(c, g))
  /\ Done(c, g)
  /\ UNCHANGED <<listed, room>>

DeleteRule(c, g) ==
  /\ Turn(c, g) /\ g \notin Desired(c)
  /\ Answered(c, DeleteRequest(c, g)) \/ Failed(c, DeleteRequest(c, g))
  /\ Done(c, g)
  /\ UNCHANGED <<listed, room>>

Finish(c) ==
  /\ at[c] = "applying"
  /\ todo[c] = {}
  /\ Returns(c)
  /\ UNCHANGED <<inputs, rules, late, faults>>

\* The request the pass may be waiting for now.
UnderWay(c) ==
  {CreateRequest(c, g) : g \in {h \in Desired(c) : Turn(c, h) /\ listed[c][h] = None /\ ~AtCap(c)}} \union
  {UpdateRequest(c, g) : g \in {h \in Desired(c) : Turn(c, h) /\ listed[c][h] # None /\ ~Matches(c, h)}} \union
  {DeleteRequest(c, g) : g \in {h \in Groups \ Desired(c) : Turn(c, h)}}

\* The pod is killed, the loops being daemon threads, and replaced; a request it
\* has sent may still be executed.
Restart(c) ==
  /\ at[c] # "idle"
  /\ faults < MaxFaults
  /\ faults' = faults + 1
  /\ \/ UNCHANGED late
     \/ late[c] = None /\ \E r \in UnderWay(c) : late' = [late EXCEPT ![c] = r]
  /\ Returns(c)
  /\ UNCHANGED <<inputs, rules>>

-----------------------------------------------------------------------------
(***************************************************************************)
(* Agents and the hub.                                                     *)
(***************************************************************************)

Declare(c) ==
  /\ changes < MaxChanges
  /\ changes' = changes + 1
  /\ \E w \in Wishes[c] : wish' = [wish EXCEPT ![c] = w]
  /\ UNCHANGED <<published, rules, late, faults, locals>>

\* The hub publishes one more evaluator.  It never deletes one.
Publish(e) ==
  /\ e \notin published
  /\ published' = published \union {e}
  /\ UNCHANGED <<wish, rules, late, bounds, locals>>

PassStep(c) ==
  \/ Plan(c) \/ ListRules(c) \/ ListFails(c) \/ Finish(c)
  \/ \E g \in Groups :
       SkipAtCap(c, g) \/ CreateRule(c, g) \/ LeaveRule(c, g) \/ UpdateRule(c, g) \/ DeleteRule(c, g)

Next ==
  \/ \E c \in Clusters : PassStep(c) \/ Restart(c) \/ LateArrives(c) \/ Declare(c)
  \/ \E e \in Evaluators : Publish(e)

Spec == Init /\ [][Next]_vars

\* Every loop keeps running its passes.  A request that is under way need never
\* arrive, an evaluator never be published.
FairSpec == Spec /\ \A c \in Clusters : WF_vars(PassStep(c))

-----------------------------------------------------------------------------
(***************************************************************************)
(* What the code keeps.                                                    *)
(***************************************************************************)

\* "Every object in the shared Langfuse project has exactly one writer" (naming.py
\* 3): whatever a cluster does, now or belatedly, changes no rule of another.
OthersUntouched ==
  [][\A c \in Clusters : PassStep(c) \/ LateArrives(c) =>
       \A i \in Existing : rules[i].owner # c => rules'[i] = rules[i]]_rules

\* "Deleting needs positive evidence" (cluster_loop.py 381): a pass is about to
\* delete the rule of a group only if no agent of the cluster asked for it, however
\* the catalogue read.
MeansItsDeletions(c) == \A g \in todo[c] \ Desired(c) : asked[c][g] = {}

DeletionsAreMeant == \A c \in Clusters : MeansItsDeletions(c)

\* The group's rule is as the plan wants it.
Applied(c, g) ==
  IF g \in Desired(c)
  THEN \E i \in Existing : rules[i] = [owner |-> c, group |-> g, tags |-> plan[c][g]]
  ELSE listed[c][g] = None \/ listed[c][g].id \notin Existing

Undisturbed(c) == at[c] = "applying" /\ calm[c] /\ ok[c]

\* A pass without errors has done what it planned, although its snapshot of the
\* rules is as old as the pass and other clusters write meanwhile (cluster_loop.py
\* 404-480).
AppliesItsPlan(c) == Undisturbed(c) => \A g \in Groups \ todo[c] : Applied(c, g)

PassesApplyTheirPlan == \A c \in Clusters : AppliesItsPlan(c)

\* What the declarations and the catalogue call for.
Wanted(c, g) == IF EvaluatorOf[g] \in published THEN wish[c][g] ELSE {}

Covered(c) ==
  \A g \in Groups :
    IF Wanted(c, g) = {}
    THEN \A i \in Owned(c) : rules[i].group # g
    ELSE \E i \in Owned(c) : rules[i].group = g /\ rules[i].tags = Wanted(c, g)

\* "The next one recovers whatever this one missed" (main.py 162): once declarations
\* and failures come to an end every group asked for has its rule, and no other has.
EventuallyCovered == \A c \in Clusters : <>[]Covered(c)

(***************************************************************************)
(* The inductive invariant the proofs use.                                 *)
(***************************************************************************)

WithinCap == Cardinality(Existing) <= MaxActiveRules

RulesHaveEvaluators == \A i \in Existing : EvaluatorOf[rules[i].group] \in published

\* The ids a pass, or a late request, refers to are of rules of its own cluster.
KnowsOnlyOwn(c) ==
  /\ \A g \in Groups : listed[c][g] # None /\ listed[c][g].id \in Existing =>
       rules[listed[c][g].id].owner = c /\ rules[listed[c][g].id].group = g
  /\ late[c] # None /\ late[c].id \in Existing =>
       rules[late[c].id].owner = c /\ rules[late[c].id].group = late[c].group

PlansPublished(c) ==
  /\ \A g \in Desired(c) : EvaluatorOf[g] \in published
  /\ late[c] # None /\ late[c].op = "create" => EvaluatorOf[late[c].group] \in published

\* A group that was asked for and not planned has no rule, and none under way.
UnplannedAreNew(c) ==
  at[c] = "planned" =>
    \A g \in Groups \ Desired(c) : asked[c][g] # {} =>
      /\ \A i \in Existing : rules[i].owner = c => rules[i].group # g
      /\ late[c] # None /\ late[c].op = "create" => late[c].group # g

TodoWired(c) ==
  /\ at[c] # "applying" => todo[c] = {}
  /\ \A g \in todo[c] :
       /\ listed[c][g] = None => g \in Desired(c)
       /\ listed[c][g] # None => listed[c][g].id \in Ids

\* What an undisturbed pass has listed and not yet dealt with is still so.
SnapshotHolds(c) ==
  Undisturbed(c) =>
    /\ late[c] = None
    /\ \A g \in todo[c] : listed[c][g] # None =>
         rules[listed[c][g].id] = [owner |-> c, group |-> g, tags |-> listed[c][g].tags]

Sound(c) ==
  /\ KnowsOnlyOwn(c)
  /\ PlansPublished(c)
  /\ UnplannedAreNew(c)
  /\ TodoWired(c)
  /\ SnapshotHolds(c)
  /\ MeansItsDeletions(c)
  /\ AppliesItsPlan(c)

IInv == TypeOK /\ WithinCap /\ RulesHaveEvaluators /\ \A c \in Clusters : Sound(c)

(***************************************************************************)
(* What the documentation says of the code and the code does not keep.     *)
(***************************************************************************)

\* "One rule per group" (cluster_loop.py 10), which "a restart loses nothing and an
\* error is recovered by the next pass" (README.md 50) extends to failures: in the end
\* there is exactly one rule for each group asked for.
EventuallyOneRulePerGroup ==
  \A c \in Clusters :
    <>[](\A i, j \in Owned(c) : rules[i].group = rules[j].group => i = j)
=============================================================================
