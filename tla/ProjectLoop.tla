----------------------------- MODULE ProjectLoop -----------------------------
(***************************************************************************)
(* The hub's project loop: the evaluators of the catalogue and the judge   *)
(* connection, kept in step with the chart                                 *)
(* (src/applications/agent-evaluation/app: project_loop.py, the calls of   *)
(* langfuse_client.py it makes, and the readiness and the loop of main.py).*)
(*                                                                         *)
(* There is one hub pod at a time.  Langfuse lets several evaluators share *)
(* a name, and replacing a definition mints a version of it.  A request    *)
(* may fail, or be executed after the pod that sent it gave up on it; the  *)
(* pod is replaced when its catalogue changes, and may be at any point.    *)
(* A step is one answered request, or what is decided from one.            *)
(***************************************************************************)
EXTENDS Integers, Sequences, FiniteSets

CONSTANTS
  Names,        \* names of evaluators: one per catalogue entry and judge alias
  Definitions,  \* records of model and prompt, which stands for all that is compared
  Catalogs,     \* the catalogues a hub may be deployed with
  UserEvaluators,  \* evaluators users may have made that have one of the names
  PageSize,     \* the number of evaluators in one page of a listing
  MaxRestarts,  \* bound on the replacements of the pod
  MaxPauses,    \* bound on the pauses of evaluators by Langfuse
  MaxLost,      \* bound on the writes given up and executed later
  None

ASSUME CatalogsAssumption == Catalogs \subseteq [Names -> Definitions \union {None}]
ASSUME DefinitionsAssumption == \A d \in Definitions : d = [model |-> d.model, prompt |-> d.prompt]
ASSUME PageSizeAssumption == PageSize \in Nat \ {0}
ASSUME BoundsAssumption == MaxRestarts \in Nat /\ MaxPauses \in Nat /\ MaxLost \in Nat
ASSUME ProjectNoneAssumption == None \notin Definitions

VARIABLES
  catalog,     \* the catalogue the running pod was deployed with
  evaluators,  \* the evaluators in Langfuse, oldest first; an index is an id
  connection,  \* the models of the judge connection; None when there is none
  lateWrite,   \* a write that was given up and may still be executed
  hub,         \* the locals of run_once
  ready,       \* _State: the outcome of the last pass that returned
  restarts, pauses, lost

projectVars == <<catalog, evaluators, connection, lateWrite, hub, ready, restarts, pauses, lost>>
counters    == <<restarts, pauses, lost>>

\* ours: its model is the judge connection's, which only this loop's evaluators are.
\* versions counts the definitions it has had; other pauses are not the loop's to clear.
Evaluator == [name : Names, ours : BOOLEAN, def : Definitions,
              paused : {"no", "clearable", "other"}, versions : Nat]

ASSUME UserEvaluatorsAssumption == UserEvaluators \subseteq {e \in Evaluator : ~e.ours /\ e.versions = 1}

Write == [id : Nat, name : Names, def : Definitions]

Models(c) == {c[n].model : n \in {m \in Names : c[m] # None}}

Wanted(c) == {n \in Names : c[n] # None}

-----------------------------------------------------------------------------
(***************************************************************************)
(* Langfuse.                                                               *)
(***************************************************************************)

\* A create always makes a new evaluator; an update replaces the definition as a
\* whole, under a new version, and lifts a pause.
Applied(w) ==
  IF w.id = 0
  THEN Append(evaluators, [name |-> w.name, ours |-> TRUE, def |-> w.def, paused |-> "no", versions |-> 1])
  ELSE [evaluators EXCEPT ![w.id].def = w.def, ![w.id].paused = "no", ![w.id].versions = @ + 1]

\* An evaluator's model must be one the connection lists.
Accepted(w) == connection # None /\ w.def.model \in connection

\* A request nobody waits for any more is executed.
LateWriteArrives ==
  /\ lateWrite # None
  /\ lateWrite' = None
  /\ evaluators' = IF Accepted(lateWrite) THEN Applied(lateWrite) ELSE evaluators
  /\ hub' = [hub EXCEPT !.calm = FALSE]
  /\ UNCHANGED <<catalog, connection, ready, counters>>

\* Langfuse pauses an evaluator whose judge does not answer as it should.
Pauses ==
  /\ pauses < MaxPauses
  /\ pauses' = pauses + 1
  /\ \E i \in DOMAIN evaluators, reason \in {"clearable", "other"} :
       /\ evaluators[i].ours
       /\ evaluators' = [evaluators EXCEPT ![i].paused = reason]
  /\ hub' = [hub EXCEPT !.calm = FALSE]
  /\ UNCHANGED <<catalog, connection, lateWrite, ready, restarts, lost>>

-----------------------------------------------------------------------------
(***************************************************************************)
(* A pass.                                                                 *)
(***************************************************************************)

Resting == [at |-> "idle", seen |-> <<>>, todo |-> {}, ok |-> TRUE, calm |-> TRUE]

BeginPass ==
  /\ hub.at = "idle"
  /\ hub' = [Resting EXCEPT !.at = "connection"]
  /\ UNCHANGED <<catalog, evaluators, connection, lateWrite, ready, counters>>

\* list_llm_connections; what matches is left alone.
ConnectionRead ==
  /\ hub.at = "connection"
  /\ hub' = [hub EXCEPT !.at = IF connection = Models(catalog) THEN "list" ELSE "upsert"]
  /\ UNCHANGED <<catalog, evaluators, connection, lateWrite, ready, counters>>

ConnectionUpserted ==
  /\ hub.at = "upsert"
  /\ connection' = Models(catalog)
  /\ hub' = [hub EXCEPT !.at = "list"]
  /\ UNCHANGED <<catalog, evaluators, lateWrite, ready, counters>>

\* The pass goes on without the connection; a failed upsert may have been executed.
ConnectionFails ==
  /\ hub.at \in {"connection", "upsert"}
  /\ connection' \in {connection} \union IF hub.at = "upsert" THEN {Models(catalog)} ELSE {}
  /\ hub' = [hub EXCEPT !.at = "list", !.ok = FALSE]
  /\ UNCHANGED <<catalog, evaluators, lateWrite, ready, counters>>

Unseen == DOMAIN evaluators \ DOMAIN hub.seen

\* Mutant: the listing is over when one page of it is.
AnythingListed(seen) == TRUE

\* There is no cursor after the last page.
AllListed(seen) == DOMAIN evaluators \subseteq DOMAIN seen

\* _cursor_paged: one page, of whatever the order is the evaluators are listed in.
PageRead ==
  /\ hub.at = "list"
  /\ \E page \in SUBSET Unseen :
       /\ Cardinality(page) = IF Cardinality(Unseen) < PageSize THEN Cardinality(Unseen) ELSE PageSize
       /\ LET seen == [i \in DOMAIN hub.seen \union page |->
                         IF i \in page THEN evaluators[i] ELSE hub.seen[i]]
          IN  hub' = [hub EXCEPT !.seen = seen,
                                 !.at = IF AllListed(seen) THEN "write" ELSE "list",
                                 !.todo = IF AllListed(seen) THEN Wanted(catalog) ELSE {}]
  /\ UNCHANGED <<catalog, evaluators, connection, lateWrite, ready, counters>>

\* An error, or too many pages: the pass is over.
ListingFails ==
  /\ hub.at = "list"
  /\ hub' = Resting
  /\ ready' = FALSE
  /\ UNCHANGED <<catalog, evaluators, connection, lateWrite, counters>>

\* Mutant: the newest evaluator of a name is maintained.
NewestOfName(n) ==
  LET ours == {i \in DOMAIN hub.seen : hub.seen[i].name = n /\ hub.seen[i].ours}
  IN  IF ours = {} THEN 0 ELSE CHOOSE i \in ours : \A j \in ours : j <= i

\* _ours_by_name: of several evaluators of the name, the oldest; 0 if there is none.
Maintained(n) ==
  LET ours == {i \in DOMAIN hub.seen : hub.seen[i].name = n /\ hub.seen[i].ours}
  IN  IF ours = {} THEN 0 ELSE CHOOSE i \in ours : \A j \in ours : i <= j

\* Mutant: the descriptions are compared too; they are never returned, so they differ.
DiffersByDescription(e, def) == TRUE

\* _differs
Differs(e, def) == e.def # def \/ e.paused = "clearable"

Needed(n) == Maintained(n) # 0 => Differs(hub.seen[Maintained(n)], catalog[n])

WriteOf(n) == [id |-> Maintained(n), name |-> n, def |-> catalog[n]]

Writing(n) == hub.at = "write" /\ n \in hub.todo

Unchanged(n) ==
  /\ Writing(n) /\ ~Needed(n)
  /\ hub' = [hub EXCEPT !.todo = @ \ {n}]
  /\ UNCHANGED <<catalog, evaluators, connection, lateWrite, ready, counters>>

\* create_evaluator or update_evaluator
Written(n) ==
  /\ Writing(n) /\ Needed(n) /\ Accepted(WriteOf(n))
  /\ evaluators' = Applied(WriteOf(n))
  /\ hub' = [hub EXCEPT !.todo = @ \ {n}]
  /\ UNCHANGED <<catalog, connection, lateWrite, ready, counters>>

\* Mutant: a failed write is logged, and no more.
FailureIgnored(n) ==
  /\ Writing(n) /\ Needed(n)
  /\ hub' = [hub EXCEPT !.todo = @ \ {n}]
  /\ UNCHANGED <<catalog, evaluators, connection, lateWrite, ready, counters>>

\* A write that is answered with an error; the pass goes on with the next name.
ErrorAnswered(n) ==
  /\ Writing(n) /\ Needed(n)
  /\ hub' = [hub EXCEPT !.todo = @ \ {n}, !.ok = FALSE]
  /\ UNCHANGED <<catalog, evaluators, connection, lateWrite, ready, counters>>

WriteRefused(n) == ErrorAnswered(n) /\ ~Accepted(WriteOf(n))

WriteFails(n) == ErrorAnswered(n) /\ Accepted(WriteOf(n))

\* The pass gives up waiting, and the write is executed later.
WriteLost(n) ==
  /\ Writing(n) /\ Needed(n)
  /\ lateWrite = None /\ lost < MaxLost
  /\ lateWrite' = WriteOf(n)
  /\ lost' = lost + 1
  /\ hub' = [hub EXCEPT !.todo = @ \ {n}, !.ok = FALSE]
  /\ UNCHANGED <<catalog, evaluators, connection, ready, restarts, pauses>>

PassOver == hub.at = "write" /\ hub.todo = {}

EndPass ==
  /\ PassOver
  /\ hub' = Resting
  /\ ready' = hub.ok
  /\ UNCHANGED <<catalog, evaluators, connection, lateWrite, counters>>

\* Mutant: the loop ends with the exception.
LoopDies ==
  /\ hub.at # "idle"
  /\ hub' = [Resting EXCEPT !.at = "dead"]
  /\ UNCHANGED <<catalog, evaluators, connection, lateWrite, ready, counters>>

\* _run_loop catches what is not a LangfuseError; readiness stays as it was.
Raises ==
  /\ hub.at # "idle"
  /\ hub' = Resting
  /\ UNCHANGED <<catalog, evaluators, connection, lateWrite, ready, counters>>

\* The pod is replaced; the write it was waiting for may still be executed.
Restart ==
  /\ restarts < MaxRestarts
  /\ restarts' = restarts + 1
  /\ catalog' \in Catalogs
  /\ hub' = Resting
  /\ ready' = FALSE
  /\ \/ UNCHANGED <<lateWrite, lost>>
     \/ /\ lateWrite = None /\ lost < MaxLost
        /\ lateWrite' \in {WriteOf(n) : n \in {m \in Names : Writing(m) /\ Needed(m)}}
        /\ lost' = lost + 1
  /\ UNCHANGED <<evaluators, connection, pauses>>

-----------------------------------------------------------------------------
\* A project in which users may have evaluators of the same names.
ProjectInit ==
  /\ catalog \in Catalogs
  /\ evaluators \in {<<>>} \union {<<user>> : user \in UserEvaluators}
  /\ connection = None
  /\ lateWrite = None
  /\ hub = Resting
  /\ ready = FALSE
  /\ restarts = 0 /\ pauses = 0 /\ lost = 0

Progress ==
  \/ BeginPass \/ ConnectionRead \/ ConnectionUpserted \/ PageRead \/ EndPass
  \/ \E n \in Names : Unchanged(n) \/ Written(n) \/ WriteRefused(n)

Failures ==
  \/ ConnectionFails \/ ListingFails \/ Raises
  \/ \E n \in Names : WriteFails(n) \/ WriteLost(n)

ProjectNext == Progress \/ Failures \/ LateWriteArrives \/ Pauses \/ Restart

ProjectSpec == ProjectInit /\ [][ProjectNext]_projectVars

\* The thread of the loop goes on, and a request is answered or given up.
ProjectFairness == WF_projectVars(Progress)

-----------------------------------------------------------------------------
ProjectTypeOK ==
  /\ catalog \in Catalogs
  /\ evaluators \in Seq(Evaluator)
  /\ connection \in (SUBSET {d.model : d \in Definitions}) \union {None}
  /\ lateWrite \in Write \union {None}
  /\ hub.at \in {"idle", "connection", "upsert", "list", "write"}
  /\ hub.todo \subseteq Wanted(catalog)
  /\ hub.ok \in BOOLEAN /\ hub.calm \in BOOLEAN
  /\ DOMAIN hub.seen \subseteq DOMAIN evaluators
  /\ \A i \in DOMAIN hub.seen : hub.seen[i] \in Evaluator
  /\ ready \in BOOLEAN
  /\ counters \in Nat \X Nat \X Nat

Ours(n) == {i \in DOMAIN evaluators : evaluators[i].name = n /\ evaluators[i].ours}

\* The evaluator of the name that Langfuse has had for longest is what the chart says.
PublishedName(n) ==
  \E i \in Ours(n) :
    /\ \A j \in Ours(n) : i <= j
    /\ ~Differs(evaluators[i], catalog[n])

Published == connection = Models(catalog) /\ \A n \in Wanted(catalog) : PublishedName(n)

\* project_loop.py never gives a name a second evaluator, of which every trace would be
\* scored twice, except when it cannot know of the first: its create was given up, and
\* executed.
DuplicatesComeFromLostWrites == \A n \in Names : Cardinality(Ours(n)) <= 1 + lost

\* project_loop.py writes only on change: a definition is replaced only for a change of
\* the chart, a pause, or a write executed late (which may put an old one back), however
\* many passes there are; the evaluators of users never are.
VersionsHaveCauses ==
  \A i \in DOMAIN evaluators :
    evaluators[i].versions <= IF evaluators[i].ours THEN 1 + restarts + pauses + 2 * lost ELSE 1

\* What readiness reports (main.py): a pass that ends without an error, and was not
\* interfered with, has published the connection and every evaluator of the catalogue.
SuccessMeansPublished == PassOver /\ hub.ok /\ hub.calm => Published

\* A hub whose requests no longer fail publishes its catalogue and reports ready, for good.
EventuallyPublished == <>[][~Failures]_projectVars => <>[](ready /\ Published)
=============================================================================
