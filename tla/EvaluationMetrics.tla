-------------------------- MODULE EvaluationMetrics --------------------------
(***************************************************************************)
(* The metrics loop of one cluster: scores read back from Langfuse, and    *)
(* the gauges Prometheus scrapes                                           *)
(* (src/applications/agent-evaluation/app: metrics_loop.py, metrics.py and *)
(* query_metrics of langfuse_client.py).                                   *)
(*                                                                         *)
(* A pass takes the last plan of the rules loop, asks Langfuse for counts  *)
(* window by window and query by query while new scores arrive, and then   *)
(* replaces the gauges one series at a time while another thread may serve *)
(* a scrape.  A step is one answered query or one change of a gauge; the   *)
(* queries of passed counts run in several threads, in any order.          *)
(***************************************************************************)
EXTENDS Integers, FiniteSets

CONSTANTS
  Agents,      \* the agents of the cluster that may be declared
  Objects,     \* evaluator objects
  Plans,       \* the plans of the rules loop: sets of records agent, object, threshold
  Windows,     \* 1..n, in the order of metrics_windows; a later window contains an earlier one
  Traces,      \* records of an id, an agent, a source (the rest of its tag array, source:chat or
               \* source:rca) and an age: the first of the windows it is still in
  Values,      \* what a score can be
  ChunkSize,   \* the number of agents whose tags fit in one query
  NoValue      \* a score not given, or a plan not made yet

ASSUME PlansAssumption ==
  \A p \in Plans :
    /\ IsFiniteSet(p)
    /\ \A t \in p :
         /\ t = [agent |-> t.agent, object |-> t.object, threshold |-> t.threshold]
         /\ t.agent \in Agents /\ t.object \in Objects /\ t.threshold \in Nat
    /\ \A t, u \in p : t.agent = u.agent /\ t.object = u.object => t = u
ASSUME TracesAssumption ==
  /\ IsFiniteSet(Traces)
  /\ \A x \in Traces : x = [id |-> x.id, agent |-> x.agent, source |-> x.source, age |-> x.age] /\ x.age \in Windows
ASSUME WindowsAssumption == Windows \subseteq Nat /\ 1 \in Windows /\ NoValue \notin Plans
ASSUME MetricsBoundsAssumption == Values \subseteq Nat /\ Agents \subseteq Nat /\ NoValue \notin Nat /\ ChunkSize \in Nat \ {0}

Gauges == {"scores", "passed", "pass_ratio", "score_avg"}

VARIABLES
  lastPlan,  \* ClusterLoop.last_plan
  stored,    \* the scores in Langfuse: of every trace, by each evaluator
  pass,      \* the locals of run_once
  gauges,    \* the series of each score gauge, written as the rows they were set from
  begun,     \* History: stored as it was when the pass began
  last       \* History: the rows of the last pass that was published

metricsVars == <<lastPlan, stored, pass, gauges, begun, last>>

Store == [Traces -> [Objects -> Values \union {NoValue}]]

Row == [agent : Agents, object : Objects, window : Windows, scored : Nat, passed : Nat]

NoCounts == [p \in {} |-> 0]

AtRest == [at |-> "idle", plan |-> {}, window |-> 1, todo |-> {}, observed |-> NoCounts,
           passed |-> NoCounts, rows |-> {}, left |-> {}, gauge |-> 1]

-----------------------------------------------------------------------------
(***************************************************************************)
(* Langfuse.                                                               *)
(***************************************************************************)

\* The traces of an agent in window w that have a score of at least the threshold in st.
Scored(st, agent, object, w, threshold) ==
  {x \in Traces : x.agent = agent /\ x.age <= w /\ st[x][object] # NoValue /\ st[x][object] >= threshold}

\* A judge answers, at any time, for a trace of any age.
ScoreArrives ==
  \E x \in Traces, o \in Objects, v \in Values :
    /\ stored[x][o] = NoValue
    /\ stored' = [stored EXCEPT ![x][o] = v]
    /\ UNCHANGED <<lastPlan, pass, gauges, begun, last>>

\* What a query grouped by tag array says of an agent, if anything: a row for every
\* array it has scores under, of which the one read last is remembered.
Answers(agent, object, threshold) ==
  LET scored == Scored(stored, agent, object, pass.window, threshold)
  IN  IF scored = {} THEN {0}
      ELSE {Cardinality({x \in scored : x.source = y.source}) : y \in scored}

\* The answers to a query about several agents and objects.
Read(pairs, threshold) ==
  {f \in [pairs -> 0..Cardinality(Traces)] : \A p \in pairs : f[p] \in Answers(p[1], p[2], threshold)}

\* The rules loop has planned again.
Planned ==
  /\ lastPlan' \in Plans \ {lastPlan}
  /\ UNCHANGED <<stored, pass, gauges, begun, last>>

-----------------------------------------------------------------------------
(***************************************************************************)
(* A pass.                                                                 *)
(***************************************************************************)

\* chunk_tags: the agents in order, as many at a time as fit.
Chunks(agents) ==
  LET Rank(a) == Cardinality({b \in agents : b < a})
  IN  {{a \in agents : Rank(a) \div ChunkSize = k} : k \in 0..Cardinality(agents)} \ {{}}

AgentsOf(plan) == {t.agent : t \in plan}

ObjectsOf(plan) == {t.object : t \in plan}

\* A plan without agents is published at once, as no series at all.
BeginMetrics ==
  /\ pass.at = "idle" /\ lastPlan # NoValue
  /\ pass' = [AtRest EXCEPT !.at = IF lastPlan = {} THEN "clear" ELSE "scored",
                            !.plan = lastPlan,
                            !.todo = Chunks(AgentsOf(lastPlan))]
  /\ begun' = stored
  /\ UNCHANGED <<lastPlan, stored, gauges, last>>

\* The passed counts asked for: of the agents something was scored of, by object and threshold.
Units(observed) ==
  LET Group(o, th) == {t.agent : t \in {u \in pass.plan : u.object = o /\ u.threshold = th /\ observed[<<u.agent, o>>] > 0}}
  IN  UNION {{[object |-> t.object, threshold |-> t.threshold, agents |-> chunk] :
                chunk \in Chunks(Group(t.object, t.threshold))} : t \in pass.plan}

\* One scored_query: all objects of the plan for the agents of a chunk.
ScoredAnswered ==
  /\ pass.at = "scored"
  /\ \E chunk \in pass.todo :
     \E answer \in Read(chunk \X ObjectsOf(pass.plan), 0) :
       LET observed == [p \in DOMAIN pass.observed \union DOMAIN answer |->
                          IF p \in DOMAIN answer THEN answer[p] ELSE pass.observed[p]]
           more == pass.todo \ {chunk}
       IN  pass' = [pass EXCEPT !.observed = observed,
                                !.at = IF more = {} THEN "passed" ELSE "scored",
                                !.todo = IF more = {} THEN Units(observed) ELSE more]
  /\ UNCHANGED <<lastPlan, stored, gauges, begun, last>>

\* Mutant: the chunk of a group that is answered last replaces the others.
Replacing(unit, answer) ==
  [p \in {q \in DOMAIN pass.passed :
            \E t \in pass.plan : t.agent = q[1] /\ t.object = q[2] /\
              ~(t.object = unit.object /\ t.threshold = unit.threshold)} \union DOMAIN answer |->
     IF p \in DOMAIN answer THEN answer[p] ELSE pass.passed[p]]

\* The rows of one chunk join those of the other chunks of its group.
Merged(unit, answer) ==
  [p \in DOMAIN pass.passed \union DOMAIN answer |->
     IF p \in DOMAIN answer THEN answer[p] ELSE pass.passed[p]]

\* One passed_query; they run at the same time.
PassedAnswered ==
  /\ pass.at = "passed"
  /\ \E unit \in pass.todo :
     \E answer \in Read(unit.agents \X {unit.object}, unit.threshold) :
       pass' = [pass EXCEPT !.passed = Merged(unit, answer), !.todo = @ \ {unit}]
  /\ UNCHANGED <<lastPlan, stored, gauges, begun, last>>

\* A LangfuseError or a MetricsSchemaError gives the pass up.
QueryFails ==
  /\ pass.at \in {"scored", "passed"} /\ pass.todo # {}
  /\ pass' = AtRest
  /\ UNCHANGED <<lastPlan, stored, gauges, begun, last>>

\* A score between the two queries may have passed without having been scored.
RowOf(t) ==
  LET scored == pass.observed[<<t.agent, t.object>>]
      p      == <<t.agent, t.object>>
      passed == IF p \in DOMAIN pass.passed THEN pass.passed[p] ELSE 0
  IN  [agent |-> t.agent, object |-> t.object, window |-> pass.window,
       scored |-> scored, passed |-> IF passed <= scored THEN passed ELSE scored]

\* The rows of a window are complete; after the last window they are published.
WindowDone ==
  /\ pass.at = "passed" /\ pass.todo = {}
  /\ LET rows == pass.rows \union {RowOf(t) : t \in pass.plan}
     IN  pass' = IF pass.window + 1 \in Windows
                 THEN [AtRest EXCEPT !.at = "scored", !.plan = pass.plan, !.window = pass.window + 1,
                                     !.todo = Chunks(AgentsOf(pass.plan)), !.rows = rows]
                 ELSE [AtRest EXCEPT !.at = "clear", !.plan = pass.plan, !.rows = rows]
  /\ UNCHANGED <<lastPlan, stored, gauges, begun, last>>

-----------------------------------------------------------------------------
(***************************************************************************)
(* publish_scores                                                          *)
(***************************************************************************)

InOrder == <<"scores", "passed", "pass_ratio", "score_avg">>

Current == InOrder[pass.gauge]

\* An idle agent has no ratio and no average.
Emits(g, row) == g \in {"scores", "passed"} \/ row.scored > 0

\* Mutant: series are set over those that are there.
NothingCleared ==
  /\ pass.at = "clear"
  /\ pass' = [pass EXCEPT !.at = "set", !.left = pass.rows]
  /\ UNCHANGED <<lastPlan, stored, gauges, begun, last>>

GaugeCleared ==
  /\ pass.at = "clear"
  /\ gauges' = [gauges EXCEPT ![Current] = {}]
  /\ pass' = IF pass.gauge < 4 THEN [pass EXCEPT !.gauge = @ + 1]
             ELSE [pass EXCEPT !.at = "set", !.gauge = 1, !.left = pass.rows]
  /\ UNCHANGED <<lastPlan, stored, begun, last>>

\* The series of a row, one gauge after the other.
SeriesSet ==
  /\ pass.at = "set" /\ pass.left # {}
  /\ LET row == CHOOSE r \in pass.left : TRUE IN
     /\ gauges' = [gauges EXCEPT ![Current] = @ \union IF Emits(Current, row) THEN {row} ELSE {}]
     /\ pass' = IF pass.gauge < 4 THEN [pass EXCEPT !.gauge = @ + 1]
                ELSE [pass EXCEPT !.gauge = 1, !.left = @ \ {row}]
  /\ UNCHANGED <<lastPlan, stored, begun, last>>

MetricsDone ==
  /\ pass.at = "set" /\ pass.left = {}
  /\ last' = pass.rows
  /\ pass' = AtRest
  /\ UNCHANGED <<lastPlan, stored, gauges, begun>>

-----------------------------------------------------------------------------
MetricsInit ==
  /\ lastPlan = NoValue
  /\ stored = [x \in Traces |-> [o \in Objects |-> NoValue]]
  /\ pass = AtRest
  /\ gauges = [g \in Gauges |-> {}]
  /\ begun = stored
  /\ last = {}

MetricsNext ==
  \/ ScoreArrives \/ Planned
  \/ BeginMetrics \/ ScoredAnswered \/ PassedAnswered \/ QueryFails \/ WindowDone
  \/ GaugeCleared \/ SeriesSet \/ MetricsDone

MetricsSpec == MetricsInit /\ [][MetricsNext]_metricsVars

-----------------------------------------------------------------------------
MetricsTypeOK ==
  /\ lastPlan \in Plans \union {NoValue}
  /\ stored \in Store
  /\ begun \in Store
  /\ pass.at \in {"idle", "scored", "passed", "clear", "set"}
  /\ pass.plan \in Plans \union {{}}
  /\ pass.window \in Windows
  /\ pass.rows \subseteq Row
  /\ pass.left \subseteq pass.rows
  /\ pass.gauge \in 1..4
  /\ gauges \in [Gauges -> SUBSET Row]
  /\ last \subseteq Row

\* The traces an agent has scores of carry one and the same tag array.
OneArray(agent, object) ==
  \A x, y \in {z \in Traces : z.agent = agent /\ stored[z][object] # NoValue} : x.source = y.source

\* metrics_loop.py: whatever arrives between the queries and however they are split, no
\* count is of scores that are not there, no more have passed than were scored, and
\* none that was there when the pass began is missed, of an agent with one tag array.
CountsAreReal ==
  \A t \in pass.plan, r \in pass.rows :
    (r.agent = t.agent /\ r.object = t.object) =>
      /\ r.passed <= r.scored
      /\ r.scored <= Cardinality(Scored(stored, r.agent, r.object, r.window, 0))
      /\ r.passed <= Cardinality(Scored(stored, r.agent, r.object, r.window, t.threshold))
      /\ OneArray(r.agent, r.object) =>
           /\ r.scored >= Cardinality(Scored(begun, r.agent, r.object, r.window, 0))
           /\ r.passed >= Cardinality(Scored(begun, r.agent, r.object, r.window, t.threshold))

\* metrics.py: "a complete picture or none of it".  A scrape reads one gauge after the
\* other, so what it sees of a gauge is of one pass at any moment, and while nothing is
\* being published the gauges agree: a pass that fails leaves them alone, and nothing
\* stays of an agent that has been deleted.
GaugesShowOnePass ==
  /\ \A g \in Gauges : gauges[g] \subseteq last \/ gauges[g] \subseteq pass.rows
  /\ pass.at \notin {"clear", "set"} => \A g \in Gauges : gauges[g] = {r \in last : Emits(g, r)}
=============================================================================
