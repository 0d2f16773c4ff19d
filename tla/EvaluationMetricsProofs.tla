---------------------- MODULE EvaluationMetricsProofs ----------------------
(***************************************************************************)
(* Proofs about the metrics loop: for any plans, traces, windows and chunk *)
(* sizes, what a pass counts is real and what the gauges show is of one    *)
(* pass.  The argument is that a pair of the plan is at any moment either  *)
(* answered or in a query still to be made, under the threshold of its own *)
(* plan entry, and that scores only ever come: an answer given between     *)
(* begun and stored stays between them.                                    *)
(***************************************************************************)
EXTENDS EvaluationMetrics, FiniteSetTheorems, TLAPS

LEMMA Quotient ==
  ASSUME NEW r \in Nat, NEW c \in Nat \ {0}
  PROVE  r \div c \in 0..r
OBVIOUS

\* chunk_tags leaves nobody out, and adds nobody.
LEMMA ChunksCover ==
  ASSUME NEW agents, IsFiniteSet(agents), agents \subseteq Nat
  PROVE  /\ \A c \in Chunks(agents) : c \subseteq agents
         /\ \A a \in agents : \E c \in Chunks(agents) : a \in c
<1>1. \A c \in Chunks(agents) : c \subseteq agents
  BY DEF Chunks
<1>2. ASSUME NEW a \in agents
      PROVE  \E c \in Chunks(agents) : a \in c
  <2>1. PICK r, k, n :
          /\ r = Cardinality({b \in agents : b < a})
          /\ k = r \div ChunkSize /\ n = Cardinality(agents)
    OBVIOUS
  <2>2. r \in Nat /\ n \in Nat /\ r <= n
    <3>1. {b \in agents : b < a} \subseteq agents
      OBVIOUS
    <3> QED BY <2>1, <3>1, FS_Subset, FS_CardinalityType
  <2>3. k \in 0..n
    <3>1. k \in 0..r
      BY <2>1, <2>2, Quotient, MetricsBoundsAssumption
    <3> QED BY <2>2, <3>1
  <2>4. PICK c : c = {b \in agents : Cardinality({d \in agents : d < b}) \div ChunkSize = k}
    OBVIOUS
  <2>5. a \in c
    BY <2>1, <2>4
  <2>6. c \in Chunks(agents)
    BY <2>1, <2>3, <2>4, <2>5 DEF Chunks
  <2> QED BY <2>5, <2>6
<1> QED BY <1>1, <1>2

-----------------------------------------------------------------------------
(***************************************************************************)
(* The inductive invariant.                                                *)
(***************************************************************************)

Count(st, a, o, w, th) == Cardinality(Scored(st, a, o, w, th))

\* A count is of scores that are there, and of all that were there when the pass began
\* if the agent has one tag array.
Real(c, a, o, w, th) ==
  /\ c \in Nat
  /\ c <= Count(stored, a, o, w, th)
  /\ OneArray(a, o) => c >= Count(begun, a, o, w, th)

Within(st, st2) == \A x \in Traces, o \in Objects : st[x][o] # NoValue => st2[x][o] = st[x][o]

PassShape ==
  pass = [at |-> pass.at, plan |-> pass.plan, window |-> pass.window, todo |-> pass.todo,
          observed |-> pass.observed, passed |-> pass.passed, rows |-> pass.rows,
          left |-> pass.left, gauge |-> pass.gauge]

\* Nobody the plan asks about is forgotten: a pair has been answered, or is in a chunk
\* still to be asked about; and a passed count is asked for under the pair's threshold.
AskInv ==
  /\ pass.at = "scored" =>
       /\ DOMAIN pass.passed = {}
       /\ \A t \in pass.plan :
            (\E c \in pass.todo : t.agent \in c) \/ <<t.agent, t.object>> \in DOMAIN pass.observed
  /\ pass.at = "passed" =>
       /\ \A t \in pass.plan : <<t.agent, t.object>> \in DOMAIN pass.observed
       /\ \A u \in pass.todo, a \in Agents :
            a \in u.agents => \E t \in pass.plan : t.agent = a /\ t.object = u.object /\ t.threshold = u.threshold
       /\ \A t \in pass.plan :
            pass.observed[<<t.agent, t.object>>] > 0 =>
              \/ <<t.agent, t.object>> \in DOMAIN pass.passed
              \/ \E u \in pass.todo : u.object = t.object /\ u.threshold = t.threshold /\ t.agent \in u.agents

CountInv ==
  /\ \A t \in pass.plan :
       LET p == <<t.agent, t.object>> IN
       /\ p \in DOMAIN pass.observed => Real(pass.observed[p], t.agent, t.object, pass.window, 0)
       /\ p \in DOMAIN pass.passed => Real(pass.passed[p], t.agent, t.object, pass.window, t.threshold)
  /\ \A t \in pass.plan, r \in pass.rows :
       (r.agent = t.agent /\ r.object = t.object) =>
         /\ Real(r.scored, t.agent, t.object, r.window, 0)
         /\ Real(r.passed, t.agent, t.object, r.window, t.threshold)
         /\ r.passed <= r.scored

\* The rows whose series a gauge has, while they are being set.
Done(k) == (pass.rows \ pass.left) \union IF k < pass.gauge THEN {CHOOSE r \in pass.left : TRUE} ELSE {}

GaugeInv ==
  /\ pass.at # "set" => pass.left = {}
  /\ pass.at \notin {"clear", "set"} => \A g \in Gauges : gauges[g] = {r \in last : Emits(g, r)}
  /\ pass.at = "clear" =>
       \A k \in 1..4 : gauges[InOrder[k]] = IF k < pass.gauge THEN {} ELSE {r \in last : Emits(InOrder[k], r)}
  /\ pass.at = "set" =>
       /\ pass.left = {} => pass.gauge = 1
       /\ \A k \in 1..4 : gauges[InOrder[k]] = {r \in Done(k) : Emits(InOrder[k], r)}

IInv == MetricsTypeOK /\ PassShape /\ Within(begun, stored) /\ AskInv /\ CountInv /\ GaugeInv

-----------------------------------------------------------------------------
(***************************************************************************)
(* What a query can answer.                                                *)
(***************************************************************************)

\* Scores are never taken back, so the traces counted only grow.
LEMMA ScoredGrows ==
  ASSUME NEW st, NEW st2, NEW a, NEW o \in Objects, NEW w, NEW th, Within(st, st2)
  PROVE  /\ Count(st, a, o, w, th) \in Nat /\ Count(st2, a, o, w, th) \in Nat
         /\ Count(st, a, o, w, th) <= Count(st2, a, o, w, th)
<1>1. Scored(st, a, o, w, th) \subseteq Scored(st2, a, o, w, th)
  BY DEF Scored, Within
<1>2. Scored(st2, a, o, w, th) \subseteq Traces
  BY DEF Scored
<1>3. IsFiniteSet(Scored(st2, a, o, w, th))
  BY <1>2, TracesAssumption, FS_Subset
<1> QED BY <1>1, <1>3, FS_Subset, FS_CardinalityType DEF Count

\* What has passed a threshold has been scored.
LEMMA PassedAreScored ==
  ASSUME NEW st \in Store, NEW a, NEW o \in Objects, NEW w, NEW th \in Nat
  PROVE  /\ Count(st, a, o, w, th) \in Nat /\ Count(st, a, o, w, 0) \in Nat
         /\ Count(st, a, o, w, th) <= Count(st, a, o, w, 0)
<1>1. Scored(st, a, o, w, th) \subseteq Scored(st, a, o, w, 0)
  <2> SUFFICES ASSUME NEW x \in Traces, st[x][o] # NoValue, st[x][o] >= th
               PROVE  st[x][o] >= 0
    BY DEF Scored
  <2>1. st[x][o] \in Nat
    BY MetricsBoundsAssumption DEF Store
  <2> QED BY <2>1
<1>2. Scored(st, a, o, w, 0) \subseteq Traces
  BY DEF Scored
<1>3. IsFiniteSet(Scored(st, a, o, w, 0))
  BY <1>2, TracesAssumption, FS_Subset
<1> QED BY <1>1, <1>3, FS_Subset, FS_CardinalityType DEF Count

\* Whichever array is read last, the answer is of scores that are there; with one array
\* it is of all of them.
LEMMA AnswersAreReal ==
  ASSUME NEW a, NEW o \in Objects, NEW th, NEW c \in Answers(a, o, th), Within(begun, stored)
  PROVE  Real(c, a, o, pass.window, th)
<1> DEFINE S == Scored(stored, a, o, pass.window, th)
<1>1. S \subseteq Traces /\ IsFiniteSet(S)
  BY TracesAssumption, FS_Subset DEF Scored
<1>2. /\ Count(stored, a, o, pass.window, th) = Cardinality(S)
      /\ Cardinality(S) \in Nat /\ Count(begun, a, o, pass.window, th) \in Nat
      /\ Count(begun, a, o, pass.window, th) <= Cardinality(S)
  BY <1>1, ScoredGrows, FS_CardinalityType DEF Count
<1>3. CASE S = {}
  <2>1. c = 0
    BY <1>3 DEF Answers
  <2>2. Cardinality(S) = 0
    BY <1>3, FS_EmptySet
  <2> QED BY <1>2, <2>1, <2>2 DEF Real
<1>4. CASE S # {}
  <2>1. PICK y \in S : c = Cardinality({x \in S : x.source = y.source})
    BY <1>4 DEF Answers
  <2> DEFINE T == {x \in S : x.source = y.source}
  <2>2. c \in Nat /\ c <= Cardinality(S)
    <3>1. T \subseteq S
      OBVIOUS
    <3> QED BY <1>1, <2>1, <3>1, FS_Subset, FS_CardinalityType
  <2>3. OneArray(a, o) => c = Cardinality(S)
    <3>1. SUFFICES ASSUME OneArray(a, o) PROVE T = S
      BY <2>1
    <3>2. S \subseteq {z \in Traces : z.agent = a /\ stored[z][o] # NoValue}
      BY DEF Scored
    <3> QED BY <3>1, <3>2 DEF OneArray
  <2> QED BY <1>2, <2>2, <2>3 DEF Real
<1> QED BY <1>3, <1>4

\* A score that arrives leaves a real count real.
LEMMA RealStays ==
  ASSUME NEW c, NEW a, NEW o \in Objects, NEW w, NEW th, Real(c, a, o, w, th),
         Within(stored, stored'), begun' = begun
  PROVE  Real(c, a, o, w, th)'
<1>1. OneArray(a, o)' => OneArray(a, o)
  BY DEF OneArray, Within
<1>2. /\ Count(stored, a, o, w, th) \in Nat /\ Count(stored', a, o, w, th) \in Nat
      /\ Count(stored, a, o, w, th) <= Count(stored', a, o, w, th)
  BY ScoredGrows
<1>3. Real(c, a, o, w, th)' <=>
        /\ c \in Nat
        /\ c <= Count(stored', a, o, w, th)
        /\ OneArray(a, o)' => c >= Count(begun, a, o, w, th)
  BY DEF Real, Count, Scored
<1> QED BY <1>1, <1>2, <1>3 DEF Real

-----------------------------------------------------------------------------
(***************************************************************************)
(* The plan, and what is asked for it.                                     *)
(***************************************************************************)

LEMMA PlanShape ==
  ASSUME NEW plan \in Plans \union {{}}
  PROVE  /\ IsFiniteSet(plan)
         /\ \A t \in plan : t.agent \in Agents /\ t.agent \in Nat /\ t.object \in Objects /\ t.threshold \in Nat
         /\ \A t, u \in plan : t.agent = u.agent /\ t.object = u.object => t = u
BY PlansAssumption, MetricsBoundsAssumption, FS_EmptySet

\* The agents of some of a plan are finitely many numbers.
LEMMA AgentsFinite ==
  ASSUME NEW plan \in Plans \union {{}}, NEW part \in SUBSET plan
  PROVE  IsFiniteSet({t.agent : t \in part}) /\ {t.agent : t \in part} \subseteq Nat
<1>1. IsFiniteSet(part)
  BY PlanShape, FS_Subset
<1>2. PICK agents, f : agents = {t.agent : t \in part} /\ f = [t \in part |-> t.agent]
  OBVIOUS
<1>3. f \in Surjection(part, agents)
  BY <1>2 DEF Surjection
<1>4. IsFiniteSet(agents)
  BY <1>1, <1>3, FS_Surjection
<1>5. {t.agent : t \in part} \subseteq Nat
  BY PlanShape
<1> QED BY <1>2, <1>4, <1>5

LEMMA AgentsCovered ==
  ASSUME NEW plan \in Plans \union {{}}
  PROVE  /\ \A c \in Chunks(AgentsOf(plan)) : c \subseteq AgentsOf(plan)
         /\ \A a \in AgentsOf(plan) : \E c \in Chunks(AgentsOf(plan)) : a \in c
<1>1. IsFiniteSet(AgentsOf(plan)) /\ AgentsOf(plan) \subseteq Nat
  BY AgentsFinite DEF AgentsOf
<1> QED BY <1>1, ChunksCover

\* The agents a passed count is asked of, and the queries of one object and threshold.
Asked(observed, o, th) == {t.agent : t \in {u \in pass.plan : u.object = o /\ u.threshold = th /\ observed[<<u.agent, o>>] > 0}}

Queries(observed, o, th) == {[object |-> o, threshold |-> th, agents |-> chunk] : chunk \in Chunks(Asked(observed, o, th))}

\* A passed count is asked for of whoever was scored, under the threshold of the plan.
LEMMA UnitsCover ==
  ASSUME NEW observed, pass.plan \in Plans \union {{}}
  PROVE  /\ \A u \in Units(observed), a \in Agents :
              a \in u.agents => \E t \in pass.plan : t.agent = a /\ t.object = u.object /\ t.threshold = u.threshold
         /\ \A t \in pass.plan :
              observed[<<t.agent, t.object>>] > 0 =>
                \E u \in Units(observed) : u.object = t.object /\ u.threshold = t.threshold /\ t.agent \in u.agents
<1>1. Units(observed) = UNION {Queries(observed, t.object, t.threshold) : t \in pass.plan}
  BY DEF Units, Queries, Asked
<1>2. ASSUME NEW o, NEW th
      PROVE  /\ \A c \in Chunks(Asked(observed, o, th)) : c \subseteq Asked(observed, o, th)
             /\ \A a \in Asked(observed, o, th) : \E c \in Chunks(Asked(observed, o, th)) : a \in c
  <2>1. IsFiniteSet(Asked(observed, o, th)) /\ Asked(observed, o, th) \subseteq Nat
    BY AgentsFinite DEF Asked
  <2> QED BY <2>1, ChunksCover
<1>3. ASSUME NEW u \in Units(observed), NEW a \in Agents, a \in u.agents
      PROVE  \E t \in pass.plan : t.agent = a /\ t.object = u.object /\ t.threshold = u.threshold
  <2>1. PICK t \in pass.plan : u \in Queries(observed, t.object, t.threshold)
    BY <1>1, <1>3
  <2>2. PICK chunk \in Chunks(Asked(observed, t.object, t.threshold)) :
          u = [object |-> t.object, threshold |-> t.threshold, agents |-> chunk]
    BY <2>1 DEF Queries
  <2>3. a \in Asked(observed, t.object, t.threshold)
    BY <1>2, <1>3, <2>2
  <2> QED BY <2>2, <2>3 DEF Asked
<1>4. ASSUME NEW t \in pass.plan, observed[<<t.agent, t.object>>] > 0
      PROVE  \E u \in Units(observed) : u.object = t.object /\ u.threshold = t.threshold /\ t.agent \in u.agents
  <2>1. t.agent \in Asked(observed, t.object, t.threshold)
    BY <1>4 DEF Asked
  <2>2. PICK chunk \in Chunks(Asked(observed, t.object, t.threshold)) : t.agent \in chunk
    BY <1>2, <2>1
  <2>3. PICK u : u = [object |-> t.object, threshold |-> t.threshold, agents |-> chunk]
    OBVIOUS
  <2>4. u \in Queries(observed, t.object, t.threshold)
    BY <2>3 DEF Queries
  <2>5. u \in Units(observed)
    BY <1>1, <2>4
  <2> QED BY <2>2, <2>3, <2>5
<1> QED BY <1>3, <1>4

-----------------------------------------------------------------------------
(***************************************************************************)
(* Every step keeps the invariant.                                         *)
(***************************************************************************)

LEMMA ArrivalKeeps ==
  ASSUME IInv, ScoreArrives
  PROVE  IInv'
<1>1. PICK x \in Traces, o \in Objects, v \in Values :
        /\ stored[x][o] = NoValue
        /\ stored' = [stored EXCEPT ![x][o] = v]
        /\ UNCHANGED <<lastPlan, pass, gauges, begun, last>>
  BY DEF ScoreArrives
<1>2. stored \in Store /\ begun \in Store /\ Within(begun, stored)
  BY DEF IInv, MetricsTypeOK
<1>3. stored' \in Store /\ Within(stored, stored') /\ Within(begun, stored')
  BY <1>1, <1>2 DEF Store, Within
<1>4. CountInv'
  <2>1. pass' = pass /\ begun' = begun /\ pass.plan \in Plans \union {{}}
    BY <1>1 DEF IInv, MetricsTypeOK
  <2>2. \A t \in pass.plan : t.object \in Objects
    BY <2>1, PlanShape
  <2>3. CountInv
    BY DEF IInv
  <2>4. ASSUME NEW t \in pass.plan
        PROVE  LET p == <<t.agent, t.object>> IN
               /\ p \in DOMAIN pass.observed => Real(pass.observed[p], t.agent, t.object, pass.window, 0)'
               /\ p \in DOMAIN pass.passed => Real(pass.passed[p], t.agent, t.object, pass.window, t.threshold)'
    <3>1. PICK p, w, c, d : p = <<t.agent, t.object>> /\ w = pass.window /\ c = pass.observed[p] /\ d = pass.passed[p]
      OBVIOUS
    <3>2. p \in DOMAIN pass.observed => Real(c, t.agent, t.object, w, 0)
      BY <2>3, <3>1 DEF CountInv
    <3>3. p \in DOMAIN pass.passed => Real(d, t.agent, t.object, w, t.threshold)
      BY <2>3, <3>1 DEF CountInv
    <3>4. t.object \in Objects
      BY <2>2
    <3>5. p \in DOMAIN pass.observed => Real(c, t.agent, t.object, w, 0)'
      BY <1>3, <2>1, <3>2, <3>4, RealStays
    <3>6. p \in DOMAIN pass.passed => Real(d, t.agent, t.object, w, t.threshold)'
      BY <1>3, <2>1, <3>3, <3>4, RealStays
    <3>7. pass'.window = w /\ pass'.observed[p] = c /\ pass'.passed[p] = d
      BY <2>1, <3>1
    <3> QED BY <2>1, <3>1, <3>5, <3>6, <3>7 DEF Real, Count, Scored, OneArray
  <2>5. ASSUME NEW t \in pass.plan, NEW r \in pass.rows, r.agent = t.agent, r.object = t.object
        PROVE  /\ Real(r.scored, t.agent, t.object, r.window, 0)'
               /\ Real(r.passed, t.agent, t.object, r.window, t.threshold)'
               /\ r.passed <= r.scored
    <3>1. /\ Real(r.scored, t.agent, t.object, r.window, 0)
          /\ Real(r.passed, t.agent, t.object, r.window, t.threshold)
          /\ r.passed <= r.scored
      BY <2>3, <2>5 DEF CountInv
    <3>2. t.object \in Objects
      BY <2>2
    <3> QED BY <1>3, <2>1, <3>1, <3>2, RealStays
  <2> QED BY <2>1, <2>4, <2>5 DEF CountInv
<1> QED BY <1>1, <1>2, <1>3, <1>4 DEF IInv, MetricsTypeOK, PassShape, Within, AskInv, GaugeInv, Done

\* Whether a count is real is a matter of the scores alone.
LEMMA RealSame ==
  ASSUME NEW c, NEW a, NEW o, NEW w, NEW th, stored' = stored, begun' = begun
  PROVE  Real(c, a, o, w, th)' <=> Real(c, a, o, w, th)
BY DEF Real, Count, Scored, OneArray

LEMMA CountSame ==
  ASSUME stored' = stored, begun' = begun, pass'.plan = pass.plan, pass'.window = pass.window,
         pass'.observed = pass.observed, pass'.passed = pass.passed, pass'.rows = pass.rows
  PROVE  CountInv' <=> CountInv
<1>1. \A c, a, o, w, th : Real(c, a, o, w, th)' <=> Real(c, a, o, w, th)
  BY RealSame
<1> QED BY <1>1 DEF CountInv, Real, Count, Scored, OneArray

LEMMA PlannedKeeps ==
  ASSUME IInv, Planned
  PROVE  IInv'
<1>1. UNCHANGED <<stored, pass, gauges, begun, last>> /\ lastPlan' \in Plans
  BY DEF Planned
<1>2. CountInv' <=> CountInv
  BY <1>1, CountSame
<1> QED BY <1>1, <1>2 DEF IInv, MetricsTypeOK, PassShape, Within, AskInv, GaugeInv, Done

LEMMA StutterKeeps ==
  ASSUME IInv, UNCHANGED metricsVars
  PROVE  IInv'
<1>1. UNCHANGED <<lastPlan, stored, pass, gauges, begun, last>>
  BY DEF metricsVars
<1>2. CountInv' <=> CountInv
  BY <1>1, CountSame
<1> QED BY <1>1, <1>2 DEF IInv, MetricsTypeOK, PassShape, Within, AskInv, GaugeInv, Done

LEMMA AtRestFields ==
  /\ AtRest.at = "idle" /\ AtRest.plan = {} /\ AtRest.window = 1 /\ AtRest.rows = {} /\ AtRest.left = {}
  /\ AtRest.gauge = 1 /\ DOMAIN AtRest.observed = {} /\ DOMAIN AtRest.passed = {}
BY DEF AtRest, NoCounts

LEMMA BeginKeeps ==
  ASSUME IInv, BeginMetrics
  PROVE  IInv'
<1>1. /\ pass.at = "idle" /\ lastPlan \in Plans
      /\ pass' = [AtRest EXCEPT !.at = IF lastPlan = {} THEN "clear" ELSE "scored",
                                !.plan = lastPlan, !.todo = Chunks(AgentsOf(lastPlan))]
      /\ begun' = stored
      /\ UNCHANGED <<lastPlan, stored, gauges, last>>
  BY DEF BeginMetrics, IInv, MetricsTypeOK
<1>2. /\ pass'.at = IF lastPlan = {} THEN "clear" ELSE "scored"
      /\ pass'.plan = lastPlan /\ pass'.todo = Chunks(AgentsOf(lastPlan)) /\ pass'.window = 1
      /\ pass'.rows = {} /\ pass'.left = {} /\ pass'.gauge = 1
      /\ DOMAIN pass'.observed = {} /\ DOMAIN pass'.passed = {}
  BY <1>1 DEF AtRest, NoCounts
<1>3. PassShape'
  BY <1>1 DEF AtRest, PassShape
<1>4. MetricsTypeOK'
  BY <1>1, <1>2, WindowsAssumption DEF IInv, MetricsTypeOK
<1>5. Within(begun, stored)'
  BY <1>1 DEF Within
<1>6. AskInv'
  <2>1. \A a \in AgentsOf(lastPlan) : \E c \in Chunks(AgentsOf(lastPlan)) : a \in c
    BY <1>1, AgentsCovered
  <2>2. \A t \in lastPlan : t.agent \in AgentsOf(lastPlan)
    BY DEF AgentsOf
  <2> QED BY <1>2, <2>1, <2>2 DEF AskInv
<1>7. CountInv'
  BY <1>2 DEF CountInv
<1>8. GaugeInv'
  <2>1. \A g \in Gauges : gauges[g] = {r \in last : Emits(g, r)}
    BY <1>1 DEF IInv, GaugeInv
  <2>2. \A k \in 1..4 : InOrder[k] \in Gauges
    BY DEF InOrder, Gauges
  <2>3. UNCHANGED <<gauges, last>>
    BY <1>1
  <2> QED BY <1>2, <2>1, <2>2, <2>3 DEF GaugeInv, Emits
<1> QED BY <1>3, <1>4, <1>5, <1>6, <1>7, <1>8 DEF IInv

\* What makes one row of a pass right.
RowReal(t, r) ==
  (r.agent = t.agent /\ r.object = t.object) =>
    /\ Real(r.scored, t.agent, t.object, r.window, 0)
    /\ Real(r.passed, t.agent, t.object, r.window, t.threshold)
    /\ r.passed <= r.scored

\* While no score arrives, the new counts may be judged by the scores of the state before.
LEMMA CountNow ==
  ASSUME stored' = stored, begun' = begun,
         \A t \in pass'.plan : <<t.agent, t.object>> \in DOMAIN pass'.observed =>
           Real(pass'.observed[<<t.agent, t.object>>], t.agent, t.object, pass'.window, 0),
         \A t \in pass'.plan : <<t.agent, t.object>> \in DOMAIN pass'.passed =>
           Real(pass'.passed[<<t.agent, t.object>>], t.agent, t.object, pass'.window, t.threshold),
         \A t \in pass'.plan, r \in pass'.rows : RowReal(t, r)
  PROVE  CountInv'
<1>1. \A c, a, o, w, th : Real(c, a, o, w, th)' <=> Real(c, a, o, w, th)
  BY RealSame
<1>2. PICK plan, w, observed, passed, rows :
        /\ pass'.plan = plan /\ pass'.window = w /\ pass'.observed = observed
        /\ pass'.passed = passed /\ pass'.rows = rows
  OBVIOUS
<1>3. \A t \in plan : <<t.agent, t.object>> \in DOMAIN observed =>
        Real(observed[<<t.agent, t.object>>], t.agent, t.object, w, 0)'
  BY <1>1, <1>2
<1>4. \A t \in plan : <<t.agent, t.object>> \in DOMAIN passed =>
        Real(passed[<<t.agent, t.object>>], t.agent, t.object, w, t.threshold)'
  BY <1>1, <1>2
<1>5. \A t \in plan, r \in rows : (r.agent = t.agent /\ r.object = t.object) =>
        /\ Real(r.scored, t.agent, t.object, r.window, 0)'
        /\ Real(r.passed, t.agent, t.object, r.window, t.threshold)'
        /\ r.passed <= r.scored
  BY <1>1, <1>2 DEF RowReal
<1> QED BY <1>2, <1>3, <1>4, <1>5, ZenonT(60) DEF CountInv, Real, Count, Scored, OneArray

\* What is answered about a pair is real, and every pair asked about is answered.
LEMMA ReadIsReal ==
  ASSUME NEW pairs, NEW th, NEW answer \in Read(pairs, th), Within(begun, stored),
         NEW a, NEW o \in Objects, <<a, o>> \in pairs
  PROVE  DOMAIN answer = pairs /\ Real(answer[<<a, o>>], a, o, pass.window, th)
<1>1. DOMAIN answer = pairs /\ \A p \in pairs : answer[p] \in Answers(p[1], p[2], th)
  BY DEF Read
<1>2. answer[<<a, o>>] \in Answers(a, o, th)
  BY <1>1
<1> QED BY <1>1, <1>2, AnswersAreReal

LEMMA ScoredKeeps ==
  ASSUME IInv, ScoredAnswered
  PROVE  IInv'
<1>1. UNCHANGED <<lastPlan, stored, gauges, begun, last>> /\ pass.at = "scored"
  BY DEF ScoredAnswered
<1>2. PICK chunk, answer :
        /\ chunk \in pass.todo /\ answer \in Read(chunk \X ObjectsOf(pass.plan), 0)
        /\ LET observed == [p \in DOMAIN pass.observed \union DOMAIN answer |->
                              IF p \in DOMAIN answer THEN answer[p] ELSE pass.observed[p]]
               more == pass.todo \ {chunk}
           IN  pass' = [pass EXCEPT !.observed = observed,
                                    !.at = IF more = {} THEN "passed" ELSE "scored",
                                    !.todo = IF more = {} THEN Units(observed) ELSE more]
  BY DEF ScoredAnswered
<1>0. PICK observed, more :
        /\ observed = [p \in DOMAIN pass.observed \union DOMAIN answer |->
                         IF p \in DOMAIN answer THEN answer[p] ELSE pass.observed[p]]
        /\ more = pass.todo \ {chunk}
        /\ pass' = [pass EXCEPT !.observed = observed,
                                !.at = IF more = {} THEN "passed" ELSE "scored",
                                !.todo = IF more = {} THEN Units(observed) ELSE more]
  BY <1>2
<1>3. PassShape /\ MetricsTypeOK /\ Within(begun, stored) /\ AskInv /\ CountInv /\ GaugeInv
  BY DEF IInv
<1>4. /\ pass'.at = (IF more = {} THEN "passed" ELSE "scored")
      /\ pass'.todo = (IF more = {} THEN Units(observed) ELSE more) /\ pass'.observed = observed
      /\ pass'.plan = pass.plan /\ pass'.window = pass.window /\ pass'.passed = pass.passed
      /\ pass'.rows = pass.rows /\ pass'.left = pass.left /\ pass'.gauge = pass.gauge
  <2>1. pass = [at |-> pass.at, plan |-> pass.plan, window |-> pass.window, todo |-> pass.todo,
                observed |-> pass.observed, passed |-> pass.passed, rows |-> pass.rows,
                left |-> pass.left, gauge |-> pass.gauge]
    BY <1>3 DEF PassShape
  <2> QED BY <1>0, <2>1
<1>5. PassShape'
  BY <1>0, <1>3 DEF PassShape
<1>6. MetricsTypeOK'
  BY <1>1, <1>3, <1>4 DEF MetricsTypeOK
<1>7. Within(begun, stored)'
  BY <1>1, <1>3 DEF Within
<1>8. pass.plan \in Plans \union {{}} /\ \A t \in pass.plan : t.object \in Objects /\ t.agent \in Agents
  BY <1>3, PlanShape DEF MetricsTypeOK
<1>9. DOMAIN answer = chunk \X ObjectsOf(pass.plan) /\ DOMAIN observed = DOMAIN pass.observed \union DOMAIN answer
  BY <1>0, <1>2 DEF Read
<1>10. AskInv'
  <2>1. \A t \in pass.plan : (\E c \in more : t.agent \in c) \/ <<t.agent, t.object>> \in DOMAIN observed
    <3>1. \A t \in pass.plan : (\E c \in pass.todo : t.agent \in c) \/ <<t.agent, t.object>> \in DOMAIN pass.observed
      BY <1>1, <1>3 DEF AskInv
    <3>2. \A t \in pass.plan : t.agent \in chunk => <<t.agent, t.object>> \in DOMAIN answer
      BY <1>9 DEF ObjectsOf
    <3> QED BY <1>0, <1>9, <3>1, <3>2
  <2>2. CASE more = {}
    <3>1. \A t \in pass.plan : <<t.agent, t.object>> \in DOMAIN observed
      BY <2>1, <2>2
    <3>2. \A u \in Units(observed), a \in Agents :
            a \in u.agents => \E t \in pass.plan : t.agent = a /\ t.object = u.object /\ t.threshold = u.threshold
      BY <1>8, UnitsCover
    <3>3. \A t \in pass.plan :
            observed[<<t.agent, t.object>>] > 0 =>
              \E u \in Units(observed) : u.object = t.object /\ u.threshold = t.threshold /\ t.agent \in u.agents
      BY <1>8, UnitsCover
    <3> QED BY <1>4, <2>2, <3>1, <3>2, <3>3 DEF AskInv
  <2>3. CASE more # {}
    <3>1. DOMAIN pass.passed = {}
      BY <1>1, <1>3 DEF AskInv
    <3> QED BY <1>4, <2>1, <2>3, <3>1 DEF AskInv
  <2> QED BY <2>2, <2>3
<1>11. CountInv'
  <2>2. ASSUME NEW t \in pass.plan, <<t.agent, t.object>> \in DOMAIN observed
        PROVE  Real(observed[<<t.agent, t.object>>], t.agent, t.object, pass.window, 0)
    <3>1. CASE <<t.agent, t.object>> \in DOMAIN answer
      <4>1. Real(answer[<<t.agent, t.object>>], t.agent, t.object, pass.window, 0)
        BY <1>2, <1>3, <1>8, <1>9, <3>1, ReadIsReal
      <4> QED BY <1>0, <1>9, <3>1, <4>1
    <3>2. CASE <<t.agent, t.object>> \notin DOMAIN answer
      <4>1. <<t.agent, t.object>> \in DOMAIN pass.observed
        BY <1>9, <2>2, <3>2
      <4>2. Real(pass.observed[<<t.agent, t.object>>], t.agent, t.object, pass.window, 0)
        BY <1>3, <4>1 DEF CountInv
      <4> QED BY <1>0, <3>2, <4>1, <4>2
    <3> QED BY <3>1, <3>2
  <2>3. \A t \in pass.plan : <<t.agent, t.object>> \in DOMAIN pass.passed =>
                             Real(pass.passed[<<t.agent, t.object>>], t.agent, t.object, pass.window, t.threshold)
    BY <1>3 DEF CountInv
  <2>4. \A t \in pass.plan, r \in pass.rows : RowReal(t, r)
    BY <1>3 DEF CountInv, RowReal
  <2> QED BY <1>1, <1>4, <2>2, <2>3, <2>4, CountNow
<1>12. GaugeInv'
  BY <1>1, <1>3, <1>4 DEF GaugeInv
<1> QED BY <1>5, <1>6, <1>7, <1>10, <1>11, <1>12 DEF IInv

\* A pass that is given up leaves the gauges as the last one set them.
LEMMA FailureKeeps ==
  ASSUME IInv, QueryFails
  PROVE  IInv'
<1>1. /\ pass.at \in {"scored", "passed"} /\ pass' = AtRest
      /\ UNCHANGED <<lastPlan, stored, gauges, begun, last>>
  BY DEF QueryFails
<1>2. PassShape'
  BY <1>1 DEF AtRest, PassShape
<1>3. MetricsTypeOK'
  BY <1>1, AtRestFields, WindowsAssumption DEF IInv, MetricsTypeOK
<1>4. CountInv' /\ AskInv'
  BY <1>1, AtRestFields DEF CountInv, AskInv
<1>5. GaugeInv'
  BY <1>1, AtRestFields DEF IInv, GaugeInv
<1> QED BY <1>1, <1>2, <1>3, <1>4, <1>5 DEF IInv, Within

LEMMA PassedKeeps ==
  ASSUME IInv, PassedAnswered
  PROVE  IInv'
<1>1. UNCHANGED <<lastPlan, stored, gauges, begun, last>> /\ pass.at = "passed"
  BY DEF PassedAnswered
<1>2. PICK unit, answer :
        /\ unit \in pass.todo /\ answer \in Read(unit.agents \X {unit.object}, unit.threshold)
        /\ pass' = [pass EXCEPT !.passed = Merged(unit, answer), !.todo = @ \ {unit}]
  BY DEF PassedAnswered
<1>3. PICK passed :
        passed = [p \in DOMAIN pass.passed \union DOMAIN answer |->
                    IF p \in DOMAIN answer THEN answer[p] ELSE pass.passed[p]]
  OBVIOUS
<1>4. PassShape /\ MetricsTypeOK /\ Within(begun, stored) /\ AskInv /\ CountInv /\ GaugeInv
  BY DEF IInv
<1>5. /\ pass'.at = "passed" /\ pass'.todo = pass.todo \ {unit} /\ pass'.passed = passed
      /\ pass'.plan = pass.plan /\ pass'.window = pass.window /\ pass'.observed = pass.observed
      /\ pass'.rows = pass.rows /\ pass'.left = pass.left /\ pass'.gauge = pass.gauge
  <2>1. pass = [at |-> pass.at, plan |-> pass.plan, window |-> pass.window, todo |-> pass.todo,
                observed |-> pass.observed, passed |-> pass.passed, rows |-> pass.rows,
                left |-> pass.left, gauge |-> pass.gauge]
    BY <1>4 DEF PassShape
  <2>2. pass' = [pass EXCEPT !.passed = passed, !.todo = pass.todo \ {unit}]
    BY <1>2, <1>3 DEF Merged
  <2> QED BY <1>1, <2>1, <2>2
<1>6. PassShape'
  BY <1>2, <1>4 DEF PassShape
<1>7. MetricsTypeOK'
  BY <1>1, <1>4, <1>5 DEF MetricsTypeOK
<1>8. pass.plan \in Plans \union {{}} /\ \A t \in pass.plan : t.object \in Objects /\ t.agent \in Agents
  BY <1>4, PlanShape DEF MetricsTypeOK
<1>9. DOMAIN answer = unit.agents \X {unit.object} /\ DOMAIN passed = DOMAIN pass.passed \union DOMAIN answer
  BY <1>2, <1>3 DEF Read
<1>10. AskInv'
  <2>1. /\ \A t \in pass.plan : <<t.agent, t.object>> \in DOMAIN pass.observed
        /\ \A u \in pass.todo, a \in Agents :
             a \in u.agents => \E t \in pass.plan : t.agent = a /\ t.object = u.object /\ t.threshold = u.threshold
        /\ \A t \in pass.plan :
             pass.observed[<<t.agent, t.object>>] > 0 =>
               \/ <<t.agent, t.object>> \in DOMAIN pass.passed
               \/ \E u \in pass.todo : u.object = t.object /\ u.threshold = t.threshold /\ t.agent \in u.agents
    BY <1>1, <1>4 DEF AskInv
  <2>2. ASSUME NEW t \in pass.plan, pass.observed[<<t.agent, t.object>>] > 0
        PROVE  \/ <<t.agent, t.object>> \in DOMAIN passed
               \/ \E u \in pass.todo \ {unit} : u.object = t.object /\ u.threshold = t.threshold /\ t.agent \in u.agents
    <3>1. CASE <<t.agent, t.object>> \in DOMAIN pass.passed
      BY <1>9, <3>1
    <3>2. CASE \E u \in pass.todo : u.object = t.object /\ u.threshold = t.threshold /\ t.agent \in u.agents
      <4>1. PICK u \in pass.todo : u.object = t.object /\ u.threshold = t.threshold /\ t.agent \in u.agents
        BY <3>2
      <4>2. u = unit => <<t.agent, t.object>> \in DOMAIN answer
        BY <1>9, <4>1
      <4> QED BY <1>9, <4>1, <4>2
    <3> QED BY <2>1, <2>2, <3>1, <3>2
  <2> QED BY <1>5, <2>1, <2>2 DEF AskInv
<1>11. CountInv'
  <2>1. ASSUME NEW t \in pass.plan, <<t.agent, t.object>> \in DOMAIN passed
        PROVE  Real(passed[<<t.agent, t.object>>], t.agent, t.object, pass.window, t.threshold)
    <3>1. CASE <<t.agent, t.object>> \in DOMAIN answer
      <4>1. t.agent \in unit.agents /\ t.object = unit.object
        BY <1>9, <3>1
      <4>2. PICK u \in pass.plan : u.agent = t.agent /\ u.object = unit.object /\ u.threshold = unit.threshold
        BY <1>1, <1>2, <1>4, <1>8, <4>1 DEF AskInv
      <4>3. u = t
        BY <1>8, <4>1, <4>2, PlanShape
      <4>4. Real(answer[<<t.agent, t.object>>], t.agent, t.object, pass.window, unit.threshold)
        BY <1>2, <1>4, <1>8, <1>9, <3>1, ReadIsReal
      <4> QED BY <1>3, <1>9, <3>1, <4>2, <4>3, <4>4
    <3>2. CASE <<t.agent, t.object>> \notin DOMAIN answer
      <4>1. <<t.agent, t.object>> \in DOMAIN pass.passed
        BY <1>9, <2>1, <3>2
      <4>2. Real(pass.passed[<<t.agent, t.object>>], t.agent, t.object, pass.window, t.threshold)
        BY <1>4, <4>1 DEF CountInv
      <4> QED BY <1>3, <3>2, <4>1, <4>2
    <3> QED BY <3>1, <3>2
  <2>2. \A t \in pass.plan : <<t.agent, t.object>> \in DOMAIN pass.observed =>
                             Real(pass.observed[<<t.agent, t.object>>], t.agent, t.object, pass.window, 0)
    BY <1>4 DEF CountInv
  <2>3. \A t \in pass.plan, r \in pass.rows : RowReal(t, r)
    BY <1>4 DEF CountInv, RowReal
  <2> QED BY <1>1, <1>5, <2>1, <2>2, <2>3, CountNow
<1>12. GaugeInv'
  BY <1>1, <1>4, <1>5 DEF GaugeInv
<1> QED BY <1>1, <1>4, <1>6, <1>7, <1>10, <1>11, <1>12 DEF IInv, Within

\* The row of a declared evaluator, once both of its counts are in.
LEMMA RowIsReal ==
  ASSUME IInv, pass.at = "passed", pass.todo = {}, NEW t \in pass.plan
  PROVE  /\ RowOf(t) \in Row /\ RowOf(t).agent = t.agent /\ RowOf(t).object = t.object
         /\ RowReal(t, RowOf(t))
<1>1. PICK p, n, m, w : /\ p = <<t.agent, t.object>> /\ n = pass.observed[p] /\ w = pass.window
                        /\ m = IF p \in DOMAIN pass.passed THEN pass.passed[p] ELSE 0
  OBVIOUS
<1>2. PICK r : r = [agent |-> t.agent, object |-> t.object, window |-> w,
                    scored |-> n, passed |-> IF m <= n THEN m ELSE n]
  OBVIOUS
<1>3. RowOf(t) = r
  BY <1>1, <1>2 DEF RowOf
<1>4. /\ pass.plan \in Plans \union {{}} /\ begun \in Store /\ stored \in Store /\ w \in Windows
      /\ Within(begun, stored)
  BY <1>1 DEF IInv, MetricsTypeOK
<1>5. t.agent \in Agents /\ t.object \in Objects /\ t.threshold \in Nat
  BY <1>4, PlanShape
<1>6. Real(n, t.agent, t.object, w, 0) /\ (n > 0 => p \in DOMAIN pass.passed)
  BY <1>1 DEF IInv, AskInv, CountInv
<1>7. p \in DOMAIN pass.passed => Real(m, t.agent, t.object, w, t.threshold)
  BY <1>1 DEF IInv, CountInv
<1>8. /\ Count(begun, t.agent, t.object, w, t.threshold) \in Nat
      /\ Count(begun, t.agent, t.object, w, 0) \in Nat
      /\ Count(begun, t.agent, t.object, w, t.threshold) <= Count(begun, t.agent, t.object, w, 0)
      /\ Count(stored, t.agent, t.object, w, t.threshold) \in Nat
  BY <1>4, <1>5, PassedAreScored
<1>9. Real(m, t.agent, t.object, w, t.threshold)
  <2>1. CASE p \in DOMAIN pass.passed
    BY <1>7, <2>1
  <2>2. CASE p \notin DOMAIN pass.passed
    <3>1. m = 0 /\ n = 0
      BY <1>1, <1>6, <2>2 DEF Real
    <3> QED BY <1>6, <1>8, <3>1 DEF Real
  <2> QED BY <2>1, <2>2
<1>10. /\ r.scored = n /\ r.window = w /\ r.agent = t.agent /\ r.object = t.object
       /\ r.passed = IF m <= n THEN m ELSE n
  BY <1>2
<1>11. Real(r.passed, t.agent, t.object, w, t.threshold) /\ r.passed <= r.scored
  BY <1>6, <1>8, <1>9, <1>10 DEF Real
<1>12. r \in Row
  <2>1. n \in Nat /\ m \in Nat
    BY <1>6, <1>9 DEF Real
  <2> QED BY <1>2, <1>4, <1>5, <2>1 DEF Row
<1>13. RowReal(t, r)
  BY <1>6, <1>10, <1>11 DEF RowReal
<1> QED BY <1>3, <1>10, <1>12, <1>13

LEMMA WindowKeeps ==
  ASSUME IInv, WindowDone
  PROVE  IInv'
<1>1. UNCHANGED <<lastPlan, stored, gauges, begun, last>> /\ pass.at = "passed" /\ pass.todo = {}
  BY DEF WindowDone
<1>2. PICK rows : rows = pass.rows \union {RowOf(t) : t \in pass.plan}
  OBVIOUS
<1>3. pass' = IF pass.window + 1 \in Windows
              THEN [AtRest EXCEPT !.at = "scored", !.plan = pass.plan, !.window = pass.window + 1,
                                  !.todo = Chunks(AgentsOf(pass.plan)), !.rows = rows]
              ELSE [AtRest EXCEPT !.at = "clear", !.plan = pass.plan, !.rows = rows]
  BY <1>2 DEF WindowDone
<1>4. /\ pass'.plan = pass.plan /\ pass'.rows = rows /\ pass'.left = {} /\ pass'.gauge = 1
      /\ DOMAIN pass'.observed = {} /\ DOMAIN pass'.passed = {} /\ pass'.window \in Windows
      /\ pass'.at \in {"scored", "clear"}
      /\ pass'.at = "scored" => pass'.todo = Chunks(AgentsOf(pass.plan))
  BY <1>3, WindowsAssumption DEF AtRest, NoCounts
<1>5. PassShape'
  BY <1>3 DEF AtRest, PassShape
<1>6. PassShape /\ MetricsTypeOK /\ Within(begun, stored) /\ AskInv /\ CountInv /\ GaugeInv
  BY DEF IInv
<1>7. pass.plan \in Plans \union {{}}
  BY <1>6 DEF MetricsTypeOK
<1>8. rows \subseteq Row
  <2>1. \A t \in pass.plan : RowOf(t) \in Row
    BY <1>1, RowIsReal
  <2> QED BY <1>2, <1>6, <2>1 DEF MetricsTypeOK
<1>9. MetricsTypeOK'
  BY <1>1, <1>4, <1>6, <1>8 DEF MetricsTypeOK
<1>10. AskInv'
  <2>1. \A a \in AgentsOf(pass.plan) : \E c \in Chunks(AgentsOf(pass.plan)) : a \in c
    BY <1>7, AgentsCovered
  <2>2. \A t \in pass.plan : t.agent \in AgentsOf(pass.plan)
    BY DEF AgentsOf
  <2> QED BY <1>4, <2>1, <2>2 DEF AskInv
<1>11. CountInv'
  <2>1. ASSUME NEW t \in pass.plan, NEW r \in rows
        PROVE  RowReal(t, r)
    <3>1. CASE r \in pass.rows
      BY <1>6, <3>1 DEF CountInv, RowReal
    <3>2. CASE r \in {RowOf(u) : u \in pass.plan}
      <4>1. PICK u \in pass.plan : r = RowOf(u)
        BY <3>2
      <4>2. RowOf(u).agent = u.agent /\ RowOf(u).object = u.object /\ RowReal(u, RowOf(u))
        BY <1>1, RowIsReal
      <4>3. (r.agent = t.agent /\ r.object = t.object) => u = t
        BY <1>7, <4>1, <4>2, PlanShape
      <4> QED BY <4>1, <4>2, <4>3 DEF RowReal
    <3> QED BY <1>2, <3>1, <3>2
  <2> QED BY <1>1, <1>4, <2>1, CountNow
<1>12. GaugeInv'
  <2>1. \A g \in Gauges : gauges[g] = {r \in last : Emits(g, r)}
    BY <1>1, <1>6 DEF GaugeInv
  <2>2. \A k \in 1..4 : InOrder[k] \in Gauges
    BY DEF InOrder, Gauges
  <2> QED BY <1>1, <1>4, <2>1, <2>2 DEF GaugeInv, Emits
<1> QED BY <1>1, <1>5, <1>6, <1>9, <1>10, <1>11, <1>12 DEF IInv, Within

LEMMA GaugesInOrder ==
  /\ \A k \in 1..4 : InOrder[k] \in Gauges
  /\ \A k, m \in 1..4 : InOrder[k] = InOrder[m] => k = m
  /\ \A g \in Gauges : \E k \in 1..4 : g = InOrder[k]
<1>1. 1..4 = {1, 2, 3, 4}
  OBVIOUS
<1>2. InOrder[1] = "scores" /\ InOrder[2] = "passed" /\ InOrder[3] = "pass_ratio" /\ InOrder[4] = "score_avg"
  BY DEF InOrder
<1> QED BY <1>1, <1>2 DEF Gauges

LEMMA ClearedKeeps ==
  ASSUME IInv, GaugeCleared
  PROVE  IInv'
<1>1. /\ pass.at = "clear"
      /\ gauges' = [gauges EXCEPT ![InOrder[pass.gauge]] = {}]
      /\ pass' = IF pass.gauge < 4 THEN [pass EXCEPT !.gauge = @ + 1]
                 ELSE [pass EXCEPT !.at = "set", !.gauge = 1, !.left = pass.rows]
      /\ UNCHANGED <<lastPlan, stored, begun, last>>
  BY DEF GaugeCleared, Current
<1>2. PassShape /\ MetricsTypeOK /\ Within(begun, stored) /\ AskInv /\ CountInv /\ GaugeInv
  BY DEF IInv
<1>3. pass = [at |-> pass.at, plan |-> pass.plan, window |-> pass.window, todo |-> pass.todo,
              observed |-> pass.observed, passed |-> pass.passed, rows |-> pass.rows,
              left |-> pass.left, gauge |-> pass.gauge]
  BY <1>2 DEF PassShape
<1>4. PassShape'
  BY <1>1, <1>3 DEF PassShape
<1>5. /\ pass'.plan = pass.plan /\ pass'.window = pass.window /\ pass'.observed = pass.observed
      /\ pass'.passed = pass.passed /\ pass'.rows = pass.rows
      /\ pass.gauge < 4 => pass'.at = "clear" /\ pass'.gauge = pass.gauge + 1 /\ pass'.left = pass.left
      /\ ~(pass.gauge < 4) => pass'.at = "set" /\ pass'.gauge = 1 /\ pass'.left = pass.rows
  BY <1>1, <1>3
<1>6. pass.gauge \in 1..4 /\ gauges \in [Gauges -> SUBSET Row]
  BY <1>2 DEF MetricsTypeOK
<1>7. gauges' \in [Gauges -> SUBSET Row]
  BY <1>1, <1>6
<1>8. MetricsTypeOK'
  BY <1>1, <1>2, <1>5, <1>6, <1>7 DEF MetricsTypeOK
<1>9. AskInv'
  BY <1>5 DEF AskInv
<1>10. CountInv'
  BY <1>1, <1>2, <1>5, CountSame
<1>11. GaugeInv'
  <2>1. \A k \in 1..4 : gauges[InOrder[k]] = IF k < pass.gauge THEN {} ELSE {r \in last : Emits(InOrder[k], r)}
    BY <1>1, <1>2 DEF GaugeInv
  <2>2. \A k \in 1..4 : gauges'[InOrder[k]] = IF k = pass.gauge THEN {} ELSE gauges[InOrder[k]]
    BY <1>1, <1>6, GaugesInOrder
  <2>3. CASE pass.gauge < 4
    <3>1. ASSUME NEW k \in 1..4
          PROVE  gauges'[InOrder[k]] = IF k < pass.gauge + 1 THEN {} ELSE {r \in last : Emits(InOrder[k], r)}
      <4>1. k < pass.gauge + 1 <=> (k < pass.gauge \/ k = pass.gauge)
        BY <1>6
      <4>2. CASE k = pass.gauge
        BY <2>2, <4>1, <4>2
      <4>3. CASE k # pass.gauge
        BY <2>1, <2>2, <4>1, <4>3
      <4> QED BY <4>2, <4>3
    <3>2. pass.left = {}
      BY <1>1, <1>2 DEF GaugeInv
    <3> QED BY <1>1, <1>5, <2>3, <3>1, <3>2 DEF GaugeInv, Emits
  <2>4. CASE ~(pass.gauge < 4)
    <3>1. \A k \in 1..4 : gauges'[InOrder[k]] = {}
      BY <1>6, <2>1, <2>2, <2>4
    <3>2. pass'.at = "set" /\ pass'.gauge = 1 /\ pass'.left = pass'.rows
      BY <1>5, <2>4
    <3>3. \A k \in 1..4 : Done(k)' = {}
      BY <3>2 DEF Done
    <3> QED BY <3>1, <3>2, <3>3 DEF GaugeInv
  <2> QED BY <2>3, <2>4
<1> QED BY <1>1, <1>2, <1>4, <1>8, <1>9, <1>10, <1>11 DEF IInv, Within

LEMMA SetKeeps ==
  ASSUME IInv, SeriesSet
  PROVE  IInv'
<1>1. PICK row :
        /\ pass.at = "set" /\ pass.left # {} /\ row = CHOOSE r \in pass.left : TRUE
        /\ gauges' = [gauges EXCEPT ![InOrder[pass.gauge]] =
                        @ \union IF Emits(InOrder[pass.gauge], row) THEN {row} ELSE {}]
        /\ pass' = IF pass.gauge < 4 THEN [pass EXCEPT !.gauge = @ + 1]
                   ELSE [pass EXCEPT !.gauge = 1, !.left = @ \ {row}]
        /\ UNCHANGED <<lastPlan, stored, begun, last>>
  BY DEF SeriesSet, Current
<1>2. PassShape /\ MetricsTypeOK /\ Within(begun, stored) /\ AskInv /\ CountInv /\ GaugeInv
  BY DEF IInv
<1>3. pass = [at |-> pass.at, plan |-> pass.plan, window |-> pass.window, todo |-> pass.todo,
              observed |-> pass.observed, passed |-> pass.passed, rows |-> pass.rows,
              left |-> pass.left, gauge |-> pass.gauge]
  BY <1>2 DEF PassShape
<1>4. PassShape'
  BY <1>1, <1>3 DEF PassShape
<1>5. /\ pass'.plan = pass.plan /\ pass'.window = pass.window /\ pass'.observed = pass.observed
      /\ pass'.passed = pass.passed /\ pass'.rows = pass.rows /\ pass'.at = "set"
      /\ pass.gauge < 4 => pass'.gauge = pass.gauge + 1 /\ pass'.left = pass.left
      /\ ~(pass.gauge < 4) => pass'.gauge = 1 /\ pass'.left = pass.left \ {row}
  BY <1>1, <1>3
<1>6. /\ pass.gauge \in 1..4 /\ gauges \in [Gauges -> SUBSET Row]
      /\ row \in pass.left /\ pass.left \subseteq pass.rows /\ pass.rows \subseteq Row
  BY <1>1, <1>2 DEF MetricsTypeOK
<1>7. gauges' \in [Gauges -> SUBSET Row]
  BY <1>1, <1>6
<1>8. MetricsTypeOK'
  BY <1>1, <1>2, <1>5, <1>6, <1>7 DEF MetricsTypeOK
<1>9. AskInv'
  BY <1>5 DEF AskInv
<1>10. CountInv'
  BY <1>1, <1>2, <1>5, CountSame
<1>11. GaugeInv'
  <2>1. \A k \in 1..4 : gauges[InOrder[k]] = {r \in Done(k) : Emits(InOrder[k], r)}
    BY <1>1, <1>2 DEF GaugeInv
  <2>2. \A k \in 1..4 : Done(k) = (pass.rows \ pass.left) \union IF k < pass.gauge THEN {row} ELSE {}
    BY <1>1 DEF Done
  <2>3. \A k \in 1..4 : gauges'[InOrder[k]] =
          IF k = pass.gauge THEN gauges[InOrder[k]] \union IF Emits(InOrder[k], row) THEN {row} ELSE {}
          ELSE gauges[InOrder[k]]
    BY <1>1, <1>6, GaugesInOrder
  <2>4. \A k \in 1..4 : Done(k)' = (pass.rows \ pass.left) \union IF k <= pass.gauge THEN {row} ELSE {}
    <3>1. CASE pass.gauge < 4
      <4>1. \A k \in 1..4 : Done(k)' = (pass.rows \ pass.left) \union IF k < pass.gauge + 1 THEN {row} ELSE {}
        BY <1>1, <1>5, <3>1 DEF Done
      <4> QED BY <1>6, <4>1
    <3>2. CASE ~(pass.gauge < 4)
      <4>1. \A k \in 1..4 : Done(k)' = pass.rows \ (pass.left \ {row})
        BY <1>5, <3>2 DEF Done
      <4> QED BY <1>6, <3>2, <4>1
    <3> QED BY <3>1, <3>2
  <2>5. \A k \in 1..4 : gauges'[InOrder[k]] = {r \in Done(k)' : Emits(InOrder[k], r)}
    <3>1. ASSUME NEW k \in 1..4
          PROVE  gauges'[InOrder[k]] = {r \in Done(k)' : Emits(InOrder[k], r)}
      <4>1. CASE k < pass.gauge
        BY <1>6, <2>1, <2>2, <2>3, <2>4, <4>1
      <4>2. CASE k = pass.gauge
        BY <1>6, <2>1, <2>2, <2>3, <2>4, <4>2
      <4>3. CASE k > pass.gauge
        BY <1>6, <2>1, <2>2, <2>3, <2>4, <4>3
      <4> QED BY <1>6, <4>1, <4>2, <4>3
    <3> QED BY <3>1
  <2>6. pass'.left = {} => pass'.gauge = 1
    BY <1>1, <1>5
  <2> QED BY <1>5, <2>5, <2>6 DEF GaugeInv, Emits
<1> QED BY <1>1, <1>2, <1>4, <1>8, <1>9, <1>10, <1>11 DEF IInv, Within

LEMMA DoneKeeps ==
  ASSUME IInv, MetricsDone
  PROVE  IInv'
<1>1. /\ pass.at = "set" /\ pass.left = {} /\ last' = pass.rows /\ pass' = AtRest
      /\ UNCHANGED <<lastPlan, stored, gauges, begun>>
  BY DEF MetricsDone
<1>2. PassShape'
  BY <1>1 DEF AtRest, PassShape
<1>3. MetricsTypeOK'
  BY <1>1, AtRestFields, WindowsAssumption DEF IInv, MetricsTypeOK
<1>4. CountInv' /\ AskInv'
  BY <1>1, AtRestFields DEF CountInv, AskInv
<1>5. GaugeInv'
  <2>1. pass.gauge = 1 /\ \A k \in 1..4 : gauges[InOrder[k]] = {r \in Done(k) : Emits(InOrder[k], r)}
    BY <1>1 DEF IInv, GaugeInv
  <2>2. \A k \in 1..4 : Done(k) = pass.rows
    BY <1>1, <2>1 DEF Done
  <2>3. \A g \in Gauges : gauges[g] = {r \in pass.rows : Emits(g, r)}
    BY <2>1, <2>2, GaugesInOrder
  <2> QED BY <1>1, <2>3, AtRestFields DEF GaugeInv, Emits
<1> QED BY <1>1, <1>2, <1>3, <1>4, <1>5 DEF IInv, Within

-----------------------------------------------------------------------------
LEMMA InitHolds ==
  ASSUME MetricsInit
  PROVE  IInv
<1>1. /\ lastPlan = NoValue /\ pass = AtRest /\ begun = stored /\ last = {}
      /\ stored = [x \in Traces |-> [o \in Objects |-> NoValue]]
      /\ gauges = [g \in Gauges |-> {}]
  BY DEF MetricsInit
<1>2. PassShape
  BY <1>1 DEF AtRest, PassShape
<1>3. MetricsTypeOK
  BY <1>1, AtRestFields, WindowsAssumption DEF MetricsTypeOK, Store
<1>4. CountInv /\ AskInv
  BY <1>1, AtRestFields DEF CountInv, AskInv
<1>5. GaugeInv
  BY <1>1, AtRestFields DEF GaugeInv
<1>6. Within(begun, stored)
  BY <1>1 DEF Within
<1> QED BY <1>2, <1>3, <1>4, <1>5, <1>6 DEF IInv

LEMMA StepKeeps ==
  ASSUME IInv, [MetricsNext]_metricsVars
  PROVE  IInv'
BY ArrivalKeeps, PlannedKeeps, BeginKeeps, ScoredKeeps, PassedKeeps, FailureKeeps, WindowKeeps,
   ClearedKeeps, SetKeeps, DoneKeeps, StutterKeeps DEF MetricsNext

\* The invariant of the metrics loop: what is counted is there, nobody is forgotten
\* between the queries, and the gauges hold what the pass has set so far.
THEOREM InvariantHolds == MetricsSpec => []IInv
<1>1. MetricsInit => IInv
  BY InitHolds
<1>2. IInv /\ [MetricsNext]_metricsVars => IInv'
  BY StepKeeps
<1> QED BY <1>1, <1>2, PTL DEF MetricsSpec

\* A pass never leaves the shapes of its locals, whatever is answered and in whatever order.
THEOREM TypeCorrect == MetricsSpec => []MetricsTypeOK
<1>1. IInv => MetricsTypeOK
  BY DEF IInv
<1> QED BY <1>1, InvariantHolds, PTL

\* However the queries are split and whatever arrives between them, a published count is
\* of scores that are there, no more have passed than were scored, and an agent with one
\* tag array has none of its scores missed.
THEOREM CountsHold == MetricsSpec => []CountsAreReal
<1>1. ASSUME IInv
      PROVE  CountsAreReal
  <2>1. SUFFICES ASSUME NEW t \in pass.plan, NEW r \in pass.rows, r.agent = t.agent, r.object = t.object
                 PROVE  /\ r.passed <= r.scored
                        /\ r.scored <= Count(stored, r.agent, r.object, r.window, 0)
                        /\ r.passed <= Count(stored, r.agent, r.object, r.window, t.threshold)
                        /\ OneArray(r.agent, r.object) =>
                             /\ r.scored >= Count(begun, r.agent, r.object, r.window, 0)
                             /\ r.passed >= Count(begun, r.agent, r.object, r.window, t.threshold)
    BY DEF CountsAreReal, Count
  <2>2. /\ Real(r.scored, t.agent, t.object, r.window, 0)
        /\ Real(r.passed, t.agent, t.object, r.window, t.threshold)
        /\ r.passed <= r.scored
    BY <1>1, <2>1 DEF IInv, CountInv
  <2> QED BY <2>1, <2>2 DEF Real
<1> QED BY <1>1, InvariantHolds, PTL

\* A gauge never shows series of two passes, a pass that fails leaves every gauge alone,
\* and nothing stays of an agent that is no longer declared.
THEOREM GaugesHold == MetricsSpec => []GaugesShowOnePass
<1>1. ASSUME IInv
      PROVE  GaugesShowOnePass
  <2>1. GaugeInv /\ pass.at \in {"idle", "scored", "passed", "clear", "set"} /\ pass.left \subseteq pass.rows
    BY <1>1 DEF IInv, MetricsTypeOK
  <2>2. ASSUME NEW g \in Gauges
        PROVE  gauges[g] \subseteq last \/ gauges[g] \subseteq pass.rows
    <3>1. PICK k \in 1..4 : g = InOrder[k]
      BY GaugesInOrder
    <3>2. CASE pass.at = "clear"
      BY <2>1, <3>1, <3>2 DEF GaugeInv
    <3>3. CASE pass.at = "set"
      <4>1. Done(k) \subseteq pass.rows
        <5>1. CASE pass.left = {}
          BY <2>1, <3>3, <5>1 DEF GaugeInv, Done
        <5>2. CASE pass.left # {}
          BY <2>1, <5>2 DEF Done
        <5> QED BY <5>1, <5>2
      <4>2. gauges[g] \subseteq Done(k)
        BY <2>1, <3>1, <3>3 DEF GaugeInv
      <4> QED BY <4>1, <4>2
    <3>4. CASE pass.at \notin {"clear", "set"}
      BY <2>1, <3>4 DEF GaugeInv
    <3> QED BY <3>2, <3>3, <3>4
  <2> QED BY <2>1, <2>2 DEF GaugesShowOnePass, GaugeInv
<1> QED BY <1>1, InvariantHolds, PTL
=============================================================================
