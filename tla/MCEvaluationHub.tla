--------------------------- MODULE MCEvaluationHub ---------------------------
(***************************************************************************)
(* Two of the loops of a hub pod.  They share no variable: what one does   *)
(* is seen by checking it beside the other standing still, so a behaviour  *)
(* here is one of either loop.  That of the loop standing still is not     *)
(* fair, and only the fair ones count for liveness.                        *)
(***************************************************************************)
EXTENDS ProjectLoop, EvaluationMetrics, TLC

CONSTANTS safety, concise, sonnet, haiku, judge, chat, rca

VARIABLE loop

\* A project in which a user has an evaluator of one of the names.
MCInit == ProjectInit /\ evaluators # <<>> /\ MetricsInit /\ loop \in {"project", "metrics"}

MCNext ==
  \/ loop = "project" /\ ProjectNext /\ UNCHANGED <<loop, metricsVars>>
  \/ loop = "metrics" /\ MetricsNext /\ UNCHANGED <<loop, projectVars>>

MCSpec == MCInit /\ [][MCNext]_<<loop, projectVars, metricsVars>> /\ ProjectFairness

Definition(model, prompt) == [model |-> model, prompt |-> prompt]

MCDefinitions == {Definition(sonnet, 1), Definition(haiku, 1)}

\* A chart that changes the judge of one evaluator and drops the other.
MCCatalogs ==
  {[n \in Names |-> Definition(sonnet, 1)],
   (safety :> Definition(haiku, 1)) @@ (concise :> None)}

MCUserEvaluators ==
  {[name |-> safety, ours |-> FALSE, def |-> Definition(haiku, 1), paused |-> "no", versions |-> 1]}

Declared(agent, threshold) == [agent |-> agent, object |-> judge, threshold |-> threshold]

\* Nobody, two agents in two chunks of one group, and one of them with another threshold.
MCPlans == {{}, {Declared(1, 1), Declared(2, 1)}, {Declared(2, 0)}}

\* One agent with the traces of two sources, one of them in the longer window only.
MCTraces ==
  {[id |-> 1, agent |-> 1, source |-> chat, age |-> 1],
   [id |-> 2, agent |-> 2, source |-> chat, age |-> 1],
   [id |-> 3, agent |-> 2, source |-> rca, age |-> 2]}
=============================================================================
