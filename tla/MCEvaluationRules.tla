-------------------------- MODULE MCEvaluationRules --------------------------
(***************************************************************************)
(* EvaluationRules for TLC: cluster a moves an agent between two groups,   *)
(* and to a shared rule; cluster b has one group.                          *)
(***************************************************************************)
EXTENDS EvaluationRules

CONSTANTS a, b, x, y, e1, e2

MCEvaluatorOf == [g \in {1, 2} |-> IF g = 1 THEN e1 ELSE e2]

InGroups(first, second) == [g \in {1, 2} |-> IF g = 1 THEN first ELSE second]

MCWishes ==
  [c \in {a, b} |->
     IF c = a THEN {InGroups({x}, {}), InGroups({x, y}, {}), InGroups({}, {x})}
              ELSE {InGroups({x}, {})}]
=============================================================================
