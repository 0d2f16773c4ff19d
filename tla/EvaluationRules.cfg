SPECIFICATION FairSpec
CONSTANTS
  a = a
  b = b
  x = x
  y = y
  e1 = e1
  e2 = e2
  None = None
  Clusters = {a, b}
  Groups = {1, 2}
  Evaluators = {e1, e2}
  EvaluatorOf <- MCEvaluatorOf
  Agents = {x, y}
  Wishes <- MCWishes
  Ids = {11, 12, 13, 14, 15, 16}
  MaxActiveRules = 3
  MaxFaults = 1
  MaxChanges = 2
INVARIANTS
  DeletionsAreMeant
  PassesApplyTheirPlan
PROPERTIES
  OthersUntouched
  EventuallyCovered
CHECK_DEADLOCK FALSE
