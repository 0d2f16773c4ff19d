SPECIFICATION Spec
CONSTANTS
  s1 = s1
  s2 = s2
  None = None
  Sessions = {s1, s2}
  Generations = {1, 2, 3}
  MaxSessions = 1
  IdleEviction = TRUE
SYMMETRY Symmetry
INVARIANT LiveWithinCap
CHECK_DEADLOCK FALSE
