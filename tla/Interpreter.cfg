SPECIFICATION FairSpec
CONSTANTS
  s1 = s1
  c1 = c1
  c2 = c2
  t1 = t1
  None = None
  Sessions = {s1}
  Generations = {1, 2}
  Calls = {c1, c2}
  Tasks = {t1}
  MaxSessions = 2
  IdleEviction = TRUE
INVARIANTS
  SlotAccounting
  TtlGuardsSession
  TasksSuspendIdleTimer
  ReportedTasksTracked
PROPERTIES
  SessionsAreReleased
  ClosedComesToRest
  ShutdownExits
CHECK_DEADLOCK FALSE
