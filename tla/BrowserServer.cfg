SPECIFICATION FairSpec
CONSTANTS
  s1 = s1
  s2 = s2
  None = None
  Sessions = {s1, s2}
  Generations = {1, 2}
  MaxSessions = 2
  IdleEviction = TRUE
INVARIANTS
  SlotAccounting
  SingleFlight
  TimersGuardTheBrowser
  StoppedOnce
  FailedAttachIsStopped
  AttachedReleasedBeforeExit
  UnregisteredIsClosed
PROPERTIES
  SessionsImplemented
  ShutdownExits
  ClosedComesToRest
  DeadChildIsReleased
CHECK_DEADLOCK FALSE
