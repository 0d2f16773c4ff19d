\* One issue in four worlds, with up to two fix rounds, from its first run to its merge.
SPECIFICATION Spec
CONSTANTS
  MaxIterations = 2
  Worlds <- MCWorlds
INVARIANTS
  TypeOK
  
  
  
  

  
  
CONSTRAINT MCUnapproved
\* Everything may be done: the pull request merged, no comment and no run left.
CHECK_DEADLOCK FALSE
