\* A push between the merge gate and the merge.
SPECIFICATION Spec
CONSTANTS
  MaxIterations = 1
  Worlds <- MCMergeWorlds
PROPERTY MergesAreGreen
\* Everything may be done: the pull request merged, no comment and no run left.
CHECK_DEADLOCK FALSE
