SPECIFICATION FairSpec
CONSTANTS
  Tasks = {1, 2}
  Config <- MCConfig
  Workers = {w1, w2}
  Slots = {s1}
  MaxTries = 2
  MaxCalls = 2
  MaxLosses = 1
INVARIANTS
  OneExecutor
  ApprovedFirst
PROPERTIES
  
  Progress
\* Once every task is finished, waiting or stranded the engine only polls.
CHECK_DEADLOCK FALSE
