SPECIFICATION FairSpec
CONSTANTS
  Tasks = {1}
  Config <- MCConfig
  Workers = {w1}
  Slots = {s1}
  MaxTries = 3
  MaxCalls = 1
  MaxLosses = 0
PROPERTY
  DecidedResumes
CHECK_DEADLOCK FALSE
