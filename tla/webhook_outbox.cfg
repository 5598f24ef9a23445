SPECIFICATION FairSpec
CONSTANTS
  None = None
  Hooks = {h1}
  Rows = {1, 2}
  Workers = {w1, w2}
  MaxAttempts = 2
  Lease = 2
  Timeout = 1
  MaxLosses = 1
INVARIANTS
  OneSender
  
  RetryBudget
PROPERTIES
  SettledFinal
  Settles
