SPECIFICATION Spec
CONSTANTS
  None = None
  Replicas = {r1, r2}
  Dialects = {"sqlite", "mysql", "postgres"}
  Settings <- MCSettings
  Legacy = {t1}
  Reopened <- MCReopened
  Gens = {g1, g2, g3}
  MaxStarts = 2
  MaxDeaths = 1
  MaxChanges = 2
 
INVARIANTS ActorIsNobodyElse   BackfillComplete
CHECK_DEADLOCK FALSE
