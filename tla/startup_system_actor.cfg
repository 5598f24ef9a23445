SPECIFICATION Spec
CONSTANTS
  None = None
  Replicas = {r1, r2}
  Dialects = {"postgres"}
  Settings <- MCSettings
  Legacy = {}
  Reopened <- MCReopened
  Gens = {g1, g2, g3}
  MaxStarts = 2
  MaxDeaths = 0
  MaxChanges = 0
INVARIANT SystemActorIsUser1
CHECK_DEADLOCK FALSE
