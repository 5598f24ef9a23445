SPECIFICATION FairSpec
CONSTANTS
  None = None
  boss = boss
  Requests = {r1, r2}
  Users <- MCUsers
  Role <- MCRole
  Creator = boss
  Members = {boss}
  FormActions = {"resolve", "confirm", "reopen", "reject"}
  Due = 0
  Overlap = TRUE
  MaxTime = 1
  Lead = 1
  DayLen = 1
  Days = 1
  MaxReopens = 1
INVARIANTS
  StampsFitStatus
  OwnedOnceStarted
  StagesAddUp

  
