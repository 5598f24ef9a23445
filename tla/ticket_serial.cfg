SPECIFICATION TSpec
CONSTANTS
  None = None
  cust = cust
  eng = eng
  guest = guest
  boss = boss
  Requests = {r1}
  Users <- MCUsers
  Role <- MCRole
  Creator = cust
  Members = {cust, eng}
  FormActions = {"resolve", "confirm", "reopen", "reject"}
  Due = 0
  Overlap = FALSE
  MaxTime = 3
  Lead = 1
  DayLen = 2
  Days = 2
  MaxReopens = 2
  MaxCrashes = 1
INVARIANTS
  
  
  TrendWhole

  
  
