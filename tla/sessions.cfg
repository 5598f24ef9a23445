SPECIFICATION Spec
CONSTANTS
  None = None
  Keep = Keep
  ada = ada
  bob = bob
  eve = eve
  o1 = o1
  Users = {ada, bob, eve}
  Orgs = {o1}
  Roles = {"Customer", "SystemAdmin"}
  Tabs = {t1, t2}
  InitialRole <- MCRole
  InitialMember <- MCMember
  TTL = 1
  Latency = 1
  MaxTime = 2
  MaxCalls = 4
  MaxChanges = 1
SYMMETRY MCSymmetry
INVARIANTS
  SudoLogged
  ReturnsToStarter
  ClaimsFresh
\* The calls are used up.
CHECK_DEADLOCK FALSE
