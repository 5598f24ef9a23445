SPECIFICATION Spec
CONSTANTS
  None = None
  ann = ann
  bob = bob
  q1 = q1
  q2 = q2
  t1 = t1
  t2 = t2
  Slots = {s1, s2, s3}
  Users = {ann, bob}
  Queues = {q1, q2}
  Tickets = {t1, t2}
  Problems = {p1}
  Labels = {l1}
  Default = q1
  Opened = {t1}
  Priorities = {"P3"}
  DefaultTable <- MCDefaultTable
  Tables <- MCTables
  MaxOps = 3
  MaxTime = 1
SYMMETRY MCSymmetry
INVARIANTS
  RowsAccounted
  
  AlwaysOnTheClock

  
\* The requests are used up.
CHECK_DEADLOCK FALSE
