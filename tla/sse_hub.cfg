SPECIFICATION FairSpec
CONSTANTS
  s1 = s1
  s2 = s2
  alice = alice
  bob = bob
  Viewers = {alice, bob}
  Streams = {s1, s2}
  UserOf <- MCUserOf
  Publishers = {p1, p2}
  Nobody = Nobody
  Capacity = 1
  MaxMessages = 2
INVARIANTS
  NoSendOnClosed
  InOrder
PROPERTIES
  PublishReturns
  Drains
\* Every stream and the hub end.
CHECK_DEADLOCK FALSE
