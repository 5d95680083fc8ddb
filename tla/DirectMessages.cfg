SPECIFICATION MCSpec
CONSTANTS
  alice = alice
  bob = bob
  m1 = m1
  m2 = m2
  s1 = s1
  s2 = s2
  NoSocket = NoSocket
  Node = {alice, bob}
  Message = {m1, m2}
  Socket = {s1, s2}
  Ends <- BothEnds
  Initial = {s1}
  Deletable = {m1}
  Fragile = {s1}
  Restartable = {alice}
  Mortal = {bob}
  MaxFaults = 1
INVARIANTS DeliveredIsStored PagesLeaveNoGap
PROPERTIES Settles
CHECK_DEADLOCK FALSE
