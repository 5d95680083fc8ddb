CONSTANTS
  a = a
  b = b
  z = z
  r = r
  Node = {a, b, z, r}
  Call = {c1, c2}
  Session <- Pairs
  Channel <- Channels
  MaxCircuits <- Limits
  MaxFaults = 1
SYMMETRY Same
CHECK_DEADLOCK FALSE
SPECIFICATION MCSpec
INVARIANT CapacityHeld
INVARIANT PunchTogether
INVARIANT NothingLost
