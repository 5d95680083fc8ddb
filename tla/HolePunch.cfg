CONSTANTS
  a = a
  b = b
  k1 = k1
  k2 = k2
  Side = {a, b}
  Invite = {k1, k2}
  Host <- Hosts
  Relayable = {k1}
  Nats <- Pairs
  Strides = 2
  Neighbours = 1
  WgPort = 100
  OtherPort = 200
  SlowTries = 1
  FastTries = 2
  MaxSilent = 1
  MaxSends = 1
CHECK_DEADLOCK FALSE
SPECIFICATION Spec
INVARIANT KeyIsOwn
INVARIANT GuessesRight
PROPERTY Heals
