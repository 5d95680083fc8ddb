SPECIFICATION GlareSpec
CONSTANTS
  l = l
  h1 = h1
  h2 = h2
  NoSock = NoSock
  Sock = {l, h1, h2}
  LowSock = {l}
SYMMETRY HighSymmetry
INVARIANTS AgreeUnraced NeverBare
CHECK_DEADLOCK FALSE
