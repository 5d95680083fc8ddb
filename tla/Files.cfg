CONSTANTS
  p = p
  b1 = b1
  big = big
  n1 = n1
  n2 = n2
  g = g
  c = c
  h1 = h1
  Peer <- OnePeer
  Blob <- TwoBlobs
  Huge <- BigBlob
  Name <- TwoNames
  Group <- TwoGroups
  BuiltIn <- BuiltInGroup
  Policy <- TwoPolicies
  Slots <- TwoSlots
  Handlers <- OneHandler
  Page = 1
  MaxCalls = 3
  MaxOffers = 2
  MaxRestarts = 1
SPECIFICATION Spec
INVARIANTS OfferedIsStored CacheIsFresh PagesComplete
PROPERTIES DownloadsSettle
CHECK_DEADLOCK FALSE
