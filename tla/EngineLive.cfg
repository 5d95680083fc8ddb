SPECIFICATION FairSpec
CONSTANTS
  p1 = p1
  c1 = c1
  c2 = c2
  NoPeer = NoPeer
  NoConn = NoConn
  Peer <- OnePeer
  Conn <- TwoConns
  Higher <- OnePeer
  Outcomes = {"Active"}
  HbChoices = {TRUE}
  Tasks = {"hb"}
INVARIANTS InUseIsWatched SerialTracked SerialTold
PROPERTIES BrokenRetired
CHECK_DEADLOCK FALSE
