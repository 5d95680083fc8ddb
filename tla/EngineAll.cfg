SPECIFICATION Spec
CONSTANTS
  p1 = p1
  c1 = c1
  c2 = c2
  NoPeer = NoPeer
  NoConn = NoConn
  Peer <- OnePeer
  Conn <- OneConn
  Higher <- OnePeer
  Outcomes = {"Active", "None"}
  HbChoices = {TRUE, FALSE}
  Tasks = {"wg", "api", "rebroadcast", "bridge"}
INVARIANTS SendersVetted
CHECK_DEADLOCK FALSE
