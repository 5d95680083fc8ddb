CONSTANTS
  p = p
  me = me
  r1 = r1
  Peer <- OnePeer
  Owner = me
  Room <- OneRoom
  Sockets <- TwoSockets
  Limit <- Limits
  Capacity = 1
  MaxChanges = 3
  MaxBreaks = 1
  Wrap = 4
  MaxCalls = 3
SPECIFICATION Spec
INVARIANTS EmptyIsInvitation HubIsLive
PROPERTIES Converges GoneLeave
CHECK_DEADLOCK FALSE
