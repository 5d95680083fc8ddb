----------------------------- MODULE MCP2pcdEngine -----------------------------
(* Finite instances of P2pcdEngine.                                           *)
EXTENDS P2pcdEngine

CONSTANTS p1, c1, c2

OnePeer  == {p1}
OneConn  == {c1}
TwoConns == {c1, c2}

================================================================================
