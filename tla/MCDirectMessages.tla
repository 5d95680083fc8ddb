---------------------------- MODULE MCDirectMessages ----------------------------
(* Two nodes, two messages, two sockets.  m1 goes from alice to bob, m2 either *)
(* way; if both go the same way, m1 is the one that is stored first.  The first *)
(* socket is set up at both ends; the second may replace it or follow it.      *)
(* Either bob's messaging process dies once or alice's daemon is restarted     *)
(* once.                                                                       *)
EXTENDS DirectMessages

CONSTANTS alice, bob, m1, m2, s1, s2

BothEnds == [s \in Socket |-> {alice, bob}]

MCInit == Init /\ route[m1] = <<alice, bob>>

InOrder == route[m1] = route[m2] /\ caller[m1] = "idle" => caller'[m2] = "idle"

MCSpec == MCInit /\ [][Next /\ InOrder]_vars /\ Fairness
================================================================================
