--------------------------- MODULE MCSessionExchange ---------------------------
(* A finite instance of SessionExchange: the heartbeat capability as every    *)
(* configuration declares it, and one more capability in all its forms.       *)
EXTENDS SessionExchange

CONSTANT Social

MCLimits == {0, 1, 2}

HeartbeatDeclared == [role |-> "Both", mutual |-> TRUE, limit |-> 0]

\* mutual matters for Both only.
SocialDeclarations ==
  {d \in Declarations : d.role # "Both" => ~d.mutual} \cup {Absent}

\* Configurations: heartbeat is declared by both ends, by one, or by none.
MCInit ==
  /\ Init
  /\ \A e \in Ends : /\ manifest[e][Heartbeat] \in {HeartbeatDeclared, Absent}
                      /\ manifest[e][Social] \in SocialDeclarations

MCSpec == MCInit /\ [][Next]_vars /\ Fairness

================================================================================
