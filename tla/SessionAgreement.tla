--------------------------- MODULE SessionAgreement ----------------------------
(* What the OFFER/CONFIRM exchange promises, whatever is negotiated: the      *)
(* responder settles the outcome, the initiator can only learn that very      *)
(* outcome, and either end may fail as long as it has none.                   *)
CONSTANTS Values, Pending, Failed

VARIABLE outcome   \* of each end

Ends == {"init", "resp"}

Init == outcome = [e \in Ends |-> Pending]

Settles(v) ==
  /\ outcome["resp"] = Pending
  /\ outcome' = [outcome EXCEPT !["resp"] = v]

Learns ==
  /\ outcome["init"] = Pending /\ outcome["resp"] \in Values
  /\ outcome' = [outcome EXCEPT !["init"] = outcome["resp"]]

Fails(e) ==
  /\ outcome[e] = Pending
  /\ outcome' = [outcome EXCEPT ![e] = Failed]

Next == Learns \/ (\E v \in Values : Settles(v)) \/ \E e \in Ends : Fails(e)

Spec == Init /\ [][Next]_outcome

================================================================================
