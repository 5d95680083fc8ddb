------------------------------ MODULE MCHolePunch ------------------------------
(* Two invites between two nodes behind NATs of two kinds.                    *)
EXTENDS HolePunch, TLC

CONSTANTS a, b, k1, k2

Hosts == [k \in Invite |-> IF k = k1 THEN a ELSE b]
Cone  == [kind |-> "cone", keeps |-> TRUE, base |-> 0, stride |-> 0]
Symmetric == [kind |-> "symmetric", keeps |-> FALSE, base |-> 300, stride |-> -2]
Pairs == {[n \in Side |-> IF n = a THEN Cone ELSE other] : other \in {Cone, Symmetric}}
================================================================================
