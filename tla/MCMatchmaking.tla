------------------------------ MODULE MCMatchmaking ------------------------------
(* Two calls between three nodes that have one relay in common; the relay lets  *)
(* each of b and z have two circuits, and a one.  A call of a's begins first;   *)
(* faults happen where a makes one.  The calls' messages overtake each other.   *)
EXTENDS Matchmaking, TLC

CONSTANTS a, b, z, r

Pairs    == {{a, r}, {b, r}, {z, r}}
Channels == Node \cup Call
Limits   == [s \in Pairs |-> IF a \in s THEN 1 ELSE 2]
Same     == Permutations(Call) \cup Permutations({b, z})

FirstIsOfA == \A c, d \in Call :
  call[c].node = 0 /\ call'[c].node = a => call[d].node \in {0, a}
FaultsOfA  == faults' # 0 => \E c \in Call : call'[c].node = a

MCSpec == MatchInit /\ [][MatchNext /\ FirstIsOfA /\ FaultsOfA]_matchVars
================================================================================
