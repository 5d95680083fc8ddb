------------------------------ MODULE MCPeering --------------------------------
(* Peering with small sets of nodes and requests.                             *)
EXTENDS Peering, TLC

Jobs == Permutations(Job)
================================================================================
