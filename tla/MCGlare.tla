-------------------------------- MODULE MCGlare --------------------------------
(* A finite instance of Glare: the lower id dials once, the higher id twice.  *)
EXTENDS Glare, TLC

CONSTANTS l, h1, h2

HighSymmetry == Permutations({h1, h2})

================================================================================
