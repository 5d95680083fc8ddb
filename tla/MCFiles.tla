-------------------------------- MODULE MCFiles --------------------------------
(* A small instance of Files: one blob of two is too big for the bridge.       *)
EXTENDS Files
CONSTANTS p, b1, big, n1, n2, g, c, h1
OnePeer == {p}
TwoBlobs == {b1, big}
BigBlob == {big}
TwoNames == {n1, n2}
TwoGroups == {g, c}
BuiltInGroup == {g}
TwoPolicies == {{"public"}, {g}}
TwoSlots == {1, 2}
OneHandler == {h1}
================================================================================
