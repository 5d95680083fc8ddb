------------------------------ MODULE MCFeedPosts ------------------------------
(* A small instance of FeedPosts: the owner and a peer attach the same blob.    *)
EXTENDS FeedPosts, TLC
CONSTANTS mine, theirs, b1, b2
OneMine == {mine}
OneTheirs == {theirs}
TwoBlobs == {b1, b2}
TwoSlots == {1, 2}
Attached == (mine :> {b1}) @@ (theirs :> {b1, b2})
================================================================================
