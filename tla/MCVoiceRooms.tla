------------------------------ MODULE MCVoiceRooms ------------------------------
(* Small instances of VoiceRooms.                                              *)
EXTENDS VoiceRooms
CONSTANTS p, me, r1
OnePeer == {p}
OneRoom == {r1}
TwoSockets == {1, 2}
Limits == {1, 2}
================================================================================
