---------------------------- MODULE MCMediaSession ----------------------------
(* Constants for checking MediaSession with TLC. *)
EXTENDS MediaSession

CONSTANTS c1, c2, b1, b2

OneCall       == {c1}
TwoCalls      == {c1, c2}
TwoBroadcasts == {b1, b2}
OneCSeq       == {1}
TwoCSeqs      == {1, 2}
===============================================================================
