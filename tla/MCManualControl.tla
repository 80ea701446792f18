---------------------------- MODULE MCManualControl ----------------------------
(* ManualControl for TLC: two operators, one command that moves.             *)
EXTENDS ManualControl

CONSTANTS still, go, malformed, none, s1, s2

MCMotion == {go}
MCSessions == {s1, s2}
=============================================================================
