--------------------------- MODULE MCWatchdogLayers ---------------------------
(* WatchdogLayers for TLC: zero, an over-limit command, and one with a broken *)
(* axis, which the policy turns into a rotation.                              *)
EXTENDS WatchdogLayers, TLC

CONSTANTS nan

MCInputs == { [lin |-> 0, ang |-> 0], [lin |-> 2, ang |-> 0], [lin |-> nan, ang |-> 1] }
=============================================================================
