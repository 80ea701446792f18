--------------------------- MODULE MCPatrolMission ---------------------------
(* PatrolMission for TLC: one patrol over one or two places.                 *)
EXTENDS PatrolMission

CONSTANTS a, b, nowhere, op, none, patrol

MCPatrols == {patrol}
MCNoSessions == {}
MCOperators == {op}
MCNoOperators == {}
MCTwoPlaces == <<a, b>>
MCTargets == {a, b} \X Phases
=============================================================================
