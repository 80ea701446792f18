-------------------------- MODULE MCFleetOwnership --------------------------
(* FleetOwnership for TLC: poses, operators and manual sessions by name.     *)
EXTENDS FleetOwnership

CONSTANTS here, nowhere, op, ses, none

MCTargets == {here}
MCOperators == {op}
MCSessions == {ses}
MCNoSessions == {}

\* Nobody sees a success being settled: it may as well be settled right before
\* the failure or the end that the robot shows next.
SettledLate == settled /\ verdict = "ACTIVE" => verdict' # "ACTIVE"

\* The node takes every status without a goal alike: UNAVAILABLE stands for the
\* others.
OneRest == \A i \in DOMAIN statuses' : statuses'[i].state # "PENDING"
=============================================================================
