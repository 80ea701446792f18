--------------------------- MODULE MCGatewayOwners ---------------------------
(***************************************************************************)
(* The owners of a goal for TLC, either the clients of the HTTP API, all   *)
(* at once while nothing restarts, or a patrol that is interrupted by its  *)
(* cancellation, the emergency stop and restarts.                          *)
(***************************************************************************)
EXTENDS MCPatrolMission

CONSTANT ses

VARIABLE side

MCSessions == {ses}
MCOneTarget == {<<a, "translation">>}

Fleet == INSTANCE FleetOwnership WITH Targets <- MCOneTarget

OwnersInit == side \in {"fleet", "patrols"} /\ MissionInit

OwnersNext ==
  /\ UNCHANGED side
  /\ \/ side = "fleet" /\ Fleet!FleetNext /\ restarts' = 0 /\ UNCHANGED patrolVars
     \/ side = "patrols" /\ (Undisturbed \/ Interrupted \/ EmergencyStopped)

OwnersSpec == OwnersInit /\ [][OwnersNext]_<<side, missionVars>>

-----------------------------------------------------------------------------
\* Nobody presses the emergency stop of a patrol after a restart.
StopsFirst ==
  side = "patrols" /\ restarts > 0 => ~estopEngaged /\ \A o \in Operators : estopPc[o] = "idle"

\* Nobody sees a success being settled: it may as well be settled right before
\* the failure or the end that the robot shows next.
SettledLate == settled /\ verdict = "ACTIVE" => verdict' # "ACTIVE"

\* The node and the patrols take every status without a goal alike: UNAVAILABLE
\* stands for the others.
OneRest == \A i \in DOMAIN statuses' : statuses'[i].state # "PENDING"
=============================================================================
