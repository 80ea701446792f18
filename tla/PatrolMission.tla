---------------------------- MODULE PatrolMission ----------------------------
(***************************************************************************)
(* Patrols on a robot: the patrol manager, the gateway's ROS node and the  *)
(* robot.  What FleetOwnership shows of leases is left out: leases are     *)
(* published and none lapses, and a goal that fails for any reason fails.  *)
(***************************************************************************)
EXTENDS PatrolManager, FiniteSets

missionVars == <<robotVars, gatewayVars, patrolVars>>

MissionInit == LinkInit /\ GatewayInit /\ PatrolInit

Answers(c) == AgentAnswers(c) /\ UNCHANGED <<gatewayVars, patrolVars>>
Begins == AgentBegins /\ UNCHANGED <<gatewayVars, patrolVars>>
Fails == AgentCondemns /\ UNCHANGED <<gatewayVars, patrolVars>>
Settles == AgentSettles /\ UNCHANGED <<gatewayVars, patrolVars>>
Finishes == AgentFinishes /\ UNCHANGED <<gatewayVars, patrolVars>>
Reports == AgentPublishes /\ UNCHANGED <<gatewayVars, patrolVars>>
Respawns == AgentRestarts /\ UNCHANGED <<gatewayVars, patrolVars>>

StartCall(c) ==
  /\ StartAnswered(c) \/ StartActivates(c) \/ StartGivesUp(c) \/ StartLeases(c)
  /\ UNCHANGED patrolVars

CancelSent(c) == PoppedIsCanceled(c) /\ UNCHANGED patrolVars
ResultCallback(c) == ResultArrives(c) /\ UNCHANGED patrolVars
Unconfirmed == LeaseTimerGivesUp /\ UNCHANGED patrolVars
Taken == StatusTaken /\ UNCHANGED patrolVars
StatusListeners(i) == PatrolHearsStatus(i) \/ (StatusApplied(i) /\ UNCHANGED patrolVars)

Driver(d) ==
  \/ BeginGoal(d)
  \/ \E c \in Commands : CallStart(d, c)
  \/ GoalStarted(d)

Worker ==
  \/ WorkerTakes
  \/ WorkerFails
  \/ WorkerReadsPhase
  \/ WorkerTurns
  \/ WorkerAdvances
  \/ WorkerDwells

\* A patrol that runs without being interfered with.
Undisturbed ==
  \/ \E c \in Commands : Answers(c) \/ StartCall(c) \/ CancelSent(c) \/ ResultCallback(c)
  \/ Begins
  \/ Fails
  \/ Settles
  \/ Finishes
  \/ Reports
  \/ Unconfirmed
  \/ Taken
  \/ \E i \in DOMAIN heard : StatusListeners(i)
  \/ \E p \in Patrols : RunChecks(p)
  \/ RunStarts
  \/ \E d \in Drivers : Driver(d)
  \/ Worker

StopThread(o) ==
  \/ (EstopStopsManual(o) \/ EstopPops(o)) /\ UNCHANGED patrolVars
  \/ StopForSafety(o)

Interrupted ==
  \/ \E p \in Patrols : CancelReads(p)
  \/ CancelCalls
  \/ CancelCloses
  \/ PatrolsRestart
  \/ Respawns

EmergencyStopped ==
  \E o \in Operators :
    \/ (EstopAnswered(o) \/ EstopReleased(o)) /\ UNCHANGED patrolVars
    \/ StopThread(o)

InterruptedSpec == MissionInit /\ [][Undisturbed \/ Interrupted]_missionVars

DisturbedSpec == MissionInit /\ [][Undisturbed \/ Interrupted \/ EmergencyStopped]_missionVars

\* Threads that are ready run, and the agent reports what became of a goal.
UndisturbedSpec ==
  /\ MissionInit
  /\ [][Undisturbed]_missionVars
  /\ \A c \in Commands :
       /\ WF_missionVars(Answers(c))
       /\ WF_missionVars(StartCall(c))
  /\ WF_missionVars(Begins)
  /\ WF_missionVars(Reports)
  /\ WF_missionVars(Unconfirmed)
  /\ WF_missionVars(Taken)
  /\ WF_missionVars(StatusListeners(1))
  /\ WF_missionVars(RunStarts)
  /\ \A d \in Drivers : WF_missionVars(Driver(d))
  /\ WF_missionVars(Worker)

-----------------------------------------------------------------------------
MissionTypeOK == GatewayTypeOK /\ PatrolTypeOK

\* Goals that took the robot to a waypoint and its final yaw.
Visits == {c \in Commands : outcome[c] = "SUCCEEDED" /\ goalTarget[c][2] # "translation"}

Progress(p) ==
  patrols[p].loop * Len(Places) + patrols[p].waypoint
    - (IF patrols[p].state = "COMPLETED" THEN 0 ELSE 1)

\* INVARIANT, the docstring of PatrolManager: patrols advance only after
\* matching goal success.  A patrol over distinct places never is further than
\* the waypoints the robot reached, and a complete one has them all, although
\* statuses are late, displaced in the queue and repeated.
AdvancesOnVisits == \A p \in Patrols : Progress(p) =< Cardinality(Visits)

\* INVARIANT: somebody starts the goal of every patrol that is STARTING, also
\* after a restart of the gateway; a patrol nobody drives would keep the robot
\* from any other.
StartingPatrolIsDriven ==
  \A p \in Patrols :
    patrols[p].state = "STARTING" => \E d \in Drivers : drivers[d].patrol = p

\* ACTION PROPERTY that patrol_manager.py:130 and
\* docs/design/phase-8-web-patrol-mapping-diagnostics.md:89 claim of a canceled
\* patrol: no waypoint will resume.
CanceledStaysCanceled ==
  [][\A p \in Patrols : patrols[p].state = "CANCELED" => patrols'[p].state # "ACTIVE"]_missionVars

Waits(p, c) == patrols[p].state = "ACTIVE" /\ patrols[p].command = c

\* LIVENESS: a patrol does not wait for a goal that ended: it goes on or ends.
EndedGoalMovesPatrol ==
  \A p \in Patrols, c \in Commands :
    (Waits(p, c) /\ outcome[c] \in Agent!Endings) ~> ~Waits(p, c)
=============================================================================
