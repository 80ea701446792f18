---------------------------- MODULE MCStandalone ----------------------------
(***************************************************************************)
(* The components that meet no other one in the model, for TLC: a world is *)
(* one of them, chosen at the start, and only that one moves.  The health  *)
(* of the robot and the log collector are each a product of concerns that  *)
(* do not meet either, and have a world for each.                          *)
(***************************************************************************)
EXTENDS LogDiagnosis, SupervisedMotion, ProfileManager, RobotHealth,
        GoalProgress, LogCollector, LogAnalyzer, MockRobot

VARIABLE world

(* A record of each kind the diagnosis tells apart.                          *)
Of(c, level, kind) == [cause |-> c, severe |-> level = "WARNING", note |-> kind]

MCMessages ==
  {Of("network_lease", "WARNING", "plain"), Of("clock_sync", "INFO", "plain"),
   Of("sensor_data", "INFO", "plain"), Of("localization_tf", "WARNING", "plain"),
   Of("localization_tf", "WARNING", "initial"), Of("safety_stop", "WARNING", "active"),
   Of("safety_stop", "WARNING", "timeout"), Of("safety_stop", "WARNING", "timedOut")}

Worlds == {"motion", "profile", "ledger", "clearance", "outage", "progress", "journal",
           "model", "diagnosis", "advice", "mock"}

operation == <<motionVars, profileVars, progressVars>>
logs == <<collectorVars, diagnosisVars, analyzerVars>>
worldVars == <<world, operation, logs, healthVars, mockVars>>

\* Of the mock: a long goal and one that is not, the lease for the first, and
\* manual driving and the other profiles before the goals.
MockSlice ==
  /\ destination[1] = "far" /\ destination[2] # "far"
  /\ leaseOf # 2
  /\ (\E g \in MockGoals : goalAt[g] # "unsent") => session = 0 /\ mockProfile = "NAVIGATION"

\* Of the advice: one report on file, the next one takes its place.
OneReport == Cardinality(reports) =< 1

WorldInit ==
  /\ world \in Worlds
  /\ MotionInit /\ ProfileInit /\ ProgressInit
  /\ CollectorInit /\ DiagnosisInit /\ AnalyzerInit
  /\ HealthInit /\ MockInit /\ MockSlice
  /\ world # "profile" => units = {} /\ ~mapFile
  /\ world # "mock" => destination[2] = "near"

In(worlds) == world \in worlds /\ UNCHANGED world

Ledger ==
  \/ \E s \in Sources \ {"SCAN"} : OnMessage(s, TRUE)
  \/ \E closest \in {"none", "clear"} : OnScan(closest)
  \/ \E s \in Sources : TimePasses(s)
  \/ PublishHealth
  \/ RobotAgentStarts
  \/ RobotAgentDies
  \/ \E status \in underway : StatusArrives(status) \/ StatusLost(status)
  \/ HealthGatewayRestarts

Clearance ==
  \/ \E closest \in {"none", "low", "between", "clear"} : OnScan(closest)
  \/ "SCAN" \in Sources /\ TimePasses("SCAN")
  \/ RobotAgentStarts
  \/ RobotAgentDies

Outage ==
  \/ PublishHealth
  \/ RobotAgentStarts
  \/ RobotAgentDies
  \/ \E status \in underway : StatusArrives(status) \/ StatusLost(status)
  \/ HeartbeatAges
  \/ MonitorConnectivity
  \/ HealthGatewayRestarts

Journal ==
  \/ JournalWrites
  \/ JournalCommits
  \/ JournalTicks
  \/ PollStarts
  \/ PollReturns
  \/ PollFails
  \/ CollectorDies
  \/ CollectorStarts

Model ==
  \/ Promote
  \/ InferenceStarts
  \/ InferencePublished
  \/ CollectorDies
  \/ CollectorStarts

WorldNext ==
  \/ /\ In({"motion"}) /\ MotionNext
     /\ UNCHANGED <<profileVars, progressVars, logs, healthVars, mockVars>>
  \/ /\ In({"profile"}) /\ ProfileNext
     /\ UNCHANGED <<motionVars, progressVars, logs, healthVars, mockVars>>
  \/ /\ In({"progress"}) /\ ProgressNext
     /\ UNCHANGED <<motionVars, profileVars, logs, healthVars, mockVars>>
  \/ /\ \/ In({"ledger"}) /\ Ledger
        \/ In({"clearance"}) /\ Clearance
        \/ In({"outage"}) /\ Outage
     /\ UNCHANGED <<operation, logs, mockVars>>
  \/ /\ \/ In({"journal"}) /\ Journal
        \/ In({"model"}) /\ Model
     /\ UNCHANGED <<operation, diagnosisVars, analyzerVars, healthVars, mockVars>>
  \/ /\ In({"diagnosis"}) /\ DiagnosisNext
     /\ UNCHANGED <<operation, collectorVars, analyzerVars, healthVars, mockVars>>
  \/ /\ In({"advice"}) /\ AnalyzerNext
     /\ UNCHANGED <<operation, collectorVars, diagnosisVars, healthVars, mockVars>>
  \/ /\ In({"mock"}) /\ MockNext /\ MockSlice'
     /\ UNCHANGED <<operation, logs, healthVars>>

\* The fairness of each component, in its world.
WorldFairness ==
  /\ WF_profileVars(world = "profile" /\ ManagerWorks)
  /\ WF_profileVars(world = "profile" /\ ManagerRespawns)
  /\ WF_profileVars(world = "profile" /\ GatewaySees)
  /\ WF_healthVars(world \in {"ledger", "outage"} /\ PublishHealth)
  /\ SF_healthVars(world = "ledger" /\ \E status \in underway : StatusArrives(status))
  /\ WF_healthVars(world = "outage" /\ HeartbeatAges)
  /\ WF_healthVars(world = "outage" /\ MonitorConnectivity)
  /\ WF_collectorVars(world = "model" /\ CollectorStarts)
  /\ WF_collectorVars(world = "model" /\ InferencePublished)
  /\ SF_collectorVars(world = "model" /\ InferenceStarts)

StandaloneSpec == WorldInit /\ [][WorldNext]_worldVars /\ WorldFairness

\* The types of every component.
StandaloneTypeOK ==
  /\ MotionTypeOK
  /\ ProfileTypeOK
  /\ ProgressTypeOK
  /\ CollectorTypeOK
  /\ AnalyzerTypeOK
  /\ HealthTypeOK
  /\ MockTypeOK

-----------------------------------------------------------------------------
\* TEMPORAL: the ledger settles on the faults the robot reports (sync_faults), in
\* its world, a robot that falls silent has its outage recorded
\* (sync_connectivity), and an obstacle is gone when it was seen to be
\* (_log_clearance_transition).
HealthIsTracked == (world = "ledger" => LedgerSettles) /\ OutageIsRecorded /\ ClearedIsEarned
=============================================================================
