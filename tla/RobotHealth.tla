------------------------------ MODULE RobotHealth ------------------------------
(***************************************************************************)
(* The health of a robot: robot_agent/node.py judges by the freshness and  *)
(* validity of its sources (model.py) and reports faults in its status;    *)
(* the gateway's registry (registry.py) takes the time a status arrives    *)
(* for a heartbeat, and its operations store (operations.py) keeps a       *)
(* ledger of faults and a record of outages.  The gateway handles statuses *)
(* in two threads, so that of two under way either may be applied first.   *)
(* A row of the ledger no longer active counts as none.                    *)
(***************************************************************************)
EXTENDS Naturals, FiniteSets

CONSTANTS Sources,          \* the topics judged, of BATTERY, ODOM and SCAN
          RecoverySamples,  \* clearance_recovery_samples
          Threads           \* of the gateway's executor

ASSUME HealthAssumption ==
  /\ Sources \subseteq {"BATTERY", "ODOM", "SCAN"}
  /\ {RecoverySamples, Threads} \subseteq Nat \ {0}

VARIABLES agentUp,    \* the robot agent's process
          source,     \* what there is of each topic
          warned,     \* _clearance_warning_active
          recovered,  \* _clearance_recovery_count
          clearRun,   \* since warned, clear samples after the last valid one that was not
          underway,   \* statuses published and not applied
          ledger,     \* the active faults with their severity
          heartbeat,  \* the registry's last status: "never", "recent" or "old"
          recorded,   \* _connectivity_states
          lastOutage  \* the last connectivity event

robotSide == <<agentUp, source, warned, recovered, clearRun>>
gatewaySide == <<ledger, heartbeat, recorded, lastOutage>>
healthVars == <<robotSide, underway, gatewaySide>>

SourceFaults == {"NOT_RECEIVED", "INVALID", "STALE"}
Codes == Sources \X SourceFaults
Severities == {"WARN", "ERROR"}
Statuses == [error : BOOLEAN, codes : SUBSET Codes]
Rows == Codes \X Severities

HealthInit ==
  /\ agentUp = FALSE
  /\ source = [s \in Sources |-> "NOT_RECEIVED"]
  /\ warned = FALSE /\ recovered = 0 /\ clearRun = 0
  /\ underway = {} /\ ledger = {}
  /\ heartbeat = "never" /\ recorded = "unknown" /\ lastOutage = "none"

-----------------------------------------------------------------------------
(* The robot agent.                                                          *)

Receives(s, valid) == source' = [source EXCEPT ![s] = IF valid THEN "fresh" ELSE "INVALID"]

\* _on_battery and _on_odom.
OnMessage(s, valid) ==
  /\ agentUp
  /\ Receives(s, valid)
  /\ UNCHANGED <<agentUp, warned, recovered, clearRun, underway, gatewaySide>>

\* Mutant of RecoveryCount: a sample between the two limits leaves the count.
CountKept(closest) == IF closest = "clear" THEN recovered + 1 ELSE recovered

RecoveryCount(closest) == IF closest = "clear" THEN recovered + 1 ELSE 0

\* clearance_transition of model.py: "low" is under the warning range, "clear"
\* above it by the hysteresis.
ClearanceTransition(closest) ==
  IF closest = "none" THEN UNCHANGED <<warned, recovered>>
  ELSE IF warned
       THEN LET count == RecoveryCount(closest) IN
            /\ warned' = (count < RecoverySamples)
            /\ recovered' = IF count < RecoverySamples THEN count ELSE 0
       ELSE warned' = (closest = "low") /\ recovered' = 0

\* _on_scan, with the closest of the points in range, "none" without one.
OnScan(closest) ==
  /\ agentUp /\ "SCAN" \in Sources
  /\ Receives("SCAN", closest # "none")
  /\ ClearanceTransition(closest)
  /\ clearRun' = IF ~warned THEN 0
                 ELSE CASE closest = "none" -> clearRun
                        [] closest = "clear" -> clearRun + 1
                        [] OTHER -> 0
  /\ UNCHANGED <<agentUp, underway, gatewaySide>>

TimePasses(s) ==
  /\ source[s] = "fresh"
  /\ source' = [source EXCEPT ![s] = "STALE"]
  /\ UNCHANGED <<agentUp, warned, recovered, clearRun, underway, gatewaySide>>

\* evaluate_health and _append_source_faults.
FaultCodes == {<<s, source[s]>> : s \in {t \in Sources : source[t] # "fresh"}}

IsError(codes) == \E code \in codes : code[1] \in {"ODOM", "SCAN"}

\* _publish_status.
PublishHealth ==
  /\ agentUp
  /\ Cardinality(underway) < Threads
  /\ underway' = underway \cup {[error |-> IsError(FaultCodes), codes |-> FaultCodes]}
  /\ UNCHANGED <<robotSide, gatewaySide>>

RobotAgentStarts ==
  /\ ~agentUp
  /\ agentUp' = TRUE
  /\ UNCHANGED <<source, warned, recovered, clearRun, underway, gatewaySide>>

RobotAgentDies ==
  /\ agentUp
  /\ agentUp' = FALSE
  /\ source' = [s \in Sources |-> "NOT_RECEIVED"]
  /\ warned' = FALSE /\ recovered' = 0 /\ clearRun' = 0
  /\ UNCHANGED <<underway, gatewaySide>>

-----------------------------------------------------------------------------
(* The gateway.                                                              *)

\* Mutant of SyncFaults: nothing to do for a robot without a fault.
SyncsFaultsFound(status) ==
  ledger' = IF status.codes = {} THEN ledger
            ELSE status.codes \X {IF status.error THEN "ERROR" ELSE "WARN"}

\* sync_faults: every code of a status takes the severity of its level, and one
\* that is missing is cleared.
SyncFaults(status) ==
  ledger' = status.codes \X {IF status.error THEN "ERROR" ELSE "WARN"}

\* update of the registry, then its listener.
StatusArrives(status) ==
  /\ status \in underway
  /\ underway' = underway \ {status}
  /\ heartbeat' = "recent"
  /\ SyncFaults(status)
  /\ UNCHANGED <<robotSide, recorded, lastOutage>>

StatusLost(status) ==
  /\ status \in underway
  /\ underway' = underway \ {status}
  /\ UNCHANGED <<robotSide, gatewaySide>>

HeartbeatAges ==
  /\ heartbeat = "recent"
  /\ heartbeat' = "old"
  /\ UNCHANGED <<robotSide, underway, ledger, recorded, lastOutage>>

Judged == IF heartbeat = "recent" THEN "online" ELSE "offline"

\* Mutant of OutageOf: a robot found offline is remembered, and no event written.
RecoveryOnly ==
  IF recorded = "unknown" \/ Judged = "offline" THEN lastOutage ELSE "online"

OutageOf == IF recorded = "unknown" THEN lastOutage ELSE Judged

\* One round of monitor_connectivity.  The state is set before the event is
\* written; the two are one step because a write of the store is taken to
\* succeed, and between them only a restart forgets, which exempts the outage.
MonitorConnectivity ==
  /\ heartbeat # "never"
  /\ recorded # Judged
  /\ recorded' = Judged
  /\ lastOutage' = OutageOf
  /\ UNCHANGED <<robotSide, underway, ledger, heartbeat>>

\* The ledger and the events are in the database.
HealthGatewayRestarts ==
  /\ underway' = {}
  /\ heartbeat' = "never" /\ recorded' = "unknown"
  /\ UNCHANGED <<robotSide, ledger, lastOutage>>

HealthNext ==
  \/ \E s \in Sources \ {"SCAN"}, valid \in BOOLEAN : OnMessage(s, valid)
  \/ \E closest \in {"none", "low", "between", "clear"} : OnScan(closest)
  \/ \E s \in Sources : TimePasses(s)
  \/ PublishHealth
  \/ RobotAgentStarts
  \/ RobotAgentDies
  \/ \E status \in underway : StatusArrives(status) \/ StatusLost(status)
  \/ HeartbeatAges
  \/ MonitorConnectivity
  \/ HealthGatewayRestarts

\* The publisher's timer fires, a status comes through now and then, and the
\* monitor goes round.
HealthFairness ==
  /\ WF_healthVars(PublishHealth)
  /\ SF_healthVars(\E status \in underway : StatusArrives(status))
  /\ WF_healthVars(HeartbeatAges)
  /\ WF_healthVars(MonitorConnectivity)

HealthSpec == HealthInit /\ [][HealthNext]_healthVars /\ HealthFairness

HealthTypeOK ==
  /\ agentUp \in BOOLEAN
  /\ source \in [Sources -> SourceFaults \cup {"fresh"}]
  /\ warned \in BOOLEAN /\ recovered \in 0..RecoverySamples - 1
  /\ clearRun \in 0..RecoverySamples
  /\ underway \subseteq Statuses
  /\ ledger \subseteq Rows
  /\ heartbeat \in {"never", "recent", "old"}
  /\ recorded \in {"unknown", "online", "offline"}
  /\ lastOutage \in {"none", "online", "offline"}

-----------------------------------------------------------------------------
Active(code) == \E severity \in Severities : <<code, severity>> \in ledger

\* LIVENESS, sync_faults: what the robot keeps saying of a source is what the
\* ledger settles on, whatever is lost, overtaken or heard by a gateway that
\* restarts in between.
LedgerSettles ==
  \A s \in Sources, fault \in SourceFaults :
    /\ <>[](agentUp /\ source[s] = fault) => <>[]Active(<<s, fault>>)
    /\ <>[](agentUp /\ source[s] = "fresh") => <>[]~Active(<<s, fault>>)

\* LIVENESS, sync_connectivity: a robot that falls silent while its gateway
\* knows it online has its outage recorded, unless the gateway restarts.
OutageIsRecorded ==
  (recorded = "online" /\ ~agentUp)
    ~> (agentUp \/ recorded = "unknown" \/ (recorded = "offline" /\ lastOutage = "offline"))

\* ACTION, _log_clearance_transition: the obstacle is reported gone only after
\* that many samples in a row were clear, invalid ones aside.
ClearedIsEarned ==
  [][agentUp /\ agentUp' /\ warned /\ ~warned' => clearRun' = RecoverySamples]_healthVars
=============================================================================
