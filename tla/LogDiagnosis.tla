------------------------------ MODULE LogDiagnosis ------------------------------
(***************************************************************************)
(* What the dashboard shows of the logs, diagnose_records of               *)
(* fleet_gateway/log_mlops.py, while they grow: the records that match a   *)
(* cause are one incident, with a status and a rank.  A record here is     *)
(* what the patterns find in it: its cause, its severity and which of the  *)
(* cause's special messages it is.  Times are seconds.                     *)
(***************************************************************************)
EXTENDS Integers, Sequences, FiniteSets

CONSTANTS Messages,   \* the records that may be logged, without their time
          Waits,      \* seconds between two of them
          MaxRecords, \* bound
          Limit       \* of the incidents shown

VARIABLES logged, clock

diagnosisVars == <<logged, clock>>

\* cause_priority, for every cause of ROOT_CAUSE_RULES.
Priority ==
  [network_lease |-> 100, lease_timer |-> 95, transport_reply |-> 92, clock_sync |-> 90,
   navigation_progress |-> 80, collision_clearance |-> 75, safety_stop |-> 70,
   process_restart |-> 65, navigation_lifecycle |-> 64, resource_pressure |-> 55,
   robot_telemetry |-> 54, sensor_qos |-> 53, sensor_data |-> 50, power_state |-> 45,
   localization_tf |-> 30]

Causes == DOMAIN Priority
RequiresWarning == {"collision_clearance", "localization_tf", "navigation_progress",
                    "network_lease", "transport_reply", "robot_telemetry", "sensor_qos",
                    "power_state", "navigation_lifecycle"}
LeaseCandidates == {"lease_timer", "clock_sync", "transport_reply", "process_restart",
                    "resource_pressure"}
SafetyFailures == {"network_lease", "lease_timer", "navigation_progress",
                   "collision_clearance", "sensor_data", "robot_telemetry", "sensor_qos",
                   "navigation_lifecycle", "resource_pressure", "process_restart"}
InfoOnlyMinimum(cause) == IF cause = "sensor_data" THEN 2 ELSE 1

\* Of a safety stop: "emergency stop active", "watchdog ... timeout" or
\* "watchdog ... timed out"; of the localization: "set the initial pose".
Notes == {"plain", "active", "timeout", "timedOut", "initial"}

ASSUME DiagnosisAssumption ==
  /\ Messages \subseteq [cause : Causes, severe : BOOLEAN, note : Notes]
  /\ Waits \subseteq Nat
  /\ MaxRecords \in Nat /\ Limit \in Nat \ {0}

DedupWindow == 5
ActiveWindow == 120

DiagnosisInit == logged = <<>> /\ clock = 0

Logs(message) ==
  /\ Len(logged) < MaxRecords
  /\ logged' = Append(logged, [message |-> message, at |-> clock])
  /\ UNCHANGED clock

SecondsPass(wait) ==
  /\ logged # <<>> /\ clock = logged[Len(logged)].at
  /\ clock' = clock + wait
  /\ UNCHANGED logged

DiagnosisNext ==
  \/ \E message \in Messages : Logs(message)
  \/ \E wait \in Waits : SecondsPass(wait)

DiagnosisSpec == DiagnosisInit /\ [][DiagnosisNext]_diagnosisVars

-----------------------------------------------------------------------------
(* _deduplicate_incident_records: a cluster is a burst of one message.       *)

Matches(cause) ==
  {i \in DOMAIN logged : /\ logged[i].message.cause = cause
                         /\ cause \in RequiresWarning => logged[i].message.severe}

\* _incident_fingerprint
SameFingerprint(i, j) == logged[i].message = logged[j].message

\* Mutant of Continues: a burst is as long as the window at most.
ContinuesFirst(cluster, i) == logged[i].at - logged[cluster.first].at <= DedupWindow

Continues(cluster, i) == logged[i].at - logged[cluster.last].at <= DedupWindow

Clusters(matches) ==
  LET after[i \in 0..Len(logged)] ==
        IF i = 0 THEN {}
        ELSE IF i \notin matches THEN after[i - 1]
        ELSE LET joined == {c \in after[i - 1] : SameFingerprint(c.last, i) /\ Continues(c, i)}
             IN (after[i - 1] \ joined)
                \cup {[first |-> IF joined = {} THEN i ELSE (CHOOSE c \in joined : TRUE).first,
                       last |-> i]}
  IN after[Len(logged)]

-----------------------------------------------------------------------------
(* diagnose_records                                                          *)

Occurrences(cause) == Cardinality(Clusters(Matches(cause)))

Diagnosed ==
  {cause \in Causes :
     /\ Matches(cause) # {}
     /\ \/ \E i \in Matches(cause) : logged[i].message.severe
        \/ Occurrences(cause) >= InfoOnlyMinimum(cause)}

FirstSeen(cause) ==
  LET first == CHOOSE i \in Matches(cause) : \A j \in Matches(cause) : i <= j IN logged[first].at
LastSeen(cause) ==
  LET last == CHOOSE i \in Matches(cause) : \A j \in Matches(cause) : j <= i IN logged[last].at

\* _diagnoses_overlap
Overlapping(c, d, margin) ==
  FirstSeen(c) <= LastSeen(d) + margin /\ FirstSeen(d) <= LastSeen(c) + margin

Noted(indices, note) == \A i \in indices : logged[i].message.note = note

\* Mutant of ExpectedStartup: one such message suffices.
StartupSeen(cause) ==
  cause = "localization_tf" /\ \E i \in Matches(cause) : logged[i].message.note = "initial"

ExpectedStartup(cause) == cause = "localization_tf" /\ Noted(Matches(cause), "initial")

\* The pattern for these is not that of the cause: it finds no "timed out".
SafetyMessages == {i \in Matches("safety_stop") : logged[i].message.note # "timedOut"}

ExpectedSafety(cause) ==
  /\ cause = "safety_stop"
  /\ SafetyMessages # {} /\ Noted(SafetyMessages, "active")
  /\ \A d \in SafetyFailures \cap Diagnosed : ~Overlapping(cause, d, 15)

Recent120(cause) == clock - LastSeen(cause) <= ActiveWindow

Status(cause) ==
  CASE ExpectedSafety(cause) -> "EXPECTED_SAFETY_STATE"
    [] ~ExpectedSafety(cause) /\ ExpectedStartup(cause) -> "EXPECTED_STARTUP"
    [] ~ExpectedSafety(cause) /\ ~ExpectedStartup(cause) ->
         IF Recent120(cause) THEN "ACTION_REQUIRED" ELSE "HISTORICAL"

ActionRequired(cause) == Status(cause) = "ACTION_REQUIRED"

Correlated(cause) ==
  cause = "network_lease" /\ \E d \in LeaseCandidates \cap Diagnosed : Overlapping(cause, d, 30)

Penalty(condition, points) == IF condition THEN points ELSE 0

\* Mutant of HistoricalPoints: an incident of the past is only put back a little.
HistoricalLittle == 20

HistoricalPoints == 200

\* _sort_score, in sixtieths: a point is a minute of age.
Score(cause) ==
  LET age == clock - LastSeen(cause) IN
  60 * (Priority[cause] + Penalty(Correlated(cause), 25)
        - Penalty(ExpectedStartup(cause), 60)
        - Penalty(~ExpectedStartup(cause) /\ ~Recent120(cause), HistoricalPoints)
        - Penalty(ExpectedSafety(cause), 160))
  - (IF age < 1200 THEN age ELSE 1200)

\* The incidents before this one; an equal score goes by the time last seen.
Before(c, d) == Score(c) > Score(d) \/ (Score(c) = Score(d) /\ LastSeen(c) > LastSeen(d))

Shown == {c \in Diagnosed : Cardinality({d \in Diagnosed : Before(d, c)}) < Limit}

-----------------------------------------------------------------------------
\* What a burst is: repeats, each within the window of the one before it.
LastOfBursts(matches) ==
  {i \in matches : ~\E j \in matches : /\ j > i /\ SameFingerprint(i, j)
                                       /\ logged[j].at - logged[i].at <= DedupWindow}

\* INVARIANT, _deduplicate_incident_records: one pass over the records counts
\* every burst once, with its newest record as the evidence.
BurstsAreCounted ==
  \A cause \in Causes : {c.last : c \in Clusters(Matches(cause))} = LastOfBursts(Matches(cause))

\* INVARIANT, diagnose_records: no incident that is over or expected takes the
\* place of one that requires action, whatever their causes and ages.
ActiveIncidentsAreShown ==
  (\E c \in Diagnosed \ Shown : ActionRequired(c)) => \A d \in Shown : ActionRequired(d)

Required == {c \in Diagnosed : ActionRequired(c)}
TimedOut == \E i \in Matches("safety_stop") : logged[i].message.note = "timedOut"

\* ACTION, diagnose_records: a record logged never makes an incident that
\* requires action disappear or look expected.  A stop whose record says "timed
\* out" is left out: SafetyMessages does not find it, and it looks expected next
\* to an emergency stop.
EvidenceHidesNothing ==
  [][logged' # logged => Required \ (IF TimedOut THEN {"safety_stop"} ELSE {}) \subseteq Required']_diagnosisVars

\* TEMPORAL, diagnose_records: what is shown first is what requires action, as
\* the bursts of its records are counted and as more records come.
DiagnosisHolds == []BurstsAreCounted /\ []ActiveIncidentsAreShown /\ EvidenceHidesNothing
=============================================================================
