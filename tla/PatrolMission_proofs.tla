-------------------------- MODULE PatrolMission_proofs --------------------------
(***************************************************************************)
(* Patrols for any number of patrols, places, commands and restarts: to    *)
(* the gateway's node they are clients like any other, whatever disturbs   *)
(* them none is forgotten while it starts, and one that nobody disturbs is *)
(* never further than the robot.                                           *)
(***************************************************************************)
EXTENDS PatrolMission, FleetOwnership_proofs, FiniteSetTheorems

Steps == Undisturbed \/ Interrupted \/ EmergencyStopped

RowsOK ==
  /\ patrols \in [Patrols -> Rows]
  /\ \A p \in Patrols : patrols[p].loop < Loops
  /\ goalPhase \in [Patrols -> Phases \cup {"none"}]
  /\ expected \in [Patrols -> Targets \cup {NoTarget}]
  /\ updates \in Seq(Statuses) /\ Len(updates) =< MaxUpdates

DriverPcs == {"idle", "accepted", "begin", "call", "wait", "verdict", "turn", "advance", "dwell"}
DriverRecords == [pc : DriverPcs, patrol : Patrols \cup {NoPatrol}, waypoint : Waypoints,
                  phase : Phases, status : Statuses \cup {NoStatus},
                  command : Commands \cup {NoCommand}]

\* A driver that does something does it for a patrol; one that waits has called.
DriversOK ==
  /\ drivers \in [Drivers -> DriverRecords]
  /\ \A d \in Drivers :
       /\ drivers[d].pc = "idle" <=> drivers[d].patrol = NoPatrol
       /\ drivers[d].pc = "wait" => drivers[d].command # NoCommand

CancelerOK ==
  /\ canceler \in [pc : {"idle", "close", "cancel", "fail"}, patrol : Patrols \cup {NoPatrol},
                   command : Commands \cup {NoCommand}]
  /\ canceler.pc = "idle" <=> canceler.patrol = NoPatrol
  /\ canceler.pc = "cancel" => canceler.command # NoCommand

PatrolInv == RowsOK /\ DriversOK /\ CancelerOK /\ StartingPatrolIsDriven

LEMMA PatrolFacts ==
  /\ NoPatrol \notin Patrols /\ NoCommand \notin Commands /\ NoTarget \notin Targets
  /\ Loops \in Nat /\ 0 < Loops /\ 0 \in 0..Loops
  /\ Len(Places) \in Nat /\ 1 \in Waypoints
  /\ \A w \in Waypoints, phase \in Phases : Target(w, phase) \in Targets
BY CommandFacts, PatrolAssumption, LinkAssumption, PlacesAssumption DEF CommandTypes, Waypoints

LEMMA PatrolsUntouched == ASSUME PatrolInv, UNCHANGED patrolVars PROVE PatrolInv'
BY DEF PatrolInv, RowsOK, DriversOK, CancelerOK, StartingPatrolIsDriven, patrolVars

-----------------------------------------------------------------------------
(* What the writes of the manager do.                                        *)

\* The row of one patrol is written: its state and its command.
LEMMA RowWritten ==
  ASSUME patrols \in [Patrols -> Rows], NEW p \in Patrols, NEW state \in Open \cup Ended,
         NEW command \in Commands \cup {NoCommand}, NEW next,
         next = [patrols EXCEPT ![p].state = state, ![p].command = command]
  PROVE  /\ next \in [Patrols -> Rows]
         /\ \A q \in Patrols \ {p} : next[q] = patrols[q]
         /\ \A q \in Patrols : /\ next[q].state = IF q = p THEN state ELSE patrols[q].state
                               /\ next[q].command = IF q = p THEN command ELSE patrols[q].command
                               /\ next[q].loop = patrols[q].loop
                               /\ next[q].waypoint = patrols[q].waypoint
<1>1. next = [patrols EXCEPT ![p] = [patrols[p] EXCEPT !.state = state, !.command = command]]
  OBVIOUS
<1>2. /\ [patrols[p] EXCEPT !.state = state, !.command = command] \in Rows
      /\ \A q \in Patrols : patrols[q] \in Rows
  BY DEF Rows
<1> QED
  BY <1>1, <1>2 DEF Rows

\* It is closed, or made to start, without a command.
LEMMA RowClosed ==
  ASSUME patrols \in [Patrols -> Rows], NEW p \in Patrols, NEW state \in Open \cup Ended
  PROVE  /\ Close(p, state) \in [Patrols -> Rows]
         /\ \A q \in Patrols \ {p} : Close(p, state)[q] = patrols[q]
         /\ \A q \in Patrols :
              /\ Close(p, state)[q].state = IF q = p THEN state ELSE patrols[q].state
              /\ Close(p, state)[q].loop = patrols[q].loop
              /\ Close(p, state)[q].waypoint = patrols[q].waypoint
<1> DEFINE row == [patrols[p] EXCEPT !.state = state, !.command = NoCommand]
<1>1. Close(p, state) = [patrols EXCEPT ![p] = row]
  BY DEF Close
<1>2. /\ row \in Rows /\ row.state = state
      /\ row.loop = patrols[p].loop /\ row.waypoint = patrols[p].waypoint
  BY DEF Rows
<1> HIDE DEF row
<1> QED
  BY <1>1, <1>2

\* Its goal is forgotten.
LEMMA GoalForgotten ==
  ASSUME RowsOK, NEW p \in Patrols, ForgetGoal(p)
  PROVE  /\ goalPhase' \in [Patrols -> Phases \cup {"none"}]
         /\ expected' \in [Patrols -> Targets \cup {NoTarget}]
         /\ \A q \in Patrols \ {p} : goalPhase'[q] = goalPhase[q] /\ expected'[q] = expected[q]
BY DEF RowsOK, ForgetGoal

\* One driver moves.
LEMMA DriverMoved ==
  ASSUME DriversOK, NEW d \in Drivers, NEW next \in DriverRecords,
         drivers' = [drivers EXCEPT ![d] = next],
         next.pc = "idle" <=> next.patrol = NoPatrol,
         next.pc = "wait" => next.command # NoCommand
  PROVE  /\ DriversOK'
         /\ \A e \in Drivers : drivers'[e] = IF e = d THEN next ELSE drivers[e]
<1>1. \A e \in Drivers : drivers'[e] = IF e = d THEN next ELSE drivers[e]
  BY DEF DriversOK
<1> QED
  BY <1>1 DEF DriversOK

\* It goes on, with its patrol.
LEMMA DriverGoes ==
  ASSUME DriversOK, NEW d \in Drivers, drivers[d].pc # "idle",
         NEW pc \in DriverPcs \ {"idle", "wait"}, Goes(d, pc)
  PROVE  /\ DriversOK'
         /\ \A e \in Drivers : e # d => drivers'[e] = drivers[e]
         /\ drivers'[d] = [drivers[d] EXCEPT !.pc = pc]
<1> DEFINE next == [drivers[d] EXCEPT !.pc = pc]
<1>1. drivers[d] \in DriverRecords /\ drivers[d].patrol # NoPatrol
  BY DEF DriversOK
<1>2. next \in DriverRecords /\ next.pc = pc /\ next.patrol = drivers[d].patrol
  BY <1>1 DEF DriverRecords
<1>3. drivers' = [drivers EXCEPT ![d] = next]
  BY DEF Goes
<1> HIDE DEF next
<1>4. /\ DriversOK'
      /\ \A e \in Drivers : drivers'[e] = IF e = d THEN next ELSE drivers[e]
  BY <1>1, <1>2, <1>3, DriverMoved
<1> QED
  BY <1>4 DEF next

\* It is done.
LEMMA DriverRests ==
  ASSUME DriversOK, NEW d \in Drivers, Rests(d)
  PROVE  DriversOK' /\ \A e \in Drivers : drivers'[e] = IF e = d THEN Idle ELSE drivers[e]
<1>1. /\ Idle \in DriverRecords /\ (Idle.pc = "idle" <=> Idle.patrol = NoPatrol)
      /\ (Idle.pc = "wait" => Idle.command # NoCommand)
  BY PatrolFacts DEF Idle, DriverRecords, DriverPcs, Phases
<1> QED
  BY <1>1, DriverMoved DEF Rests

-----------------------------------------------------------------------------
(* The run request and the starting of goals.                                *)

LEMMA RunChecksStep ==
  ASSUME PatrolInv, NEW p \in Patrols, RunChecks(p)
  PROVE  /\ PatrolInv'
         /\ drivers["run"].pc = "idle"
         /\ drivers'["run"].pc = "accepted" /\ drivers'["run"].patrol = p
         /\ drivers'["worker"] = drivers["worker"]
         /\ UNCHANGED <<patrols, goalPhase, expected, updates>>
<1> DEFINE next == [drivers["run"] EXCEPT !.pc = "accepted", !.patrol = p]
<1>1. /\ drivers["run"].pc = "idle" /\ "run" \in Drivers /\ "worker" \in Drivers
      /\ drivers["run"].patrol = NoPatrol /\ drivers["run"] \in DriverRecords
  BY DEF RunChecks, At, PatrolInv, DriversOK, Drivers
<1>2. next \in DriverRecords /\ next.pc = "accepted" /\ next.patrol = p
  BY <1>1 DEF DriverRecords, DriverPcs
<1>3. drivers' = [drivers EXCEPT !["run"] = next]
  BY DEF RunChecks
<1> HIDE DEF next
<1>4. /\ DriversOK'
      /\ \A e \in Drivers : drivers'[e] = IF e = "run" THEN next ELSE drivers[e]
  BY <1>1, <1>2, <1>3, PatrolFacts, DriverMoved DEF PatrolInv
<1>5. UNCHANGED <<patrols, goalPhase, expected, updates, canceler>>
  BY DEF RunChecks
<1>6. StartingPatrolIsDriven'
  BY <1>1, <1>2, <1>4, <1>5, PatrolFacts DEF PatrolInv, StartingPatrolIsDriven
<1>7. PatrolInv'
  BY <1>4, <1>5, <1>6 DEF PatrolInv, RowsOK, CancelerOK
<1> QED
  BY <1>1, <1>2, <1>4, <1>5, <1>7

LEMMA RunStartsStep ==
  ASSUME PatrolInv, RunStarts
  PROVE  /\ PatrolInv'
         /\ drivers["run"].pc = "accepted" /\ drivers["run"].patrol \in Patrols
         /\ drivers'["run"].pc = "begin" /\ drivers'["run"].patrol = drivers["run"].patrol
         /\ drivers'["worker"] = drivers["worker"]
         /\ \A q \in Patrols \ {drivers["run"].patrol} : patrols'[q] = patrols[q]
         /\ patrols'[drivers["run"].patrol].state = "STARTING"
         /\ patrols'[drivers["run"].patrol].waypoint = 1
         /\ patrols'[drivers["run"].patrol].loop = 0
         /\ UNCHANGED <<goalPhase, expected, updates>>
<1> DEFINE p == drivers["run"].patrol
<1>1. /\ drivers["run"].pc = "accepted" /\ "run" \in Drivers /\ "worker" \in Drivers
      /\ p \in Patrols /\ Goes("run", "begin") /\ "begin" \in DriverPcs \ {"idle", "wait"}
  BY DEF RunStarts, At, PatrolInv, DriversOK, DriverRecords, Drivers, DriverPcs
<1>2. /\ DriversOK' /\ drivers'["worker"] = drivers["worker"]
      /\ drivers'["run"] = [drivers["run"] EXCEPT !.pc = "begin"]
  BY <1>1, DriverGoes DEF PatrolInv
<1>3. drivers'["run"].patrol = p /\ drivers'["run"].pc = "begin"
  BY <1>1, <1>2 DEF PatrolInv, DriversOK, DriverRecords
<1>4. /\ patrols' \in [Patrols -> Rows] /\ \A q \in Patrols \ {p} : patrols'[q] = patrols[q]
      /\ patrols'[p].state = "STARTING" /\ patrols'[p].loop = 0 /\ patrols'[p].waypoint = 1
  <2> DEFINE closed == Close(p, "STARTING")
  <2>1. patrols \in [Patrols -> Rows] /\ "STARTING" \in Open \cup Ended
    BY DEF PatrolInv, RowsOK, Open
  <2>2. /\ closed \in [Patrols -> Rows]
        /\ \A q \in Patrols \ {p} : closed[q] = patrols[q]
        /\ closed[p].state = "STARTING"
    BY <1>1, <2>1, RowClosed
  <2>3. patrols' = [closed EXCEPT ![p].loop = 0, ![p].waypoint = 1]
    BY DEF RunStarts
  <2> HIDE DEF closed
  <2> QED
    BY <1>1, <2>2, <2>3, PatrolFacts DEF Rows
<1>5. UNCHANGED <<goalPhase, expected, updates, canceler>>
  BY DEF RunStarts
<1>7. RowsOK'
  BY <1>4, <1>5, PatrolFacts DEF PatrolInv, RowsOK
<1>8. StartingPatrolIsDriven'
  <2>1. ASSUME NEW q \in Patrols, patrols'[q].state = "STARTING"
        PROVE  \E d \in Drivers : drivers'[d].patrol = q
    <3>1. CASE q = p
      BY <1>1, <1>3, <3>1
    <3>2. CASE q # p
      <4>1. patrols[q].state = "STARTING"
        BY <1>4, <2>1, <3>2
      <4>2. PICK d \in Drivers : drivers[d].patrol = q
        BY <4>1 DEF PatrolInv, StartingPatrolIsDriven
      <4>3. drivers'[d].patrol = q
        BY <1>2, <3>2, <4>2 DEF Drivers
      <4> QED
        BY <4>3
    <3> QED
      BY <3>1, <3>2
  <2> QED
    BY <2>1 DEF StartingPatrolIsDriven
<1>9. PatrolInv'
  BY <1>2, <1>5, <1>7, <1>8 DEF PatrolInv, CancelerOK
<1> QED
  BY <1>1, <1>2, <1>3, <1>4, <1>5, <1>9

LEMMA BeginGoalStep ==
  ASSUME PatrolInv, NEW d \in Drivers, BeginGoal(d)
  PROVE  /\ PatrolInv'
         /\ drivers[d].pc = "begin" /\ drivers[d].patrol \in Patrols
         /\ \A e \in Drivers \ {d} : drivers'[e] = drivers[e]
         /\ \A q \in Patrols \ {drivers[d].patrol} :
              goalPhase'[q] = goalPhase[q] /\ expected'[q] = expected[q]
         /\ drivers'[d].pc = "call" /\ drivers'[d].patrol = drivers[d].patrol
         /\ drivers'[d].waypoint = patrols[drivers[d].patrol].waypoint
         /\ drivers'[d].phase = goalPhase'[drivers[d].patrol]
         /\ drivers'[d].phase \in Phases
         /\ expected'[drivers[d].patrol] = Target(drivers'[d].waypoint, drivers'[d].phase)
         /\ UNCHANGED <<patrols, updates>>
<1> DEFINE p == drivers[d].patrol
           w == patrols[p].waypoint
<1>1. /\ drivers[d].pc = "begin" /\ drivers[d] \in DriverRecords /\ p \in Patrols
      /\ w \in Waypoints
  BY DEF BeginGoal, At, PatrolInv, DriversOK, DriverRecords, RowsOK, Rows
<1>2. PICK phase \in Phases :
        /\ goalPhase' = [goalPhase EXCEPT ![p] = phase]
        /\ expected' = [expected EXCEPT ![p] = Target(w, phase)]
        /\ drivers' = [drivers EXCEPT ![d].pc = "call", ![d].waypoint = w, ![d].phase = phase]
  BY DEF BeginGoal, Phases
<1> DEFINE next == [drivers[d] EXCEPT !.pc = "call", !.waypoint = w, !.phase = phase]
<1>3. /\ next \in DriverRecords /\ next.pc = "call" /\ next.patrol = p
      /\ next.waypoint = w /\ next.phase = phase
  BY <1>1 DEF DriverRecords, DriverPcs
<1>4. drivers' = [drivers EXCEPT ![d] = next]
  BY <1>2
<1> HIDE DEF next
<1>5. /\ DriversOK'
      /\ \A e \in Drivers : drivers'[e] = IF e = d THEN next ELSE drivers[e]
  BY <1>1, <1>3, <1>4, PatrolFacts, DriverMoved DEF PatrolInv
<1>6. UNCHANGED <<patrols, updates, canceler>>
  BY DEF BeginGoal
<1>7. /\ goalPhase' \in [Patrols -> Phases \cup {"none"}]
      /\ expected' \in [Patrols -> Targets \cup {NoTarget}]
      /\ goalPhase'[p] = phase /\ expected'[p] = Target(w, phase)
      /\ \A q \in Patrols \ {p} : goalPhase'[q] = goalPhase[q] /\ expected'[q] = expected[q]
  BY <1>1, <1>2, PatrolFacts DEF PatrolInv, RowsOK
<1>8. StartingPatrolIsDriven'
  BY <1>3, <1>5, <1>6 DEF PatrolInv, StartingPatrolIsDriven
<1>9. PatrolInv'
  BY <1>5, <1>6, <1>7, <1>8 DEF PatrolInv, RowsOK, CancelerOK
<1> QED
  BY <1>1, <1>3, <1>5, <1>6, <1>7, <1>9

LEMMA CallStartStep ==
  ASSUME PatrolInv, NEW d \in Drivers, NEW c \in Commands, CallStart(d, c)
  PROVE  /\ PatrolInv'
         /\ drivers[d].pc = "call"
         /\ \A e \in Drivers \ {d} : drivers'[e] = drivers[e]
         /\ drivers'[d].pc = "wait" /\ drivers'[d].patrol = drivers[d].patrol
         /\ UNCHANGED <<patrols, goalPhase, expected, updates>>
<1> DEFINE next == [drivers[d] EXCEPT !.pc = "wait", !.command = c]
<1>1. drivers[d].pc = "call" /\ drivers[d] \in DriverRecords /\ drivers[d].patrol \in Patrols
  BY DEF CallStart, At, PatrolInv, DriversOK, DriverRecords
<1>2. /\ next \in DriverRecords /\ next.pc = "wait" /\ next.patrol = drivers[d].patrol
      /\ next.command = c
  BY <1>1 DEF DriverRecords, DriverPcs
<1>3. drivers' = [drivers EXCEPT ![d] = next]
  BY DEF CallStart
<1> HIDE DEF next
<1>4. /\ DriversOK'
      /\ \A e \in Drivers : drivers'[e] = IF e = d THEN next ELSE drivers[e]
  BY <1>1, <1>2, <1>3, PatrolFacts, DriverMoved DEF PatrolInv
<1>5. UNCHANGED <<patrols, goalPhase, expected, updates, canceler>>
  BY DEF CallStart
<1>6. StartingPatrolIsDriven'
  BY <1>2, <1>4, <1>5 DEF PatrolInv, StartingPatrolIsDriven
<1>7. PatrolInv'
  BY <1>4, <1>5, <1>6 DEF PatrolInv, RowsOK, CancelerOK
<1> QED
  BY <1>1, <1>2, <1>4, <1>5, <1>7

LEMMA GoalStartedStep ==
  ASSUME PatrolInv, NEW d \in Drivers, GoalStarted(d)
  PROVE  /\ PatrolInv'
         /\ drivers[d].pc = "wait" /\ drivers[d].patrol \in Patrols
         /\ \A e \in Drivers : drivers'[e] = IF e = d THEN Idle ELSE drivers[e]
         /\ \A q \in Patrols \ {drivers[d].patrol} :
              /\ patrols'[q] = patrols[q]
              /\ goalPhase'[q] = goalPhase[q] /\ expected'[q] = expected[q]
         /\ patrols'[drivers[d].patrol].waypoint = patrols[drivers[d].patrol].waypoint
         /\ patrols'[drivers[d].patrol].loop = patrols[drivers[d].patrol].loop
         /\ updates' = updates
         /\ \/ /\ patrols'[drivers[d].patrol].state = "ACTIVE"
               /\ UNCHANGED <<goalPhase, expected>>
            \/ patrols'[drivers[d].patrol].state = "FAILED"
<1> DEFINE p == drivers[d].patrol
           c == drivers[d].command
<1>1. /\ drivers[d].pc = "wait" /\ p \in Patrols /\ c \in Commands
      /\ patrols \in [Patrols -> Rows] /\ "ACTIVE" \in Open /\ "FAILED" \in Ended
  BY DEF GoalStarted, At, PatrolInv, DriversOK, DriverRecords, RowsOK, Open, Ended
<1>2. DriversOK' /\ \A e \in Drivers : drivers'[e] = IF e = d THEN Idle ELSE drivers[e]
  BY DriverRests DEF GoalStarted, PatrolInv
<1>3. UNCHANGED <<updates, canceler>>
  BY DEF GoalStarted
<1>4. /\ RowsOK'
      /\ \A q \in Patrols \ {p} :
           patrols'[q] = patrols[q] /\ goalPhase'[q] = goalPhase[q] /\ expected'[q] = expected[q]
      /\ patrols'[p].waypoint = patrols[p].waypoint /\ patrols'[p].loop = patrols[p].loop
      /\ \/ patrols'[p].state = "ACTIVE" /\ UNCHANGED <<goalPhase, expected>>
         \/ patrols'[p].state = "FAILED"
  <2>1. CASE /\ patrols' = [patrols EXCEPT ![p].state = "ACTIVE", ![p].command = c]
             /\ UNCHANGED <<goalPhase, expected>>
    <3>1. /\ patrols' \in [Patrols -> Rows]
          /\ \A q \in Patrols \ {p} : patrols'[q] = patrols[q]
          /\ \A q \in Patrols : /\ patrols'[q].state = IF q = p THEN "ACTIVE" ELSE patrols[q].state
                                /\ patrols'[q].loop = patrols[q].loop
                                /\ patrols'[q].waypoint = patrols[q].waypoint
      BY <1>1, <2>1, RowWritten
    <3> QED
      BY <1>1, <1>3, <2>1, <3>1 DEF PatrolInv, RowsOK
  <2>2. CASE patrols' = Close(p, "FAILED") /\ ForgetGoal(p)
    <3>1. /\ patrols' \in [Patrols -> Rows]
          /\ \A q \in Patrols \ {p} : patrols'[q] = patrols[q]
          /\ \A q \in Patrols : /\ patrols'[q].state = IF q = p THEN "FAILED" ELSE patrols[q].state
                                /\ patrols'[q].loop = patrols[q].loop
                                /\ patrols'[q].waypoint = patrols[q].waypoint
      BY <1>1, <2>2, RowClosed
    <3>2. /\ goalPhase' \in [Patrols -> Phases \cup {"none"}]
          /\ expected' \in [Patrols -> Targets \cup {NoTarget}]
          /\ \A q \in Patrols \ {p} : goalPhase'[q] = goalPhase[q] /\ expected'[q] = expected[q]
      BY <1>1, <2>2, GoalForgotten DEF PatrolInv
    <3> QED
      BY <1>1, <1>3, <3>1, <3>2 DEF PatrolInv, RowsOK
  <2> QED
    BY <2>1, <2>2 DEF GoalStarted
<1>5. StartingPatrolIsDriven'
  <2>1. ASSUME NEW q \in Patrols, patrols'[q].state = "STARTING"
        PROVE  \E e \in Drivers : drivers'[e].patrol = q
    <3>1. q # p /\ patrols[q].state = "STARTING"
      BY <1>4, <2>1
    <3>2. PICK e \in Drivers : drivers[e].patrol = q
      BY <3>1 DEF PatrolInv, StartingPatrolIsDriven
    <3>3. drivers'[e].patrol = q
      BY <1>2, <3>1, <3>2
    <3> QED
      BY <3>3
  <2> QED
    BY <2>1 DEF StartingPatrolIsDriven
<1>6. PatrolInv'
  BY <1>2, <1>3, <1>4, <1>5 DEF PatrolInv, CancelerOK
<1> QED
  BY <1>1, <1>2, <1>3, <1>4, <1>6

-----------------------------------------------------------------------------
(* The queue and the worker.                                                 *)

LEMMA HearsStep ==
  ASSUME PatrolInv, GatewayTypeOK, NEW i \in DOMAIN heard, PatrolHearsStatus(i)
  PROVE  /\ PatrolInv'
         /\ UNCHANGED <<patrols, goalPhase, expected, drivers, canceler>>
         /\ \A j \in DOMAIN updates' :
              updates'[j] = heard[i].status \/ \E k \in DOMAIN updates : updates'[j] = updates[k]
<1>1. heard[i].status \in Statuses
  <2>1. heard \in Seq(Callbacks)
    BY DEF GatewayTypeOK
  <2>2. heard[i] \in Callbacks
    BY <2>1
  <2> QED
    BY <2>2 DEF Callbacks
<1>2. /\ Len(updates) < MaxUpdates /\ updates \in Seq(Statuses)
      /\ updates' \in {updates, Append(updates, heard[i].status)}
      /\ UNCHANGED <<patrols, goalPhase, expected, drivers, canceler>>
  BY DEF PatrolHearsStatus, PatrolObserves, PatrolInv, RowsOK
<1>3. CASE updates' = updates
  BY <1>2, <1>3 DEF PatrolInv, RowsOK, DriversOK, CancelerOK, StartingPatrolIsDriven
<1>4. CASE updates' = Append(updates, heard[i].status)
  <2>1. /\ updates' \in Seq(Statuses) /\ Len(updates') = Len(updates) + 1
        /\ \A j \in DOMAIN updates' :
             updates'[j] = heard[i].status \/ \E k \in DOMAIN updates : updates'[j] = updates[k]
    <3>1. Len(updates') = Len(updates) + 1
      BY ONLY <1>1, <1>2, <1>4, SMT
    <3> QED
      BY <1>1, <1>2, <1>4, <3>1, AppendFacts
  <2>2. Len(updates') =< MaxUpdates
    BY <1>2, <2>1, PatrolAssumption
  <2> QED
    BY <1>2, <2>1, <2>2 DEF PatrolInv, RowsOK, DriversOK, CancelerOK, StartingPatrolIsDriven
<1> QED
  BY <1>2, <1>3, <1>4

LEMMA WorkerTakesStep ==
  ASSUME PatrolInv, WorkerTakes
  PROVE  /\ PatrolInv'
         /\ UNCHANGED <<patrols, goalPhase, expected, canceler>>
         /\ drivers'["run"] = drivers["run"] /\ drivers["worker"].pc = "idle"
         /\ \A j \in DOMAIN updates' : \E k \in DOMAIN updates : updates'[j] = updates[k]
         /\ \/ drivers' = drivers
            \/ /\ 1 \in DOMAIN updates
               /\ drivers'["worker"].patrol \in Patrols
               /\ patrols[drivers'["worker"].patrol].state = "ACTIVE"
               /\ TargetMatches(updates[1], drivers'["worker"].patrol)
               /\ drivers'["worker"].pc = "verdict" /\ drivers'["worker"].status = updates[1]
<1>1. /\ drivers["worker"].pc = "idle" /\ drivers["worker"].patrol = NoPatrol
      /\ drivers["worker"] \in DriverRecords /\ {"worker", "run"} \subseteq Drivers
      /\ updates # <<>> /\ updates \in Seq(Statuses) /\ updates' = Tail(updates)
      /\ Len(updates) =< MaxUpdates
      /\ UNCHANGED <<patrols, goalPhase, expected, canceler>>
  BY DEF WorkerTakes, At, PatrolInv, DriversOK, RowsOK, Drivers
<1>2. /\ Head(updates) \in Statuses /\ 1 \in DOMAIN updates /\ Head(updates) = updates[1]
      /\ updates' \in Seq(Statuses) /\ Len(updates') =< Len(updates)
      /\ \A j \in DOMAIN updates' : j + 1 \in DOMAIN updates /\ updates'[j] = updates[j + 1]
  BY <1>1, TailFacts
<1>3. RowsOK'
  <2>1. Len(updates') =< MaxUpdates
    <3>1. Len(updates) \in Nat /\ Len(updates') \in Nat /\ MaxUpdates \in Nat
      BY <1>1, <1>2, PatrolAssumption
    <3> QED
      BY <1>1, <1>2, <3>1
  <2> QED
    BY <1>1, <1>2, <2>1 DEF PatrolInv, RowsOK
<1>4. CASE drivers' = drivers
  BY <1>1, <1>2, <1>3, <1>4 DEF PatrolInv, DriversOK, CancelerOK, StartingPatrolIsDriven
<1>5. ASSUME NEW p \in Patrols, patrols[p].state = "ACTIVE", TargetMatches(Head(updates), p),
             drivers' = [drivers EXCEPT !["worker"].pc = "verdict", !["worker"].patrol = p,
                                        !["worker"].status = Head(updates)]
      PROVE  /\ DriversOK' /\ StartingPatrolIsDriven' /\ drivers'["run"] = drivers["run"]
             /\ drivers'["worker"].pc = "verdict" /\ drivers'["worker"].patrol = p
             /\ drivers'["worker"].status = Head(updates)
  <2> DEFINE next == [drivers["worker"] EXCEPT !.pc = "verdict", !.patrol = p,
                                              !.status = Head(updates)]
  <2>1. /\ next \in DriverRecords /\ next.pc = "verdict" /\ next.patrol = p
        /\ next.status = Head(updates)
    BY <1>1, <1>2 DEF DriverRecords, DriverPcs
  <2>2. drivers' = [drivers EXCEPT !["worker"] = next]
    BY <1>5
  <2> HIDE DEF next
  <2>3. /\ DriversOK'
        /\ \A e \in Drivers : drivers'[e] = IF e = "worker" THEN next ELSE drivers[e]
    BY <1>1, <2>1, <2>2, PatrolFacts, DriverMoved DEF PatrolInv
  <2>4. StartingPatrolIsDriven'
    BY <1>1, <2>1, <2>3, PatrolFacts DEF PatrolInv, StartingPatrolIsDriven
  <2> QED
    BY <1>1, <2>1, <2>3, <2>4
<1>6. CASE \E p \in Patrols :
             /\ patrols[p].state = "ACTIVE" /\ TargetMatches(Head(updates), p)
             /\ drivers' = [drivers EXCEPT !["worker"].pc = "verdict", !["worker"].patrol = p,
                                           !["worker"].status = Head(updates)]
  <2>1. PICK p \in Patrols :
             /\ patrols[p].state = "ACTIVE" /\ TargetMatches(Head(updates), p)
             /\ drivers' = [drivers EXCEPT !["worker"].pc = "verdict", !["worker"].patrol = p,
                                           !["worker"].status = Head(updates)]
    BY <1>6
  <2>2. /\ DriversOK' /\ StartingPatrolIsDriven' /\ drivers'["run"] = drivers["run"]
        /\ drivers'["worker"].pc = "verdict" /\ drivers'["worker"].patrol = p
        /\ drivers'["worker"].status = Head(updates)
    BY <1>5, <2>1
  <2>3. PatrolInv'
    BY <1>1, <1>3, <2>2 DEF PatrolInv, CancelerOK
  <2> QED
    BY <1>1, <1>2, <2>1, <2>2, <2>3
<1> QED
  BY <1>4, <1>6 DEF WorkerTakes

\* While the drivers keep their patrols and no other starts, each is driven.
LEMMA DrivenKept ==
  ASSUME PatrolInv, \A d \in Drivers : drivers'[d].patrol = drivers[d].patrol,
         \A q \in Patrols : patrols'[q].state = "STARTING" =>
           patrols[q].state = "STARTING" \/ \E d \in Drivers : drivers[d].patrol = q
  PROVE  StartingPatrolIsDriven'
BY DEF PatrolInv, StartingPatrolIsDriven

\* A worker that goes on or rests without writing a row.
LEMMA WorkerReadsPhaseStep ==
  ASSUME PatrolInv, WorkerReadsPhase
  PROVE  /\ PatrolInv'
         /\ UNCHANGED <<patrols, goalPhase, expected, updates, canceler>>
         /\ drivers'["run"] = drivers["run"]
         /\ drivers["worker"].pc = "verdict" /\ drivers["worker"].status.state = "SUCCEEDED"
         /\ drivers'["worker"].patrol = drivers["worker"].patrol
         /\ drivers'["worker"].pc = IF goalPhase[drivers["worker"].patrol] = "translation"
                                    THEN "turn" ELSE "advance"
<1> DEFINE pc == IF goalPhase[drivers["worker"].patrol] = "translation" THEN "turn" ELSE "advance"
<1>1. /\ drivers["worker"].pc = "verdict" /\ drivers["worker"].status.state = "SUCCEEDED"
      /\ {"worker", "run"} \subseteq Drivers /\ drivers["worker"] \in DriverRecords
      /\ Goes("worker", pc) /\ pc \in DriverPcs \ {"idle", "wait"}
      /\ UNCHANGED <<patrols, goalPhase, expected, updates, canceler>>
  BY DEF WorkerReadsPhase, Verdict, At, PatrolInv, DriversOK, Drivers, DriverPcs
<1> HIDE DEF pc
<1>2. /\ DriversOK' /\ drivers'["run"] = drivers["run"]
      /\ drivers'["worker"] = [drivers["worker"] EXCEPT !.pc = pc]
  BY <1>1, DriverGoes DEF PatrolInv
<1>3. drivers'["worker"].pc = pc /\ drivers'["worker"].patrol = drivers["worker"].patrol
  BY <1>1, <1>2 DEF DriverRecords
<1>4. StartingPatrolIsDriven'
  <2>1. \A d \in Drivers : drivers'[d].patrol = drivers[d].patrol
    BY <1>2, <1>3 DEF Drivers
  <2> QED
    BY <1>1, <2>1, DrivenKept
<1>5. PatrolInv'
  BY <1>1, <1>2, <1>4 DEF PatrolInv, RowsOK, CancelerOK
<1> QED
  BY <1>1, <1>2, <1>3, <1>5 DEF pc

LEMMA WorkerDwellsStep ==
  ASSUME PatrolInv, WorkerDwells
  PROVE  /\ PatrolInv'
         /\ UNCHANGED <<patrols, goalPhase, expected, updates, canceler>>
         /\ drivers'["run"] = drivers["run"]
         /\ drivers["worker"].pc = "dwell"
         /\ patrols[drivers["worker"].patrol].state = "STARTING" =>
              drivers'["worker"].pc = "begin"
              /\ drivers'["worker"].patrol = drivers["worker"].patrol
<1> DEFINE p == drivers["worker"].patrol
<1>1. /\ drivers["worker"].pc = "dwell" /\ {"worker", "run"} \subseteq Drivers
      /\ drivers["worker"] \in DriverRecords /\ "begin" \in DriverPcs \ {"idle", "wait"}
      /\ UNCHANGED <<patrols, goalPhase, expected, updates, canceler>>
  BY DEF WorkerDwells, At, PatrolInv, DriversOK, Drivers, DriverPcs
<1>2. CASE patrols[p].state = "STARTING" /\ Goes("worker", "begin")
  <2>1. /\ DriversOK' /\ drivers'["run"] = drivers["run"]
        /\ drivers'["worker"] = [drivers["worker"] EXCEPT !.pc = "begin"]
    BY <1>1, <1>2, DriverGoes DEF PatrolInv
  <2>2. drivers'["worker"].pc = "begin" /\ drivers'["worker"].patrol = p
    BY <1>1, <2>1 DEF DriverRecords
  <2>3. StartingPatrolIsDriven'
    <3>1. \A d \in Drivers : drivers'[d].patrol = drivers[d].patrol
      BY <2>1, <2>2 DEF Drivers
    <3> QED
      BY <1>1, <3>1, DrivenKept
  <2>4. PatrolInv'
    BY <1>1, <2>1, <2>3 DEF PatrolInv, RowsOK, CancelerOK
  <2> QED
    BY <1>1, <2>1, <2>2, <2>4
<1>3. CASE patrols[p].state # "STARTING" /\ Rests("worker")
  <2>1. DriversOK' /\ \A e \in Drivers : drivers'[e] = IF e = "worker" THEN Idle ELSE drivers[e]
    BY <1>1, <1>3, DriverRests DEF PatrolInv
  <2>2. StartingPatrolIsDriven'
    BY <1>1, <1>3, <2>1 DEF PatrolInv, StartingPatrolIsDriven, Drivers
  <2>3. PatrolInv'
    BY <1>1, <2>1, <2>2 DEF PatrolInv, RowsOK, CancelerOK
  <2> QED
    BY <1>1, <1>3, <2>1, <2>3
<1> QED
  BY <1>2, <1>3 DEF WorkerDwells

LEMMA WorkerFailsStep ==
  ASSUME PatrolInv, WorkerFails
  PROVE  /\ PatrolInv'
         /\ drivers["worker"].pc = "verdict" /\ drivers["worker"].patrol \in Patrols
         /\ \A e \in Drivers : drivers'[e] = IF e = "worker" THEN Idle ELSE drivers[e]
         /\ \A q \in Patrols \ {drivers["worker"].patrol} :
              /\ patrols'[q] = patrols[q]
              /\ goalPhase'[q] = goalPhase[q] /\ expected'[q] = expected[q]
         /\ patrols'[drivers["worker"].patrol].state = "FAILED"
         /\ patrols'[drivers["worker"].patrol].waypoint = patrols[drivers["worker"].patrol].waypoint
         /\ patrols'[drivers["worker"].patrol].loop = patrols[drivers["worker"].patrol].loop
         /\ updates' = updates
<1> DEFINE p == drivers["worker"].patrol
<1>1. /\ drivers["worker"].pc = "verdict" /\ p \in Patrols /\ "worker" \in Drivers
      /\ patrols \in [Patrols -> Rows] /\ "FAILED" \in Open \cup Ended
      /\ UNCHANGED <<updates, canceler>>
  BY DEF WorkerFails, Verdict, At, PatrolInv, DriversOK, DriverRecords, RowsOK, Ended, Drivers
<1>2. DriversOK' /\ \A e \in Drivers : drivers'[e] = IF e = "worker" THEN Idle ELSE drivers[e]
  BY <1>1, DriverRests DEF WorkerFails, PatrolInv
<1>3. /\ patrols' \in [Patrols -> Rows]
      /\ \A q \in Patrols \ {p} : patrols'[q] = patrols[q]
      /\ \A q \in Patrols : /\ patrols'[q].state = IF q = p THEN "FAILED" ELSE patrols[q].state
                            /\ patrols'[q].loop = patrols[q].loop
                            /\ patrols'[q].waypoint = patrols[q].waypoint
  BY <1>1, RowClosed DEF WorkerFails
<1>4. /\ goalPhase' \in [Patrols -> Phases \cup {"none"}]
      /\ expected' \in [Patrols -> Targets \cup {NoTarget}]
      /\ \A q \in Patrols \ {p} : goalPhase'[q] = goalPhase[q] /\ expected'[q] = expected[q]
  BY <1>1, GoalForgotten DEF WorkerFails, PatrolInv
<1>5. RowsOK'
  BY <1>1, <1>3, <1>4 DEF PatrolInv, RowsOK
<1>6. StartingPatrolIsDriven'
  BY <1>2, <1>3 DEF PatrolInv, StartingPatrolIsDriven
<1>7. PatrolInv'
  BY <1>1, <1>2, <1>5, <1>6 DEF PatrolInv, CancelerOK
<1> QED
  BY <1>1, <1>2, <1>3, <1>4, <1>7

LEMMA WorkerTurnsStep ==
  ASSUME PatrolInv, WorkerTurns
  PROVE  /\ PatrolInv'
         /\ drivers["worker"].pc = "turn" /\ drivers["worker"].patrol \in Patrols
         /\ drivers'["run"] = drivers["run"]
         /\ drivers'["worker"].pc = "begin"
         /\ drivers'["worker"].patrol = drivers["worker"].patrol
         /\ \A q \in Patrols \ {drivers["worker"].patrol} : patrols'[q] = patrols[q]
         /\ patrols'[drivers["worker"].patrol].state = "STARTING"
         /\ patrols'[drivers["worker"].patrol].waypoint = patrols[drivers["worker"].patrol].waypoint
         /\ patrols'[drivers["worker"].patrol].loop = patrols[drivers["worker"].patrol].loop
         /\ UNCHANGED <<goalPhase, expected, updates>>
<1> DEFINE p == drivers["worker"].patrol
           next == [drivers["worker"] EXCEPT !.pc = "begin", !.phase = "orientation"]
<1>1. /\ drivers["worker"].pc = "turn" /\ p \in Patrols /\ {"worker", "run"} \subseteq Drivers
      /\ drivers["worker"] \in DriverRecords
      /\ patrols \in [Patrols -> Rows] /\ "STARTING" \in Open \cup Ended
      /\ UNCHANGED <<goalPhase, expected, updates, canceler>>
  BY DEF WorkerTurns, At, PatrolInv, DriversOK, DriverRecords, RowsOK, Open, Drivers
<1>2. /\ next \in DriverRecords /\ next.pc = "begin" /\ next.patrol = p
  BY <1>1 DEF DriverRecords, DriverPcs, Phases
<1>3. drivers' = [drivers EXCEPT !["worker"] = next]
  BY DEF WorkerTurns
<1> HIDE DEF next
<1>4. /\ DriversOK'
      /\ \A e \in Drivers : drivers'[e] = IF e = "worker" THEN next ELSE drivers[e]
  BY <1>1, <1>2, <1>3, PatrolFacts, DriverMoved DEF PatrolInv
<1>5. /\ patrols' \in [Patrols -> Rows]
      /\ \A q \in Patrols \ {p} : patrols'[q] = patrols[q]
      /\ \A q \in Patrols : /\ patrols'[q].state = IF q = p THEN "STARTING" ELSE patrols[q].state
                            /\ patrols'[q].loop = patrols[q].loop
                            /\ patrols'[q].waypoint = patrols[q].waypoint
  BY <1>1, RowClosed DEF WorkerTurns
<1>6. RowsOK'
  BY <1>1, <1>5 DEF PatrolInv, RowsOK
<1>7. StartingPatrolIsDriven'
  <2>1. \A d \in Drivers : drivers'[d].patrol = drivers[d].patrol
    BY <1>2, <1>4
  <2>2. \A q \in Patrols : patrols'[q].state = "STARTING" =>
          patrols[q].state = "STARTING" \/ \E d \in Drivers : drivers[d].patrol = q
    BY <1>1, <1>5
  <2> QED
    BY <2>1, <2>2, DrivenKept
<1>8. PatrolInv'
  BY <1>1, <1>4, <1>6, <1>7 DEF PatrolInv, CancelerOK
<1> QED
  BY <1>1, <1>2, <1>4, <1>5, <1>8

\* The last waypoint completes a patrol of one loop more.
LEMMA WorkerAdvancesStep ==
  ASSUME PatrolInv, WorkerAdvances
  PROVE  /\ PatrolInv'
         /\ drivers["worker"].pc = "advance" /\ drivers["worker"].patrol \in Patrols
         /\ drivers'["run"] = drivers["run"]
         /\ \A q \in Patrols \ {drivers["worker"].patrol} :
              /\ patrols'[q] = patrols[q]
              /\ goalPhase'[q] = goalPhase[q] /\ expected'[q] = expected[q]
         /\ updates' = updates
         /\ LET p == drivers["worker"].patrol IN
              \/ /\ Advanced(p).loop = Loops
                 /\ patrols'[p].state = "COMPLETED"
                 /\ patrols'[p].waypoint = patrols[p].waypoint
                 /\ drivers'["worker"] = Idle
              \/ /\ Advanced(p).loop # Loops
                 /\ patrols'[p].state = "STARTING"
                 /\ patrols'[p].waypoint = Advanced(p).waypoint
                 /\ patrols'[p].loop = Advanced(p).loop
                 /\ drivers'["worker"].pc = "dwell" /\ drivers'["worker"].patrol = p
<1> DEFINE p == drivers["worker"].patrol
<1>1. /\ drivers["worker"].pc = "advance" /\ p \in Patrols /\ {"worker", "run"} \subseteq Drivers
      /\ drivers["worker"] \in DriverRecords
      /\ patrols \in [Patrols -> Rows] /\ {"STARTING", "COMPLETED"} \subseteq Open \cup Ended
      /\ ForgetGoal(p) /\ UNCHANGED <<updates, canceler>>
      /\ "dwell" \in DriverPcs \ {"idle", "wait"}
  BY DEF WorkerAdvances, At, PatrolInv, DriversOK, DriverRecords, DriverPcs, RowsOK, Open, Ended,
         Drivers
<1>2. /\ goalPhase' \in [Patrols -> Phases \cup {"none"}]
      /\ expected' \in [Patrols -> Targets \cup {NoTarget}]
      /\ \A q \in Patrols \ {p} : goalPhase'[q] = goalPhase[q] /\ expected'[q] = expected[q]
  BY <1>1, GoalForgotten DEF PatrolInv
<1>3. ASSUME Advanced(p).loop = Loops, patrols' = Close(p, "COMPLETED"), Rests("worker")
      PROVE  /\ PatrolInv' /\ drivers'["run"] = drivers["run"] /\ drivers'["worker"] = Idle
             /\ \A q \in Patrols \ {p} : patrols'[q] = patrols[q]
             /\ patrols'[p].state = "COMPLETED" /\ patrols'[p].waypoint = patrols[p].waypoint
  <2>1. DriversOK' /\ \A e \in Drivers : drivers'[e] = IF e = "worker" THEN Idle ELSE drivers[e]
    BY <1>1, <1>3, DriverRests DEF PatrolInv
  <2>2. /\ patrols' \in [Patrols -> Rows]
        /\ \A q \in Patrols \ {p} : patrols'[q] = patrols[q]
        /\ \A q \in Patrols :
             /\ patrols'[q].state = IF q = p THEN "COMPLETED" ELSE patrols[q].state
             /\ patrols'[q].loop = patrols[q].loop
             /\ patrols'[q].waypoint = patrols[q].waypoint
    BY <1>1, <1>3, RowClosed
  <2>3. RowsOK'
    BY <1>1, <1>2, <2>2 DEF PatrolInv, RowsOK
  <2>4. StartingPatrolIsDriven'
    BY <2>1, <2>2 DEF PatrolInv, StartingPatrolIsDriven
  <2>5. PatrolInv'
    BY <1>1, <2>1, <2>3, <2>4 DEF PatrolInv, CancelerOK
  <2> QED
    BY <1>1, <2>1, <2>2, <2>5
<1>4. ASSUME Advanced(p).loop # Loops,
             patrols' = [Close(p, "STARTING") EXCEPT ![p].loop = Advanced(p).loop,
                                                     ![p].waypoint = Advanced(p).waypoint],
             Goes("worker", "dwell")
      PROVE  /\ PatrolInv' /\ drivers'["run"] = drivers["run"]
             /\ drivers'["worker"].pc = "dwell" /\ drivers'["worker"].patrol = p
             /\ \A q \in Patrols \ {p} : patrols'[q] = patrols[q]
             /\ patrols'[p].state = "STARTING" /\ patrols'[p].waypoint = Advanced(p).waypoint
             /\ patrols'[p].loop = Advanced(p).loop
  <2> DEFINE closed == Close(p, "STARTING")
  <2>1. /\ DriversOK' /\ \A e \in Drivers : e # "worker" => drivers'[e] = drivers[e]
        /\ drivers'["worker"] = [drivers["worker"] EXCEPT !.pc = "dwell"]
    BY <1>1, <1>4, DriverGoes DEF PatrolInv
  <2>2. drivers'["worker"].pc = "dwell" /\ drivers'["worker"].patrol = p
    BY <1>1, <2>1 DEF DriverRecords
  <2>3. /\ closed \in [Patrols -> Rows]
        /\ \A q \in Patrols \ {p} : closed[q] = patrols[q]
        /\ closed[p].state = "STARTING"
    BY <1>1, RowClosed
  <2>4. /\ Advanced(p).waypoint \in Waypoints
        /\ Advanced(p).loop \in 0..Loops /\ Advanced(p).loop < Loops
    <3>1. /\ patrols[p].waypoint \in Waypoints /\ patrols[p].loop \in 0..Loops
          /\ patrols[p].loop < Loops
      BY <1>1 DEF PatrolInv, RowsOK, Rows
    <3>2. CASE patrols[p].waypoint < Len(Places)
      <4>1. /\ Advanced(p).loop = patrols[p].loop
            /\ Advanced(p).waypoint = patrols[p].waypoint + 1
        BY <3>2 DEF Advanced
      <4> QED
        BY <3>1, <3>2, <4>1, PatrolFacts DEF Waypoints
    <3>3. CASE ~(patrols[p].waypoint < Len(Places))
      <4>1. Advanced(p).loop = patrols[p].loop + 1 /\ Advanced(p).waypoint = 1
        BY <3>3 DEF Advanced
      <4> QED
        BY <1>4, <3>1, <4>1, PatrolFacts
    <3> QED
      BY <3>2, <3>3
  <2> HIDE DEF closed
  <2>5. patrols' = [closed EXCEPT ![p].loop = Advanced(p).loop,
                                  ![p].waypoint = Advanced(p).waypoint]
    BY <1>4 DEF closed
  <2>6. /\ patrols' \in [Patrols -> Rows] /\ \A q \in Patrols \ {p} : patrols'[q] = patrols[q]
        /\ patrols'[p].state = "STARTING" /\ patrols'[p].loop = Advanced(p).loop
        /\ patrols'[p].waypoint = Advanced(p).waypoint
    BY <1>1, <2>3, <2>4, <2>5 DEF Rows
  <2>7. RowsOK'
    BY <1>1, <1>2, <2>4, <2>6 DEF PatrolInv, RowsOK
  <2>8. StartingPatrolIsDriven'
    <3>1. \A d \in Drivers : drivers'[d].patrol = drivers[d].patrol
      BY <2>1, <2>2
    <3>2. \A q \in Patrols : patrols'[q].state = "STARTING" =>
            patrols[q].state = "STARTING" \/ \E d \in Drivers : drivers[d].patrol = q
      BY <1>1, <2>6
    <3> QED
      BY <3>1, <3>2, DrivenKept
  <2>9. PatrolInv'
    BY <1>1, <2>1, <2>7, <2>8 DEF PatrolInv, CancelerOK
  <2> QED
    BY <1>1, <2>1, <2>2, <2>6, <2>9
<1>5. \/ Advanced(p).loop = Loops /\ patrols' = Close(p, "COMPLETED") /\ Rests("worker")
      \/ /\ Advanced(p).loop # Loops
         /\ patrols' = [Close(p, "STARTING") EXCEPT ![p].loop = Advanced(p).loop,
                                                    ![p].waypoint = Advanced(p).waypoint]
         /\ Goes("worker", "dwell")
  BY DEF WorkerAdvances
<1> QED
  BY <1>1, <1>2, <1>3, <1>4, <1>5

-----------------------------------------------------------------------------
(* What interferes: a cancel request, the emergency stop and the restart.    *)

LEMMA CancelStep ==
  ASSUME PatrolInv, GatewayTypeOK, (\E p \in Patrols : CancelReads(p)) \/ CancelCalls \/ CancelCloses
  PROVE  PatrolInv'
<1> USE PatrolFacts
<1>1. ASSUME NEW p \in Patrols, CancelReads(p) PROVE PatrolInv'
  <2>1. /\ UNCHANGED <<patrols, goalPhase, expected, updates, drivers>>
        /\ patrols[p].command \in Commands \cup {NoCommand}
    BY <1>1 DEF CancelReads, PatrolInv, RowsOK, Rows
  <2>2. CancelerOK'
    BY <1>1, <2>1 DEF CancelReads, CancelerOK
  <2> QED
    BY <2>1, <2>2 DEF PatrolInv, RowsOK, DriversOK, StartingPatrolIsDriven
<1>2. CASE CancelCalls
  <2>1. /\ UNCHANGED <<patrols, goalPhase, expected, updates, drivers>>
        /\ canceler.pc = "cancel"
        /\ \E pc \in {"close", "fail"} : canceler' = [canceler EXCEPT !.pc = pc]
    BY <1>2 DEF CancelCalls
  <2>2. CancelerOK'
    BY <2>1 DEF PatrolInv, CancelerOK
  <2> QED
    BY <2>1, <2>2 DEF PatrolInv, RowsOK, DriversOK, StartingPatrolIsDriven
<1>3. CASE CancelCloses
  <2> DEFINE p == canceler.patrol
  <2>1. PICK state \in {"CANCELED", "FAILED"} : patrols' = Close(p, state)
    BY <1>3 DEF CancelCloses
  <2>2. /\ p \in Patrols /\ patrols \in [Patrols -> Rows] /\ state \in Open \cup Ended
        /\ ForgetGoal(p) /\ canceler' = NotCanceling /\ UNCHANGED <<updates, drivers>>
    BY <1>3 DEF CancelCloses, PatrolInv, RowsOK, CancelerOK, Ended
  <2>3. /\ patrols' \in [Patrols -> Rows]
        /\ \A q \in Patrols : /\ patrols'[q].state = IF q = p THEN state ELSE patrols[q].state
                              /\ patrols'[q].loop = patrols[q].loop
    BY <2>1, <2>2, RowClosed
  <2>4. RowsOK'
    BY <2>2, <2>3, GoalForgotten DEF PatrolInv, RowsOK
  <2>5. StartingPatrolIsDriven'
    BY <2>2, <2>3 DEF PatrolInv, StartingPatrolIsDriven
  <2>6. CancelerOK'
    BY <2>2 DEF CancelerOK, NotCanceling
  <2> QED
    BY <2>2, <2>4, <2>5, <2>6 DEF PatrolInv, DriversOK
<1> QED
  BY <1>1, <1>2, <1>3

LEMMA StopForSafetyStep ==
  ASSUME PatrolInv, NEW o \in Operators, StopForSafety(o)
  PROVE  PatrolInv'
<1> USE PatrolFacts
<1>1. /\ patrols' = [p \in Patrols |-> IF patrols[p].state \in Open
                                       THEN [patrols[p] EXCEPT !.state = "CANCELED",
                                                               !.command = NoCommand]
                                       ELSE patrols[p]]
      /\ UNCHANGED <<updates, drivers, canceler>>
      /\ patrols \in [Patrols -> Rows] /\ "CANCELED" \in Ended
  BY DEF StopForSafety, PatrolInv, RowsOK, Ended
<1>2. \A p \in Patrols :
        /\ patrols'[p] \in Rows /\ patrols'[p].loop = patrols[p].loop
        /\ patrols'[p].state # "STARTING"
  BY <1>1 DEF Rows, Open
<1>3. /\ goalPhase' \in [Patrols -> Phases \cup {"none"}]
      /\ expected' \in [Patrols -> Targets \cup {NoTarget}]
  BY DEF StopForSafety, PatrolInv, RowsOK
<1>4. RowsOK'
  BY <1>1, <1>2, <1>3 DEF PatrolInv, RowsOK
<1>5. StartingPatrolIsDriven'
  BY <1>2 DEF StartingPatrolIsDriven
<1> QED
  BY <1>1, <1>4, <1>5 DEF PatrolInv, DriversOK, CancelerOK

LEMMA PatrolsRestartStep == ASSUME PatrolInv, PatrolsRestart PROVE PatrolInv'
<1> USE PatrolFacts
<1>1. /\ patrols' = [p \in Patrols |-> IF patrols[p].state \in Open
                                       THEN [patrols[p] EXCEPT !.state = "FAILED",
                                                               !.command = NoCommand]
                                       ELSE patrols[p]]
      /\ updates' = <<>> /\ drivers' = [d \in Drivers |-> Idle] /\ canceler' = NotCanceling
      /\ patrols \in [Patrols -> Rows] /\ "FAILED" \in Ended
  BY DEF PatrolsRestart, Unowned, PatrolInv, RowsOK, Ended
<1>2. \A p \in Patrols :
        /\ patrols'[p] \in Rows /\ patrols'[p].loop = patrols[p].loop
        /\ patrols'[p].state # "STARTING"
  BY <1>1 DEF Rows, Open
<1>3. /\ goalPhase' \in [Patrols -> Phases \cup {"none"}]
      /\ expected' \in [Patrols -> Targets \cup {NoTarget}]
  BY DEF PatrolsRestart
<1>4. RowsOK'
  <2>1. updates' \in Seq(Statuses) /\ Len(updates') =< MaxUpdates
    <3>1. <<>> \in Seq(Statuses) /\ Len(<<>>) = 0
      BY EmptySeq
    <3>2. 0 =< MaxUpdates
      BY PatrolAssumption
    <3>3. updates' = <<>>
      BY <1>1
    <3> QED
      BY <3>1, <3>2, <3>3, Zenon
  <2>2. patrols' \in [Patrols -> Rows] /\ \A p \in Patrols : patrols'[p].loop < Loops
    BY <1>1, <1>2 DEF PatrolInv, RowsOK
  <2> QED
    BY <1>3, <2>1, <2>2 DEF RowsOK
<1>5. StartingPatrolIsDriven'
  BY <1>2 DEF StartingPatrolIsDriven
<1>6. DriversOK' /\ CancelerOK'
  BY <1>1 DEF DriversOK, DriverRecords, DriverPcs, Idle, Phases, CancelerOK, NotCanceling
<1> QED
  BY <1>4, <1>5, <1>6 DEF PatrolInv

-----------------------------------------------------------------------------
(* To the gateway's node and the robot.                                      *)

\* A step of the patrols is one of the node and its clients, or none to them.
LEMMA PatrolStepOfFleet ==
  ASSUME PatrolInv, GatewayTypeOK, [Steps]_missionVars
  PROVE  [FleetNext]_fleetVars
<1> USE DEF fleetVars
<1>1. ASSUME NEW c \in Commands,
             Answers(c) \/ StartCall(c) \/ CancelSent(c) \/ ResultCallback(c)
      PROVE  FleetNext
  BY <1>1 DEF Answers, StartCall, CancelSent, ResultCallback, FleetNext, Robot, StartThread
<1>2. CASE Begins \/ Fails \/ Settles \/ Finishes \/ Reports \/ Respawns
  BY <1>2 DEF Begins, Fails, Settles, Finishes, Reports, Respawns, FleetNext, RobotRuns, RobotReports
<1>3. CASE Unconfirmed \/ Taken
  BY <1>3 DEF Unconfirmed, Taken, FleetNext
<1>4. ASSUME NEW i \in DOMAIN heard, StatusListeners(i) PROVE FleetNext
  BY <1>4 DEF StatusListeners, PatrolHearsStatus, FleetNext, StatusCallback
<1>5. ASSUME NEW d \in Drivers, Driver(d) PROVE [FleetNext]_fleetVars
  <2>1. ASSUME NEW c \in Commands, CallStart(d, c) PROVE FleetNext
    <3>1. drivers[d].waypoint \in Waypoints /\ drivers[d].phase \in Phases
      BY DEF PatrolInv, DriversOK, DriverRecords
    <3>2. Target(drivers[d].waypoint, drivers[d].phase) \in Targets
      BY <3>1, PatrolFacts
    <3> QED
      BY <2>1, <3>2 DEF CallStart, FleetNext, Clients
  <2> QED
    BY <1>5, <2>1 DEF Driver, BeginGoal, GoalStarted
<1>6. CASE (\E p \in Patrols : RunChecks(p)) \/ RunStarts
  BY <1>6 DEF RunChecks, RunStarts
<1>7. CASE Worker
  BY <1>7 DEF Worker, WorkerTakes, WorkerFails, WorkerReadsPhase, WorkerTurns, WorkerAdvances,
              WorkerDwells
<1>8. CASE (\E p \in Patrols : CancelReads(p)) \/ CancelCloses
  BY <1>8 DEF CancelReads, CancelCloses
<1>9. CASE CancelCalls
  <2>1. CASE active = canceler.command
    <3>1. active \in Commands /\ CancelPops(active)
      BY <1>9, <2>1 DEF CancelCalls, PatrolInv, CancelerOK
    <3> QED
      BY <3>1 DEF FleetNext, Clients
  <2> QED
    BY <1>9, <2>1 DEF CancelCalls
<1>10. CASE PatrolsRestart
  BY <1>10 DEF PatrolsRestart, FleetNext
<1>11. CASE EmergencyStopped
  BY <1>11 DEF EmergencyStopped, StopThread, StopForSafety, FleetNext, Clients, EstopThread
<1>12. CASE UNCHANGED missionVars
  BY <1>12 DEF missionVars
<1> QED
  BY <1>1, <1>2, <1>3, <1>4, <1>5, <1>6, <1>7, <1>8, <1>9, <1>10, <1>11, <1>12
  DEF Steps, Undisturbed, Interrupted

LEMMA PatrolStep == FleetInv /\ PatrolInv /\ [Steps]_missionVars => FleetInv' /\ PatrolInv'
<1> SUFFICES ASSUME FleetInv, PatrolInv, [Steps]_missionVars
             PROVE  FleetInv' /\ PatrolInv'
  OBVIOUS
<1>1. GatewayTypeOK
  BY DEF FleetInv
<1>2. FleetInv'
  BY <1>1, PatrolStepOfFleet, FleetStep
<1>3. PatrolInv'
  <2>1. ASSUME NEW c \in Commands,
               Answers(c) \/ StartCall(c) \/ CancelSent(c) \/ ResultCallback(c)
        PROVE  PatrolInv'
    BY <2>1, PatrolsUntouched DEF Answers, StartCall, CancelSent, ResultCallback
  <2>2. CASE \/ Begins \/ Fails \/ Settles \/ Finishes \/ Reports \/ Respawns \/ Unconfirmed
             \/ Taken
    BY <2>2, PatrolsUntouched DEF Begins, Fails, Settles, Finishes, Reports, Respawns,
                                  Unconfirmed, Taken
  <2>3. ASSUME NEW i \in DOMAIN heard, StatusListeners(i) PROVE PatrolInv'
    BY <1>1, <2>3, PatrolsUntouched, HearsStep DEF StatusListeners
  <2>4. ASSUME NEW d \in Drivers, Driver(d) PROVE PatrolInv'
    BY <2>4, BeginGoalStep, CallStartStep, GoalStartedStep DEF Driver
  <2>5. CASE (\E p \in Patrols : RunChecks(p)) \/ RunStarts
    BY <2>5, RunChecksStep, RunStartsStep
  <2>6. CASE Worker
    BY <2>6, WorkerTakesStep, WorkerFailsStep, WorkerReadsPhaseStep, WorkerTurnsStep,
       WorkerAdvancesStep, WorkerDwellsStep DEF Worker
  <2>7. CASE (\E p \in Patrols : CancelReads(p)) \/ CancelCalls \/ CancelCloses
    BY <1>1, <2>7, CancelStep
  <2>8. CASE PatrolsRestart
    BY <2>8, PatrolsRestartStep
  <2>9. CASE EmergencyStopped
    <3>1. ASSUME NEW o \in Operators,
                 ((EstopAnswered(o) \/ EstopReleased(o)) /\ UNCHANGED patrolVars) \/ StopThread(o)
          PROVE  PatrolInv'
      BY <3>1, PatrolsUntouched, StopForSafetyStep DEF StopThread
    <3> QED
      BY <2>9, <3>1 DEF EmergencyStopped
  <2>10. CASE UNCHANGED missionVars
    BY <2>10, PatrolsUntouched DEF missionVars
  <2> QED
    BY <2>1, <2>2, <2>3, <2>4, <2>5, <2>6, <2>7, <2>8, <2>9, <2>10
    DEF Steps, Undisturbed, Interrupted
<1> QED
  BY <1>2, <1>3

LEMMA PatrolsInitially == MissionInit => FleetInv /\ PatrolInv
<1> SUFFICES ASSUME MissionInit PROVE FleetInv /\ PatrolInv
  OBVIOUS
<1>1. FleetInv
  BY FleetInitially DEF MissionInit, FleetInit
<1>2. /\ patrols \in [Patrols -> Rows]
      /\ \A p \in Patrols : patrols[p].loop < Loops /\ patrols[p].state # "STARTING"
  BY PatrolFacts DEF MissionInit, PatrolInit, Rows
<1>3. RowsOK /\ StartingPatrolIsDriven
  BY <1>2, PatrolAssumption DEF MissionInit, PatrolInit, RowsOK, StartingPatrolIsDriven
<1>4. DriversOK /\ CancelerOK
  BY PatrolFacts DEF MissionInit, PatrolInit, DriversOK, DriverRecords, DriverPcs, Idle, Phases,
                     CancelerOK, NotCanceling
<1> QED
  BY <1>1, <1>3, <1>4 DEF PatrolInv

LEMMA PatrolsInvariant == DisturbedSpec => [](FleetInv /\ PatrolInv)
<1>1. (FleetInv /\ PatrolInv) /\ [Steps]_missionVars => (FleetInv /\ PatrolInv)'
  BY PatrolStep
<1> QED
  BY <1>1, PatrolsInitially, PTL DEF DisturbedSpec, Steps

\* THEOREM: the types of the patrols and of the node they use, whatever is
\* canceled, stopped and restarted.
THEOREM MissionTyped == DisturbedSpec => []MissionTypeOK
<1>1. FleetInv /\ PatrolInv => MissionTypeOK
  BY PatrolFacts DEF FleetInv, PatrolInv, RowsOK, DriversOK, DriverRecords, CancelerOK,
                     MissionTypeOK, PatrolTypeOK
<1> QED
  BY <1>1, PatrolsInvariant, PTL

\* THEOREM: somebody starts the goal of every STARTING patrol, also after a
\* cancel, an emergency stop or a restart in the middle of it.
THEOREM PatrolsDriven == DisturbedSpec => []StartingPatrolIsDriven
<1>1. FleetInv /\ PatrolInv => StartingPatrolIsDriven
  BY DEF PatrolInv
<1> QED
  BY <1>1, PatrolsInvariant, PTL

\* THEOREM: to the gateway's node and the robot the patrols are clients like any
\* other, so that whatever holds of FleetOwnership holds with them.
THEOREM PatrolsAreClients == DisturbedSpec => FleetSpec
<1>1. MissionInit => FleetInit
  BY DEF MissionInit, FleetInit
<1>2. (FleetInv /\ PatrolInv) /\ [Steps]_missionVars => [FleetNext]_fleetVars
  BY PatrolStepOfFleet DEF FleetInv
<1> QED
  BY <1>1, <1>2, PatrolsInvariant, PTL DEF DisturbedSpec, FleetSpec, Steps

-----------------------------------------------------------------------------
(* A patrol that nobody disturbs.                                            *)

\* The robot reached the waypoint, with its final yaw.
VisitedAt(w) == \E phase \in {"waypoint", "orientation"} : Reached(Target(w, phase))

\* No two patrols are open.
OneOpen ==
  \A p, q \in Patrols : patrols[p].state \in Open /\ patrols[q].state \in Open => p = q

\* A run request and the worker never drive at once.
RunDrives ==
  LET run == drivers["run"] IN
  /\ run.pc \in {"idle", "accepted", "begin", "call", "wait"}
  /\ run.pc # "idle" => drivers["worker"].pc = "idle"
  /\ run.pc = "accepted" =>
       patrols[run.patrol].state = "CREATED" /\ \A p \in Patrols : patrols[p].state \notin Open
  /\ run.pc \in {"begin", "call", "wait"} => patrols[run.patrol].state = "STARTING"

WorkerDrives ==
  LET worker == drivers["worker"] IN
  /\ worker.pc # "accepted"
  /\ worker.pc \in {"verdict", "turn", "advance"} => patrols[worker.patrol].state = "ACTIVE"
  /\ worker.pc \in {"begin", "call", "wait", "dwell"} => patrols[worker.patrol].state = "STARTING"

\* What is expected of p's goal is the pose of its waypoint, in its phase.
ExpectsGoal(p) ==
  goalPhase[p] \in Phases /\ expected[p] = Target(patrols[p].waypoint, goalPhase[p])

GoalExpected ==
  /\ \A p \in Patrols : patrols[p].state = "ACTIVE" => ExpectsGoal(p)
  /\ \A d \in Drivers : drivers[d].pc \in {"call", "wait"} => ExpectsGoal(drivers[d].patrol)

\* A success the worker acts on is of the goal the patrol waits for.
VerdictIsOfGoal ==
  LET worker == drivers["worker"] IN
  /\ \A i \in DOMAIN updates : Truthful(updates[i])
  /\ worker.pc = "verdict" /\ worker.status.state = "SUCCEEDED" => Reached(expected[worker.patrol])
  /\ worker.pc = "advance" =>
       goalPhase[worker.patrol] # "translation" /\ Reached(expected[worker.patrol])

\* Whatever waypoint a patrol has passed the robot has visited.
PassedIsVisited ==
  \A p \in Patrols, w \in Waypoints :
    w < patrols[p].waypoint \/ 0 < patrols[p].loop \/ patrols[p].state = "COMPLETED" => VisitedAt(w)

MissionInv ==
  OneOpen /\ RunDrives /\ WorkerDrives /\ GoalExpected /\ VerdictIsOfGoal /\ PassedIsVisited

MissionFacts == FleetInv /\ PatrolInv /\ TruthInv /\ MissionInv

\* What was reached stays reached.
ReachedNext(target) == \E c \in Commands : outcome'[c] = "SUCCEEDED" /\ goalTarget'[c] = target

LEMMA ReachedStays == ASSUME SuccessStays, NEW target, Reached(target) PROVE ReachedNext(target)
BY DEF SuccessStays, Reached, ReachedNext

\* So does what a patrol has passed, whatever it passes now having been visited.
LEMMA PassedKept ==
  ASSUME PassedIsVisited, SuccessStays,
         \A p \in Patrols, w \in Waypoints :
           w < patrols'[p].waypoint \/ 0 < patrols'[p].loop \/ patrols'[p].state = "COMPLETED" =>
             \/ w < patrols[p].waypoint \/ 0 < patrols[p].loop \/ patrols[p].state = "COMPLETED"
             \/ VisitedAt(w)
  PROVE  PassedIsVisited'
<1>1. \A w \in Waypoints : VisitedAt(w) =>
        \E phase \in {"waypoint", "orientation"} : ReachedNext(Target(w, phase))
  BY ReachedStays DEF VisitedAt
<1>2. \A p \in Patrols, w \in Waypoints :
        w < patrols'[p].waypoint \/ 0 < patrols'[p].loop \/ patrols'[p].state = "COMPLETED" =>
          \E phase \in {"waypoint", "orientation"} : ReachedNext(Target(w, phase))
  BY <1>1 DEF PassedIsVisited
<1> QED
  BY <1>2 DEF PassedIsVisited, VisitedAt, Reached, ReachedNext, Target

\* What is in the queue is as true as what is heard.
LEMMA VerdictKept ==
  ASSUME VerdictIsOfGoal, TruthInv, SuccessStays,
         \A j \in DOMAIN updates' :
           \/ \E k \in DOMAIN updates : updates'[j] = updates[k]
           \/ \E i \in DOMAIN heard : updates'[j] = heard[i].status,
         drivers'["worker"].pc = "verdict" /\ drivers'["worker"].status.state = "SUCCEEDED" =>
           Reached(expected'[drivers'["worker"].patrol]),
         drivers'["worker"].pc = "advance" =>
           /\ goalPhase'[drivers'["worker"].patrol] # "translation"
           /\ Reached(expected'[drivers'["worker"].patrol])
  PROVE  VerdictIsOfGoal'
<1>1. /\ \A k \in DOMAIN updates : Truthful(updates[k])
      /\ \A i \in DOMAIN heard : Truthful(heard[i].status)
  BY DEF VerdictIsOfGoal, TruthInv, StatusesAreTrue
<1>2. \A j \in DOMAIN updates' : Truthful(updates'[j])
  BY <1>1
<1>3. \A j \in DOMAIN updates' : updates'[j].state = "SUCCEEDED" =>
        updates'[j].command = NoCommand /\ ReachedNext(updates'[j].target)
  BY <1>2, ReachedStays DEF Truthful
<1>4. /\ drivers'["worker"].pc = "verdict" /\ drivers'["worker"].status.state = "SUCCEEDED" =>
           ReachedNext(expected'[drivers'["worker"].patrol])
      /\ drivers'["worker"].pc = "advance" =>
           /\ goalPhase'[drivers'["worker"].patrol] # "translation"
           /\ ReachedNext(expected'[drivers'["worker"].patrol])
  BY ReachedStays
<1> QED
  BY <1>3, <1>4 DEF VerdictIsOfGoal, Truthful, Reached, ReachedNext

LEMMA DriverFacts ==
  ASSUME DriversOK
  PROVE  /\ Drivers = {"worker", "run"}
         /\ \A d \in Drivers : drivers[d].pc # "idle" => drivers[d].patrol \in Patrols
BY DEF DriversOK, DriverRecords, Drivers

\* The steps of the robot and of the node's own threads.
LEMMA MissionUntouched ==
  ASSUME MissionFacts, SuccessStays, UNCHANGED <<patrols, goalPhase, expected, drivers>>,
         \A j \in DOMAIN updates' :
           \/ \E k \in DOMAIN updates : updates'[j] = updates[k]
           \/ \E i \in DOMAIN heard : updates'[j] = heard[i].status
  PROVE  MissionInv'
<1>1. OneOpen' /\ RunDrives' /\ WorkerDrives' /\ GoalExpected'
  BY DEF MissionFacts, MissionInv, OneOpen, RunDrives, WorkerDrives, GoalExpected, ExpectsGoal
<1>2. PassedIsVisited'
  BY PassedKept DEF MissionFacts, MissionInv
<1>3. VerdictIsOfGoal'
  <2>1. /\ drivers["worker"].pc = "verdict" /\ drivers["worker"].status.state = "SUCCEEDED" =>
             Reached(expected[drivers["worker"].patrol])
        /\ drivers["worker"].pc = "advance" =>
             /\ goalPhase[drivers["worker"].patrol] # "translation"
             /\ Reached(expected[drivers["worker"].patrol])
        /\ VerdictIsOfGoal /\ TruthInv
    BY DEF MissionFacts, MissionInv, VerdictIsOfGoal
  <2> QED
    BY <2>1, VerdictKept
<1> QED
  BY <1>1, <1>2, <1>3 DEF MissionInv

\* A run request.
LEMMA MissionRuns ==
  ASSUME MissionFacts, SuccessStays, (\E p \in Patrols : RunChecks(p)) \/ RunStarts
  PROVE  MissionInv'
<1> USE DEF MissionFacts, MissionInv
<1>d. DriversOK /\ Drivers = {"worker", "run"}
  BY DriverFacts DEF PatrolInv
<1>1. ASSUME NEW p \in Patrols, RunChecks(p) PROVE MissionInv'
  <2>1. /\ drivers["run"].pc = "idle"
        /\ drivers'["run"].pc = "accepted" /\ drivers'["run"].patrol = p
        /\ drivers'["worker"] = drivers["worker"]
        /\ UNCHANGED <<patrols, goalPhase, expected, updates>>
    BY <1>1, RunChecksStep
  <2>2. patrols[p].state = "CREATED" /\ \A q \in Patrols : patrols[q].state \notin Open
    BY <1>1 DEF RunChecks, Open
  <2>3. drivers["worker"].pc = "idle"
    <3>1. drivers["worker"].pc # "idle" => drivers["worker"].patrol \in Patrols
      BY <1>d, DriverFacts
    <3>2. drivers["worker"].pc \in DriverPcs
      BY <1>d DEF DriversOK, DriverRecords
    <3>3. drivers["worker"].pc # "idle" => patrols[drivers["worker"].patrol].state \in Open
      BY <3>2 DEF WorkerDrives, DriverPcs, Open
    <3> QED
      BY <2>2, <3>1, <3>3
  <2>4. OneOpen' /\ RunDrives' /\ WorkerDrives' /\ GoalExpected'
    BY <1>d, <2>1, <2>2, <2>3 DEF OneOpen, RunDrives, WorkerDrives, GoalExpected, ExpectsGoal
  <2>5. PassedIsVisited'
    BY <2>1, PassedKept
  <2>6. VerdictIsOfGoal'
    BY <2>1, <2>3, VerdictKept
  <2> QED
    BY <2>4, <2>5, <2>6
<1>2. CASE RunStarts
  <2> DEFINE p == drivers["run"].patrol
  <2>1. /\ drivers["run"].pc = "accepted" /\ p \in Patrols
        /\ drivers'["run"].pc = "begin" /\ drivers'["run"].patrol = p
        /\ drivers'["worker"] = drivers["worker"]
        /\ \A q \in Patrols \ {p} : patrols'[q] = patrols[q]
        /\ patrols'[p].state = "STARTING" /\ patrols'[p].waypoint = 1 /\ patrols'[p].loop = 0
        /\ UNCHANGED <<goalPhase, expected, updates>>
    BY <1>2, RunStartsStep
  <2>2. drivers["worker"].pc = "idle" /\ \A q \in Patrols : patrols[q].state \notin Open
    BY <2>1 DEF RunDrives
  <2> HIDE DEF p
  <2>3. OneOpen'
    BY <2>1, <2>2 DEF OneOpen
  <2>4. RunDrives' /\ WorkerDrives'
    BY <2>1, <2>2 DEF RunDrives, WorkerDrives
  <2>5. GoalExpected'
    BY <1>d, <2>1, <2>2 DEF GoalExpected, ExpectsGoal, Open
  <2>6. PassedIsVisited'
    <3>1. \A w \in Waypoints : ~(w < 1)
      BY PatrolFacts DEF Waypoints
    <3> QED
      BY <2>1, <3>1, PassedKept
  <2>7. VerdictIsOfGoal'
    BY <2>1, <2>2, VerdictKept
  <2> QED
    BY <2>3, <2>4, <2>5, <2>6, <2>7
<1> QED
  BY <1>1, <1>2

\* Whichever driver starts a goal is the only one that does anything, and its
\* patrol is STARTING.
LEMMA StarterFacts ==
  ASSUME MissionFacts, NEW d \in Drivers, drivers[d].pc \in {"begin", "call", "wait"}
  PROVE  /\ patrols[drivers[d].patrol].state = "STARTING" /\ drivers[d].patrol \in Patrols
         /\ \A e \in Drivers \ {d} : drivers[e].pc = "idle"
         /\ \A q \in Patrols \ {drivers[d].patrol} : patrols[q].state \notin Open
<1>1. /\ Drivers = {"worker", "run"} /\ drivers[d].patrol \in Patrols
  BY DriverFacts DEF MissionFacts, PatrolInv
<1>2. patrols[drivers[d].patrol].state = "STARTING" /\ \A e \in Drivers \ {d} : drivers[e].pc = "idle"
  BY <1>1 DEF MissionFacts, MissionInv, RunDrives, WorkerDrives
<1> QED
  BY <1>1, <1>2 DEF MissionFacts, MissionInv, OneOpen, Open

LEMMA MissionDrives ==
  ASSUME MissionFacts, SuccessStays, NEW d \in Drivers, Driver(d)
  PROVE  MissionInv'
<1> USE DEF MissionFacts, MissionInv
<1> DEFINE p == drivers[d].patrol
<1>d. DriversOK /\ Drivers = {"worker", "run"}
  BY DriverFacts DEF PatrolInv
<1>1. CASE BeginGoal(d)
  <2>1. /\ drivers[d].pc = "begin" /\ p \in Patrols
        /\ \A e \in Drivers \ {d} : drivers'[e] = drivers[e]
        /\ \A q \in Patrols \ {p} : goalPhase'[q] = goalPhase[q] /\ expected'[q] = expected[q]
        /\ drivers'[d].pc = "call" /\ drivers'[d].patrol = p
        /\ goalPhase'[p] \in Phases
        /\ expected'[p] = Target(patrols[p].waypoint, goalPhase'[p])
        /\ UNCHANGED <<patrols, updates>>
    BY <1>1, BeginGoalStep
  <2>2. /\ patrols[p].state = "STARTING" /\ \A e \in Drivers \ {d} : drivers[e].pc = "idle"
        /\ \A q \in Patrols \ {p} : patrols[q].state \notin Open
    BY <2>1, StarterFacts
  <2> HIDE DEF p
  <2>3. OneOpen' /\ RunDrives' /\ WorkerDrives'
    BY <1>d, <2>1, <2>2 DEF OneOpen, RunDrives, WorkerDrives
  <2>4. GoalExpected'
    BY <2>1, <2>2 DEF GoalExpected, ExpectsGoal, Open, Target
  <2>5. PassedIsVisited'
    BY <2>1, PassedKept
  <2>6. VerdictIsOfGoal'
    BY <1>d, <2>1, <2>2, VerdictKept
  <2> QED
    BY <2>3, <2>4, <2>5, <2>6
<1>2. ASSUME NEW c \in Commands, CallStart(d, c) PROVE MissionInv'
  <2>1. /\ drivers[d].pc = "call"
        /\ \A e \in Drivers \ {d} : drivers'[e] = drivers[e]
        /\ drivers'[d].pc = "wait" /\ drivers'[d].patrol = p
        /\ UNCHANGED <<patrols, goalPhase, expected, updates>>
    BY <1>2, CallStartStep
  <2>2. /\ patrols[p].state = "STARTING" /\ \A e \in Drivers \ {d} : drivers[e].pc = "idle"
    BY <2>1, StarterFacts
  <2>3. ExpectsGoal(p)
    BY <2>1 DEF GoalExpected
  <2> HIDE DEF p
  <2>4. OneOpen' /\ RunDrives' /\ WorkerDrives'
    BY <1>d, <2>1, <2>2 DEF OneOpen, RunDrives, WorkerDrives
  <2>5. GoalExpected'
    BY <2>1, <2>2, <2>3 DEF GoalExpected, ExpectsGoal
  <2>6. PassedIsVisited'
    BY <2>1, PassedKept
  <2>7. VerdictIsOfGoal'
    BY <1>d, <2>1, <2>2, VerdictKept
  <2> QED
    BY <2>4, <2>5, <2>6, <2>7
<1>3. CASE GoalStarted(d)
  <2>1. /\ drivers[d].pc = "wait" /\ p \in Patrols
        /\ \A e \in Drivers : drivers'[e] = IF e = d THEN Idle ELSE drivers[e]
        /\ \A q \in Patrols \ {p} :
             /\ patrols'[q] = patrols[q]
             /\ goalPhase'[q] = goalPhase[q] /\ expected'[q] = expected[q]
        /\ patrols'[p].waypoint = patrols[p].waypoint /\ patrols'[p].loop = patrols[p].loop
        /\ updates' = updates
        /\ \/ patrols'[p].state = "ACTIVE" /\ UNCHANGED <<goalPhase, expected>>
           \/ patrols'[p].state = "FAILED"
    BY <1>3, GoalStartedStep
  <2>2. /\ patrols[p].state = "STARTING" /\ \A e \in Drivers \ {d} : drivers[e].pc = "idle"
        /\ \A q \in Patrols \ {p} : patrols[q].state \notin Open
    BY <2>1, StarterFacts
  <2>3. ExpectsGoal(p)
    BY <2>1 DEF GoalExpected
  <2>4. \A e \in Drivers : drivers'[e].pc = "idle"
    BY <2>1, <2>2 DEF Idle
  <2> HIDE DEF p
  <2>5. OneOpen'
    BY <2>1, <2>2 DEF OneOpen
  <2>6. RunDrives' /\ WorkerDrives'
    BY <1>d, <2>4 DEF RunDrives, WorkerDrives
  <2>7. GoalExpected'
    BY <2>1, <2>2, <2>3, <2>4 DEF GoalExpected, ExpectsGoal, Open
  <2>8. PassedIsVisited'
    <3>1. \A q \in Patrols : /\ patrols'[q].waypoint = patrols[q].waypoint
                             /\ patrols'[q].loop = patrols[q].loop
                             /\ patrols'[q].state = "COMPLETED" => patrols[q].state = "COMPLETED"
      BY <2>1
    <3> QED
      BY <3>1, PassedKept
  <2>9. VerdictIsOfGoal'
    BY <1>d, <2>1, <2>4, VerdictKept
  <2> QED
    BY <2>5, <2>6, <2>7, <2>8, <2>9
<1> QED
  BY <1>1, <1>2, <1>3 DEF Driver

\* While the worker is at a verdict the run request is not driving, and the
\* patrol is the only open one.
LEMMA WorkerFacts ==
  ASSUME MissionFacts, drivers["worker"].pc \in {"verdict", "turn", "advance", "dwell"}
  PROVE  /\ drivers["worker"].patrol \in Patrols /\ drivers["run"].pc = "idle"
         /\ patrols[drivers["worker"].patrol].state =
              IF drivers["worker"].pc = "dwell" THEN "STARTING" ELSE "ACTIVE"
         /\ \A q \in Patrols \ {drivers["worker"].patrol} : patrols[q].state \notin Open
<1> DEFINE p == drivers["worker"].patrol
<1>1. Drivers = {"worker", "run"} /\ p \in Patrols
  BY DriverFacts DEF MissionFacts, PatrolInv
<1>2. /\ patrols[p].state = IF drivers["worker"].pc = "dwell" THEN "STARTING" ELSE "ACTIVE"
      /\ drivers["run"].pc = "idle"
  BY DEF MissionFacts, MissionInv, WorkerDrives, RunDrives
<1>3. \A q \in Patrols \ {p} : patrols[q].state \notin Open
  BY <1>1, <1>2 DEF MissionFacts, MissionInv, OneOpen, Open
<1> QED
  BY <1>1, <1>2, <1>3

\* The worker takes a status: it matches the goal of the only open patrol.
LEMMA MissionTakes ==
  ASSUME MissionFacts, SuccessStays, WorkerTakes
  PROVE  MissionInv'
<1> USE DEF MissionFacts, MissionInv
<1>1. /\ UNCHANGED <<patrols, goalPhase, expected>>
      /\ drivers'["run"] = drivers["run"] /\ drivers["worker"].pc = "idle"
      /\ \A j \in DOMAIN updates' : \E k \in DOMAIN updates : updates'[j] = updates[k]
  BY WorkerTakesStep
<1>2. CASE drivers' = drivers
  BY <1>1, <1>2, MissionUntouched
<1>3. CASE /\ 1 \in DOMAIN updates
           /\ drivers'["worker"].patrol \in Patrols
           /\ patrols[drivers'["worker"].patrol].state = "ACTIVE"
           /\ TargetMatches(updates[1], drivers'["worker"].patrol)
           /\ drivers'["worker"].pc = "verdict" /\ drivers'["worker"].status = updates[1]
  <2> DEFINE p == drivers'["worker"].patrol
  <2>1. /\ p \in Patrols /\ patrols[p].state = "ACTIVE" /\ ExpectsGoal(p)
    BY <1>3 DEF GoalExpected
  <2>2. drivers["run"].pc = "idle"
    <3>1. Drivers = {"worker", "run"}
          /\ (drivers["run"].pc # "idle" => drivers["run"].patrol \in Patrols)
      BY DriverFacts DEF PatrolInv
    <3> QED
      BY <2>1, <3>1 DEF RunDrives, OneOpen, Open
  <2>3. updates[1].target = expected[p]
    <3>1. patrols[p].waypoint \in Waypoints
      BY <2>1 DEF PatrolInv, RowsOK, Rows
    <3>2. expected[p] # NoTarget
      BY <2>1, <3>1, PatrolFacts DEF ExpectsGoal
    <3> QED
      BY <1>3, <3>2 DEF TargetMatches
  <2>4. updates[1].state = "SUCCEEDED" => Reached(expected[p])
    BY <1>3, <2>3 DEF VerdictIsOfGoal, Truthful
  <2> HIDE DEF p
  <2>5. OneOpen' /\ RunDrives' /\ WorkerDrives'
    BY <1>1, <1>3, <2>1, <2>2 DEF OneOpen, RunDrives, WorkerDrives, p
  <2>6. GoalExpected'
    <3>1. \A d \in Drivers : drivers'[d].pc \notin {"call", "wait"}
      BY <1>1, <1>3, <2>2 DEF Drivers
    <3> QED
      BY <1>1, <3>1 DEF GoalExpected, ExpectsGoal
  <2>7. PassedIsVisited'
    BY <1>1, PassedKept
  <2>8. VerdictIsOfGoal'
    <3>1. /\ drivers'["worker"].pc = "verdict" /\ drivers'["worker"].status.state = "SUCCEEDED" =>
               Reached(expected'[drivers'["worker"].patrol])
          /\ drivers'["worker"].pc # "advance"
      BY <1>1, <1>3, <2>4 DEF p
    <3> QED
      BY <1>1, <3>1, VerdictKept
  <2> QED
    BY <2>5, <2>6, <2>7, <2>8
<1> QED
  BY <1>2, <1>3, WorkerTakesStep

\* The worker acts on a verdict, short of advancing.
LEMMA MissionActs ==
  ASSUME MissionFacts, SuccessStays,
         WorkerFails \/ WorkerReadsPhase \/ WorkerTurns \/ WorkerDwells
  PROVE  MissionInv'
<1> USE DEF MissionFacts, MissionInv
<1> DEFINE p == drivers["worker"].patrol
<1>d. Drivers = {"worker", "run"}
  BY DEF Drivers
<1>1. CASE WorkerFails
  <2>1. /\ drivers["worker"].pc = "verdict" /\ p \in Patrols
        /\ \A e \in Drivers : drivers'[e] = IF e = "worker" THEN Idle ELSE drivers[e]
        /\ \A q \in Patrols \ {p} :
             /\ patrols'[q] = patrols[q]
             /\ goalPhase'[q] = goalPhase[q] /\ expected'[q] = expected[q]
        /\ patrols'[p].state = "FAILED"
        /\ patrols'[p].waypoint = patrols[p].waypoint /\ patrols'[p].loop = patrols[p].loop
        /\ updates' = updates
    BY <1>1, WorkerFailsStep
  <2>2. drivers["run"].pc = "idle" /\ \A q \in Patrols \ {p} : patrols[q].state \notin Open
    BY <2>1, WorkerFacts
  <2>3. \A e \in Drivers : drivers'[e].pc = "idle"
    BY <1>d, <2>1, <2>2 DEF Idle
  <2> HIDE DEF p
  <2>4. OneOpen' /\ RunDrives' /\ WorkerDrives'
    BY <1>d, <2>1, <2>2, <2>3 DEF OneOpen, RunDrives, WorkerDrives, Open
  <2>5. GoalExpected'
    BY <2>1, <2>2, <2>3 DEF GoalExpected, ExpectsGoal, Open
  <2>6. PassedIsVisited'
    <3>1. \A q \in Patrols : /\ patrols'[q].waypoint = patrols[q].waypoint
                             /\ patrols'[q].loop = patrols[q].loop
                             /\ patrols'[q].state = "COMPLETED" => patrols[q].state = "COMPLETED"
      BY <2>1
    <3> QED
      BY <3>1, PassedKept
  <2>7. VerdictIsOfGoal'
    BY <1>d, <2>1, <2>3, VerdictKept
  <2> QED
    BY <2>4, <2>5, <2>6, <2>7
<1>2. CASE WorkerReadsPhase
  <2>1. /\ UNCHANGED <<patrols, goalPhase, expected, updates>>
        /\ drivers'["run"] = drivers["run"]
        /\ drivers["worker"].pc = "verdict" /\ drivers["worker"].status.state = "SUCCEEDED"
        /\ drivers'["worker"].patrol = p
        /\ drivers'["worker"].pc = IF goalPhase[p] = "translation" THEN "turn" ELSE "advance"
    BY <1>2, WorkerReadsPhaseStep
  <2>2. /\ p \in Patrols /\ patrols[p].state = "ACTIVE" /\ drivers["run"].pc = "idle"
        /\ Reached(expected[p])
    BY <2>1, WorkerFacts DEF VerdictIsOfGoal
  <2> HIDE DEF p
  <2>3. OneOpen' /\ RunDrives' /\ WorkerDrives'
    BY <2>1, <2>2 DEF OneOpen, RunDrives, WorkerDrives
  <2>4. GoalExpected'
    <3>1. \A d \in Drivers : drivers'[d].pc \notin {"call", "wait"}
      BY <1>d, <2>1, <2>2
    <3> QED
      BY <2>1, <3>1 DEF GoalExpected, ExpectsGoal
  <2>5. PassedIsVisited'
    BY <2>1, PassedKept
  <2>6. VerdictIsOfGoal'
    <3>1. /\ drivers'["worker"].pc # "verdict"
          /\ drivers'["worker"].pc = "advance" =>
               /\ goalPhase'[drivers'["worker"].patrol] # "translation"
               /\ Reached(expected'[drivers'["worker"].patrol])
      BY <2>1, <2>2
    <3> QED
      BY <2>1, <3>1, VerdictKept
  <2> QED
    BY <2>3, <2>4, <2>5, <2>6
<1>3. CASE WorkerTurns
  <2>1. /\ drivers["worker"].pc = "turn" /\ p \in Patrols
        /\ drivers'["run"] = drivers["run"]
        /\ drivers'["worker"].pc = "begin" /\ drivers'["worker"].patrol = p
        /\ \A q \in Patrols \ {p} : patrols'[q] = patrols[q]
        /\ patrols'[p].state = "STARTING"
        /\ patrols'[p].waypoint = patrols[p].waypoint /\ patrols'[p].loop = patrols[p].loop
        /\ UNCHANGED <<goalPhase, expected, updates>>
    BY <1>3, WorkerTurnsStep
  <2>2. drivers["run"].pc = "idle" /\ \A q \in Patrols \ {p} : patrols[q].state \notin Open
    BY <2>1, WorkerFacts
  <2> HIDE DEF p
  <2>3. OneOpen' /\ RunDrives' /\ WorkerDrives'
    BY <2>1, <2>2 DEF OneOpen, RunDrives, WorkerDrives, Open
  <2>4. GoalExpected'
    <3>1. \A d \in Drivers : drivers'[d].pc \notin {"call", "wait"}
      BY <1>d, <2>1, <2>2
    <3> QED
      BY <2>1, <2>2, <3>1 DEF GoalExpected, ExpectsGoal, Open
  <2>5. PassedIsVisited'
    <3>1. \A q \in Patrols : /\ patrols'[q].waypoint = patrols[q].waypoint
                             /\ patrols'[q].loop = patrols[q].loop
                             /\ patrols'[q].state = "COMPLETED" => patrols[q].state = "COMPLETED"
      BY <2>1
    <3> QED
      BY <3>1, PassedKept
  <2>6. VerdictIsOfGoal'
    BY <2>1, VerdictKept
  <2> QED
    BY <2>3, <2>4, <2>5, <2>6
<1>4. CASE WorkerDwells
  <2>1. /\ UNCHANGED <<patrols, goalPhase, expected, updates>>
        /\ drivers'["run"] = drivers["run"] /\ drivers["worker"].pc = "dwell"
        /\ patrols[p].state = "STARTING" =>
             drivers'["worker"].pc = "begin" /\ drivers'["worker"].patrol = p
    BY <1>4, WorkerDwellsStep
  <2>2. /\ p \in Patrols /\ patrols[p].state = "STARTING" /\ drivers["run"].pc = "idle"
        /\ drivers'["worker"].pc = "begin" /\ drivers'["worker"].patrol = p
    BY <2>1, WorkerFacts
  <2> HIDE DEF p
  <2>3. OneOpen' /\ RunDrives' /\ WorkerDrives'
    BY <2>1, <2>2 DEF OneOpen, RunDrives, WorkerDrives
  <2>4. GoalExpected'
    <3>1. \A d \in Drivers : drivers'[d].pc \notin {"call", "wait"}
      BY <1>d, <2>1, <2>2
    <3> QED
      BY <2>1, <3>1 DEF GoalExpected, ExpectsGoal
  <2>5. PassedIsVisited'
    BY <2>1, PassedKept
  <2>6. VerdictIsOfGoal'
    BY <2>1, <2>2, VerdictKept
  <2> QED
    BY <2>3, <2>4, <2>5, <2>6
<1> QED
  BY <1>1, <1>2, <1>3, <1>4

\* It advances: the robot reached the waypoint the patrol passes.
LEMMA MissionAdvances ==
  ASSUME MissionFacts, SuccessStays, WorkerAdvances
  PROVE  MissionInv'
<1> USE DEF MissionFacts, MissionInv
<1> DEFINE p == drivers["worker"].patrol
<1>d. Drivers = {"worker", "run"}
  BY DEF Drivers
<1>1. /\ drivers["worker"].pc = "advance" /\ p \in Patrols
      /\ drivers'["run"] = drivers["run"]
      /\ \A q \in Patrols \ {p} :
           /\ patrols'[q] = patrols[q]
           /\ goalPhase'[q] = goalPhase[q] /\ expected'[q] = expected[q]
      /\ updates' = updates
      /\ \/ /\ Advanced(p).loop = Loops
            /\ patrols'[p].state = "COMPLETED" /\ patrols'[p].waypoint = patrols[p].waypoint
            /\ drivers'["worker"] = Idle
         \/ /\ Advanced(p).loop # Loops
            /\ patrols'[p].state = "STARTING"
            /\ patrols'[p].waypoint = Advanced(p).waypoint
            /\ patrols'[p].loop = Advanced(p).loop
            /\ drivers'["worker"].pc = "dwell" /\ drivers'["worker"].patrol = p
  BY WorkerAdvancesStep
<1>2. /\ patrols[p].state = "ACTIVE" /\ drivers["run"].pc = "idle"
      /\ \A q \in Patrols \ {p} : patrols[q].state \notin Open
  BY <1>1, WorkerFacts
<1>3. VisitedAt(patrols[p].waypoint)
  <2>1. /\ ExpectsGoal(p) /\ goalPhase[p] # "translation" /\ Reached(expected[p])
    BY <1>1, <1>2 DEF GoalExpected, VerdictIsOfGoal
  <2> QED
    BY <2>1 DEF ExpectsGoal, VisitedAt, Phases
<1>4. /\ patrols[p].waypoint \in Waypoints /\ patrols[p].loop \in 0..Loops
      /\ patrols[p].loop < Loops
  BY <1>1 DEF PatrolInv, RowsOK, Rows
<1>5. ~(drivers'["worker"].pc \in {"verdict", "advance", "turn", "call", "wait", "begin", "accepted"})
  BY <1>1 DEF Idle
<1> HIDE DEF p
<1>6. OneOpen'
  BY <1>1, <1>2 DEF OneOpen, Open
<1>7. RunDrives' /\ WorkerDrives'
  BY <1>1, <1>2, <1>5 DEF RunDrives, WorkerDrives, Idle
<1>8. GoalExpected'
  <2>1. \A d \in Drivers : drivers'[d].pc \notin {"call", "wait"}
    BY <1>d, <1>1, <1>2, <1>5
  <2> QED
    BY <1>1, <1>2, <2>1 DEF GoalExpected, ExpectsGoal, Open
<1>9. PassedIsVisited'
  <2>1. ASSUME NEW w \in Waypoints,
               w < patrols'[p].waypoint \/ 0 < patrols'[p].loop \/ patrols'[p].state = "COMPLETED"
        PROVE  \/ w < patrols[p].waypoint \/ 0 < patrols[p].loop \/ patrols[p].state = "COMPLETED"
               \/ VisitedAt(w)
    <3>1. w \in Nat /\ w =< Len(Places) /\ patrols[p].waypoint \in Nat
          /\ patrols[p].waypoint =< Len(Places) /\ patrols[p].loop \in Nat
      BY <1>4, PatrolFacts DEF Waypoints
    <3>2. CASE patrols[p].waypoint < Len(Places)
      <4>1. /\ Advanced(p).loop = patrols[p].loop
            /\ Advanced(p).waypoint = patrols[p].waypoint + 1
        BY <3>2 DEF Advanced
      <4>2. /\ patrols'[p].waypoint = patrols[p].waypoint + 1
            /\ patrols'[p].loop = patrols[p].loop /\ patrols'[p].state # "COMPLETED"
        BY <1>1, <1>4, <4>1
      <4>3. w < patrols[p].waypoint \/ w = patrols[p].waypoint \/ 0 < patrols[p].loop
        BY <2>1, <3>1, <4>2
      <4> QED
        BY <1>3, <4>3
    <3>3. CASE ~(patrols[p].waypoint < Len(Places))
      <4>1. w < patrols[p].waypoint \/ w = patrols[p].waypoint
        BY <3>1, <3>3, PatrolFacts
      <4> QED
        BY <1>3, <4>1
    <3> QED
      BY <3>2, <3>3
  <2> QED
    BY <1>1, <2>1, PassedKept
<1>10. VerdictIsOfGoal'
  BY <1>1, <1>5, VerdictKept
<1> QED
  BY <1>6, <1>7, <1>8, <1>9, <1>10

LEMMA MissionStep == MissionFacts /\ [Undisturbed]_missionVars => MissionFacts'
<1> SUFFICES ASSUME MissionFacts, [Undisturbed]_missionVars
             PROVE  MissionFacts'
  OBVIOUS
<1>1. FleetInv /\ PatrolInv /\ TruthInv /\ GatewayTypeOK
  BY DEF MissionFacts, FleetInv
<1>2. [Steps]_missionVars
  BY DEF Steps
<1>3. FleetInv' /\ PatrolInv'
  BY <1>1, <1>2, PatrolStep
<1>4. TruthInv' /\ SuccessStays
  BY <1>1, <1>2, PatrolStepOfFleet, TruthStep
<1>5. ASSUME UNCHANGED patrolVars PROVE MissionInv'
  BY <1>4, <1>5, MissionUntouched DEF patrolVars
<1>6. ASSUME NEW i \in DOMAIN heard, StatusListeners(i) PROVE MissionInv'
  <2>1. CASE PatrolHearsStatus(i)
    <3>1. /\ UNCHANGED <<patrols, goalPhase, expected, drivers>>
          /\ \A j \in DOMAIN updates' :
               \/ \E k \in DOMAIN updates : updates'[j] = updates[k]
               \/ updates'[j] = heard[i].status
      BY <1>1, <2>1, HearsStep
    <3> QED
      BY <1>4, <3>1, MissionUntouched
  <2> QED
    BY <1>5, <1>6, <2>1 DEF StatusListeners
<1>7. ASSUME NEW c \in Commands,
              Answers(c) \/ StartCall(c) \/ CancelSent(c) \/ ResultCallback(c)
       PROVE  MissionInv'
  BY <1>5, <1>7 DEF Answers, StartCall, CancelSent, ResultCallback
<1>8. MissionInv'
  <2>1. CASE (\E p \in Patrols : RunChecks(p)) \/ RunStarts
    BY <1>4, <2>1, MissionRuns
  <2>2. CASE \E d \in Drivers : Driver(d)
    BY <1>4, <2>2, MissionDrives
  <2>3. CASE Worker
    BY <1>4, <2>3, MissionTakes, MissionActs, MissionAdvances DEF Worker
  <2>4. CASE Begins \/ Fails \/ Settles \/ Finishes \/ Reports \/ Unconfirmed \/ Taken
    BY <1>5, <2>4 DEF Begins, Fails, Settles, Finishes, Reports, Unconfirmed, Taken
  <2>5. CASE UNCHANGED missionVars
    BY <1>5, <2>5 DEF missionVars
  <2> QED
    BY <1>6, <1>7, <2>1, <2>2, <2>3, <2>4, <2>5 DEF Undisturbed
<1> QED
  BY <1>3, <1>4, <1>8 DEF MissionFacts

LEMMA MissionInitially == MissionInit => MissionFacts
<1> SUFFICES ASSUME MissionInit PROVE MissionFacts
  OBVIOUS
<1>1. FleetInv /\ PatrolInv /\ TruthInv
  BY PatrolsInitially, TruthInitially DEF MissionInit, FleetInit
<1>2. /\ \A p \in Patrols : /\ patrols[p].state = "CREATED" /\ patrols[p].loop = 0
                            /\ patrols[p].waypoint = 1
      /\ \A d \in Drivers : drivers[d].pc = "idle"
      /\ updates = <<>> /\ Drivers = {"worker", "run"}
  BY DEF MissionInit, PatrolInit, Idle, Drivers
<1>3. OneOpen /\ RunDrives /\ WorkerDrives /\ GoalExpected
  BY <1>2 DEF OneOpen, RunDrives, WorkerDrives, GoalExpected, Open
<1>4. VerdictIsOfGoal
  BY <1>2 DEF VerdictIsOfGoal
<1>5. PassedIsVisited
  BY <1>2, PatrolFacts DEF PassedIsVisited, Waypoints
<1> QED
  BY <1>1, <1>3, <1>4, <1>5 DEF MissionFacts, MissionInv

LEMMA MissionInvariant == UndisturbedSpec => []MissionFacts
<1>1. UndisturbedSpec => MissionInit /\ [][Undisturbed]_missionVars
  BY PTL DEF UndisturbedSpec
<1> QED
  BY <1>1, MissionInitially, MissionStep, PTL

\* THEOREM: the robot has been, with the final yaw, at every waypoint that an
\* undisturbed patrol has passed, whatever becomes of the statuses on the way.
THEOREM PassedVisited == UndisturbedSpec => []PassedIsVisited
<1>1. MissionFacts => PassedIsVisited
  BY DEF MissionFacts, MissionInv
<1> QED
  BY <1>1, MissionInvariant, PTL

\* Where the places of a patrol are distinct, so are the goals that visited them.
LEMMA VisitsCounted ==
  ASSUME NEW n \in 0..Len(Places),
         \A v, w \in Waypoints : Places[v] = Places[w] => v = w,
         \A w \in Waypoints : w =< n => VisitedAt(w)
  PROVE  n =< Cardinality(Visits)
<1> DEFINE Goal(w) == CHOOSE c \in Visits : goalTarget[c][1] = Places[w]
           goals == [w \in 1..n |-> Goal(w)]
<1>1. /\ n \in Nat /\ 1..n \subseteq Waypoints
      /\ \A w \in 1..n : w \in Waypoints /\ w =< n
  BY PatrolFacts DEF Waypoints
<1>2. ASSUME NEW w \in 1..n PROVE Goal(w) \in Visits /\ goalTarget[Goal(w)][1] = Places[w]
  <2>1. PICK phase \in {"waypoint", "orientation"}, c \in Commands :
          outcome[c] = "SUCCEEDED" /\ goalTarget[c] = Target(w, phase)
    BY <1>1 DEF VisitedAt, Reached
  <2>2. c \in Visits /\ goalTarget[c][1] = Places[w]
    BY <2>1 DEF Visits, Target
  <2> QED
    BY <2>2
<1> HIDE DEF Goal
<1>3. goals \in Injection(1..n, Visits)
  <2>1. goals \in [1..n -> Visits]
    BY <1>2
  <2>2. \A v, w \in 1..n : goals[v] = goals[w] => v = w
    BY <1>1, <1>2
  <2> HIDE DEF goals
  <2> QED
    BY <2>1, <2>2 DEF Injection, IsInjective
<1>4. IsFiniteSet(Visits)
  <2>1. IsFiniteSet(Commands)
    BY FS_Interval, LinkAssumption DEF Commands
  <2>2. Visits \in SUBSET Commands
    BY DEF Visits
  <2> QED
    BY <2>1, <2>2, FS_Subset
<1>5. Cardinality(1..n) =< Cardinality(Visits)
  BY <1>3, <1>4, FS_Injection
<1>6. Cardinality(1..n) = n
  BY <1>1, FS_Interval
<1> QED
  BY <1>5, <1>6

LEMMA PassedCounted ==
  ASSUME Loops = 1, \A v, w \in Waypoints : Places[v] = Places[w] => v = w,
         MissionFacts
  PROVE  AdvancesOnVisits
<1>1. ASSUME NEW p \in Patrols PROVE Progress(p) =< Cardinality(Visits)
  <2>1. /\ patrols[p].loop = 0 /\ patrols[p].waypoint \in Waypoints
        /\ Len(Places) \in Nat
    BY PatrolFacts DEF MissionFacts, PatrolInv, RowsOK, Rows
  <2>2. Progress(p) = IF patrols[p].state = "COMPLETED" THEN patrols[p].waypoint
                      ELSE patrols[p].waypoint - 1
    BY <2>1 DEF Progress, Waypoints
  <2>3. Progress(p) \in 0..Len(Places)
    BY <2>1, <2>2 DEF Waypoints
  <2>4. \A w \in Waypoints : w =< Progress(p) => VisitedAt(w)
    BY <2>1, <2>2 DEF MissionFacts, MissionInv, PassedIsVisited, Waypoints
  <2> HIDE DEF Progress
  <2> QED
    BY <2>3, <2>4, VisitsCounted
<1> QED
  BY <1>1 DEF AdvancesOnVisits

\* THEOREM: an undisturbed patrol of one loop over distinct places is never
\* further than the waypoints the robot reached.
THEOREM OnVisits ==
  ASSUME Loops = 1, \A v, w \in Waypoints : Places[v] = Places[w] => v = w
  PROVE  UndisturbedSpec => []AdvancesOnVisits
<1>1. MissionFacts => AdvancesOnVisits
  BY PassedCounted
<1> QED
  BY <1>1, MissionInvariant, PTL
=============================================================================
