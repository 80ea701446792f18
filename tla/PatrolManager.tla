---------------------------- MODULE PatrolManager ----------------------------
(***************************************************************************)
(* Patrols, control/fleet_gateway/.../patrol_manager.py with the rows      *)
(* operations.py stores for them: waypoints visited in order, some number  *)
(* of loops, each waypoint by one goal or by two (drive there facing the   *)
(* way, then turn).                                                        *)
(*                                                                         *)
(* A driver is a thread that starts goals: the manager's worker, which     *)
(* takes the terminal statuses from a queue, or the HTTP thread of a run   *)
(* request.  Every call of the store is one step; update_patrol has no     *)
(* condition on the state it replaces.  Bounds: one request of each kind   *)
(* at a time, and MaxUpdates statuses in the queue.                        *)
(***************************************************************************)
EXTENDS GatewayNavigation

CONSTANTS Patrols, NoPatrol,
          Places,      \* the waypoints of a patrol, in order
          Loops,       \* how often it visits them
          MaxUpdates   \* bound on the queue of the worker

ASSUME PatrolAssumption ==
  /\ NoPatrol \notin Patrols
  /\ Loops \in Nat \ {0}
  /\ MaxUpdates \in Nat \ {0}

VARIABLES patrols,    \* the rows, see Rows
          goalPhase,  \* _goal_phase
          expected,   \* _expected_target
          updates,    \* _updates
          drivers,    \* per driver, where it stands
          canceler    \* the thread of a cancel request

patrolVars == <<patrols, goalPhase, expected, updates, drivers, canceler>>

Waypoints == 1..Len(Places)
Drivers == {"worker", "run"}
Open == {"STARTING", "ACTIVE"}
Ended == {"COMPLETED", "CANCELED", "FAILED"}
Rows == [state : Open \cup Ended \cup {"CREATED"}, loop : 0..Loops, waypoint : Waypoints,
         command : Commands \cup {NoCommand}]
Phases == {"waypoint", "translation", "orientation"}

\* The pose a goal asks for.  The turn is asked for where the robot stands and
\* the approach faces the way, so that neither is the waypoint's own pose.
Target(w, phase) == <<Places[w], phase>>

\* A patrol has waypoints, and poses to send for them.
ASSUME PlacesAssumption ==
  /\ Len(Places) \in Nat \ {0}
  /\ \A w \in Waypoints, phase \in Phases : Target(w, phase) \in Targets

Idle == [pc |-> "idle", patrol |-> NoPatrol, waypoint |-> 1, phase |-> "waypoint",
         status |-> NoStatus, command |-> NoCommand]
NotCanceling == [pc |-> "idle", patrol |-> NoPatrol, command |-> NoCommand]

PatrolInit ==
  /\ patrols = [p \in Patrols |-> [state |-> "CREATED", loop |-> 0, waypoint |-> 1,
                                   command |-> NoCommand]]
  /\ goalPhase = [p \in Patrols |-> "none"]
  /\ expected = [p \in Patrols |-> NoTarget]
  /\ updates = <<>>
  /\ drivers = [d \in Drivers |-> Idle]
  /\ canceler = NotCanceling

\* update_patrol with clear_command
Close(p, state) == [patrols EXCEPT ![p].state = state, ![p].command = NoCommand]

ForgetGoal(p) ==
  /\ goalPhase' = [goalPhase EXCEPT ![p] = "none"]
  /\ expected' = [expected EXCEPT ![p] = NoTarget]

At(d, pc) == drivers[d].pc = pc
Goes(d, pc) == drivers' = [drivers EXCEPT ![d].pc = pc]
Rests(d) == drivers' = [drivers EXCEPT ![d] = Idle]

-----------------------------------------------------------------------------
(* run                                                                       *)

\* The HTTP API asks for a robot that shows no goal, run for no open patrol.
RunChecks(p) ==
  /\ At("run", "idle")
  /\ patrols[p].state = "CREATED"
  /\ \A q \in Patrols \ {p} : patrols[q].state \notin Open
  /\ observed = NoCommand
  /\ drivers' = [drivers EXCEPT !["run"].pc = "accepted", !["run"].patrol = p]
  /\ UNCHANGED <<robotVars, gatewayVars, patrols, goalPhase, expected, updates, canceler>>

RunStarts ==
  /\ At("run", "accepted")
  /\ patrols' = [Close(drivers["run"].patrol, "STARTING")
                   EXCEPT ![drivers["run"].patrol].loop = 0,
                          ![drivers["run"].patrol].waypoint = 1]
  /\ Goes("run", "begin")
  /\ UNCHANGED <<robotVars, gatewayVars, goalPhase, expected, updates, canceler>>

-----------------------------------------------------------------------------
(* Starting a goal, for either driver.                                       *)

\* _start_current_waypoint, or the rest of _start_orientation, and _start_goal
\* up to the call: the phase depends on where the robot stands.
BeginGoal(d) ==
  /\ At(d, "begin")
  /\ LET p == drivers[d].patrol
         w == patrols[p].waypoint IN
     \E phase \in IF drivers[d].phase = "orientation" THEN {"orientation"}
                 ELSE {"waypoint", "translation"} :
       /\ goalPhase' = [goalPhase EXCEPT ![p] = phase]
       /\ expected' = [expected EXCEPT ![p] = Target(w, phase)]
       /\ drivers' = [drivers EXCEPT ![d].pc = "call", ![d].waypoint = w, ![d].phase = phase]
  /\ UNCHANGED <<robotVars, gatewayVars, patrols, updates, canceler>>

CallStart(d, c) ==
  /\ At(d, "call")
  /\ StartNavigation(c, Target(drivers[d].waypoint, drivers[d].phase))
  /\ drivers' = [drivers EXCEPT ![d].pc = "wait", ![d].command = c]
  /\ UNCHANGED <<patrols, goalPhase, expected, updates, canceler>>

\* The row is written whatever became of it meanwhile.
GoalStarted(d) ==
  LET p == drivers[d].patrol
      c == drivers[d].command IN
  /\ At(d, "wait")
  /\ \/ /\ startPc[c] = "ok"
        /\ patrols' = [patrols EXCEPT ![p].state = "ACTIVE", ![p].command = c]
        /\ UNCHANGED <<goalPhase, expected>>
     \/ /\ startPc[c] = "failed"
        /\ patrols' = Close(p, "FAILED")
        /\ ForgetGoal(p)
  /\ Rests(d)
  /\ UNCHANGED <<robotVars, gatewayVars, updates, canceler>>

-----------------------------------------------------------------------------
(* observe and the worker.                                                   *)

\* Mutant of PatrolObserves: only a success is of interest.
ObservesSuccess(status) ==
  updates' = IF status.state = "SUCCEEDED" THEN Append(updates, status) ELSE updates

PatrolObserves(status) ==
  updates' = IF status.state \in Agent!Endings THEN Append(updates, status) ELSE updates

PatrolHearsStatus(i) ==
  /\ Len(updates) < MaxUpdates
  /\ StatusHeard(i)
  /\ PatrolObserves(heard[i].status)
  /\ UNCHANGED <<patrols, goalPhase, expected, drivers, canceler>>

\* Mutant of TargetMatches: any terminal status is taken for the patrol's.
AnyTargetMatches(status, p) == patrols[p].state = "ACTIVE"

\* Every status of the node has a target (ros_node.py:204); the branch of the
\* code for one without is dead and left out.
TargetMatches(status, p) ==
  status.target = IF expected[p] = NoTarget THEN Target(patrols[p].waypoint, "waypoint")
                  ELSE expected[p]

\* _handle_terminal up to its first write: the patrol is read once.
WorkerTakes ==
  /\ At("worker", "idle")
  /\ updates # <<>>
  /\ updates' = Tail(updates)
  /\ \/ \E p \in Patrols :
          /\ patrols[p].state = "ACTIVE"
          /\ TargetMatches(Head(updates), p)
          /\ drivers' = [drivers EXCEPT !["worker"].pc = "verdict", !["worker"].patrol = p,
                                        !["worker"].status = Head(updates)]
     \/ /\ \A p \in Patrols : patrols[p].state = "ACTIVE" => ~TargetMatches(Head(updates), p)
        /\ UNCHANGED drivers
  /\ UNCHANGED <<robotVars, gatewayVars, patrols, goalPhase, expected, canceler>>

Verdict(states) == At("worker", "verdict") /\ drivers["worker"].status.state \in states

WorkerFails ==
  /\ Verdict(Agent!Endings \ {"SUCCEEDED"})
  /\ patrols' = Close(drivers["worker"].patrol, "FAILED")
  /\ ForgetGoal(drivers["worker"].patrol)
  /\ Rests("worker")
  /\ UNCHANGED <<robotVars, gatewayVars, updates, canceler>>

WorkerReadsPhase ==
  /\ Verdict({"SUCCEEDED"})
  /\ Goes("worker", IF goalPhase[drivers["worker"].patrol] = "translation"
                    THEN "turn" ELSE "advance")
  /\ UNCHANGED <<robotVars, gatewayVars, patrols, goalPhase, expected, updates, canceler>>

\* _start_orientation, whose goal keeps the place and asks for the final yaw.
WorkerTurns ==
  /\ At("worker", "turn")
  /\ patrols' = Close(drivers["worker"].patrol, "STARTING")
  /\ drivers' = [drivers EXCEPT !["worker"].pc = "begin", !["worker"].phase = "orientation"]
  /\ UNCHANGED <<robotVars, gatewayVars, goalPhase, expected, updates, canceler>>

\* Mutant of Advanced: a loop goes one waypoint too far.
AdvancedTooFar(p) ==
  IF patrols[p].waypoint =< Len(Places)
  THEN [loop |-> patrols[p].loop, waypoint |-> patrols[p].waypoint + 1]
  ELSE [loop |-> patrols[p].loop + 1, waypoint |-> 1]

\* Where the patrol goes next; after the last loop it is complete.
Advanced(p) ==
  IF patrols[p].waypoint < Len(Places)
  THEN [loop |-> patrols[p].loop, waypoint |-> patrols[p].waypoint + 1]
  ELSE [loop |-> patrols[p].loop + 1, waypoint |-> 1]

WorkerAdvances ==
  LET p == drivers["worker"].patrol IN
  /\ At("worker", "advance")
  /\ ForgetGoal(p)
  /\ IF Advanced(p).loop = Loops
     THEN patrols' = Close(p, "COMPLETED") /\ Rests("worker")
     ELSE /\ patrols' = [Close(p, "STARTING") EXCEPT ![p].loop = Advanced(p).loop,
                                                     ![p].waypoint = Advanced(p).waypoint]
          /\ Goes("worker", "dwell")
  /\ UNCHANGED <<robotVars, gatewayVars, updates, canceler>>

\* The state is read again every 0.1 s of the dwell and after it.
WorkerDwells ==
  /\ At("worker", "dwell")
  /\ IF patrols[drivers["worker"].patrol].state = "STARTING"
     THEN Goes("worker", "begin") ELSE Rests("worker")
  /\ UNCHANGED <<robotVars, gatewayVars, patrols, goalPhase, expected, updates, canceler>>

-----------------------------------------------------------------------------
(* cancel and the emergency stop.                                            *)

CancelReads(p) ==
  /\ canceler.pc = "idle"
  /\ \/ /\ patrols[p].state = "CREATED"
        /\ canceler' = [pc |-> "close", patrol |-> p, command |-> NoCommand]
     \/ /\ patrols[p].state \in Open
        /\ canceler' = [pc |-> IF patrols[p].command = NoCommand THEN "close" ELSE "cancel",
                        patrol |-> p, command |-> patrols[p].command]
  /\ UNCHANGED <<robotVars, gatewayVars, patrols, goalPhase, expected, updates, drivers>>

\* cancel_navigation succeeds only for the active command.
CancelCalls ==
  /\ canceler.pc = "cancel"
  /\ IF active = canceler.command
     THEN CancelPops(active) /\ canceler' = [canceler EXCEPT !.pc = "close"]
     ELSE canceler' = [canceler EXCEPT !.pc = "fail"] /\ UNCHANGED <<robotVars, gatewayVars>>
  /\ UNCHANGED <<patrols, goalPhase, expected, updates, drivers>>

CancelCloses ==
  /\ canceler.pc \in {"close", "fail"} /\ canceler.command \notin popped
  /\ patrols' = Close(canceler.patrol, IF canceler.pc = "close" THEN "CANCELED" ELSE "FAILED")
  /\ ForgetGoal(canceler.patrol)
  /\ canceler' = NotCanceling
  /\ UNCHANGED <<robotVars, gatewayVars, updates, drivers>>

\* The emergency stop's call returns and the HTTP API goes on to
\* stop_for_safety.
StopForSafety(o) ==
  /\ EstopEnds(o)
  /\ patrols' = [p \in Patrols |-> IF patrols[p].state \in Open
                                   THEN [patrols[p] EXCEPT !.state = "CANCELED",
                                                           !.command = NoCommand]
                                   ELSE patrols[p]]
  /\ goalPhase' = [p \in Patrols |-> IF patrols[p].state \in Open THEN "none" ELSE goalPhase[p]]
  /\ expected' = [p \in Patrols |-> IF patrols[p].state \in Open THEN NoTarget ELSE expected[p]]
  /\ UNCHANGED <<updates, drivers, canceler>>

\* Mutant of Unowned: a patrol between two goals is forgotten.
ActiveIsUnowned(p) == patrols[p].state = "ACTIVE"

\* What reconcile_patrol_restart looks for.
Unowned(p) == patrols[p].state \in Open

\* The gateway is restarted: threads and queue are gone, and
\* reconcile_patrol_restart fails what was open.
PatrolsRestart ==
  /\ GatewayRestarts
  /\ patrols' = [p \in Patrols |-> IF Unowned(p)
                                   THEN [patrols[p] EXCEPT !.state = "FAILED",
                                                           !.command = NoCommand]
                                   ELSE patrols[p]]
  /\ goalPhase' = [p \in Patrols |-> "none"]
  /\ expected' = [p \in Patrols |-> NoTarget]
  /\ updates' = <<>>
  /\ drivers' = [d \in Drivers |-> Idle]
  /\ canceler' = NotCanceling

PatrolTypeOK ==
  /\ patrols \in [Patrols -> Rows]
  /\ goalPhase \in [Patrols -> Phases \cup {"none"}]
  /\ expected \in [Patrols -> Targets \cup {NoTarget}]
  /\ updates \in Seq(Statuses) /\ Len(updates) =< MaxUpdates
  /\ \A d \in Drivers : drivers[d].patrol \in Patrols <=> drivers[d].pc # "idle"
  /\ canceler.patrol \in Patrols <=> canceler.pc # "idle"
=============================================================================
