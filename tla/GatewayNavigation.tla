-------------------------- MODULE GatewayNavigation --------------------------
(***************************************************************************)
(* The fleet gateway's ROS node, control/fleet_gateway/.../ros_node.py,    *)
(* for one robot: who owns the robot (a navigation goal, a manual session  *)
(* or the emergency stop) and which goal is leased.  HTTP requests run in  *)
(* a thread pool, the lease timer and the status and result callbacks on   *)
(* two executor threads; each takes _navigation_lock or _manual_lock for   *)
(* what it reads and writes and lets go of it before it calls the robot.   *)
(*                                                                         *)
(* A call of start_navigation is named after the command id it draws, one  *)
(* of start_manual after its session, one of set_estop after its operator. *)
(***************************************************************************)
EXTENDS RobotLink

CONSTANTS Sessions, NoSession,  \* manual session ids
          Operators,            \* those who press and release the emergency stop
          ExecutorThreads       \* how many status callbacks run at once

ASSUME SessionAssumption == NoSession \notin Sessions /\ ExecutorThreads \in Nat

VARIABLES estopEngaged,  \* _estop_engaged
          active,        \* _active_navigation
          confirmed,     \* _confirmed_navigation names the active command
          unconfirmed,   \* _navigation_accepted_at is set
          pending,       \* _pending_navigation
          startPc,       \* per command, where its start_navigation stands
          popped,        \* commands taken from active whose cancel is still to be sent
          leaseDraft,    \* commands the lease timer copied and is still to publish
          heard,         \* the status callbacks that run, oldest first, see Callbacks
          observed,      \* the active_command_id of the last status in the registry
          estopPc,       \* per operator, where its set_estop stands
          manual,        \* _manual_sessions, _pending_manual and the age of the session
          manualPc       \* per session, where its start_manual stands

ownerVars == <<estopEngaged, active, confirmed, unconfirmed, pending>>
callVars == <<startPc, popped, leaseDraft, estopPc>>
statusVars == <<heard, observed>>
manualVars == <<manual, manualPc>>
gatewayVars == <<ownerVars, callVars, statusVars, manualVars>>

NoStatus == [command |-> NoCommand, state |-> "none", target |-> NoTarget]
Callbacks == [status : Statuses, noted : BOOLEAN]
StartPcs == {"unused", "sending", "answered", "stopped", "leasing", "ok", "failed"}
EstopPcs == {"idle", "manual", "pop", "popOnly", "patrols"}
ManualPcs == {"unused", "calling", "ending", "ok", "failed"}

GatewayInit ==
  /\ estopEngaged = FALSE
  /\ active = NoCommand /\ confirmed = FALSE /\ unconfirmed = FALSE
  /\ pending = FALSE
  /\ startPc = [c \in Commands |-> "unused"]
  /\ popped = {}
  /\ leaseDraft = {}
  /\ heard = <<>>
  /\ observed = NoCommand
  /\ estopPc = [o \in Operators |-> "idle"]
  /\ manual = [session |-> NoSession, pending |-> NoSession, fresh |-> FALSE]
  /\ manualPc = [s \in Sessions |-> "unused"]

ManualActive == manual.pending # NoSession \/ (manual.session # NoSession /\ manual.fresh)

-----------------------------------------------------------------------------
(* start_navigation.                                                         *)

NextCommand(c) == \A d \in Commands : d < c <=> startPc[d] # "unused"

Admissible == ~estopEngaged /\ active = NoCommand /\ ~pending /\ ~ManualActive

\* Up to the goal request; manual_active forgets a stale session.  The clock
\* check and the wait for the action server may fail whatever the state.
StartNavigation(c, target) ==
  /\ NextCommand(c)
  /\ \/ /\ Admissible
        /\ pending' = TRUE
        /\ SendGoalRequest(c, target)
        /\ startPc' = [startPc EXCEPT ![c] = "sending"]
        /\ manual' = [manual EXCEPT !.session = NoSession]
     \/ /\ startPc' = [startPc EXCEPT ![c] = "failed"]
        /\ UNCHANGED <<pending, goalRequest, goalTarget, manual>>
  /\ UNCHANGED <<agentVars, cancelRequests, leases, statuses, restarts, estopEngaged, active,
                 confirmed, unconfirmed, popped, leaseDraft, estopPc, statusVars, manualPc>>

\* The answer, or three seconds without one: the robot may still accept a goal
\* this call has given up.
StartAnswered(c) ==
  /\ startPc[c] = "sending"
  /\ pending' = FALSE
  /\ \/ /\ goalRequest[c] = "accepted"
        /\ startPc' = [startPc EXCEPT ![c] = "answered"]
     \/ startPc' = [startPc EXCEPT ![c] = "failed"]
  /\ UNCHANGED <<robotVars, estopEngaged, active, confirmed, unconfirmed, popped, leaseDraft,
                 estopPc, statusVars, manualVars>>

\* Mutant of StartActivates: the emergency stop is not looked at again.
ActivatesUnchecked(c) ==
  /\ startPc[c] = "answered"
  /\ active' = c /\ confirmed' = FALSE /\ unconfirmed' = TRUE
  /\ startPc' = [startPc EXCEPT ![c] = "leasing"]
  /\ UNCHANGED <<robotVars, estopEngaged, pending, popped, leaseDraft, estopPc, statusVars,
                 manualVars>>

StartActivates(c) ==
  /\ startPc[c] = "answered"
  /\ IF estopEngaged
     THEN /\ startPc' = [startPc EXCEPT ![c] = "stopped"]
          /\ UNCHANGED <<active, confirmed, unconfirmed>>
     ELSE /\ active' = c /\ confirmed' = FALSE /\ unconfirmed' = TRUE
          /\ startPc' = [startPc EXCEPT ![c] = "leasing"]
  /\ UNCHANGED <<robotVars, estopEngaged, pending, popped, leaseDraft, estopPc, statusVars,
                 manualVars>>

StartGivesUp(c) ==
  /\ startPc[c] = "stopped"
  /\ SendCancel(c)
  /\ startPc' = [startPc EXCEPT ![c] = "failed"]
  /\ UNCHANGED <<agentVars, goalRequest, goalTarget, leases, statuses, restarts, ownerVars,
                 popped, leaseDraft, estopPc, statusVars, manualVars>>

StartLeases(c) ==
  /\ startPc[c] = "leasing"
  /\ PublishLease(c)
  /\ startPc' = [startPc EXCEPT ![c] = "ok"]
  /\ UNCHANGED <<agentVars, goalRequest, goalTarget, cancelRequests, statuses, restarts,
                 ownerVars, popped, leaseDraft, estopPc, statusVars, manualVars>>

-----------------------------------------------------------------------------
(* What takes a goal from its owner.                                         *)

\* What leaves _active_navigation takes its confirmation along.
Drop == active' = NoCommand /\ confirmed' = FALSE /\ unconfirmed' = FALSE

\* cancel_navigation for the active command; for another one it fails and
\* changes nothing.  The cancel is sent after the lock.
CancelPops(c) ==
  /\ active = c
  /\ Drop
  /\ popped' = popped \cup {c}
  /\ UNCHANGED <<robotVars, estopEngaged, pending, startPc, leaseDraft, estopPc, statusVars,
                 manualVars>>

PoppedIsCanceled(c) ==
  /\ c \in popped
  /\ SendCancel(c)
  /\ popped' = popped \ {c}
  /\ UNCHANGED <<agentVars, goalRequest, goalTarget, leases, statuses, restarts, ownerVars,
                 startPc, leaseDraft, estopPc, statusVars, manualVars>>

\* _on_navigation_result, once per goal that ends.
ResultArrives(c) ==
  /\ outcome[c] \notin {"none", "gone"}
  /\ startPc[c] \in {"leasing", "ok"}
  /\ active = c
  /\ Drop
  /\ UNCHANGED <<robotVars, estopEngaged, pending, callVars, statusVars, manualVars>>

\* _publish_navigation_leases under the lock: an acceptance that stayed
\* unconfirmed for navigation_confirmation_timeout_sec is given up, what is
\* active otherwise is copied to be leased.
LeaseTimerGivesUp ==
  /\ unconfirmed
  /\ Drop
  /\ popped' = popped \cup {active}
  /\ UNCHANGED <<robotVars, estopEngaged, pending, startPc, leaseDraft, estopPc, statusVars,
                 manualVars>>

LeaseTimerCopies ==
  /\ leaseDraft = {}
  /\ active # NoCommand
  /\ leaseDraft' = {active}
  /\ UNCHANGED <<robotVars, ownerVars, startPc, popped, estopPc, statusVars, manualVars>>

LeaseTimerPublishes(c) ==
  /\ c \in leaseDraft
  /\ PublishLease(c)
  /\ leaseDraft' = leaseDraft \ {c}
  /\ UNCHANGED <<agentVars, goalRequest, goalTarget, cancelRequests, statuses, restarts,
                 ownerVars, startPc, popped, estopPc, statusVars, manualVars>>

-----------------------------------------------------------------------------
(* _navigation_status_callback.  Its callback group is reentrant, so that two *)
(* samples are handled at once and the older one may come second.            *)

StatusTaken ==
  /\ statuses # <<>>
  /\ Len(heard) < ExecutorThreads
  /\ heard' = Append(heard, [status |-> Head(statuses), noted |-> FALSE])
  /\ statuses' = Tail(statuses)
  /\ UNCHANGED <<agentVars, goalRequest, goalTarget, cancelRequests, leases, restarts>>
  /\ UNCHANGED <<ownerVars, callVars, observed, manualVars>>

\* The registry's part; a manager that listens conjoins what it does.
StatusHeard(i) ==
  /\ i \in DOMAIN heard /\ ~heard[i].noted
  /\ heard' = [heard EXCEPT ![i].noted = TRUE]
  /\ observed' = heard[i].status.command
  /\ UNCHANGED <<robotVars, ownerVars, callVars, manualVars>>

CallbackReturns(i) ==
  /\ i \in DOMAIN heard /\ heard[i].noted
  /\ heard' = SubSeq(heard, 1, i - 1) \o SubSeq(heard, i + 1, Len(heard))

\* Mutant of StatusApplied: only a terminal status frees the gateway.
AppliedIfTerminal(i) ==
  /\ CallbackReturns(i)
  /\ IF active # NoCommand /\ heard[i].status.command = active
     THEN confirmed' = TRUE /\ unconfirmed' = FALSE /\ UNCHANGED active
     ELSE IF confirmed /\ heard[i].status.state \in Agent!Endings THEN Drop
     ELSE UNCHANGED <<active, confirmed, unconfirmed>>
  /\ UNCHANGED <<robotVars, estopEngaged, pending, callVars, observed, manualVars>>

\* The part under the lock.
StatusApplied(i) ==
  /\ CallbackReturns(i)
  /\ IF active # NoCommand /\ heard[i].status.command = active
     THEN confirmed' = TRUE /\ unconfirmed' = FALSE /\ UNCHANGED active
     ELSE IF confirmed THEN Drop
     ELSE UNCHANGED <<active, confirmed, unconfirmed>>
  /\ UNCHANGED <<robotVars, estopEngaged, pending, callVars, observed, manualVars>>

-----------------------------------------------------------------------------
(* set_estop of operator o.                                                  *)

\* The watchdog's answer and the flag.  With no answer the gateway still stops
\* what it owns of navigation.
EstopAnswered(o) ==
  /\ estopPc[o] = "idle"
  /\ estopEngaged' = TRUE
  /\ \E pc \in {"manual", "popOnly"} : estopPc' = [estopPc EXCEPT ![o] = pc]
  /\ UNCHANGED <<robotVars, active, confirmed, unconfirmed, pending, startPc, popped,
                 leaseDraft, statusVars, manualVars>>

\* The HTTP API releases only while the robot shows no goal.
EstopReleased(o) ==
  /\ estopPc[o] = "idle"
  /\ estopEngaged
  /\ observed = NoCommand
  /\ estopEngaged' = FALSE
  /\ UNCHANGED <<robotVars, active, confirmed, unconfirmed, pending, callVars, statusVars,
                 manualVars>>

EstopStopsManual(o) ==
  /\ estopPc[o] = "manual"
  /\ estopPc' = [estopPc EXCEPT ![o] = "pop"]
  /\ manual' = [manual EXCEPT !.session = NoSession, !.pending = NoSession, !.fresh = FALSE]
  /\ UNCHANGED <<robotVars, ownerVars, startPc, popped, leaseDraft, statusVars, manualPc>>

\* Mutant of EstopPops: a cancel although no goal is active.
EstopPopsAnything(o) ==
  /\ estopPc[o] \in {"pop", "popOnly"}
  /\ estopPc' = [estopPc EXCEPT ![o] = IF @ = "pop" THEN "patrols" ELSE "idle"]
  /\ Drop
  /\ popped' = popped \cup {active}
  /\ UNCHANGED <<robotVars, estopEngaged, pending, startPc, leaseDraft, statusVars, manualVars>>

\* _cancel_active_for_estop
EstopPops(o) ==
  /\ estopPc[o] \in {"pop", "popOnly"}
  /\ estopPc' = [estopPc EXCEPT ![o] = IF @ = "pop" THEN "patrols" ELSE "idle"]
  /\ Drop
  /\ popped' = popped \cup ({active} \ {NoCommand})
  /\ UNCHANGED <<robotVars, estopEngaged, pending, startPc, leaseDraft, statusVars, manualVars>>

\* With its cancel sent the call ends, and the HTTP API goes on to close the
\* patrols of the robot.
EstopEnds(o) ==
  /\ estopPc[o] = "patrols" /\ popped = {}
  /\ estopPc' = [estopPc EXCEPT ![o] = "idle"]
  /\ UNCHANGED <<robotVars, ownerVars, startPc, popped, leaseDraft, statusVars, manualVars>>

-----------------------------------------------------------------------------
(* Manual sessions.                                                          *)

\* start_manual up to the call of the robot.
StartManual(s) ==
  /\ manualPc[s] = "unused"
  /\ ~estopEngaged
  /\ active = NoCommand /\ ~pending
  /\ ~ManualActive
  /\ manual' = [session |-> NoSession, pending |-> s, fresh |-> FALSE]
  /\ manualPc' = [manualPc EXCEPT ![s] = "calling"]
  /\ UNCHANGED <<robotVars, ownerVars, callVars, statusVars>>

\* Mutant of ManualAnswered: the emergency stop is not looked at again.
AnsweredUnchecked(s) ==
  /\ manualPc[s] = "calling"
  /\ \/ /\ manual' = [session |-> s, pending |-> NoSession, fresh |-> TRUE]
        /\ manualPc' = [manualPc EXCEPT ![s] = "ok"]
     \/ /\ manual' = [manual EXCEPT !.pending = NoSession]
        /\ manualPc' = [manualPc EXCEPT ![s] = "failed"]
  /\ UNCHANGED <<robotVars, ownerVars, callVars, statusVars>>

ManualAnswered(s) ==
  /\ manualPc[s] = "calling"
  /\ \/ /\ ~estopEngaged
        /\ manual' = [session |-> s, pending |-> NoSession, fresh |-> TRUE]
        /\ manualPc' = [manualPc EXCEPT ![s] = "ok"]
     \/ /\ manual' = [manual EXCEPT !.pending = NoSession]
        /\ \E pc \in IF estopEngaged THEN {"ending", "failed"} ELSE {"failed"} :
             manualPc' = [manualPc EXCEPT ![s] = pc]
  /\ UNCHANGED <<robotVars, ownerVars, callVars, statusVars>>

\* The robot is told to stop a session the emergency stop interrupted.
ManualEnds(s) ==
  /\ manualPc[s] = "ending"
  /\ manualPc' = [manualPc EXCEPT ![s] = "failed"]
  /\ UNCHANGED <<robotVars, ownerVars, callVars, statusVars, manual>>

\* send_manual: the refresh after the robot took the command.
SendManual(s) ==
  /\ manual.session = s
  /\ manual' = [manual EXCEPT !.fresh = TRUE]
  /\ UNCHANGED <<robotVars, ownerVars, callVars, statusVars, manualPc>>

ManualLapses(s) ==
  /\ manual.session = s /\ manual.fresh
  /\ manual' = [manual EXCEPT !.fresh = FALSE]
  /\ UNCHANGED <<robotVars, ownerVars, callVars, statusVars, manualPc>>

\* stop_manual, and manual_active that finds a stale session.
StopManual(s) ==
  /\ manual.session = s
  /\ manual' = [manual EXCEPT !.session = NoSession, !.fresh = FALSE]
  /\ UNCHANGED <<robotVars, ownerVars, callVars, statusVars, manualPc>>

-----------------------------------------------------------------------------
(* The process is restarted: what it kept in memory is gone.                 *)

Unfinished == {"sending", "answered", "stopped", "leasing"}

GatewayRestarts ==
  /\ restarts < MaxRestarts
  /\ restarts' = restarts + 1
  /\ estopEngaged' = FALSE
  /\ Drop
  /\ pending' = FALSE
  /\ startPc' = [c \in Commands |-> IF startPc[c] \in Unfinished THEN "failed" ELSE startPc[c]]
  /\ popped' = {}
  /\ leaseDraft' = {}
  /\ heard' = <<>>
  /\ observed' = NoCommand
  /\ estopPc' = [o \in Operators |-> "idle"]
  /\ manual' = [session |-> NoSession, pending |-> NoSession, fresh |-> FALSE]
  /\ manualPc' = [s \in Sessions |-> IF manualPc[s] \in {"calling", "ending"} THEN "failed"
                                      ELSE manualPc[s]]
  /\ statuses' = <<>>
  /\ UNCHANGED <<agentVars, goalRequest, goalTarget, cancelRequests, leases>>

GatewayTypeOK ==
  /\ LinkTypeOK
  /\ {estopEngaged, confirmed, unconfirmed, pending} \subseteq BOOLEAN
  /\ {active, observed} \subseteq Commands \cup {NoCommand}
  /\ startPc \in [Commands -> StartPcs]
  /\ popped \cup leaseDraft \subseteq Commands
  /\ heard \in Seq(Callbacks) /\ Len(heard) =< ExecutorThreads
  /\ estopPc \in [Operators -> EstopPcs]
  /\ manual \in [session : Sessions \cup {NoSession}, pending : Sessions \cup {NoSession},
                 fresh : BOOLEAN]
  /\ manualPc \in [Sessions -> ManualPcs]

-----------------------------------------------------------------------------
\* INVARIANT: an engaged emergency stop, once its call has run to the end,
\* leaves no goal to lease, although a goal request may have been in flight
\* while it was pressed.
EstopLeavesNoGoal ==
  (estopEngaged /\ \A o \in Operators : estopPc[o] \in {"idle", "patrols"})
     => active = NoCommand

\* INVARIANT: an emergency stop that the watchdog acknowledged leaves no manual
\* session, although one may have been starting while it was pressed.
EstopEndsManual ==
  \A o \in Operators :
    estopEngaged /\ estopPc[o] \in {"pop", "patrols"} => manual.session = NoSession
=============================================================================
