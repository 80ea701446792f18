--------------------------- MODULE NavigationAgent ---------------------------
(***************************************************************************)
(* The robot's navigation agent, robot/navigation_agent/.../agent_node.py: *)
(* it owns one fleet goal at a time, turns it into a Nav2 goal, and stops  *)
(* it when the operator, local safety, Nav2 or the fleet lease says so.    *)
(*                                                                         *)
(* The node runs on four threads with one reentrant callback group, so     *)
(* callbacks interleave wherever they do not hold _lock.  goalPc[g] is     *)
(* where the coroutine _execute_navigation of goal g stands; stopping,     *)
(* expiring and draft say what the threads inside _request_stop (which     *)
(* holds the lock), _check_lease and _publish_authorization still have to  *)
(* do.  Ages are abstracted: what a timeout measures may lapse at any time.*)
(***************************************************************************)
EXTENDS MotionArbiter, Nav2, Topic

CONSTANTS NoGoal,       \* the empty command id
          Monitors      \* the status streams a goal depends on

ASSUME AgentAssumption == NoGoal \notin Goals

VARIABLES agentUp,      \* the process exists
          agent,        \* its fields, see Agents
          goalPc,       \* per goal, see GoalPcs
          stopping,     \* "no", or what _request_stop does next
          expiring,     \* "no", or what the lease expiry does next
          draft,        \* an authorization computed and not yet published, or "none"
          authSamples,  \* samples of /navigation/motion_authorized
          modeRequests, \* SetMotionMode requests, in arrival order
          modeReplies,  \* who has a reply on its way
          arbiterSeen   \* the ROS graph still shows the arbiter's service

threadVars == <<agentUp, agent, goalPc, stopping, expiring, draft>>
modeVars == <<modeRequests, modeReplies, arbiterSeen>>

Verdicts == {"SUCCEEDED", "CANCELED", "FAILED", "LEASE_EXPIRED"}  \* TERMINAL_STATES
Steps == {"no", "authorization", "mode"}
GoalPcs == {"new", "reserved", "canceled", "mode", "modeWait", "sending", "watching",
            "waiting", "deciding", "abort", "closing", "idling", "done"}

\* "PENDING" stands for the states _publish_status chooses among while no goal
\* is active: UNAVAILABLE, IDLE, LOCALIZING, READY.
Agents == [
  reserved : Goals \cup {NoGoal},     \* _reserved_command_id
  active : Goals \cup {NoGoal},       \* _active_command_id
  handle : Goals \cup {NoGoal},       \* _nav_goal_handle
  waiter : Goals \cup {NoGoal},       \* _nav_result_waiter
  result : Nav2Results \cup {"none", "gone"},  \* what the waiter was given
  lease : BOOLEAN,                    \* _last_lease_received_at is fresh
  health : [Monitors -> BOOLEAN],     \* the status is fresh and allows motion
  posed : BOOLEAN,                    \* _initial_pose_sent_at is set
  localized : BOOLEAN,                \* _localization_ready
  missing : BOOLEAN,                  \* _nav2_unavailable_since is set
  lifecycleActive : BOOLEAN,          \* _nav2_lifecycle_active
  querying : BOOLEAN,                 \* _nav2_lifecycle_query_in_flight
  leaseExpired : BOOLEAN,
  cancelRequested : BOOLEAN,
  supervisionFailed : BOOLEAN,        \* _goal_supervision_failure is set
  ending : Verdicts \cup {"none"},     \* final_state of the coroutine
  state : Verdicts \cup {"PENDING", "ACTIVE"},
  startupIdle : {"unsent", "inFlight", "sent"},
  startupCancel : {"unsent", "inFlight", "sent"}]

FreshAgent == [
  reserved |-> NoGoal, active |-> NoGoal, handle |-> NoGoal, waiter |-> NoGoal,
  result |-> "none", lease |-> FALSE, health |-> [m \in Monitors |-> FALSE],
  posed |-> FALSE, localized |-> FALSE, missing |-> FALSE, lifecycleActive |-> FALSE,
  querying |-> FALSE, leaseExpired |-> FALSE, cancelRequested |-> FALSE,
  supervisionFailed |-> FALSE, ending |-> "none", state |-> "PENDING",
  startupIdle |-> "unsent", startupCancel |-> "unsent"]

AgentInit ==
  /\ agentUp = TRUE
  /\ agent = FreshAgent
  /\ goalPc = [g \in Goals |-> "new"]
  /\ stopping = "no"
  /\ expiring = "no"
  /\ draft = "none"
  /\ authSamples = <<>>
  /\ modeRequests = <<>>
  /\ modeReplies = {}
  /\ arbiterSeen = TRUE

\* A callback that needs _lock waits for a _request_stop to end.
Unlocked == agentUp /\ stopping = "no"

Healthy == \A m \in Monitors : agent.health[m]
Nav2IsReady == agent.lifecycleActive /\ nav2Seen

\* Mutant of StartupSafe: the goals a prior agent left in Nav2 are not waited for.
IdleSuffices == agent.startupIdle = "sent"

StartupSafe == agent.startupIdle = "sent" /\ agent.startupCancel = "sent"

ReadyForGoal == StartupSafe /\ Nav2IsReady /\ agent.localized /\ Healthy

\* Mutant of PublishAuthorization: a publisher that keeps every sample.
KeepAuthorizations(data) ==
  authSamples' = IF arbiterUp THEN Append(authSamples, data) ELSE <<>>

PublishAuthorization(data) ==
  authSamples' = IF arbiterUp THEN Publish(authSamples, data) ELSE <<>>

\* call_async on the mode service.  An arbiter that is gone but still seen
\* takes the request and never answers.
AskMode(from, m) ==
  modeRequests' = IF arbiterUp THEN Append(modeRequests, [from |-> from, mode |-> m])
                  ELSE modeRequests

\* _set_motion_mode_nowait(IDLE)
AskIdle == IF arbiterSeen THEN AskMode("nobody", "IDLE") ELSE UNCHANGED modeRequests

\* _request_downstream_cancel
DownstreamCancel == cancels' = cancels \cup ({agent.handle} \cap Goals)

\* _request_stop up to the cancel, from the fields a; the rest follows while
\* the caller holds the lock.
RequestStop(a) ==
  \/ /\ a.cancelRequested
     /\ agent' = a
     /\ UNCHANGED <<cancels, stopping>>
  \/ /\ ~a.cancelRequested
     /\ agent' = [a EXCEPT !.cancelRequested = TRUE]
     /\ DownstreamCancel
     /\ stopping' = "authorization"

StopClosesAuthorization ==
  /\ agentUp /\ stopping = "authorization"
  /\ PublishAuthorization(FALSE)
  /\ stopping' = "mode"
  /\ UNCHANGED <<agentUp, agent, goalPc, expiring, draft, modeVars, nav2Vars, arbiterVars>>

StopAsksIdle ==
  /\ agentUp /\ stopping = "mode"
  /\ AskIdle
  /\ stopping' = "no"
  /\ UNCHANGED <<agentUp, agent, goalPc, expiring, draft, authSamples, modeReplies,
                 arbiterSeen, nav2Vars, arbiterVars>>

-----------------------------------------------------------------------------
(* Calls and messages from outside.                                          *)

notStop == <<agentUp, goalPc, expiring, draft, authSamples, modeVars, nav2, nav2Seen,
             nav2Goal, lifecycleQuery, cancelAll, arbiterVars>>
notAgent == <<agentUp, goalPc, stopping, expiring, draft, authSamples, modeVars,
              nav2Vars, arbiterVars>>

\* A goal on_goal rejects changes nothing.
OnGoal(g) ==
  /\ Unlocked
  /\ goalPc[g] = "new"
  /\ agent.active = NoGoal /\ agent.reserved = NoGoal
  /\ ReadyForGoal
  /\ agent' = [agent EXCEPT !.reserved = g, !.leaseExpired = FALSE,
                            !.cancelRequested = FALSE, !.supervisionFailed = FALSE]
  /\ goalPc' = [goalPc EXCEPT ![g] = "reserved"]
  /\ UNCHANGED <<agentUp, stopping, expiring, draft, authSamples, modeVars, nav2Vars,
                 arbiterVars>>

OnCancel(g) ==
  /\ Unlocked
  /\ g \in {agent.active, agent.reserved}
  /\ RequestStop(agent)
  /\ UNCHANGED notStop

\* _on_robot_status and _on_safety_status: one that forbids motion stops the
\* active goal at once.
OnStatus(m, ok) ==
  /\ Unlocked
  /\ LET a == [agent EXCEPT !.health[m] = ok] IN
     IF ok \/ agent.active = NoGoal
     THEN agent' = a /\ UNCHANGED <<cancels, stopping>>
     ELSE RequestStop(a)
  /\ UNCHANGED notStop

OnLease ==
  /\ Unlocked
  /\ agent.active # NoGoal
  /\ agent' = [agent EXCEPT !.lease = TRUE]
  /\ UNCHANGED notAgent

\* A status or the lease reaches its timeout, or the pose leaves the free map.
Lapses ==
  /\ Unlocked
  /\ \/ \E m \in Monitors : agent' = [agent EXCEPT !.health[m] = FALSE]
     \/ agent' = [agent EXCEPT !.lease = FALSE]
  /\ UNCHANGED notAgent

OnSetInitialPose ==
  /\ Unlocked
  /\ agent.active = NoGoal
  /\ agent' = [agent EXCEPT !.posed = TRUE, !.localized = FALSE, !.state = "PENDING"]
  /\ UNCHANGED notAgent

OnAmclPose ==
  /\ Unlocked
  /\ agent.posed
  /\ agent' = [agent EXCEPT !.localized = TRUE]
  /\ UNCHANGED notAgent

-----------------------------------------------------------------------------
(* _execute_navigation of goal g.                                            *)

To(g, pc) == goalPc' = [goalPc EXCEPT ![g] = pc]

ExecutionStarts(g) ==
  /\ Unlocked
  /\ goalPc[g] = "reserved"
  /\ agent' = [agent EXCEPT !.reserved = NoGoal, !.active = g, !.lease = TRUE,
                            !.state = "ACTIVE"]
  /\ To(g, IF agent.cancelRequested THEN "canceled" ELSE "mode")
  /\ UNCHANGED <<agentUp, stopping, expiring, draft, authSamples, modeVars, nav2Vars,
                 arbiterVars>>

AskNavigation(g) ==
  /\ agentUp
  /\ goalPc[g] = "mode"
  /\ IF arbiterSeen THEN AskMode(g, "NAVIGATION") /\ To(g, "modeWait")
     ELSE UNCHANGED modeRequests /\ To(g, "abort")
  /\ UNCHANGED <<agentUp, agent, stopping, expiring, draft, authSamples, modeReplies,
                 arbiterSeen, nav2Vars, arbiterVars>>

\* The arbiter's answer resumes the coroutine, which waits for the action
\* server and sends the goal; a server that is gone but still seen takes the
\* request and never answers.
SendGoal(g) ==
  /\ agentUp
  /\ goalPc[g] = "modeWait"
  /\ g \in modeReplies
  /\ modeReplies' = modeReplies \ {g}
  /\ IF nav2Seen
     THEN /\ nav2Goal' = [nav2Goal EXCEPT ![g] = IF nav2 = "down" THEN "lost" ELSE "requested"]
          /\ To(g, "sending")
     ELSE UNCHANGED nav2Goal /\ To(g, "abort")
  /\ UNCHANGED <<agentUp, agent, stopping, expiring, draft, authSamples, modeRequests,
                 arbiterSeen, nav2, nav2Seen, cancels, lifecycleQuery, cancelAll,
                 arbiterVars>>

\* Mutant of GoalRegistered: a stop that came while the goal was being sent,
\* when there was no handle to cancel, is forgotten.
RegisteredUnchecked(g) ==
  /\ Unlocked
  /\ goalPc[g] = "sending"
  /\ nav2Goal[g] \in {"executing", "rejected"} \cup Nav2Results
  /\ IF nav2Goal[g] = "rejected"
     THEN To(g, "abort") /\ UNCHANGED agent
     ELSE To(g, "watching") /\ agent' = [agent EXCEPT !.handle = g]
  /\ UNCHANGED <<agentUp, stopping, expiring, draft, authSamples, modeVars, nav2Vars,
                 arbiterVars>>

GoalRegistered(g) ==
  /\ Unlocked
  /\ goalPc[g] = "sending"
  /\ nav2Goal[g] \in {"executing", "rejected"} \cup Nav2Results
  /\ IF nav2Goal[g] = "rejected"
     THEN To(g, "abort") /\ UNCHANGED <<agent, cancels>>
     ELSE /\ To(g, "watching")
          /\ agent' = [agent EXCEPT !.handle = g]
          /\ cancels' = IF agent.cancelRequested \/ agent.leaseExpired
                        THEN cancels \cup {g} ELSE cancels
  /\ UNCHANGED <<agentUp, stopping, expiring, draft, authSamples, modeVars, nav2,
                 nav2Seen, nav2Goal, lifecycleQuery, cancelAll, arbiterVars>>

WatchResult(g) ==
  /\ Unlocked
  /\ goalPc[g] = "watching"
  /\ agent' = [agent EXCEPT !.waiter = g, !.missing = FALSE]
  /\ To(g, "waiting")
  /\ UNCHANGED <<agentUp, stopping, expiring, draft, authSamples, modeVars, nav2Vars,
                 arbiterVars>>

\* _forward_nav_result
ResultArrives(g) ==
  /\ Unlocked
  /\ agent.waiter = g /\ agent.result = "none"
  /\ nav2Goal[g] \in Nav2Results
  /\ agent' = [agent EXCEPT !.result = nav2Goal[g]]
  /\ UNCHANGED notAgent

\* _finish_goal up to the end of its lock.
Finished(state) ==
  [agent EXCEPT !.state = state, !.active = NoGoal, !.reserved = NoGoal, !.lease = FALSE,
                !.handle = NoGoal, !.waiter = NoGoal, !.result = "none",
                !.missing = FALSE, !.supervisionFailed = FALSE, !.ending = "none"]

\* Mutant of Outcome: what Nav2 reports comes first.
OutcomeOfNav2 ==
  CASE agent.result = "succeeded" -> "SUCCEEDED"
    [] agent.result # "succeeded" /\ agent.leaseExpired -> "LEASE_EXPIRED"
    [] agent.result = "canceled" /\ ~agent.leaseExpired -> "CANCELED"
    [] OTHER -> "FAILED"

Outcome ==
  IF agent.leaseExpired THEN "LEASE_EXPIRED"
  ELSE IF agent.supervisionFailed THEN "FAILED"
  ELSE IF agent.cancelRequested \/ agent.result = "canceled" THEN "CANCELED"
  ELSE IF agent.result = "succeeded" THEN "SUCCEEDED" ELSE "FAILED"

\* The waiter resumes the coroutine.  The flags that decide the outcome are
\* read under the lock and final_state is chosen after it.
Decides(g) ==
  /\ Unlocked
  /\ goalPc[g] = "waiting" /\ agent.waiter = g
  /\ agent.result # "none"
  /\ IF agent.result = "gone"
     THEN To(g, "abort") /\ UNCHANGED agent
     ELSE To(g, "deciding") /\ agent' = [agent EXCEPT !.ending = Outcome]
  /\ UNCHANGED <<agentUp, stopping, expiring, draft, authSamples, modeVars, nav2Vars,
                 arbiterVars>>

\* _finish_goal takes the lock again: the goal was active in between, so that a
\* stop, an expiry or a failure may have come and be shown, and is overwritten.
Conclude(g) ==
  /\ Unlocked
  /\ goalPc[g] = "deciding"
  /\ agent' = Finished(agent.ending)
  /\ To(g, "closing")
  /\ UNCHANGED <<agentUp, stopping, expiring, draft, authSamples, modeVars, nav2Vars,
                 arbiterVars>>

\* _abort_goal, and the return of a goal canceled before its execution.
GiveUp(g) ==
  /\ Unlocked
  /\ goalPc[g] \in {"abort", "canceled"}
  /\ agent' = Finished(IF goalPc[g] = "abort" THEN "FAILED" ELSE "CANCELED")
  /\ To(g, "closing")
  /\ UNCHANGED <<agentUp, stopping, expiring, draft, authSamples, modeVars, nav2Vars,
                 arbiterVars>>

GoalClosesAuthorization(g) ==
  /\ agentUp
  /\ goalPc[g] = "closing"
  /\ PublishAuthorization(FALSE)
  /\ To(g, "idling")
  /\ UNCHANGED <<agentUp, agent, stopping, expiring, draft, modeVars, nav2Vars, arbiterVars>>

\* Mutant of GoalAsksIdle: a finished goal leaves the arbiter as it is.
GoalLeavesMode(g) ==
  /\ agentUp
  /\ goalPc[g] = "idling"
  /\ To(g, "done")
  /\ UNCHANGED <<agentUp, agent, stopping, expiring, draft, authSamples, modeVars,
                 nav2Vars, arbiterVars>>

GoalAsksIdle(g) ==
  /\ agentUp
  /\ goalPc[g] = "idling"
  /\ AskIdle
  /\ To(g, "done")
  /\ UNCHANGED <<agentUp, agent, stopping, expiring, draft, authSamples, modeReplies,
                 arbiterSeen, nav2Vars, arbiterVars>>

-----------------------------------------------------------------------------
(* _check_lease, one action per branch, in the order of the code.            *)

Checking == Unlocked /\ agent.active # NoGoal /\ ~agent.leaseExpired
GoalIsSafe == Healthy /\ agent.localized

CheckFindsUnsafe ==
  /\ Checking
  /\ ~GoalIsSafe
  /\ RequestStop(agent)
  /\ UNCHANGED notStop

CheckMissesNav2 ==
  /\ Checking
  /\ GoalIsSafe /\ ~Nav2IsReady
  /\ ~agent.missing
  /\ agent' = [agent EXCEPT !.missing = TRUE]
  /\ UNCHANGED notAgent

\* nav2_unavailable_timeout_sec has passed.
CheckGivesUpNav2 ==
  /\ Checking
  /\ GoalIsSafe /\ ~Nav2IsReady
  /\ agent.missing
  /\ RequestStop([agent EXCEPT !.state = "FAILED",
                    !.result = IF agent.waiter # NoGoal /\ @ = "none" THEN "gone" ELSE @])
  /\ UNCHANGED notStop

\* The progress monitor reports a failure (it exists once there is a handle).
CheckFailsProgress ==
  /\ Checking
  /\ GoalIsSafe /\ Nav2IsReady
  /\ agent.handle # NoGoal /\ ~agent.supervisionFailed
  /\ RequestStop([agent EXCEPT !.missing = FALSE, !.supervisionFailed = TRUE,
                               !.state = "FAILED"])
  /\ UNCHANGED notStop

CheckPasses ==
  /\ Checking
  /\ GoalIsSafe /\ Nav2IsReady
  /\ agent.lease
  /\ agent' = [agent EXCEPT !.missing = FALSE]
  /\ UNCHANGED notAgent

CheckExpiresLease ==
  /\ Checking
  /\ GoalIsSafe /\ Nav2IsReady
  /\ ~agent.lease
  /\ expiring = "no"
  /\ agent' = [agent EXCEPT !.missing = FALSE, !.leaseExpired = TRUE,
                            !.state = "LEASE_EXPIRED"]
  /\ DownstreamCancel
  /\ expiring' = "authorization"
  /\ UNCHANGED <<agentUp, goalPc, stopping, draft, authSamples, modeVars, nav2, nav2Seen,
                 nav2Goal, lifecycleQuery, cancelAll, arbiterVars>>

\* After the lock: the goal may meanwhile be over and another one active.
ExpiryClosesAuthorization ==
  /\ agentUp /\ expiring = "authorization"
  /\ PublishAuthorization(FALSE)
  /\ expiring' = "mode"
  /\ UNCHANGED <<agentUp, agent, goalPc, stopping, draft, modeVars, nav2Vars, arbiterVars>>

ExpiryAsksIdle ==
  /\ agentUp /\ expiring = "mode"
  /\ AskIdle
  /\ expiring' = "no"
  /\ UNCHANGED <<agentUp, agent, goalPc, stopping, draft, authSamples, modeReplies,
                 arbiterSeen, nav2Vars, arbiterVars>>

-----------------------------------------------------------------------------
(* The other timers.                                                         *)

Authorized == agent.active # NoGoal /\ agent.lease /\ ~agent.leaseExpired
                /\ ~agent.cancelRequested

\* Mutant of AuthorizationComputed: only the lease counts.
AuthorizedByLease ==
  /\ Unlocked
  /\ draft = "none"
  /\ draft' = IF agent.active # NoGoal /\ agent.lease THEN "true" ELSE "false"
  /\ UNCHANGED <<agentUp, agent, goalPc, stopping, expiring, authSamples, modeVars,
                 nav2Vars, arbiterVars>>

\* _publish_authorization computes under the lock and publishes after it.
AuthorizationComputed ==
  /\ Unlocked
  /\ draft = "none"
  /\ draft' = IF Authorized THEN "true" ELSE "false"
  /\ UNCHANGED <<agentUp, agent, goalPc, stopping, expiring, authSamples, modeVars,
                 nav2Vars, arbiterVars>>

AuthorizationPublished ==
  /\ agentUp /\ draft # "none"
  /\ PublishAuthorization(draft = "true")
  /\ draft' = "none"
  /\ UNCHANGED <<agentUp, agent, goalPc, stopping, expiring, modeVars, nav2Vars, arbiterVars>>

\* _startup_fail_closed, until both requests were acknowledged.
StartupTimer ==
  LET idle == agent.startupIdle = "unsent" /\ arbiterSeen
      cancel == agent.startupCancel = "unsent" /\ nav2Seen IN
  /\ agentUp
  /\ idle \/ cancel
  /\ agent' = [agent EXCEPT !.startupIdle = IF idle THEN "inFlight" ELSE @,
                            !.startupCancel = IF cancel THEN "inFlight" ELSE @]
  /\ IF idle THEN AskMode("startup", "IDLE") ELSE UNCHANGED modeRequests
  /\ cancelAll' = IF cancel /\ nav2 # "down" THEN "asked" ELSE cancelAll
  /\ UNCHANGED <<agentUp, goalPc, stopping, expiring, draft, authSamples, modeReplies,
                 arbiterSeen, nav2, nav2Seen, nav2Goal, cancels, lifecycleQuery, arbiterVars>>

StartupIdleAnswered ==
  /\ Unlocked
  /\ "startup" \in modeReplies
  /\ modeReplies' = modeReplies \ {"startup"}
  /\ agent' = [agent EXCEPT !.startupIdle = "sent"]
  /\ UNCHANGED <<agentUp, goalPc, stopping, expiring, draft, authSamples, modeRequests,
                 arbiterSeen, nav2Vars, arbiterVars>>

StartupCancelAnswered ==
  /\ Unlocked
  /\ cancelAll = "acked"
  /\ cancelAll' = "none"
  /\ agent' = [agent EXCEPT !.startupCancel = "sent"]
  /\ UNCHANGED <<agentUp, goalPc, stopping, expiring, draft, authSamples, modeVars, nav2,
                 nav2Seen, nav2Goal, cancels, lifecycleQuery, arbiterVars>>

\* _poll_nav2_lifecycle; with a query in flight it does nothing.
PollLifecycle ==
  /\ Unlocked
  /\ \/ /\ ~nav2Seen
        /\ agent' = [agent EXCEPT !.lifecycleActive = FALSE]
        /\ UNCHANGED lifecycleQuery
     \/ /\ nav2Seen /\ ~agent.querying
        /\ agent' = [agent EXCEPT !.querying = TRUE]
        /\ lifecycleQuery' = IF nav2 = "down" THEN "none" ELSE "asked"
  /\ UNCHANGED <<agentUp, goalPc, stopping, expiring, draft, authSamples, modeVars, nav2,
                 nav2Seen, nav2Goal, cancels, cancelAll, arbiterVars>>

LifecycleAnswered ==
  /\ Unlocked
  /\ lifecycleQuery \in {"inactive", "active"}
  /\ agent' = [agent EXCEPT !.querying = FALSE, !.lifecycleActive = lifecycleQuery = "active"]
  /\ lifecycleQuery' = "none"
  /\ UNCHANGED <<agentUp, goalPc, stopping, expiring, draft, authSamples, modeVars, nav2,
                 nav2Seen, nav2Goal, cancels, cancelAll, arbiterVars>>

\* The process is killed with all its threads; requests it had sent are served
\* but nobody waits for the replies.
AgentDies ==
  /\ agentUp
  /\ agentUp' = FALSE
  /\ goalPc' = [g \in Goals |-> IF goalPc[g] = "new" THEN "new" ELSE "done"]
  /\ agent' = FreshAgent
  /\ stopping' = "no"
  /\ expiring' = "no"
  /\ draft' = "none"
  /\ modeRequests' = [i \in DOMAIN modeRequests |->
                        [modeRequests[i] EXCEPT !.from = "nobody"]]
  /\ modeReplies' = {}
  /\ lifecycleQuery' = "none"
  /\ cancelAll' = "none"
  /\ UNCHANGED <<authSamples, arbiterSeen, nav2, nav2Seen, nav2Goal, cancels, arbiterVars>>

\* respawn_delay=3.0: Nav2 has answered what the dead process asked of it.
AgentRespawns ==
  /\ ~agentUp
  /\ \A g \in Goals : nav2Goal[g] # "requested"
  /\ agentUp' = TRUE
  /\ UNCHANGED <<agent, goalPc, stopping, expiring, draft, authSamples, modeVars,
                 nav2Vars, arbiterVars>>

AgentTypeOK ==
  /\ agentUp \in BOOLEAN
  /\ agent \in Agents
  /\ goalPc \in [Goals -> GoalPcs]
  /\ stopping \in Steps
  /\ expiring \in Steps
  /\ draft \in {"none", "true", "false"}
  /\ authSamples \in Seq(BOOLEAN) /\ Len(authSamples) =< Depth
  /\ modeRequests \in Seq([from : Goals \cup {"nobody", "startup"}, mode : MotionModes])
  /\ modeReplies \subseteq Goals \cup {"startup"}
  /\ arbiterSeen \in BOOLEAN
=============================================================================
