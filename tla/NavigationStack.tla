--------------------------- MODULE NavigationStack ---------------------------
(***************************************************************************)
(* The navigation profile on the robot: the agent, the motion arbiter and  *)
(* Nav2, with the queues between them, and failures of each of the three   *)
(* (at most MaxFailures in a behaviour).  The fleet is the environment: it *)
(* sends goals, cancels and leases; so are the status streams.             *)
(*                                                                         *)
(* Time is not counted: whatever a timeout measures may lapse at any       *)
(* moment, so what holds here holds for every timing.                      *)
(***************************************************************************)
EXTENDS NavigationAgent

CONSTANT MaxFailures     \* bound on the number of process failures

ASSUME FailuresAssumption == MaxFailures \in Nat

\* Every launch file that starts an arbiter gives it default_mode 0, IDLE
\* (config/tb1.yaml:40, tb1_navigation.launch.py:125, tb1_mapping.launch.py:47).
ASSUME LaunchAssumption == DefaultMode # "NAVIGATION"

VARIABLE failures

stackVars == <<threadVars, authSamples, modeVars, nav2Vars, arbiterVars, failures>>

StackInit == ArbiterInit /\ Nav2Init /\ AgentInit /\ failures = 0

agentSideVars == <<threadVars, authSamples, modeVars, failures>>

\* The threads of the agent.
Coroutine(g) ==
  /\ \/ ExecutionStarts(g)
     \/ AskNavigation(g)
     \/ SendGoal(g)
     \/ GoalRegistered(g)
     \/ WatchResult(g)
     \/ Decides(g)
     \/ Conclude(g)
     \/ GiveUp(g)
     \/ GoalClosesAuthorization(g)
     \/ GoalAsksIdle(g)
  /\ UNCHANGED failures

ResultCallback(g) == ResultArrives(g) /\ UNCHANGED failures

StopThread == (StopClosesAuthorization \/ StopAsksIdle) /\ UNCHANGED failures

CheckLease ==
  /\ \/ CheckFindsUnsafe
     \/ CheckMissesNav2
     \/ CheckGivesUpNav2
     \/ CheckFailsProgress
     \/ CheckPasses
     \/ CheckExpiresLease
  /\ UNCHANGED failures

ExpiryThread == (ExpiryClosesAuthorization \/ ExpiryAsksIdle) /\ UNCHANGED failures

AuthorizationTimer ==
  (AuthorizationComputed \/ AuthorizationPublished) /\ UNCHANGED failures

Startup == StartupTimer /\ UNCHANGED failures
StartupReplies == (StartupIdleAnswered \/ StartupCancelAnswered) /\ UNCHANGED failures
LifecycleTimer == PollLifecycle /\ UNCHANGED failures
LifecycleReply == LifecycleAnswered /\ UNCHANGED failures
AgentRestart == AgentRespawns /\ UNCHANGED failures

FleetAndSensors ==
  /\ \/ \E g \in Goals : OnGoal(g) \/ OnCancel(g)
     \/ \E m \in Monitors, ok \in BOOLEAN : OnStatus(m, ok)
     \/ OnLease
     \/ Lapses
     \/ OnSetInitialPose
     \/ OnAmclPose
  /\ UNCHANGED failures

notNav2 == <<agentSideVars, arbiterVars>>

Nav2AnswersGoal(g) == (Nav2Accepts(g) \/ Nav2Rejects(g)) /\ UNCHANGED notNav2
Nav2EndsGoal(g) == Nav2Finishes(g) /\ UNCHANGED notNav2
Nav2HonoursCancel(g) == Nav2Cancels(g) /\ UNCHANGED notNav2

\* What Nav2 answers and does by itself.
Nav2Housekeeping ==
  /\ \/ Nav2ServesCancelAll
     \/ Nav2AnswersLifecycle
     \/ Nav2Activates
  /\ UNCHANGED notNav2

Nav2Restart == Nav2Respawns /\ UNCHANGED notNav2

GraphForgetsNav2 == Nav2Vanishes /\ UNCHANGED notNav2

ArbiterServesMode ==
  /\ modeRequests # <<>>
  /\ OnSetMode(Head(modeRequests).mode)
  /\ modeRequests' = Tail(modeRequests)
  /\ modeReplies' = modeReplies \cup ({Head(modeRequests).from} \ {"nobody"})
  /\ UNCHANGED <<threadVars, authSamples, arbiterSeen, nav2Vars, failures>>

ArbiterHandlesAuthorization ==
  /\ authSamples # <<>>
  /\ OnAuthorization(Head(authSamples))
  /\ authSamples' = Tail(authSamples)
  /\ UNCHANGED <<threadVars, modeVars, nav2Vars, failures>>

\* Nav2's controllers publish velocities while the server lives, goal or not.
NavigationInput(c) ==
  /\ nav2 # "down"
  /\ OnNavigationCommand(c)
  /\ UNCHANGED <<agentSideVars, nav2Vars>>

ArbiterTimerFires == ArbiterOnTimer /\ UNCHANGED <<agentSideVars, nav2Vars>>

StackTick == ArbiterTick /\ UNCHANGED <<agentSideVars, nav2Vars>>

ArbiterDies ==
  /\ ArbiterEnd(FALSE)
  /\ authSamples' = <<>>
  /\ modeRequests' = <<>>
  /\ UNCHANGED <<threadVars, modeReplies, arbiterSeen, nav2Vars>>

ArbiterVanishes ==
  /\ ~arbiterUp /\ arbiterSeen
  /\ arbiterSeen' = FALSE
  /\ UNCHANGED <<threadVars, authSamples, modeRequests, modeReplies, nav2Vars, arbiterVars,
                 failures>>

ArbiterRespawns ==
  /\ ArbiterStart
  /\ arbiterSeen' = TRUE
  /\ UNCHANGED <<threadVars, authSamples, modeRequests, modeReplies, nav2Vars, failures>>

Failure ==
  /\ failures < MaxFailures
  /\ failures' = failures + 1
  /\ \/ AgentDies
     \/ ArbiterDies
     \/ Nav2Dies /\ UNCHANGED <<threadVars, authSamples, modeVars, arbiterVars>>

StackNext ==
  \/ \E g \in Goals :
       \/ Coroutine(g)
       \/ ResultCallback(g)
       \/ Nav2AnswersGoal(g)
       \/ Nav2EndsGoal(g)
       \/ Nav2HonoursCancel(g)
  \/ StopThread
  \/ CheckLease
  \/ ExpiryThread
  \/ AuthorizationTimer
  \/ Startup
  \/ StartupReplies
  \/ LifecycleTimer
  \/ LifecycleReply
  \/ AgentRestart
  \/ FleetAndSensors
  \/ Nav2Housekeeping
  \/ GraphForgetsNav2
  \/ Nav2Restart
  \/ ArbiterServesMode
  \/ ArbiterHandlesAuthorization
  \/ \E c \in Motion : NavigationInput(c)
  \/ ArbiterTimerFires
  \/ StackTick
  \/ ArbiterVanishes
  \/ ArbiterRespawns
  \/ Failure

StackSpec == StackInit /\ [][StackNext]_stackVars

\* The executors run every thread that is ready, launch respawns the agent and
\* the arbiter, the graph notices a death, and Nav2 while it lives answers,
\* honours a cancellation and activates.  Nothing is assumed of goals, cancels,
\* leases, statuses or of Nav2's success.
StackFairness ==
  /\ \A g \in Goals :
       /\ WF_stackVars(Coroutine(g))
       /\ WF_stackVars(ResultCallback(g))
       /\ WF_stackVars(Nav2AnswersGoal(g))
       /\ WF_stackVars(Nav2HonoursCancel(g))
  /\ WF_stackVars(StopThread)
  /\ WF_stackVars(CheckLease)
  /\ WF_stackVars(ExpiryThread)
  /\ WF_stackVars(AuthorizationTimer)
  /\ WF_stackVars(Startup)
  /\ WF_stackVars(StartupReplies)
  /\ WF_stackVars(LifecycleTimer)
  /\ WF_stackVars(LifecycleReply)
  /\ WF_stackVars(AgentRestart)
  /\ WF_stackVars(Nav2Housekeeping)
  /\ WF_stackVars(GraphForgetsNav2)
  /\ WF_stackVars(ArbiterServesMode)
  /\ WF_stackVars(ArbiterHandlesAuthorization)
  /\ WF_stackVars(ArbiterTimerFires)
  /\ WF_stackVars(StackTick)
  /\ WF_stackVars(ArbiterVanishes)
  /\ WF_stackVars(ArbiterRespawns)

FairStackSpec == StackSpec /\ StackFairness

\* All it takes to stop the base while every process lives: the stopping thread
\* leaves the lock, the authorization timer fires and the arbiter listens.
ClosingSpec ==
  /\ StackSpec
  /\ WF_stackVars(StopThread)
  /\ WF_stackVars(AuthorizationTimer)
  /\ WF_stackVars(ArbiterHandlesAuthorization)
  /\ WF_stackVars(ArbiterTimerFires)

-----------------------------------------------------------------------------
StackTypeOK == ArbiterTypeOK /\ Nav2TypeOK /\ AgentTypeOK /\ failures \in 0..MaxFailures

Stopped == agent.cancelRequested \/ agent.leaseExpired

\* INVARIANT: Nav2 executes no goal nobody answers for.  A goal it executes,
\* or is about to accept, belongs to the coroutine of the active goal or has a
\* cancellation on its way; with an agent that was restarted, from the moment
\* it reports itself safe to use.
NoOrphanGoal ==
  (agentUp /\ StartupSafe) =>
    \A g \in Goals : nav2Goal[g] \in {"requested", "executing"} =>
      agent.active = g \/ g \in cancels

\* INVARIANT: a stop reaches Nav2 whenever it comes.  Once a stopped goal has
\* its Nav2 handle, that handle was told to cancel, although the stop may have
\* come when there was none yet.
StopReachesNav2 ==
  (Stopped /\ agent.handle # NoGoal) => agent.handle \in cancels

Fleet == INSTANCE AgentContract
           WITH held <- agent.reserved, shown <- agent.active, verdict <- agent.state,
                settled <- agent.ending = "SUCCEEDED"

\* REFINEMENT: whatever interleaves or fails inside the robot, the fleet sees an
\* agent that holds one goal at a time and shows a success only if that was
\* settled before any failure of the goal was shown.
StackIsAgentContract == Fleet!ContractSpec

\* LIVENESS: a stopped goal ends, and frees the agent for the next one, as
\* long as no process fails.
StoppedGoalEnds == (agent.active # NoGoal /\ Stopped) ~> agent.active = NoGoal

\* LIVENESS: while a goal stays stopped the base is stopped for good, although
\* an authorization computed before the stop may be published after it and the
\* request for NAVIGATION may leave after the one for IDLE.
StoppedGoalStopsTheBase ==
  <>[](agent.active # NoGoal /\ Stopped) => <>[](arbiterOut = Still)

\* INVARIANT: NAVIGATION is given back.  An agent at rest without a goal, with
\* every request for a mode served, has not left the arbiter in NAVIGATION,
\* whatever died or restarted on the way and however the threads interleaved.
RestingAgentHoldsNoMode ==
  (/\ agentUp /\ arbiterUp
   /\ agent.active = NoGoal /\ agent.reserved = NoGoal
   /\ \A g \in Goals : goalPc[g] \in {"new", "done"}
   /\ agent.startupIdle = "sent"
   /\ modeRequests = <<>>) => motionMode # "NAVIGATION"

\* LIVENESS that docs/design/phase-5-tb1-navigation.md:121-122 claims: when the
\* Nav2 server stays away the agent ends its goal instead of waiting for a
\* result that will not come.
VanishedNav2EndsTheGoal == <>[](~nav2Seen) => []<>(agent.active = NoGoal)
=============================================================================
