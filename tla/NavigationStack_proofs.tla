------------------------ MODULE NavigationStack_proofs ------------------------
(***************************************************************************)
(* Proofs about the navigation agent with the arbiter and Nav2: types, that *)
(* a stop reaches Nav2, and that the stack is the AgentContract the gateway *)
(* models are built on, for any number of goals, status streams, failures   *)
(* and for every queue depth and timeout.                                   *)
(***************************************************************************)
EXTENDS NavigationStack, Topic_proofs

-----------------------------------------------------------------------------
(* The arbiter and Nav2, whoever steps. *)

ArbiterSteps ==
  \/ \E m \in MotionModes : OnSetMode(m)
  \/ \E data \in BOOLEAN : OnAuthorization(data)
  \/ \E c \in Commands : OnNavigationCommand(c)
  \/ ArbiterOnTimer
  \/ ArbiterTick
  \/ ArbiterStart
  \/ ArbiterEnd(FALSE)
  \/ UNCHANGED arbiterVars

\* Every callback of the arbiter keeps its fields typed (arbiter_node.py).
LEMMA ArbiterTyped ==
  ASSUME ArbiterTypeOK, ArbiterSteps
  PROVE  ArbiterTypeOK'
<1> USE ArbiterAssumption
   DEF ArbiterTypeOK, NoInput, NoAuthorization, Commands, MotionModes
<1>1. ASSUME NEW m \in MotionModes, OnSetMode(m) PROVE ArbiterTypeOK'
  BY <1>1 DEF OnSetMode, ForgetSources
<1>2. ASSUME NEW data \in BOOLEAN, OnAuthorization(data) PROVE ArbiterTypeOK'
  BY <1>2 DEF OnAuthorization
<1>3. ASSUME NEW c \in Commands, OnNavigationCommand(c) PROVE ArbiterTypeOK'
  BY <1>3 DEF OnNavigationCommand
<1>4. CASE ArbiterOnTimer
  BY <1>4 DEF ArbiterOnTimer, ChooseCommand
<1>5. CASE ArbiterTick
  BY <1>5 DEF ArbiterTick, Aged
<1>6. CASE ArbiterStart
  BY <1>6 DEF ArbiterStart, ForgetSources
<1>7. CASE ArbiterEnd(FALSE)
  BY <1>7 DEF ArbiterEnd
<1>8. CASE UNCHANGED arbiterVars
  BY <1>8 DEF arbiterVars
<1> HIDE DEF ArbiterTypeOK, NoInput, NoAuthorization, Commands, MotionModes
<1> QED  BY <1>1, <1>2, <1>3, <1>4, <1>5, <1>6, <1>7, <1>8 DEF ArbiterSteps

\* The typed part of Nav2 that the agent writes: requests and cancellations.
Nav2Asked ==
  /\ UNCHANGED <<nav2, nav2Seen>>
  /\ \/ UNCHANGED nav2Goal
     \/ \E g \in Goals, s \in {"lost", "requested"} :
          nav2Goal' = [nav2Goal EXCEPT ![g] = s]
  /\ \/ UNCHANGED cancels
     \/ \E g \in Goals \cup {NoGoal} : cancels' = cancels \cup ({g} \cap Goals)
  /\ lifecycleQuery' \in {lifecycleQuery, "none", "asked"}
  /\ cancelAll' \in {cancelAll, "none", "asked"}

Nav2Steps ==
  \/ \E g \in Goals :
       Nav2Accepts(g) \/ Nav2Rejects(g) \/ Nav2Finishes(g) \/ Nav2Cancels(g)
  \/ Nav2ServesCancelAll
  \/ Nav2AnswersLifecycle
  \/ Nav2Activates
  \/ Nav2Dies
  \/ Nav2Vanishes
  \/ Nav2Respawns
  \/ Nav2Asked
  \/ UNCHANGED nav2Vars

\* Whatever Nav2 does, or is asked, keeps its goals and answers typed.
LEMMA Nav2Typed ==
  ASSUME Nav2TypeOK, Nav2Steps
  PROVE  Nav2TypeOK'
<1> USE DEF Nav2TypeOK, Nav2States, Nav2Results
<1>1. ASSUME NEW g \in Goals, Nav2Accepts(g) PROVE Nav2TypeOK'
  BY <1>1 DEF Nav2Accepts
<1>2. ASSUME NEW g \in Goals, Nav2Rejects(g) PROVE Nav2TypeOK'
  BY <1>2 DEF Nav2Rejects
<1>3. ASSUME NEW g \in Goals, Nav2Finishes(g) PROVE Nav2TypeOK'
  BY <1>3 DEF Nav2Finishes
<1>4. ASSUME NEW g \in Goals, Nav2Cancels(g) PROVE Nav2TypeOK'
  BY <1>4 DEF Nav2Cancels
<1>5. CASE Nav2ServesCancelAll
  BY <1>5 DEF Nav2ServesCancelAll, Executing
<1>6. CASE Nav2AnswersLifecycle
  BY <1>6 DEF Nav2AnswersLifecycle
<1>7. CASE Nav2Activates
  BY <1>7 DEF Nav2Activates
<1>8. CASE Nav2Dies
  BY <1>8 DEF Nav2Dies
<1>9. CASE Nav2Vanishes
  BY <1>9 DEF Nav2Vanishes
<1>10. CASE Nav2Respawns
  BY <1>10 DEF Nav2Respawns
<1>11. CASE Nav2Asked
  <2>1. nav2Goal' \in [Goals -> Nav2States]  BY <1>11 DEF Nav2Asked
  <2>2. cancels' \subseteq Goals  BY <1>11 DEF Nav2Asked
  <2> QED  BY <1>11, <2>1, <2>2 DEF Nav2Asked
<1>12. CASE UNCHANGED nav2Vars
  BY <1>12 DEF nav2Vars
<1> HIDE DEF Nav2TypeOK, Nav2States, Nav2Results
<1> QED
  BY <1>1, <1>2, <1>3, <1>4, <1>5, <1>6, <1>7, <1>8, <1>9, <1>10, <1>11, <1>12
     DEF Nav2Steps

-----------------------------------------------------------------------------
(* What the agent's helpers leave behind. *)

ModeRequests == [from : Goals \cup {"nobody", "startup"}, mode : MotionModes]

\* Publishing an authorization keeps its topic bounded (_publish_authorization).
LEMMA AuthorizationTyped ==
  ASSUME authSamples \in Seq(BOOLEAN), Len(authSamples) =< Depth,
         NEW data \in BOOLEAN, PublishAuthorization(data)
  PROVE  authSamples' \in Seq(BOOLEAN) /\ Len(authSamples') =< Depth
<1>1. CASE arbiterUp
  BY <1>1, PublishFacts DEF PublishAuthorization
<1>2. CASE ~arbiterUp
  <2>1. <<>> \in Seq(BOOLEAN) /\ Len(<<>>) =< Depth  BY DepthAssumption, SMT
  <2> QED  BY <1>2, <2>1 DEF PublishAuthorization
<1> QED  BY <1>1, <1>2

\* A request for a mode joins the arbiter's queue.
LEMMA AskTyped ==
  ASSUME modeRequests \in Seq(ModeRequests),
         NEW from \in Goals \cup {"nobody", "startup"}, NEW m \in MotionModes,
         AskMode(from, m)
  PROVE  modeRequests' \in Seq(ModeRequests)
<1>1. [from |-> from, mode |-> m] \in ModeRequests  BY DEF ModeRequests
<1> QED  BY <1>1 DEF AskMode

\* So does a request for IDLE, if the arbiter is still seen.
LEMMA AskIdleTyped ==
  ASSUME modeRequests \in Seq(ModeRequests), AskIdle
  PROVE  modeRequests' \in Seq(ModeRequests)
<1>1. "IDLE" \in MotionModes  BY DEF MotionModes
<1> QED  BY <1>1, AskTyped DEF AskIdle

\* The agent a stop leaves, and what it asks of Nav2.
LEMMA RequestStopTyped ==
  ASSUME AgentTypeOK, NEW a \in Agents, RequestStop(a)
  PROVE  /\ agent' \in Agents
         /\ stopping' \in Steps
         /\ \/ UNCHANGED cancels
            \/ \E g \in Goals \cup {NoGoal} : cancels' = cancels \cup ({g} \cap Goals)
<1>1. CASE a.cancelRequested
  BY <1>1 DEF RequestStop, AgentTypeOK
<1>2. CASE ~a.cancelRequested
  <2>1. [a EXCEPT !.cancelRequested = TRUE] \in Agents  BY DEF Agents
  <2>2. agent.handle \in Goals \cup {NoGoal}  BY DEF AgentTypeOK, Agents
  <2> QED  BY <1>2, <2>1, <2>2 DEF RequestStop, DownstreamCancel, Steps
<1> QED  BY <1>1, <1>2

\* The agent a goal leaves when it ends.
LEMMA FinishedTyped ==
  ASSUME agent \in Agents, NEW state \in Verdicts
  PROVE  Finished(state) \in Agents
BY DEF Finished, Agents

\* The agent _check_lease leaves when Nav2 stays unavailable.
LEMMA GivenUpTyped ==
  ASSUME agent \in Agents, NEW r \in Nav2Results \cup {"none", "gone"}
  PROVE  [agent EXCEPT !.state = "FAILED", !.result = r] \in Agents
BY DEF Agents, Verdicts

\* The outcome of a goal is one of TERMINAL_STATES.
LEMMA OutcomeTyped == Outcome \in Verdicts
BY DEF Outcome, Verdicts

-----------------------------------------------------------------------------
(* Types, thread by thread. *)

\* final_state is chosen while its goal, the active one, is about to be finished.
EndingIsDecided ==
  /\ \A g \in Goals : goalPc[g] = "deciding" => agent.ending # "none"
  /\ agent.ending # "none" => agent.active \in Goals /\ goalPc[agent.active] = "deciding"

\* Every step of _execute_navigation keeps the agent typed.
LEMMA CoroutineTyped ==
  ASSUME StackTypeOK, EndingIsDecided, NEW h \in Goals, Coroutine(h)
  PROVE  AgentTypeOK' /\ Nav2Steps /\ ArbiterSteps
<1> USE DEF StackTypeOK, AgentTypeOK, GoalPcs, Steps, Nav2Steps, ArbiterSteps
<1>1. ASSUME NEW g \in Goals, ExecutionStarts(g)
       PROVE  AgentTypeOK' /\ Nav2Steps /\ ArbiterSteps
  <2>1. agent' \in Agents  BY <1>1 DEF ExecutionStarts, AgentTypeOK, Agents, Unlocked
  <2> QED  BY <1>1, <2>1 DEF ExecutionStarts, To, modeVars
<1>2. ASSUME NEW g \in Goals, AskNavigation(g)
       PROVE  AgentTypeOK' /\ Nav2Steps /\ ArbiterSteps
  <2>1. "NAVIGATION" \in MotionModes  BY DEF MotionModes
  <2>2. modeRequests' \in Seq(ModeRequests)
    BY <1>2, <2>1, AskTyped DEF AskNavigation, ModeRequests
  <2> QED  BY <1>2, <2>1, <2>2 DEF AskNavigation, To, modeVars, ModeRequests
<1>3. ASSUME NEW g \in Goals, SendGoal(g)
       PROVE  AgentTypeOK' /\ Nav2Steps /\ ArbiterSteps
  <2>1. Nav2Asked  BY <1>3 DEF SendGoal, Nav2Asked
  <2> QED  BY <1>3, <2>1 DEF SendGoal, To, modeVars
<1>4. ASSUME NEW g \in Goals, GoalRegistered(g)
       PROVE  AgentTypeOK' /\ Nav2Steps /\ ArbiterSteps
  <2>a. [agent EXCEPT !.handle = g] \in Agents  BY DEF Agents
  <2>1. agent' \in Agents  BY <1>4, <2>a DEF GoalRegistered
  <2>2. Nav2Asked  BY <1>4 DEF GoalRegistered, Nav2Asked
  <2> QED  BY <1>4, <2>1, <2>2 DEF GoalRegistered, To, modeVars
<1>5. ASSUME NEW g \in Goals, WatchResult(g)
       PROVE  AgentTypeOK' /\ Nav2Steps /\ ArbiterSteps
  <2>1. agent' \in Agents  BY <1>5 DEF WatchResult, AgentTypeOK, Agents, Unlocked
  <2> QED  BY <1>5, <2>1 DEF WatchResult, To, modeVars
<1>6. ASSUME NEW g \in Goals, Conclude(g)
       PROVE  AgentTypeOK' /\ Nav2Steps /\ ArbiterSteps
  <2>1. agent.ending \in Verdicts  BY <1>6 DEF Conclude, EndingIsDecided, Agents
  <2>2. agent' \in Agents
    BY <1>6, <2>1, FinishedTyped DEF Conclude
  <2> QED  BY <1>6, <2>2 DEF Conclude, To, modeVars
<1>10. ASSUME NEW g \in Goals, Decides(g)
       PROVE  AgentTypeOK' /\ Nav2Steps /\ ArbiterSteps
  <2>1. [agent EXCEPT !.ending = Outcome] \in Agents  BY OutcomeTyped DEF Agents
  <2>2. agent' \in Agents  BY <1>10, <2>1 DEF Decides
  <2> QED  BY <1>10, <2>2 DEF Decides, To, modeVars
<1>7. ASSUME NEW g \in Goals, GiveUp(g)
       PROVE  AgentTypeOK' /\ Nav2Steps /\ ArbiterSteps
  <2>1. "FAILED" \in Verdicts /\ "CANCELED" \in Verdicts  BY DEF Verdicts
  <2>2. agent' \in Agents  BY <1>7, <2>1, FinishedTyped DEF GiveUp
  <2> QED  BY <1>7, <2>1, <2>2 DEF GiveUp, To, modeVars
<1>8. ASSUME NEW g \in Goals, GoalClosesAuthorization(g)
       PROVE  AgentTypeOK' /\ Nav2Steps /\ ArbiterSteps
  <2>1. authSamples' \in Seq(BOOLEAN) /\ Len(authSamples') =< Depth
    BY <1>8, AuthorizationTyped DEF GoalClosesAuthorization
  <2> QED  BY <1>8, <2>1 DEF GoalClosesAuthorization, To, modeVars
<1>9. ASSUME NEW g \in Goals, GoalAsksIdle(g)
       PROVE  AgentTypeOK' /\ Nav2Steps /\ ArbiterSteps
  <2>1. modeRequests' \in Seq(ModeRequests)
    BY <1>9, AskIdleTyped DEF GoalAsksIdle, ModeRequests
  <2> QED  BY <1>9, <2>1 DEF GoalAsksIdle, To, modeVars, ModeRequests
<1> HIDE DEF StackTypeOK, AgentTypeOK, GoalPcs, Steps, Nav2Steps, ArbiterSteps
<1> QED
  BY <1>1, <1>2, <1>3, <1>4, <1>5, <1>6, <1>7, <1>8, <1>9, <1>10 DEF Coroutine

\* So does every call and message from outside the robot.
LEMMA CallTyped ==
  ASSUME StackTypeOK, FleetAndSensors
  PROVE  AgentTypeOK' /\ Nav2Steps /\ ArbiterSteps
<1> USE DEF StackTypeOK, AgentTypeOK, GoalPcs, Steps, Nav2Steps, ArbiterSteps
<1>1. ASSUME NEW g \in Goals, OnGoal(g)
       PROVE  AgentTypeOK' /\ Nav2Steps /\ ArbiterSteps
  <2>1. agent' \in Agents  BY <1>1 DEF OnGoal, Agents
  <2> QED  BY <1>1, <2>1 DEF OnGoal, modeVars
<1>2. ASSUME NEW g \in Goals, OnCancel(g)
       PROVE  AgentTypeOK' /\ Nav2Steps /\ ArbiterSteps
  <2>1. agent' \in Agents /\ stopping' \in Steps /\ Nav2Asked
    BY <1>2, RequestStopTyped DEF OnCancel, notStop, Nav2Asked
  <2> QED  BY <1>2, <2>1 DEF OnCancel, notStop, modeVars
<1>3. ASSUME NEW m \in Monitors, NEW ok \in BOOLEAN, OnStatus(m, ok)
       PROVE  AgentTypeOK' /\ Nav2Steps /\ ArbiterSteps
  <2>1. [agent EXCEPT !.health[m] = ok] \in Agents  BY DEF Agents
  <2>2. agent' \in Agents /\ stopping' \in Steps /\ Nav2Asked
    BY <1>3, <2>1, RequestStopTyped DEF OnStatus, notStop, Nav2Asked
  <2> QED  BY <1>3, <2>1, <2>2 DEF OnStatus, notStop, modeVars
<1>4. ASSUME OnLease
       PROVE  AgentTypeOK' /\ Nav2Steps /\ ArbiterSteps
  <2>1. agent' \in Agents  BY <1>4 DEF OnLease, Agents
  <2> QED  BY <1>4, <2>1 DEF OnLease, notAgent, modeVars
<1>5. ASSUME Lapses
       PROVE  AgentTypeOK' /\ Nav2Steps /\ ArbiterSteps
  <2>1. \A m \in Monitors : [agent EXCEPT !.health[m] = FALSE] \in Agents  BY DEF Agents
  <2>2. [agent EXCEPT !.lease = FALSE] \in Agents  BY DEF Agents
  <2>3. agent' \in Agents  BY <1>5, <2>1, <2>2 DEF Lapses
  <2> QED  BY <1>5, <2>1, <2>2, <2>3 DEF Lapses, notAgent, modeVars
<1>6. ASSUME OnSetInitialPose
       PROVE  AgentTypeOK' /\ Nav2Steps /\ ArbiterSteps
  <2>1. agent' \in Agents  BY <1>6 DEF OnSetInitialPose, Agents
  <2> QED  BY <1>6, <2>1 DEF OnSetInitialPose, notAgent, modeVars
<1>7. ASSUME OnAmclPose
       PROVE  AgentTypeOK' /\ Nav2Steps /\ ArbiterSteps
  <2>1. agent' \in Agents  BY <1>7 DEF OnAmclPose, Agents
  <2> QED  BY <1>7, <2>1 DEF OnAmclPose, notAgent, modeVars
<1> HIDE DEF StackTypeOK, AgentTypeOK, GoalPcs, Steps, Nav2Steps, ArbiterSteps
<1> QED
  BY <1>1, <1>2, <1>3, <1>4, <1>5, <1>6, <1>7 DEF FleetAndSensors

\* So does every branch of _check_lease.
LEMMA CheckTyped ==
  ASSUME StackTypeOK, CheckLease
  PROVE  AgentTypeOK' /\ Nav2Steps /\ ArbiterSteps
<1> USE DEF StackTypeOK, AgentTypeOK, GoalPcs, Steps, Nav2Steps, ArbiterSteps
<1>1. ASSUME CheckFindsUnsafe
       PROVE  AgentTypeOK' /\ Nav2Steps /\ ArbiterSteps
  <2>1. agent' \in Agents /\ stopping' \in Steps /\ Nav2Asked
    BY <1>1, RequestStopTyped DEF CheckFindsUnsafe, notStop, Nav2Asked
  <2> QED  BY <1>1, <2>1 DEF CheckFindsUnsafe, notStop, modeVars
<1>2. ASSUME CheckMissesNav2
       PROVE  AgentTypeOK' /\ Nav2Steps /\ ArbiterSteps
  <2>1. agent' \in Agents  BY <1>2 DEF CheckMissesNav2, Agents
  <2> QED  BY <1>2, <2>1 DEF CheckMissesNav2, notAgent, modeVars
<1>3. ASSUME CheckGivesUpNav2
       PROVE  AgentTypeOK' /\ Nav2Steps /\ ArbiterSteps
  <2>1. \A r \in {agent.result, "gone"} :
         [agent EXCEPT !.state = "FAILED", !.result = r] \in Agents
    <3>1. agent.result \in Nav2Results \cup {"none", "gone"}
      BY DEF Agents
    <3> QED
      BY <3>1, GivenUpTyped
  <2>2. [agent EXCEPT !.state = "FAILED",
         !.result = IF agent.waiter # NoGoal /\ @ = "none" THEN "gone" ELSE @] \in Agents
    BY <2>1
  <2>3. agent' \in Agents /\ stopping' \in Steps /\ Nav2Asked
    BY <1>3, <2>2, RequestStopTyped DEF CheckGivesUpNav2, notStop, Nav2Asked
  <2> QED  BY <1>3, <2>1, <2>2, <2>3 DEF CheckGivesUpNav2, notStop, modeVars
<1>4. ASSUME CheckFailsProgress
       PROVE  AgentTypeOK' /\ Nav2Steps /\ ArbiterSteps
  <2>1. [agent EXCEPT !.missing = FALSE, !.supervisionFailed = TRUE, !.state = "FAILED"]
         \in Agents
    BY DEF Agents, Verdicts
  <2>2. agent' \in Agents /\ stopping' \in Steps /\ Nav2Asked
    BY <1>4, <2>1, RequestStopTyped DEF CheckFailsProgress, notStop, Nav2Asked
  <2> QED  BY <1>4, <2>1, <2>2 DEF CheckFailsProgress, notStop, modeVars
<1>5. ASSUME CheckPasses
       PROVE  AgentTypeOK' /\ Nav2Steps /\ ArbiterSteps
  <2>1. agent' \in Agents  BY <1>5 DEF CheckPasses, Agents
  <2> QED  BY <1>5, <2>1 DEF CheckPasses, notAgent, modeVars
<1>6. ASSUME CheckExpiresLease
       PROVE  AgentTypeOK' /\ Nav2Steps /\ ArbiterSteps
  <2>1. agent' \in Agents  BY <1>6 DEF CheckExpiresLease, Agents, Verdicts
  <2>2. agent.handle \in Goals \cup {NoGoal}  BY DEF Agents
  <2>3. Nav2Asked  BY <1>6, <2>2 DEF CheckExpiresLease, DownstreamCancel, Nav2Asked
  <2> QED  BY <1>6, <2>1, <2>2, <2>3 DEF CheckExpiresLease, modeVars
<1> HIDE DEF StackTypeOK, AgentTypeOK, GoalPcs, Steps, Nav2Steps, ArbiterSteps
<1> QED
  BY <1>1, <1>2, <1>3, <1>4, <1>5, <1>6 DEF CheckLease

\* So do the threads inside _request_stop, the lease expiry and the
\* authorization timer, and the respawn.
LEMMA ThreadTyped ==
  ASSUME StackTypeOK, StopThread \/ ExpiryThread \/ AuthorizationTimer \/ AgentRestart
  PROVE  AgentTypeOK' /\ Nav2Steps /\ ArbiterSteps
<1> USE DEF StackTypeOK, AgentTypeOK, GoalPcs, Steps, Nav2Steps, ArbiterSteps
<1>1. ASSUME StopClosesAuthorization
       PROVE  AgentTypeOK' /\ Nav2Steps /\ ArbiterSteps
  <2>1. authSamples' \in Seq(BOOLEAN) /\ Len(authSamples') =< Depth
    BY <1>1, AuthorizationTyped DEF StopClosesAuthorization
  <2> QED  BY <1>1, <2>1 DEF StopClosesAuthorization, modeVars
<1>2. ASSUME StopAsksIdle
       PROVE  AgentTypeOK' /\ Nav2Steps /\ ArbiterSteps
  <2>1. modeRequests' \in Seq(ModeRequests)
    BY <1>2, AskIdleTyped DEF StopAsksIdle, ModeRequests
  <2> QED  BY <1>2, <2>1 DEF StopAsksIdle, ModeRequests
<1>3. ASSUME ExpiryClosesAuthorization
       PROVE  AgentTypeOK' /\ Nav2Steps /\ ArbiterSteps
  <2>1. authSamples' \in Seq(BOOLEAN) /\ Len(authSamples') =< Depth
    BY <1>3, AuthorizationTyped DEF ExpiryClosesAuthorization
  <2> QED  BY <1>3, <2>1 DEF ExpiryClosesAuthorization, modeVars
<1>4. ASSUME ExpiryAsksIdle
       PROVE  AgentTypeOK' /\ Nav2Steps /\ ArbiterSteps
  <2>1. modeRequests' \in Seq(ModeRequests)
    BY <1>4, AskIdleTyped DEF ExpiryAsksIdle, ModeRequests
  <2> QED  BY <1>4, <2>1 DEF ExpiryAsksIdle, ModeRequests
<1>5. ASSUME AuthorizationComputed
       PROVE  AgentTypeOK' /\ Nav2Steps /\ ArbiterSteps
  BY <1>5 DEF AuthorizationComputed, modeVars
<1>6. ASSUME AuthorizationPublished
       PROVE  AgentTypeOK' /\ Nav2Steps /\ ArbiterSteps
  <2>1. authSamples' \in Seq(BOOLEAN) /\ Len(authSamples') =< Depth
    BY <1>6, AuthorizationTyped DEF AuthorizationPublished
  <2> QED  BY <1>6, <2>1 DEF AuthorizationPublished, modeVars
<1>7. ASSUME AgentRespawns
       PROVE  AgentTypeOK' /\ Nav2Steps /\ ArbiterSteps
  BY <1>7 DEF AgentRespawns, modeVars
<1> HIDE DEF StackTypeOK, AgentTypeOK, GoalPcs, Steps, Nav2Steps, ArbiterSteps
<1> QED
  BY <1>1, <1>2, <1>3, <1>4, <1>5, <1>6, <1>7
     DEF StopThread, ExpiryThread, AuthorizationTimer, AgentRestart

\* So do the result callback, the startup timer, the lifecycle poll and the
\* replies to them.
LEMMA ReplyTyped ==
  ASSUME StackTypeOK, \/ \E g \in Goals : ResultCallback(g)
         \/ Startup \/ StartupReplies \/ LifecycleTimer \/ LifecycleReply
  PROVE  AgentTypeOK' /\ Nav2Steps /\ ArbiterSteps
<1> USE DEF StackTypeOK, AgentTypeOK, GoalPcs, Steps, Nav2Steps, ArbiterSteps
<1>1. ASSUME NEW g \in Goals, ResultArrives(g)
       PROVE  AgentTypeOK' /\ Nav2Steps /\ ArbiterSteps
  <2>1. agent' \in Agents  BY <1>1 DEF ResultArrives, Agents
  <2> QED  BY <1>1, <2>1 DEF ResultArrives, notAgent, modeVars
<1>2. ASSUME StartupTimer
       PROVE  AgentTypeOK' /\ Nav2Steps /\ ArbiterSteps
  <2>1. \A i \in {agent.startupIdle, "inFlight"}, c \in {agent.startupCancel, "inFlight"} :
         [agent EXCEPT !.startupIdle = i, !.startupCancel = c] \in Agents
    BY DEF Agents
  <2>2. agent' \in Agents  BY <1>2, <2>1 DEF StartupTimer
  <2>3. "IDLE" \in MotionModes  BY DEF MotionModes
  <2>4. modeRequests' \in Seq(ModeRequests)
    BY <1>2, <2>3, AskTyped DEF StartupTimer, ModeRequests
  <2>5. Nav2Asked  BY <1>2 DEF StartupTimer, Nav2Asked
  <2> QED  BY <1>2, <2>1, <2>2, <2>3, <2>4, <2>5 DEF StartupTimer, ModeRequests
<1>3. ASSUME StartupIdleAnswered
       PROVE  AgentTypeOK' /\ Nav2Steps /\ ArbiterSteps
  <2>1. agent' \in Agents  BY <1>3 DEF StartupIdleAnswered, Agents
  <2> QED  BY <1>3, <2>1 DEF StartupIdleAnswered
<1>4. ASSUME StartupCancelAnswered
       PROVE  AgentTypeOK' /\ Nav2Steps /\ ArbiterSteps
  <2>1. agent' \in Agents  BY <1>4 DEF StartupCancelAnswered, Agents
  <2>2. Nav2Asked  BY <1>4 DEF StartupCancelAnswered, Nav2Asked
  <2> QED  BY <1>4, <2>1, <2>2 DEF StartupCancelAnswered, modeVars
<1>5. ASSUME PollLifecycle
       PROVE  AgentTypeOK' /\ Nav2Steps /\ ArbiterSteps
  <2>a. [agent EXCEPT !.lifecycleActive = FALSE] \in Agents  BY DEF Agents
  <2>b. [agent EXCEPT !.querying = TRUE] \in Agents  BY DEF Agents
  <2>1. /\ [agent EXCEPT !.lifecycleActive = FALSE] \in Agents
         /\ [agent EXCEPT !.querying = TRUE] \in Agents
    BY <2>a, <2>b
  <2>2. agent' \in Agents  BY <1>5, <2>1 DEF PollLifecycle
  <2>3. Nav2Asked  BY <1>5 DEF PollLifecycle, Nav2Asked
  <2> QED  BY <1>5, <2>1, <2>2, <2>3 DEF PollLifecycle, modeVars
<1>6. ASSUME LifecycleAnswered
       PROVE  AgentTypeOK' /\ Nav2Steps /\ ArbiterSteps
  <2>1. \A b \in BOOLEAN :
         [agent EXCEPT !.querying = FALSE, !.lifecycleActive = b] \in Agents
    BY DEF Agents
  <2>2. agent' \in Agents  BY <1>6, <2>1 DEF LifecycleAnswered
  <2>3. Nav2Asked  BY <1>6 DEF LifecycleAnswered, Nav2Asked
  <2> QED  BY <1>6, <2>1, <2>2, <2>3 DEF LifecycleAnswered, modeVars
<1> HIDE DEF StackTypeOK, AgentTypeOK, GoalPcs, Steps, Nav2Steps, ArbiterSteps
<1> QED
  BY <1>1, <1>2, <1>3, <1>4, <1>5, <1>6
     DEF ResultCallback, Startup, StartupReplies, LifecycleTimer, LifecycleReply

\* Nav2 and the arbiter take requests off their queues and change only their own.
LEMMA EnvironmentTyped ==
  ASSUME StackTypeOK,
         \/ \E g \in Goals : Nav2AnswersGoal(g) \/ Nav2EndsGoal(g) \/ Nav2HonoursCancel(g)
         \/ Nav2Housekeeping \/ Nav2Restart \/ GraphForgetsNav2
         \/ ArbiterServesMode \/ ArbiterHandlesAuthorization
         \/ \E c \in Motion : NavigationInput(c)
         \/ ArbiterTimerFires \/ StackTick \/ ArbiterVanishes \/ ArbiterRespawns
  PROVE  AgentTypeOK' /\ Nav2Steps /\ ArbiterSteps
<1> USE DEF StackTypeOK
<1>1. CASE \/ \E g \in Goals :
                Nav2AnswersGoal(g) \/ Nav2EndsGoal(g) \/ Nav2HonoursCancel(g)
           \/ Nav2Housekeeping \/ Nav2Restart \/ GraphForgetsNav2
  <2>1. Nav2Steps /\ UNCHANGED notNav2
    BY <1>1 DEF Nav2AnswersGoal, Nav2EndsGoal, Nav2HonoursCancel, Nav2Housekeeping,
                Nav2Restart, GraphForgetsNav2, Nav2Steps
  <2> QED  BY <2>1
     DEF notNav2, agentSideVars, threadVars, modeVars, AgentTypeOK, ArbiterSteps
<1>2. CASE ArbiterServesMode
  <2>1. modeRequests \in Seq(ModeRequests) /\ modeRequests # <<>>
    BY <1>2 DEF ArbiterServesMode, AgentTypeOK, ModeRequests
  <2>2. Head(modeRequests) \in ModeRequests /\ Tail(modeRequests) \in Seq(ModeRequests)
    BY <2>1, TailFacts
  <2>3. /\ Head(modeRequests).mode \in MotionModes
        /\ {Head(modeRequests).from} \ {"nobody"} \subseteq Goals \cup {"startup"}
    BY <2>2 DEF ModeRequests
  <2>4. modeRequests' \in Seq(ModeRequests) /\ modeReplies' \subseteq Goals \cup {"startup"}
    BY <1>2, <2>2, <2>3 DEF ArbiterServesMode, AgentTypeOK
  <2> QED
    BY <1>2, <2>3, <2>4
      
         DEF ArbiterServesMode, threadVars, AgentTypeOK, ModeRequests, ArbiterSteps, Nav2Steps
<1>3. CASE ArbiterHandlesAuthorization
  <2>1. authSamples \in Seq(BOOLEAN) /\ authSamples # <<>>
    BY <1>3 DEF ArbiterHandlesAuthorization, AgentTypeOK
  <2>2. /\ Head(authSamples) \in BOOLEAN
        /\ Tail(authSamples) \in Seq(BOOLEAN)
        /\ Len(Tail(authSamples)) =< Len(authSamples)
    BY <2>1, TailFacts
  <2>3. Len(authSamples) =< Depth /\ Len(authSamples) \in Nat /\ Len(Tail(authSamples)) \in Nat
    BY <2>1, <2>2 DEF AgentTypeOK
  <2>4. Len(Tail(authSamples)) =< Depth  BY <2>2, <2>3, DepthAssumption, SMT
  <2> QED
    BY <1>3, <2>2, <2>4
       DEF ArbiterHandlesAuthorization, threadVars, modeVars, AgentTypeOK, ArbiterSteps,
           Nav2Steps
<1>4. CASE \/ \E c \in Motion : NavigationInput(c)
           \/ ArbiterTimerFires \/ StackTick
  <2>1. ArbiterSteps /\ UNCHANGED <<agentSideVars, nav2Vars>>
    BY <1>4 DEF NavigationInput, ArbiterTimerFires, StackTick, ArbiterSteps, Commands
  <2> QED  BY <2>1 DEF agentSideVars, threadVars, modeVars, AgentTypeOK, Nav2Steps
<1>5. CASE ArbiterVanishes
  BY <1>5 DEF ArbiterVanishes, threadVars, AgentTypeOK, Nav2Steps, ArbiterSteps
<1>6. CASE ArbiterRespawns
  BY <1>6 DEF ArbiterRespawns, threadVars, AgentTypeOK, Nav2Steps, ArbiterSteps
<1> QED  BY <1>1, <1>2, <1>3, <1>4, <1>5, <1>6

\* A death leaves a fresh agent, or empty queues at the arbiter.
LEMMA FailureTyped ==
  ASSUME StackTypeOK, Failure
  PROVE  AgentTypeOK' /\ Nav2Steps /\ ArbiterSteps
<1> USE DEF StackTypeOK
<1>1. CASE AgentDies
  <2>1. FreshAgent \in Agents  BY AgentAssumption DEF FreshAgent, Agents
  <2>2. goalPc' \in [Goals -> GoalPcs]  BY <1>1 DEF AgentDies, GoalPcs
  <2>3. modeRequests \in Seq(ModeRequests)  BY DEF AgentTypeOK, ModeRequests
  <2>4. \A r \in ModeRequests : [r EXCEPT !.from = "nobody"] \in ModeRequests
    BY DEF ModeRequests
  <2>5. modeRequests' \in Seq(ModeRequests)
    <3>1. DOMAIN modeRequests = 1..Len(modeRequests) /\ Len(modeRequests) \in Nat
          /\ \A i \in 1..Len(modeRequests) : modeRequests[i] \in ModeRequests
      BY <2>3, SMT
    <3>2. modeRequests' \in [1..Len(modeRequests) -> ModeRequests]
      BY <1>1, <2>4, <3>1, Zenon DEF AgentDies
    <3> QED  BY <3>1, <3>2
  <2>6. Nav2Asked  BY <1>1 DEF AgentDies, Nav2Asked
  <2> QED
    BY <1>1, <2>1, <2>2, <2>5, <2>6
       DEF AgentDies, AgentTypeOK, Steps, ModeRequests, Nav2Steps, ArbiterSteps
<1>2. CASE ArbiterDies
  <2>1. /\ <<>> \in Seq(BOOLEAN) /\ Len(<<>>) =< Depth
        /\ <<>> \in Seq(ModeRequests)
    BY DepthAssumption, SMT
  <2> QED
    BY <1>2, <2>1
       DEF ArbiterDies, threadVars, AgentTypeOK, ModeRequests, Nav2Steps, ArbiterSteps
<1>3. CASE Nav2Dies /\ UNCHANGED <<threadVars, authSamples, modeVars, arbiterVars>>
  BY <1>3 DEF threadVars, modeVars, AgentTypeOK, Nav2Steps, ArbiterSteps
<1> QED  BY <1>1, <1>2, <1>3 DEF Failure

\* Every step counts its failures.
LEMMA FailuresCounted ==
  ASSUME failures \in 0..MaxFailures, StackNext
  PROVE  failures' \in 0..MaxFailures
<1>1. CASE Failure
  BY <1>1, FailuresAssumption, SMT DEF Failure
<1>2. CASE ~Failure
  <2>1. UNCHANGED failures
    BY <1>2 DEF StackNext, Coroutine, ResultCallback, Nav2AnswersGoal, Nav2EndsGoal,
       Nav2HonoursCancel, StopThread, CheckLease, ExpiryThread, AuthorizationTimer,
       Startup, StartupReplies, LifecycleTimer, LifecycleReply, AgentRestart,
       FleetAndSensors, Nav2Housekeeping, GraphForgetsNav2, Nav2Restart,
       ArbiterServesMode, ArbiterHandlesAuthorization, NavigationInput,
       ArbiterTimerFires, StackTick, ArbiterVanishes, ArbiterRespawns, notNav2,
       agentSideVars
  <2> QED  BY <2>1
<1> QED  BY <1>1, <1>2

\* Every step of the stack keeps the type invariant.
LEMMA StackStepTyped ==
  ASSUME StackTypeOK, EndingIsDecided, [StackNext]_stackVars
  PROVE  StackTypeOK'
<1>1. CASE UNCHANGED stackVars
  BY <1>1 DEF stackVars, threadVars, modeVars, nav2Vars, arbiterVars, StackTypeOK,
              AgentTypeOK, Nav2TypeOK, ArbiterTypeOK
<1>2. CASE StackNext
  <2>1. AgentTypeOK' /\ Nav2Steps /\ ArbiterSteps
    BY <1>2, CoroutineTyped, CallTyped, CheckTyped, ThreadTyped, ReplyTyped,
       EnvironmentTyped, FailureTyped DEF StackNext
  <2>2. ArbiterTypeOK'  BY <2>1, ArbiterTyped DEF StackTypeOK
  <2>3. Nav2TypeOK'  BY <2>1, Nav2Typed DEF StackTypeOK
  <2>4. failures' \in 0..MaxFailures  BY <1>2, FailuresCounted DEF StackTypeOK
  <2> QED  BY <2>1, <2>2, <2>3, <2>4 DEF StackTypeOK
<1> QED  BY <1>1, <1>2

\* The stack starts well typed.
LEMMA StackInitTyped == StackInit => StackTypeOK
<1> SUFFICES ASSUME StackInit PROVE StackTypeOK
  OBVIOUS
<1>1. ArbiterTypeOK
  BY ArbiterAssumption DEF StackInit, ArbiterInit, ArbiterTypeOK, NoInput,
     NoAuthorization, Commands
<1>2. Nav2TypeOK
  BY DEF StackInit, Nav2Init, Nav2TypeOK, Nav2States
<1>3. FreshAgent \in Agents  BY DEF FreshAgent, Agents
<1>4. <<>> \in Seq(BOOLEAN) /\ Len(<<>>) =< Depth /\ <<>> \in Seq(ModeRequests)
  BY DepthAssumption, SMT
<1>5. AgentTypeOK
  BY <1>3, <1>4 DEF StackInit, AgentInit, AgentTypeOK, GoalPcs, Steps, ModeRequests
<1> QED  BY <1>1, <1>2, <1>5, FailuresAssumption, SMT DEF StackTypeOK, StackInit

-----------------------------------------------------------------------------
(* Who owns the agent, and what a stop must have done. *)

Busy == {"canceled", "mode", "modeWait", "sending", "watching", "waiting", "deciding", "abort"}

\* A goal accepted and not begun, and one whose coroutine is at work, are the
\* one the agent holds.
OneOwner ==
  \A g \in Goals :
    /\ goalPc[g] = "reserved" => agent.reserved = g /\ agent.active = NoGoal
    /\ goalPc[g] \in Busy => agent.active = g /\ agent.reserved = NoGoal

\* A failure shown with an active goal has set a flag, of those an outcome not
\* yet decided is decided by before Nav2's result.
FailureHasReason ==
  (agent.active # NoGoal /\ agent.state \in {"FAILED", "LEASE_EXPIRED"}) =>
    agent.leaseExpired \/ agent.cancelRequested \/ agent.supervisionFailed

StackInv ==
  StackTypeOK /\ StopReachesNav2 /\ OneOwner /\ FailureHasReason /\ EndingIsDecided

ownership == <<agent.reserved, agent.active, agent.handle, agent.state, agent.ending,
               agent.leaseExpired, agent.cancelRequested, agent.supervisionFailed>>

\* Most steps: the fields stay, a coroutine moves within its phase or ends.
Keeps ==
  /\ UNCHANGED ownership
  /\ cancels \subseteq cancels'
  /\ \A g \in Goals :
       /\ goalPc'[g] = "reserved" => goalPc[g] = "reserved"
       /\ goalPc'[g] \in Busy => goalPc[g] \in Busy
       /\ goalPc'[g] = "deciding" <=> goalPc[g] = "deciding"

\* A step that stops the goal: its handle is canceled, its state may be condemned.
Stops ==
  /\ UNCHANGED <<goalPc, agent.reserved, agent.active, agent.handle, agent.ending>>
  /\ agent'.cancelRequested \/ agent'.leaseExpired
  /\ agent.handle # NoGoal => agent.handle \in cancels'
  /\ \/ agent'.state = agent.state
     \/ agent.active # NoGoal /\ agent'.state \in {"FAILED", "LEASE_EXPIRED"}

OwnerMoves ==
  \/ Keeps
  \/ Stops
  \/ \E g \in Goals :
       \/ OnGoal(g) \/ ExecutionStarts(g) \/ GoalRegistered(g)
       \/ Decides(g) \/ Conclude(g) \/ GiveUp(g)
  \/ OnSetInitialPose
  \/ AgentDies

\* A stop finds the handle it must cancel, or an earlier stop did.
LEMMA RequestStopStops ==
  ASSUME StackInv, UNCHANGED goalPc, NEW a \in Agents, RequestStop(a),
         a.reserved = agent.reserved, a.active = agent.active, a.handle = agent.handle,
         a.ending = agent.ending, a.leaseExpired = agent.leaseExpired,
         a.cancelRequested = agent.cancelRequested,
         \/ a.state = agent.state
         \/ agent.active # NoGoal /\ a.state \in {"FAILED", "LEASE_EXPIRED"}
  PROVE  Stops
<1>1. agent.handle \in Goals \cup {NoGoal}
  BY DEF StackInv, StackTypeOK, AgentTypeOK, Agents
<1>2. CASE a.cancelRequested
  BY <1>2 DEF RequestStop, Stops, StackInv, StopReachesNav2, Stopped
<1>3. CASE ~a.cancelRequested
  <2>1. /\ agent'.reserved = a.reserved /\ agent'.active = a.active
        /\ agent'.handle = a.handle /\ agent'.ending = a.ending
        /\ agent'.state = a.state /\ agent'.cancelRequested
    BY <1>3 DEF RequestStop, Agents
  <2> QED  BY <1>1, <1>3, <2>1 DEF RequestStop, DownstreamCancel, Stops
<1> QED  BY <1>2, <1>3

\* What each step of _execute_navigation does to the ownership.
LEMMA CoroutineMoves ==
  ASSUME StackInv, NEW h \in Goals, Coroutine(h)
  PROVE  OwnerMoves
<1>a. agent \in Agents /\ goalPc \in [Goals -> GoalPcs]
  BY DEF StackInv, StackTypeOK, AgentTypeOK
<1> USE DEF OwnerMoves, Keeps, ownership, Agents
<1>1. ASSUME NEW g \in Goals,
             \/ ExecutionStarts(g) \/ GoalRegistered(g)
             \/ Decides(g) \/ Conclude(g) \/ GiveUp(g)
      PROVE  OwnerMoves
  BY <1>1, <1>a
<1>2. ASSUME NEW g \in Goals, AskNavigation(g) PROVE OwnerMoves
  BY <1>2, <1>a DEF AskNavigation, To, Busy, GoalPcs, nav2Vars
<1>3. ASSUME NEW g \in Goals, SendGoal(g) PROVE OwnerMoves
  BY <1>3, <1>a DEF SendGoal, To, Busy, GoalPcs
<1>4. ASSUME NEW g \in Goals, WatchResult(g) PROVE OwnerMoves
  BY <1>4, <1>a DEF WatchResult, To, Busy, GoalPcs, nav2Vars
<1>5. ASSUME NEW g \in Goals, GoalClosesAuthorization(g) PROVE OwnerMoves
  BY <1>5, <1>a DEF GoalClosesAuthorization, To, Busy, GoalPcs, nav2Vars
<1>6. ASSUME NEW g \in Goals, GoalAsksIdle(g) PROVE OwnerMoves
  BY <1>6, <1>a DEF GoalAsksIdle, To, Busy, GoalPcs, nav2Vars
<1> QED  BY <1>1, <1>2, <1>3, <1>4, <1>5, <1>6 DEF Coroutine

\* What calls and messages do: cancels and statuses stop, a pose forgets.
LEMMA CallMoves ==
  ASSUME StackInv, FleetAndSensors
  PROVE  OwnerMoves
<1>a. agent \in Agents /\ goalPc \in [Goals -> GoalPcs]
  BY DEF StackInv, StackTypeOK, AgentTypeOK
<1> USE DEF OwnerMoves, Keeps, ownership, Agents
<1>1. ASSUME NEW g \in Goals, OnGoal(g) PROVE OwnerMoves
  BY <1>1, <1>a
<1>2. ASSUME NEW g \in Goals, OnCancel(g) PROVE OwnerMoves
  <2>1. Stops
    BY <1>2, <1>a, RequestStopStops DEF OnCancel, notStop
  <2> QED  BY <1>2, <1>a, <2>1
<1>3. ASSUME NEW m \in Monitors, NEW ok \in BOOLEAN, OnStatus(m, ok) PROVE OwnerMoves
  <2>1. [agent EXCEPT !.health[m] = ok] \in Agents
    BY <1>a DEF Agents
  <2>2. ASSUME RequestStop([agent EXCEPT !.health[m] = ok]) PROVE Stops
    BY <1>3, <1>a, <2>1, <2>2, RequestStopStops DEF OnStatus, notStop, Agents
  <2> QED  BY <1>3, <1>a, <2>1, <2>2 DEF OnStatus, notStop
<1>4. ASSUME OnLease PROVE OwnerMoves
  BY <1>4, <1>a DEF OnLease, notAgent, nav2Vars
<1>5. ASSUME Lapses PROVE OwnerMoves
  BY <1>5, <1>a DEF Lapses, notAgent, nav2Vars
<1>6. ASSUME OnAmclPose PROVE OwnerMoves
  BY <1>6, <1>a DEF OnAmclPose, notAgent, nav2Vars
<1>7. ASSUME OnSetInitialPose PROVE OwnerMoves
  BY <1>7, <1>a
<1> QED  BY <1>1, <1>2, <1>3, <1>4, <1>5, <1>6, <1>7 DEF FleetAndSensors

\* What _check_lease does: four of its branches stop the goal.
LEMMA CheckMoves ==
  ASSUME StackInv, CheckLease
  PROVE  OwnerMoves
<1>a. agent \in Agents /\ goalPc \in [Goals -> GoalPcs]
  BY DEF StackInv, StackTypeOK, AgentTypeOK
<1> USE DEF OwnerMoves, Keeps, ownership, Agents
<1>1. ASSUME CheckFindsUnsafe PROVE OwnerMoves
  <2>1. Stops
    BY <1>1, <1>a, RequestStopStops DEF CheckFindsUnsafe, notStop
  <2> QED  BY <1>1, <1>a, <2>1
<1>2. ASSUME CheckMissesNav2 PROVE OwnerMoves
  BY <1>2, <1>a DEF CheckMissesNav2, notAgent, nav2Vars
<1>3. ASSUME CheckPasses PROVE OwnerMoves
  BY <1>3, <1>a DEF CheckPasses, notAgent, nav2Vars
<1>4. ASSUME CheckGivesUpNav2 PROVE OwnerMoves
  <2>1. PICK r \in Nav2Results \cup {"none", "gone"} :
         RequestStop([agent EXCEPT !.state = "FAILED", !.result = r])
    BY <1>4, <1>a DEF CheckGivesUpNav2, Agents
  <2> DEFINE b == [agent EXCEPT !.state = "FAILED", !.result = r]
  <2>0. b \in Agents  BY <1>a, GivenUpTyped
  <2>2. /\ b.reserved = agent.reserved /\ b.active = agent.active
        /\ b.handle = agent.handle /\ b.ending = agent.ending
        /\ b.leaseExpired = agent.leaseExpired
        /\ b.cancelRequested = agent.cancelRequested /\ b.state = "FAILED"
    BY <1>a
  <2>3. agent.active # NoGoal /\ UNCHANGED goalPc
    BY <1>4 DEF CheckGivesUpNav2, Checking, notStop
  <2>4. Stops
    <3>1. RequestStop(b)  BY <2>1
    <3> HIDE DEF b
    <3> QED  BY <2>0, <2>2, <2>3, <3>1, RequestStopStops
  <2> QED  BY <1>4, <1>a, <2>1, <2>2, <2>3, <2>4
<1>5. ASSUME CheckFailsProgress PROVE OwnerMoves
  <2>1. [agent EXCEPT !.missing = FALSE, !.supervisionFailed = TRUE, !.state = "FAILED"]
         \in Agents
    BY <1>a DEF Agents, Verdicts
  <2>2. Stops
    BY <1>5, <1>a, <2>1, RequestStopStops DEF CheckFailsProgress, Checking, notStop, Agents
  <2> QED  BY <1>5, <1>a, <2>1, <2>2
<1>6. ASSUME CheckExpiresLease PROVE OwnerMoves
  BY <1>6, <1>a DEF Stops, CheckExpiresLease, Checking, DownstreamCancel, Agents
<1> QED  BY <1>1, <1>2, <1>3, <1>4, <1>5, <1>6 DEF CheckLease

\* Threads that already left the lock, or only read under it, own nothing.
LEMMA ThreadMoves ==
  ASSUME StackInv, StopThread \/ ExpiryThread \/ AuthorizationTimer \/ AgentRestart
  PROVE  OwnerMoves
<1>a. agent \in Agents /\ goalPc \in [Goals -> GoalPcs]
  BY DEF StackInv, StackTypeOK, AgentTypeOK
<1> USE DEF OwnerMoves, Keeps, ownership, Agents
<1>1. ASSUME StopClosesAuthorization PROVE OwnerMoves
  BY <1>1, <1>a DEF StopClosesAuthorization, nav2Vars
<1>2. ASSUME StopAsksIdle PROVE OwnerMoves
  BY <1>2, <1>a DEF StopAsksIdle, nav2Vars
<1>3. ASSUME ExpiryClosesAuthorization PROVE OwnerMoves
  BY <1>3, <1>a DEF ExpiryClosesAuthorization, nav2Vars
<1>4. ASSUME ExpiryAsksIdle PROVE OwnerMoves
  BY <1>4, <1>a DEF ExpiryAsksIdle, nav2Vars
<1>5. ASSUME AuthorizationComputed PROVE OwnerMoves
  BY <1>5, <1>a DEF AuthorizationComputed, nav2Vars
<1>6. ASSUME AuthorizationPublished PROVE OwnerMoves
  BY <1>6, <1>a DEF AuthorizationPublished, nav2Vars
<1>7. ASSUME AgentRespawns PROVE OwnerMoves
  BY <1>7, <1>a DEF AgentRespawns, nav2Vars
<1> QED  BY <1>1, <1>2, <1>3, <1>4, <1>5, <1>6, <1>7
   DEF StopThread, ExpiryThread, AuthorizationTimer, AgentRestart

\* Replies and polls touch other fields.
LEMMA ReplyMoves ==
  ASSUME StackInv, \/ \E g \in Goals : ResultCallback(g)
                   \/ Startup \/ StartupReplies \/ LifecycleTimer \/ LifecycleReply
  PROVE  OwnerMoves
<1>a. agent \in Agents /\ goalPc \in [Goals -> GoalPcs]
  BY DEF StackInv, StackTypeOK, AgentTypeOK
<1> USE DEF OwnerMoves, Keeps, ownership, Agents
<1>1. ASSUME NEW g \in Goals, ResultArrives(g) PROVE OwnerMoves
  BY <1>1, <1>a DEF ResultArrives, notAgent, nav2Vars
<1>2. ASSUME StartupTimer PROVE OwnerMoves
  BY <1>2, <1>a DEF StartupTimer, nav2Vars
<1>3. ASSUME StartupIdleAnswered PROVE OwnerMoves
  BY <1>3, <1>a DEF StartupIdleAnswered, nav2Vars
<1>4. ASSUME StartupCancelAnswered PROVE OwnerMoves
  BY <1>4, <1>a DEF StartupCancelAnswered, nav2Vars
<1>5. ASSUME PollLifecycle PROVE OwnerMoves
  BY <1>5, <1>a DEF PollLifecycle, nav2Vars
<1>6. ASSUME LifecycleAnswered PROVE OwnerMoves
  BY <1>6, <1>a DEF LifecycleAnswered, nav2Vars
<1> QED  BY <1>1, <1>2, <1>3, <1>4, <1>5, <1>6
   DEF ResultCallback, Startup, StartupReplies, LifecycleTimer, LifecycleReply

\* Nav2, the arbiter and the failures of either leave the agent alone.
LEMMA EnvironmentMoves ==
  ASSUME StackInv,
         \/ \E g \in Goals : Nav2AnswersGoal(g) \/ Nav2EndsGoal(g) \/ Nav2HonoursCancel(g)
         \/ Nav2Housekeeping \/ Nav2Restart \/ GraphForgetsNav2
         \/ ArbiterServesMode \/ ArbiterHandlesAuthorization
         \/ \E c \in Motion : NavigationInput(c)
         \/ ArbiterTimerFires \/ StackTick \/ ArbiterVanishes \/ ArbiterRespawns
         \/ Failure
  PROVE  OwnerMoves
<1>1. ASSUME UNCHANGED threadVars, cancels \subseteq cancels' PROVE OwnerMoves
  BY <1>1 DEF threadVars, OwnerMoves, Keeps, ownership
<1>2. CASE \/ \E g \in Goals :
                Nav2AnswersGoal(g) \/ Nav2EndsGoal(g) \/ Nav2HonoursCancel(g)
           \/ Nav2Housekeeping \/ Nav2Restart \/ GraphForgetsNav2
  BY <1>1, <1>2
     DEF Nav2AnswersGoal, Nav2Accepts, Nav2Rejects, Nav2EndsGoal, Nav2Finishes,
         Nav2HonoursCancel, Nav2Cancels, Nav2Housekeeping, Nav2ServesCancelAll,
         Nav2AnswersLifecycle, Nav2Activates, Nav2Restart, Nav2Respawns,
         GraphForgetsNav2, Nav2Vanishes, notNav2, agentSideVars
<1>3. CASE \/ ArbiterServesMode \/ ArbiterHandlesAuthorization
           \/ \E c \in Motion : NavigationInput(c)
           \/ ArbiterTimerFires \/ StackTick \/ ArbiterVanishes \/ ArbiterRespawns
  BY <1>1, <1>3
     DEF ArbiterServesMode, ArbiterHandlesAuthorization, NavigationInput,
         ArbiterTimerFires, StackTick, ArbiterVanishes, ArbiterRespawns, agentSideVars,
         nav2Vars
<1>4. CASE Failure
  BY <1>1, <1>4 DEF Failure, ArbiterDies, Nav2Dies, nav2Vars, OwnerMoves
<1> QED  BY <1>2, <1>3, <1>4

\* So every step of the stack is one of OwnerMoves.
LEMMA StepMoves ==
  ASSUME StackInv, [StackNext]_stackVars
  PROVE  OwnerMoves
<1>1. CASE UNCHANGED stackVars
  BY <1>1 DEF stackVars, threadVars, nav2Vars, OwnerMoves, Keeps, ownership
<1>2. CASE StackNext
  BY <1>2, CoroutineMoves, CallMoves, CheckMoves, ThreadMoves, ReplyMoves, EnvironmentMoves
     DEF StackNext
<1> QED  BY <1>1, <1>2

-----------------------------------------------------------------------------
(* Each of these steps keeps the invariant and is a step of the contract. *)

Kept == /\ StopReachesNav2' /\ OneOwner' /\ FailureHasReason' /\ EndingIsDecided'
        /\ Fleet!ContractNext \/ UNCHANGED Fleet!contractVars

\* A step that keeps the fields and only moves coroutines on.
LEMMA KeepsKept ==
  ASSUME StackInv, Keeps
  PROVE  Kept
<1>1. UNCHANGED Fleet!contractVars  BY DEF Keeps, ownership, Fleet!contractVars
<1>2. EndingIsDecided'  BY DEF StackInv, Keeps, ownership, EndingIsDecided
<1> QED
  BY <1>1, <1>2 DEF StackInv, Keeps, ownership, Kept, StopReachesNav2, Stopped, OneOwner,
              FailureHasReason

\* A stop, which may condemn the goal.
LEMMA StopsKept ==
  ASSUME StackInv, Stops
  PROVE  Kept
<1>1. Fleet!Condemn \/ UNCHANGED Fleet!contractVars
  BY DEF Stops, Fleet!Condemn, Fleet!Failures, Fleet!contractVars
<1>2. EndingIsDecided'  BY DEF StackInv, Stops, EndingIsDecided
<1> QED
  BY <1>1, <1>2 DEF StackInv, Stops, Kept, StopReachesNav2, Stopped, OneOwner,
              FailureHasReason, Fleet!ContractNext

\* A goal is accepted by an agent that has none, and begins as the one it holds.
LEMMA GoalStartKept ==
  ASSUME StackInv, NEW g \in Goals, OnGoal(g) \/ ExecutionStarts(g)
  PROVE  Kept
<1>a. agent \in Agents /\ goalPc \in [Goals -> GoalPcs]
  BY DEF StackInv, StackTypeOK, AgentTypeOK
<1>n. g # NoGoal  BY AgentAssumption
<1>1. CASE OnGoal(g)
  <2>1. /\ agent.active = NoGoal /\ agent.reserved = NoGoal
        /\ agent'.reserved = g /\ agent'.active = NoGoal
        /\ agent'.state = agent.state /\ agent'.handle = agent.handle
        /\ agent'.ending = agent.ending
        /\ ~agent'.leaseExpired /\ ~agent'.cancelRequested
    BY <1>1, <1>a DEF OnGoal, Agents
  <2>2. Fleet!Accept(g)  BY <2>1 DEF Fleet!Accept
  <2>3. OneOwner'
    BY <1>1, <1>a, <1>n, <2>1, AgentAssumption
       DEF OnGoal, StackInv, OneOwner, Busy, GoalPcs
  <2>4. EndingIsDecided'
    BY <1>1, <1>a, <2>1, AgentAssumption DEF OnGoal, StackInv, EndingIsDecided
  <2> QED
    BY <2>1, <2>2, <2>3, <2>4 DEF Kept, StopReachesNav2, Stopped, FailureHasReason,
                            Fleet!ContractNext
<1>2. CASE ExecutionStarts(g)
  <2>1. /\ agent.reserved = g /\ agent.active = NoGoal
        /\ agent'.reserved = NoGoal /\ agent'.active = g /\ agent'.state = "ACTIVE"
        /\ agent'.handle = agent.handle /\ cancels' = cancels
        /\ agent'.ending = agent.ending
        /\ agent'.leaseExpired = agent.leaseExpired
        /\ agent'.cancelRequested = agent.cancelRequested
    BY <1>2, <1>a DEF ExecutionStarts, StackInv, OneOwner, Agents, nav2Vars
  <2>2. Fleet!Begin  BY <1>n, <2>1 DEF Fleet!Begin
  <2>3. OneOwner'
    BY <1>2, <1>a, <1>n, <2>1, AgentAssumption
       DEF ExecutionStarts, To, StackInv, OneOwner, Busy, GoalPcs
  <2>4. EndingIsDecided'
    BY <1>2, <1>a, <2>1, AgentAssumption DEF ExecutionStarts, To, StackInv, EndingIsDecided
  <2> QED
    BY <2>1, <2>2, <2>3, <2>4 DEF Kept, StackInv, StopReachesNav2, Stopped, FailureHasReason,
                            Fleet!ContractNext
<1> QED  BY <1>1, <1>2

\* The handle arrives: a stop that came before it is made up for.
LEMMA GoalRegisteredKept ==
  ASSUME StackInv, NEW g \in Goals, GoalRegistered(g)
  PROVE  Kept
<1>a. agent \in Agents /\ goalPc \in [Goals -> GoalPcs]
  BY DEF StackInv, StackTypeOK, AgentTypeOK
<1>1. /\ agent'.reserved = agent.reserved /\ agent'.active = agent.active
      /\ agent'.state = agent.state /\ agent'.ending = agent.ending
      /\ agent'.leaseExpired = agent.leaseExpired
      /\ agent'.cancelRequested = agent.cancelRequested
      /\ agent'.supervisionFailed = agent.supervisionFailed
  BY <1>a DEF GoalRegistered, Agents
<1>2. StopReachesNav2'
  <2>1. CASE nav2Goal[g] = "rejected"
    BY <2>1 DEF GoalRegistered, StackInv, StopReachesNav2, Stopped
  <2>2. CASE nav2Goal[g] # "rejected"
    BY <1>a, <1>1, <2>2 DEF GoalRegistered, StopReachesNav2, Stopped, Agents
  <2> QED  BY <2>1, <2>2
<1>3. OneOwner'
  BY <1>a, <1>1 DEF GoalRegistered, To, StackInv, OneOwner, Busy, GoalPcs
<1>4. UNCHANGED Fleet!contractVars  BY <1>1 DEF Fleet!contractVars
<1>5. EndingIsDecided'
  BY <1>a, <1>1 DEF GoalRegistered, To, StackInv, EndingIsDecided
<1> QED
  BY <1>1, <1>2, <1>3, <1>4, <1>5 DEF Kept, StackInv, FailureHasReason

\* A success is never settled against a failure that is shown: whoever showed it
\* set a flag that comes before what Nav2 reports.
LEMMA DecidesKept ==
  ASSUME StackInv, NEW g \in Goals, Decides(g)
  PROVE  Kept
<1>a. agent \in Agents /\ goalPc \in [Goals -> GoalPcs]
  BY DEF StackInv, StackTypeOK, AgentTypeOK
<1>b. agent.active = g /\ agent.reserved = NoGoal /\ g # NoGoal /\ goalPc[g] = "waiting"
  BY AgentAssumption DEF Decides, StackInv, OneOwner, Busy
<1>c. agent.ending = "none" /\ \A h \in Goals : goalPc[h] # "deciding"
  BY <1>b DEF StackInv, EndingIsDecided
<1>1. CASE agent.result = "gone"
  <2>1. agent' = agent /\ goalPc' = [goalPc EXCEPT ![g] = "abort"] /\ cancels' = cancels
    BY <1>1 DEF Decides, To, nav2Vars
  <2>2. OneOwner' /\ EndingIsDecided'
    BY <1>a, <1>b, <1>c, <2>1 DEF StackInv, OneOwner, Busy, EndingIsDecided
  <2>3. UNCHANGED Fleet!contractVars
    BY <2>1 DEF Fleet!contractVars
  <2> QED
    BY <2>1, <2>2, <2>3 DEF Kept, StackInv, StopReachesNav2, Stopped, FailureHasReason
<1>2. CASE agent.result # "gone"
  <2>1. /\ agent' = [agent EXCEPT !.ending = Outcome]
        /\ goalPc' = [goalPc EXCEPT ![g] = "deciding"] /\ cancels' = cancels
    BY <1>2 DEF Decides, To, nav2Vars
  <2>2. /\ agent'.active = agent.active /\ agent'.reserved = agent.reserved
        /\ agent'.handle = agent.handle /\ agent'.state = agent.state
        /\ agent'.leaseExpired = agent.leaseExpired
        /\ agent'.cancelRequested = agent.cancelRequested
        /\ agent'.supervisionFailed = agent.supervisionFailed
        /\ agent'.ending = Outcome
    BY <1>a, <2>1 DEF Agents
  <2>3. OneOwner'
    BY <1>a, <1>b, <2>1, <2>2 DEF StackInv, OneOwner, Busy
  <2>4. EndingIsDecided'
    <3>1. Outcome # "none"
      BY OutcomeTyped DEF Verdicts
    <3> QED
      BY <1>a, <1>b, <1>c, <2>1, <2>2, <3>1 DEF EndingIsDecided
  <2>5. CASE Outcome = "SUCCEEDED"
    <3>1. agent.state \notin {"FAILED", "LEASE_EXPIRED"}
      BY <1>b, <2>5 DEF StackInv, FailureHasReason, Outcome
    <3>2. Fleet!Settle
      BY <1>b, <2>2, <2>5, <3>1 DEF Fleet!Settle, Fleet!Failures
    <3> QED
      BY <2>1, <2>2, <2>3, <2>4, <3>2
         DEF Kept, StackInv, StopReachesNav2, Stopped, FailureHasReason, Fleet!ContractNext
  <2>6. CASE Outcome # "SUCCEEDED"
    <3>1. UNCHANGED Fleet!contractVars
      BY <1>c, <2>2, <2>6 DEF Fleet!contractVars
    <3> QED
      BY <2>1, <2>2, <2>3, <2>4, <3>1
         DEF Kept, StackInv, StopReachesNav2, Stopped, FailureHasReason
  <2> QED
    BY <2>5, <2>6
<1> QED
  BY <1>1, <1>2

\* A goal ends as it was settled; one given up was not settled.
LEMMA GoalEndKept ==
  ASSUME StackInv, NEW g \in Goals, Conclude(g) \/ GiveUp(g)
  PROVE  Kept
<1>a. agent \in Agents /\ goalPc \in [Goals -> GoalPcs]
  BY DEF StackInv, StackTypeOK, AgentTypeOK
<1>b. agent.active = g /\ agent.reserved = NoGoal /\ g # NoGoal
  BY AgentAssumption DEF Conclude, GiveUp, StackInv, OneOwner, Busy
<1>1. \A v \in Verdicts :
        /\ Finished(v).active = NoGoal /\ Finished(v).reserved = NoGoal
        /\ Finished(v).handle = NoGoal /\ Finished(v).state = v
        /\ Finished(v).ending = "none"
  BY <1>a DEF Finished, Agents
<1>2. PICK v \in Verdicts :
        agent' = Finished(v) /\ (v = "SUCCEEDED" <=> agent.ending = "SUCCEEDED")
  <2>1. CASE Conclude(g)
    <3>1. agent.ending \in Verdicts
      BY <1>a, <2>1 DEF Conclude, StackInv, EndingIsDecided, Agents
    <3> QED
      BY <2>1, <3>1 DEF Conclude
  <2>2. CASE GiveUp(g)
    <3>1. agent.ending = "none"
      BY <1>b, <2>2 DEF GiveUp, StackInv, EndingIsDecided
    <3> QED
      BY <2>2, <3>1 DEF GiveUp, Verdicts
  <2> QED  BY <2>1, <2>2
<1>3. /\ agent'.active = NoGoal /\ agent'.reserved = NoGoal
      /\ agent'.handle = NoGoal /\ agent'.state = v /\ agent'.ending = "none"
  BY <1>1, <1>2
<1>4. Fleet!Finish
  BY <1>b, <1>2, <1>3 DEF Fleet!Finish, Fleet!Failures, Fleet!Endings, Verdicts
<1>5. OneOwner' /\ EndingIsDecided'
  <2>1. ASSUME NEW h \in Goals
        PROVE  goalPc'[h] # "reserved" /\ goalPc'[h] \notin Busy
    <3>1. h # g => goalPc[h] # "reserved" /\ goalPc[h] \notin Busy
      BY <1>b DEF StackInv, OneOwner
    <3> QED  BY <1>a, <3>1 DEF Conclude, GiveUp, To, Busy
  <2> QED  BY <1>3, <2>1 DEF OneOwner, EndingIsDecided, Busy
<1> QED
  BY <1>3, <1>4, <1>5 DEF Kept, StopReachesNav2, FailureHasReason, Fleet!ContractNext

\* Each of OwnerMoves keeps the invariant and the contract.
LEMMA OwnerMovesKept ==
  ASSUME StackInv, OwnerMoves
  PROVE  Kept
<1>a. agent \in Agents /\ goalPc \in [Goals -> GoalPcs]
  BY DEF StackInv, StackTypeOK, AgentTypeOK
<1>1. CASE OnSetInitialPose
  <2>1. /\ agent'.active = agent.active /\ agent'.reserved = agent.reserved
        /\ agent'.handle = agent.handle /\ agent'.state = "PENDING"
        /\ agent'.ending = agent.ending /\ agent'.leaseExpired = agent.leaseExpired
        /\ agent'.cancelRequested = agent.cancelRequested
        /\ agent.active = NoGoal /\ cancels' = cancels /\ goalPc' = goalPc
    BY <1>1, <1>a DEF OnSetInitialPose, notAgent, nav2Vars, Agents
  <2>2. Fleet!Forget  BY <2>1 DEF Fleet!Forget
  <2> QED
    BY <2>1, <2>2 DEF Kept, StackInv, StopReachesNav2, Stopped, OneOwner,
                      FailureHasReason, EndingIsDecided, Fleet!ContractNext
<1>2. CASE AgentDies
  <2>1. /\ agent'.active = NoGoal /\ agent'.reserved = NoGoal
        /\ agent'.handle = NoGoal /\ agent'.state = "PENDING" /\ agent'.ending = "none"
    BY <1>2 DEF AgentDies, FreshAgent
  <2>2. Fleet!Restart  BY <2>1 DEF Fleet!Restart
  <2>3. OneOwner' /\ EndingIsDecided'
    BY <1>2, <2>1 DEF AgentDies, OneOwner, Busy, EndingIsDecided
  <2> QED
    BY <2>1, <2>2, <2>3 DEF Kept, StopReachesNav2, FailureHasReason, Fleet!ContractNext
<1> QED
  BY <1>1, <1>2, KeepsKept, StopsKept, GoalStartKept, GoalRegisteredKept, DecidesKept,
     GoalEndKept DEF OwnerMoves

\* THEOREM: the inductive invariant of the stack.  A failure shown with the active
\* goal has set a flag, so that no success is settled after it; it does not hold
\* that none was settled before.
THEOREM StackInvariant == StackSpec => []StackInv
<1>1. StackInit => StackInv
  <2>1. StackInit => StackTypeOK  BY StackInitTyped
  <2> QED
    BY <2>1 DEF StackInit, AgentInit, FreshAgent, Nav2Init, StackInv, StopReachesNav2,
                OneOwner, Busy, FailureHasReason, EndingIsDecided
<1>2. StackInv /\ [StackNext]_stackVars => StackInv'
  <2> SUFFICES ASSUME StackInv, [StackNext]_stackVars PROVE StackInv'
    OBVIOUS
  <2>1. StackTypeOK'  BY StackStepTyped DEF StackInv
  <2>2. Kept  BY StepMoves, OwnerMovesKept
  <2> QED  BY <2>1, <2>2 DEF Kept, StackInv
<1> QED  BY <1>1, <1>2, PTL DEF StackSpec

\* THEOREM: every reachable state of the navigation stack is well typed,
\* whatever fails (AgentNode, ArbiterNode).
THEOREM StackTyped == StackSpec => []StackTypeOK
BY StackInvariant, PTL DEF StackInv

\* THEOREM: a stop reaches the Nav2 goal whenever it comes, before or after the
\* handle does, from the operator, a status, Nav2 or the lease
\* (_request_stop, _execute_navigation, _check_lease).
THEOREM StopReaches == StackSpec => []StopReachesNav2
BY StackInvariant, PTL DEF StackInv

\* THEOREM: whatever interleaves or fails inside the robot, the fleet sees the
\* agent of AgentContract: one goal at a time, and a success only if that was
\* settled before any failure of the goal was shown.
THEOREM StackImplementsContract == StackSpec => StackIsAgentContract
<1>1. StackInit => Fleet!ContractInit
  BY DEF StackInit, AgentInit, FreshAgent, Fleet!ContractInit
<1>2. StackInv /\ [StackNext]_stackVars => [Fleet!ContractNext]_Fleet!contractVars
  BY StepMoves, OwnerMovesKept DEF Kept
<1> QED
  BY <1>1, <1>2, StackInvariant, PTL
     DEF StackSpec, StackIsAgentContract, Fleet!ContractSpec

-----------------------------------------------------------------------------
(* What Nav2 has of the agent's goals. *)

Unsent == {"new", "reserved", "canceled", "mode", "modeWait"}
InNav2 == {"requested", "executing"}

\* A dead agent leaves no fields and nobody who waits for the cancel-all.
DeadIsFresh == ~agentUp => agent = FreshAgent /\ cancelAll = "none"

\* The handle is the active goal's, and who waits for a result waits for its.
HandleIsHeld ==
  /\ agent.handle # NoGoal => agent.handle = agent.active
  /\ \A g \in Goals : goalPc[g] \in {"watching", "waiting", "deciding"} => agent.handle = g
  /\ agent.waiter # NoGoal =>
       agent.waiter = agent.handle /\ goalPc[agent.waiter] \in {"waiting", "deciding", "abort"}
  /\ \A g \in Goals :
       goalPc[g] = "deciding" => agent.waiter = g /\ agent.result \in Nav2Results
  /\ agent.result # "none" => agent.waiter # NoGoal
  /\ agent.result = "gone" => agent.cancelRequested

\* Goals come after the startup, whose cancel-all is asked for once.
SafeFirst ==
  /\ agent.active # NoGoal \/ agent.reserved # NoGoal => StartupSafe
  /\ cancelAll # "none" => agent.startupCancel = "inFlight"

\* What Nav2 was asked is still waited for, unless the process died; a coroutine
\* that has not sent its goal, or got its result, has none there, and one that
\* gave up has none unless the result was given up, by a stop.
Nav2IsWatched ==
  \A g \in Goals :
    /\ nav2Goal[g] = "requested" => ~agentUp \/ goalPc[g] = "sending"
    /\ nav2Goal[g] \in InNav2 => goalPc[g] \notin Unsent
    /\ nav2Goal[g] \in InNav2 /\ goalPc[g] = "abort" =>
         agent.waiter = g /\ agent.result = "gone"
    /\ (agent.waiter = g /\ agent.result \in Nav2Results) => nav2Goal[g] \notin InNav2

\* Once the cancel-all was served, what a dead agent left has its cancellation.
NoneLeft ==
  (cancelAll = "acked" \/ agent.startupCancel = "sent") =>
    \A g \in Goals : nav2Goal[g] = "executing" => agent.active = g \/ g \in cancels

OrphanInv == DeadIsFresh /\ HandleIsHeld /\ SafeFirst /\ Nav2IsWatched /\ NoneLeft

kept == <<agentUp, goalPc, agent.reserved, agent.active, agent.handle, agent.waiter,
          agent.result, agent.startupIdle, agent.startupCancel>>

\* A step that touches none of it, but may ask Nav2 for a cancellation.
Untouched ==
  /\ UNCHANGED <<kept, nav2Goal, cancelAll>>
  /\ cancels \subseteq cancels'
  /\ agent.cancelRequested => agent'.cancelRequested
  /\ agentUp \/ UNCHANGED agent

LEMMA UntouchedKept == ASSUME OrphanInv, Untouched PROVE OrphanInv'
<1> USE DEF Untouched, kept
<1>1. DeadIsFresh' /\ HandleIsHeld'
  BY DEF OrphanInv, DeadIsFresh, HandleIsHeld
<1>2. SafeFirst' /\ Nav2IsWatched' /\ NoneLeft'
  BY DEF OrphanInv, SafeFirst, StartupSafe, Nav2IsWatched, NoneLeft
<1> QED
  BY <1>1, <1>2 DEF OrphanInv

\* A stop leaves all of it alone, whatever it asks Nav2 to cancel.
LEMMA StopUntouched ==
  ASSUME StackTypeOK, agentUp, NEW a \in Agents, RequestStop(a), UNCHANGED notStop,
         a.reserved = agent.reserved, a.active = agent.active, a.handle = agent.handle,
         a.waiter = agent.waiter, a.result = agent.result,
         a.startupIdle = agent.startupIdle, a.startupCancel = agent.startupCancel,
         a.cancelRequested = agent.cancelRequested
  PROVE  Untouched
<1>1. CASE a.cancelRequested
  BY <1>1 DEF RequestStop, Untouched, kept, notStop
<1>2. CASE ~a.cancelRequested
  BY <1>2 DEF RequestStop, Untouched, kept, notStop, DownstreamCancel, Agents
<1> QED
  BY <1>1, <1>2

\* The coroutine of a goal: what it sends to Nav2 is its own, and it leaves Nav2
\* only when nothing of it is there, or its handle was told to cancel.
LEMMA CoroutineLeavesNone ==
  ASSUME StackInv, OrphanInv, NEW g \in Goals, Coroutine(g)
  PROVE  OrphanInv'
<1>a. /\ agent \in Agents /\ goalPc \in [Goals -> GoalPcs] /\ cancels \subseteq Goals
      /\ nav2Goal \in [Goals -> Nav2States] /\ agentUp \in BOOLEAN
  BY DEF StackInv, StackTypeOK, AgentTypeOK, Nav2TypeOK
<1>n. NoGoal \notin Goals
  BY AgentAssumption
<1>h. \A h \in Goals : /\ goalPc[h] = "reserved" => agent.reserved = h
                       /\ goalPc[h] \in Busy => agent.active = h
  BY DEF StackInv, OneOwner
<1>s. agent.cancelRequested /\ agent.handle # NoGoal => agent.handle \in cancels
  BY DEF StackInv, StopReachesNav2, Stopped
<1> USE <1>a, <1>n DEF OrphanInv, DeadIsFresh, HandleIsHeld, SafeFirst, StartupSafe, Nav2IsWatched,
        NoneLeft, InNav2, Unsent, Busy, Nav2Results, Nav2States, To, GoalPcs, Unlocked
<1>1. CASE ExecutionStarts(g)
  <2>1. /\ agent' = [agent EXCEPT !.reserved = NoGoal, !.active = g, !.lease = TRUE,
                                  !.state = "ACTIVE"]
        /\ agentUp /\ UNCHANGED <<agentUp, nav2Vars>>
    BY <1>1 DEF ExecutionStarts
  <2>2. /\ agent.active = NoGoal /\ agent.handle = NoGoal /\ agent.waiter = NoGoal
        /\ agent.result = "none"
    BY <1>1, <1>h DEF ExecutionStarts, StackInv, OneOwner
  <2>3. /\ agent'.reserved = NoGoal /\ agent'.active = g /\ agent'.handle = agent.handle
        /\ agent'.waiter = agent.waiter /\ agent'.result = agent.result
        /\ agent'.startupIdle = agent.startupIdle /\ agent'.startupCancel = agent.startupCancel
    BY <2>1 DEF Agents
  <2> QED
    BY <1>1, <1>h, <2>1, <2>2, <2>3 DEF ExecutionStarts, nav2Vars
<1>2. CASE AskNavigation(g)
  BY <1>2, <1>h DEF AskNavigation, nav2Vars
<1>3. CASE SendGoal(g)
  BY <1>3, <1>h DEF SendGoal
<1>4. CASE GoalRegistered(g)
  <2>1. agent.active = g
    BY <1>4, <1>h DEF GoalRegistered
  <2>2. CASE nav2Goal[g] = "rejected"
    BY <1>4, <1>h, <2>1, <2>2 DEF GoalRegistered
  <2>3. CASE nav2Goal[g] # "rejected"
    <3>1. /\ agent'.reserved = agent.reserved /\ agent'.active = g /\ agent'.handle = g
          /\ agent'.waiter = agent.waiter /\ agent'.result = agent.result
          /\ agent'.startupIdle = agent.startupIdle /\ agent'.startupCancel = agent.startupCancel
          /\ agent'.cancelRequested = agent.cancelRequested
      BY <1>4, <2>1, <2>3 DEF GoalRegistered, Agents
    <3> QED
      BY <1>4, <1>h, <2>1, <2>3, <3>1 DEF GoalRegistered
  <2> QED
    BY <2>2, <2>3
<1>5. CASE WatchResult(g)
  <2>1. /\ agent'.reserved = agent.reserved /\ agent'.active = agent.active
        /\ agent'.handle = agent.handle
        /\ agent'.waiter = g /\ agent'.result = agent.result
        /\ agent'.startupIdle = agent.startupIdle /\ agent'.startupCancel = agent.startupCancel
        /\ agent'.cancelRequested = agent.cancelRequested
    BY <1>5 DEF WatchResult, Agents
  <2>2. agent.handle = g /\ agent.waiter = NoGoal /\ agent.result = "none"
    BY <1>5, <1>h DEF WatchResult, Agents
  <2> QED
    BY <1>5, <1>h, <2>1, <2>2 DEF WatchResult, nav2Vars
<1>9. CASE Decides(g)
  <2>1. /\ agent'.reserved = agent.reserved /\ agent'.active = agent.active
        /\ agent'.handle = agent.handle /\ agent'.waiter = agent.waiter
        /\ agent'.result = agent.result /\ agent'.startupIdle = agent.startupIdle
        /\ agent'.startupCancel = agent.startupCancel
        /\ agent'.cancelRequested = agent.cancelRequested
    BY <1>9 DEF Decides, Agents
  <2>2. /\ goalPc[g] = "waiting" /\ agent.waiter = g /\ agent.result # "none" /\ agentUp
        /\ agent.result \in Nav2Results \cup {"none", "gone"}
        /\ UNCHANGED <<agentUp, nav2Goal, cancels, cancelAll>>
    BY <1>9 DEF Decides, nav2Vars, Agents
  <2>3. goalPc' = [goalPc EXCEPT ![g] = IF agent.result = "gone" THEN "abort" ELSE "deciding"]
    BY <1>9 DEF Decides
  <2> QED
    BY <2>1, <2>2, <2>3
<1>6. CASE Conclude(g) \/ GiveUp(g)
  <2>1. /\ agent'.reserved = NoGoal /\ agent'.active = NoGoal /\ agent'.handle = NoGoal
        /\ agent'.waiter = NoGoal /\ agent'.result = "none"
        /\ agent'.startupIdle = agent.startupIdle /\ agent'.startupCancel = agent.startupCancel
    <3>1. \E v : agent' = Finished(v)
      BY <1>6 DEF Conclude, GiveUp
    <3> QED
      BY <3>1 DEF Finished, Agents
  <2>2. nav2Goal[g] \notin InNav2 \/ g \in cancels
    BY <1>6, <1>h, <1>s DEF Conclude, GiveUp, Agents
  <2>3. agent.active = g /\ agentUp /\ goalPc[g] # "sending"
    BY <1>6, <1>h DEF Conclude, GiveUp
  <2>4. /\ UNCHANGED <<agentUp, nav2Goal, cancels, cancelAll>>
        /\ goalPc' = [goalPc EXCEPT ![g] = "closing"]
    BY <1>6 DEF Conclude, GiveUp, nav2Vars
  <2>5. \A h \in Goals : h # g => goalPc[h] \notin Busy
    BY <1>h, <2>3
  <2> QED
    BY <2>1, <2>2, <2>3, <2>4, <2>5
<1>7. CASE GoalClosesAuthorization(g)
  BY <1>7 DEF GoalClosesAuthorization, nav2Vars
<1>8. CASE GoalAsksIdle(g)
  BY <1>8 DEF GoalAsksIdle, nav2Vars
<1> QED
  BY <1>1, <1>2, <1>3, <1>4, <1>5, <1>6, <1>7, <1>8, <1>9 DEF Coroutine

\* The calls from outside: a goal is taken only after the startup.
LEMMA CallLeavesNone ==
  ASSUME StackInv, OrphanInv, FleetAndSensors
  PROVE  OrphanInv'
<1>a. agent \in Agents /\ StackTypeOK
  BY DEF StackInv, StackTypeOK, AgentTypeOK
<1>1. ASSUME NEW g \in Goals, OnGoal(g) PROVE OrphanInv'
  <2>1. /\ agent'.reserved = g /\ agent'.active = NoGoal /\ agent'.handle = agent.handle
        /\ agent'.waiter = agent.waiter /\ agent'.result = agent.result
        /\ agent'.startupIdle = agent.startupIdle /\ agent'.startupCancel = agent.startupCancel
    BY <1>1, <1>a DEF OnGoal, Agents
  <2>2. agentUp /\ StartupSafe /\ agent.active = NoGoal /\ goalPc[g] = "new"
    BY <1>1 DEF OnGoal, Unlocked, ReadyForGoal
  <2>3. goalPc' = [goalPc EXCEPT ![g] = "reserved"] /\ UNCHANGED <<agentUp, nav2Vars>>
    BY <1>1 DEF OnGoal
  <2>4. goalPc \in [Goals -> GoalPcs] /\ NoGoal \notin Goals
    BY <1>a, AgentAssumption DEF StackTypeOK, AgentTypeOK
  <2> QED
    BY <2>1, <2>2, <2>3, <2>4
       DEF OrphanInv, DeadIsFresh, HandleIsHeld, SafeFirst, StartupSafe, Nav2IsWatched,
           NoneLeft, InNav2, Unsent, nav2Vars
<1>2. ASSUME NEW g \in Goals, OnCancel(g) PROVE OrphanInv'
  BY <1>2, <1>a, StopUntouched, UntouchedKept DEF OnCancel, Unlocked
<1>3. ASSUME NEW m \in Monitors, NEW ok \in BOOLEAN, OnStatus(m, ok) PROVE OrphanInv'
  <2> DEFINE b == [agent EXCEPT !.health[m] = ok]
  <2>1. /\ b \in Agents /\ b.reserved = agent.reserved /\ b.active = agent.active
        /\ b.handle = agent.handle /\ b.waiter = agent.waiter /\ b.result = agent.result
        /\ b.startupIdle = agent.startupIdle /\ b.startupCancel = agent.startupCancel
        /\ b.cancelRequested = agent.cancelRequested
    BY <1>a DEF Agents
  <2>2. agentUp /\ UNCHANGED notStop
    BY <1>3 DEF OnStatus, Unlocked
  <2>3. CASE RequestStop(b)
    <3> HIDE DEF b
    <3> QED
      BY <1>a, <2>1, <2>2, <2>3, StopUntouched, UntouchedKept
  <2>4. CASE agent' = b /\ UNCHANGED <<cancels, stopping>>
    <3>1. Untouched
      BY <2>1, <2>2, <2>4 DEF Untouched, kept, notStop
    <3> QED
      BY <3>1, UntouchedKept
  <2> QED
    BY <1>3, <2>3, <2>4 DEF OnStatus
<1>4. CASE OnLease \/ Lapses \/ OnSetInitialPose \/ OnAmclPose
  <2>1. Untouched
    BY <1>4, <1>a DEF OnLease, Lapses, OnSetInitialPose, OnAmclPose, Untouched, kept, notAgent,
                      nav2Vars, Unlocked, Agents
  <2> QED
    BY <2>1, UntouchedKept
<1> QED
  BY <1>1, <1>2, <1>3, <1>4 DEF FleetAndSensors

\* _check_lease: a result that will not come is given up with a cancellation.
LEMMA CheckLeavesNone ==
  ASSUME StackInv, OrphanInv, CheckLease
  PROVE  OrphanInv'
<1>a. agent \in Agents /\ StackTypeOK
  BY DEF StackInv, StackTypeOK, AgentTypeOK
<1>1. CASE CheckFindsUnsafe
  BY <1>1, <1>a, StopUntouched, UntouchedKept DEF CheckFindsUnsafe, Checking, Unlocked
<1>2. CASE CheckMissesNav2 \/ CheckPasses
  <2>1. Untouched
    BY <1>2, <1>a DEF CheckMissesNav2, CheckPasses, Checking, Untouched, kept, notAgent,
                      nav2Vars, Unlocked, Agents
  <2> QED
    BY <2>1, UntouchedKept
<1>3. CASE CheckFailsProgress
  <2> DEFINE b == [agent EXCEPT !.missing = FALSE, !.supervisionFailed = TRUE, !.state = "FAILED"]
  <2>0. b \in Agents  BY <1>a DEF Agents, Verdicts
  <2>1. /\ b.reserved = agent.reserved /\ b.active = agent.active
        /\ b.handle = agent.handle /\ b.waiter = agent.waiter /\ b.result = agent.result
        /\ b.startupIdle = agent.startupIdle /\ b.startupCancel = agent.startupCancel
        /\ b.cancelRequested = agent.cancelRequested
    BY <1>a DEF Agents
  <2>2. agentUp /\ UNCHANGED notStop /\ RequestStop(b)
    BY <1>3 DEF CheckFailsProgress, Checking, Unlocked
  <2> HIDE DEF b
  <2> QED
    BY <1>a, <2>0, <2>1, <2>2, StopUntouched, UntouchedKept
<1>4. CASE CheckExpiresLease
  <2>1. Untouched
    BY <1>4, <1>a DEF CheckExpiresLease, Checking, DownstreamCancel, Untouched, kept, Unlocked,
                      Agents
  <2> QED
    BY <2>1, UntouchedKept
<1>5. CASE CheckGivesUpNav2
  <2>1. PICK r \in Nav2Results \cup {"none", "gone"} :
          /\ RequestStop([agent EXCEPT !.state = "FAILED", !.result = r])
          /\ \/ r = agent.result
             \/ r = "gone" /\ agent.result = "none" /\ agent.waiter # NoGoal
    BY <1>5, <1>a DEF CheckGivesUpNav2, Agents
  <2>2. /\ agent'.reserved = agent.reserved /\ agent'.active = agent.active
        /\ agent'.handle = agent.handle /\ agent'.waiter = agent.waiter
        /\ agent'.startupIdle = agent.startupIdle /\ agent'.startupCancel = agent.startupCancel
        /\ agent'.result = r /\ agent'.cancelRequested /\ cancels \subseteq cancels'
    BY <1>a, <2>1 DEF RequestStop, DownstreamCancel, Agents
  <2>3. agentUp /\ UNCHANGED <<agentUp, goalPc, nav2Goal, cancelAll>>
    BY <1>5 DEF CheckGivesUpNav2, Checking, Unlocked, notStop
  <2> QED
    BY <2>1, <2>2, <2>3
       DEF OrphanInv, DeadIsFresh, HandleIsHeld, SafeFirst, StartupSafe, Nav2IsWatched, NoneLeft,
           Nav2Results
<1> QED
  BY <1>1, <1>2, <1>3, <1>4, <1>5 DEF CheckLease

\* The startup, its replies, the other threads and the process itself.
LEMMA ProcessLeavesNone ==
  ASSUME StackInv, OrphanInv,
         \/ \E g \in Goals : ResultCallback(g)
         \/ StopThread \/ ExpiryThread \/ AuthorizationTimer \/ Startup \/ StartupReplies
         \/ LifecycleTimer \/ LifecycleReply \/ AgentRestart \/ AgentDies
  PROVE  OrphanInv'
<1>a. /\ agent \in Agents /\ goalPc \in [Goals -> GoalPcs] /\ nav2Goal \in [Goals -> Nav2States]
      /\ cancelAll \in {"none", "asked", "acked"} /\ NoGoal \notin Goals
  BY AgentAssumption DEF StackInv, StackTypeOK, AgentTypeOK, Nav2TypeOK
<1>1. CASE StopThread \/ ExpiryThread \/ AuthorizationTimer \/ LifecycleTimer \/ LifecycleReply
  <2>1. Untouched
    BY <1>1, <1>a DEF StopThread, StopClosesAuthorization, StopAsksIdle, ExpiryThread,
         ExpiryClosesAuthorization, ExpiryAsksIdle, AuthorizationTimer, AuthorizationComputed,
         AuthorizationPublished, LifecycleTimer, PollLifecycle, LifecycleReply, LifecycleAnswered,
         Untouched, kept, nav2Vars, Unlocked, Agents
  <2> QED
    BY <2>1, UntouchedKept
<1> USE <1>a DEF OrphanInv, DeadIsFresh, HandleIsHeld, SafeFirst, StartupSafe, Nav2IsWatched,
        NoneLeft, InNav2, Nav2Results, Nav2States
<1>2. ASSUME NEW g \in Goals, ResultArrives(g) PROVE OrphanInv'
  <2>1. /\ agent'.reserved = agent.reserved /\ agent'.active = agent.active
        /\ agent'.handle = agent.handle /\ agent'.waiter = agent.waiter
        /\ agent'.startupIdle = agent.startupIdle /\ agent'.startupCancel = agent.startupCancel
        /\ agent'.result = nav2Goal[g] /\ agent'.cancelRequested = agent.cancelRequested
    BY <1>2 DEF ResultArrives, Agents
  <2> QED
    BY <1>2, <2>1 DEF ResultArrives, Unlocked, notAgent, nav2Vars
<1>3. CASE StartupTimer
  <2>1. /\ agent'.reserved = agent.reserved /\ agent'.active = agent.active
        /\ agent'.handle = agent.handle /\ agent'.waiter = agent.waiter
        /\ agent'.result = agent.result /\ agent'.cancelRequested = agent.cancelRequested
        /\ agent.startupIdle = "sent" => agent'.startupIdle = "sent"
        /\ \/ agent'.startupCancel = agent.startupCancel /\ cancelAll' = cancelAll
           \/ /\ agent.startupCancel = "unsent" /\ agent'.startupCancel = "inFlight"
              /\ cancelAll' \in {cancelAll, "asked"}
    BY <1>3 DEF StartupTimer, Agents
  <2>2. agentUp /\ UNCHANGED <<agentUp, goalPc, nav2Goal, cancels>>
    BY <1>3 DEF StartupTimer
  <2> QED
    BY <2>1, <2>2
<1>4. CASE StartupIdleAnswered
  <2>1. agent' = [agent EXCEPT !.startupIdle = "sent"]
    BY <1>4 DEF StartupIdleAnswered
  <2> QED
    BY <1>4, <2>1 DEF StartupIdleAnswered, Unlocked, nav2Vars, Agents
<1>5. CASE StartupCancelAnswered
  <2>1. agent' = [agent EXCEPT !.startupCancel = "sent"]
    BY <1>5 DEF StartupCancelAnswered
  <2> QED
    BY <1>5, <2>1 DEF StartupCancelAnswered, Unlocked, Agents
<1>6. CASE AgentRespawns
  BY <1>6 DEF AgentRespawns, nav2Vars, FreshAgent
<1>7. CASE AgentDies
  <2>1. /\ agent' = FreshAgent /\ ~agentUp' /\ cancelAll' = "none"
        /\ UNCHANGED <<nav2Goal, cancels>>
        /\ \A g \in Goals : goalPc'[g] = IF goalPc[g] = "new" THEN "new" ELSE "done"
    BY <1>7 DEF AgentDies
  <2>2. /\ agent'.active = NoGoal /\ agent'.reserved = NoGoal /\ agent'.handle = NoGoal
        /\ agent'.waiter = NoGoal /\ agent'.result = "none" /\ agent'.startupCancel = "unsent"
    BY <2>1 DEF FreshAgent
  <2> QED
    BY <2>1, <2>2 DEF Unsent
<1> QED
  BY <1>1, <1>2, <1>3, <1>4, <1>5, <1>6, <1>7
     DEF ResultCallback, Startup, StartupReplies, AgentRestart

\* Nav2 executes what it was asked for, and the cancel-all covers all it executes.
LEMMA Nav2LeavesNone ==
  ASSUME StackInv, OrphanInv,
         \/ \E g \in Goals : Nav2AnswersGoal(g) \/ Nav2EndsGoal(g) \/ Nav2HonoursCancel(g)
         \/ Nav2Housekeeping \/ Nav2Restart \/ GraphForgetsNav2
         \/ Nav2Dies /\ UNCHANGED threadVars
  PROVE  OrphanInv'
<1>a. /\ agent \in Agents /\ goalPc \in [Goals -> GoalPcs] /\ nav2Goal \in [Goals -> Nav2States]
      /\ cancelAll \in {"none", "asked", "acked"} /\ NoGoal \notin Goals
  BY AgentAssumption DEF StackInv, StackTypeOK, AgentTypeOK, Nav2TypeOK
<1>h. \A g \in Goals : goalPc[g] \in Busy => agent.active = g
  BY DEF StackInv, OneOwner
<1>u. UNCHANGED <<agentUp, agent, goalPc>>
  BY DEF Nav2AnswersGoal, Nav2EndsGoal, Nav2HonoursCancel, Nav2Housekeeping, Nav2Restart,
         GraphForgetsNav2, notNav2, agentSideVars, threadVars
<1> USE <1>a, <1>h, <1>u
    DEF OrphanInv, DeadIsFresh, HandleIsHeld, SafeFirst, StartupSafe, Nav2IsWatched,
        NoneLeft, InNav2, Nav2Results, Nav2States, Busy, FreshAgent, Unsent
<1>1. ASSUME NEW g \in Goals, Nav2Accepts(g) PROVE OrphanInv'
  BY <1>1 DEF Nav2Accepts, Executing
<1>2. ASSUME NEW g \in Goals, Nav2Rejects(g) PROVE OrphanInv'
  BY <1>2 DEF Nav2Rejects
<1>3. ASSUME NEW g \in Goals, Nav2Finishes(g) \/ Nav2Cancels(g) PROVE OrphanInv'
  BY <1>3 DEF Nav2Finishes, Nav2Cancels, Executing
<1>4. CASE Nav2ServesCancelAll
  BY <1>4 DEF Nav2ServesCancelAll, Executing
<1>5. CASE Nav2AnswersLifecycle \/ Nav2Activates \/ Nav2Respawns \/ Nav2Vanishes
  BY <1>5 DEF Nav2AnswersLifecycle, Nav2Activates, Nav2Respawns, Nav2Vanishes
<1>6. CASE Nav2Dies
  BY <1>6 DEF Nav2Dies
<1> QED
  BY <1>1, <1>2, <1>3, <1>4, <1>5, <1>6
     DEF Nav2AnswersGoal, Nav2EndsGoal, Nav2HonoursCancel, Nav2Housekeeping, Nav2Restart,
         GraphForgetsNav2

\* Every step keeps it.
LEMMA OrphanStep ==
  ASSUME StackInv, OrphanInv, [StackNext]_stackVars
  PROVE  OrphanInv'
<1>1. CASE \/ ArbiterServesMode \/ ArbiterHandlesAuthorization
           \/ \E c \in Motion : NavigationInput(c)
           \/ ArbiterTimerFires \/ StackTick \/ ArbiterVanishes \/ ArbiterRespawns
           \/ ArbiterDies \/ UNCHANGED stackVars
  <2>1. Untouched
    BY <1>1 DEF ArbiterServesMode, ArbiterHandlesAuthorization, NavigationInput, ArbiterTimerFires,
         StackTick, ArbiterVanishes, ArbiterRespawns, ArbiterDies, stackVars, agentSideVars,
         threadVars, nav2Vars, Untouched, kept
  <2> QED
    BY <2>1, UntouchedKept
<1>2. CASE Failure
  BY <1>1, <1>2, ProcessLeavesNone, Nav2LeavesNone DEF Failure
<1>3. CASE StackNext
  BY <1>1, <1>2, <1>3, CoroutineLeavesNone, CallLeavesNone, CheckLeavesNone, ProcessLeavesNone,
     Nav2LeavesNone DEF StackNext
<1> QED
  BY <1>1, <1>3

\* THEOREM: Nav2 executes no goal nobody answers for, whoever dies and restarts,
\* with any number of goals (_execute_navigation, _startup_fail_closed).
THEOREM NoOrphans == StackSpec => []NoOrphanGoal
<1>1. StackInit => OrphanInv
  BY DEF StackInit, AgentInit, FreshAgent, Nav2Init, OrphanInv, DeadIsFresh, HandleIsHeld,
         SafeFirst, Nav2IsWatched, NoneLeft, InNav2
<1>2. (StackInv /\ OrphanInv) /\ [StackNext]_stackVars => OrphanInv'
  BY OrphanStep
<1>3. StackInv /\ OrphanInv => NoOrphanGoal
  BY DEF StackInv, OneOwner, Busy, OrphanInv, Nav2IsWatched, NoneLeft, NoOrphanGoal, StartupSafe,
         InNav2
<1> QED
  BY <1>1, <1>2, <1>3, StackInvariant, PTL DEF StackSpec

-----------------------------------------------------------------------------
(* Who the arbiter drives for. *)

\* The mode the arbiter has once it has served what is queued.
LastMode == IF modeRequests = <<>> THEN motionMode ELSE Newest(modeRequests).mode

\* From the request for NAVIGATION to the request for IDLE.
Driving ==
  {"modeWait", "sending", "watching", "waiting", "deciding", "abort", "closing", "idling"}

SeenWhileUp == (arbiterUp => arbiterSeen) /\ (~arbiterUp => modeRequests = <<>>)

\* The arbiter is going to NAVIGATION for a coroutine that will ask for IDLE, or
\* for an agent that died and whose successor has not asked for IDLE yet.
ModeIsOwned ==
  (arbiterUp /\ agentUp /\ agent.startupIdle # "unsent" /\ LastMode = "NAVIGATION") =>
    \E g \in Goals : goalPc[g] \in Driving

\* An answer to the startup's request is for an agent that made one.
StartupAsked ==
  agent.startupIdle = "unsent" =>
    /\ "startup" \notin modeReplies
    /\ \A i \in DOMAIN modeRequests : modeRequests[i].from # "startup"

ModeInv == SeenWhileUp /\ ModeIsOwned /\ StartupAsked

\* Who drives goes on, and an agent whose startup has begun is no new one.
DriversGoOn ==
  /\ \A g \in Goals : goalPc[g] \in Driving => goalPc'[g] \in Driving
  /\ agent'.startupIdle = "unsent" => agent.startupIdle = "unsent"

\* A step that neither asks for a mode nor serves a request.
Silent ==
  /\ UNCHANGED <<arbiterUp, motionMode, modeRequests, arbiterSeen>>
  /\ DriversGoOn
  /\ modeReplies' \subseteq modeReplies
  /\ agentUp' => agentUp \/ agent'.startupIdle = "unsent"
  /\ agent.startupIdle = "unsent" => agent'.startupIdle = "unsent"

\* A step that asks for a mode, for NAVIGATION on behalf of a coroutine.
Asks ==
  /\ UNCHANGED <<arbiterUp, motionMode, arbiterSeen, modeReplies>>
  /\ agent'.startupIdle = "unsent" => agent.startupIdle = "unsent"
  /\ \E from \in Goals \cup {"nobody", "startup"}, m \in MotionModes :
       /\ AskMode(from, m)
       /\ from = "startup" => agent'.startupIdle # "unsent"
       /\ m = "NAVIGATION" => \E g \in Goals : goalPc'[g] \in Driving

LEMMA SilentKept == ASSUME ModeInv, Silent PROVE ModeInv'
BY DEF Silent, DriversGoOn, ModeInv, SeenWhileUp, ModeIsOwned, StartupAsked, LastMode, Newest

\* What was asked last is what the arbiter will have.
LEMMA AsksKept ==
  ASSUME StackTypeOK, ModeInv, Asks
  PROVE  ModeInv'
<1> USE DEF Asks, ModeInv, SeenWhileUp
<1>1. CASE ~arbiterUp
  BY <1>1 DEF AskMode, ModeIsOwned, StartupAsked
<1>2. CASE arbiterUp
  <2>1. PICK from \in Goals \cup {"nobody", "startup"}, m \in MotionModes :
          /\ AskMode(from, m)
          /\ from = "startup" => agent'.startupIdle # "unsent"
          /\ m = "NAVIGATION" => \E g \in Goals : goalPc'[g] \in Driving
    OBVIOUS
  <2> DEFINE r == [from |-> from, mode |-> m]
  <2>2. modeRequests \in Seq(ModeRequests) /\ r \in ModeRequests
    BY DEF StackTypeOK, AgentTypeOK, ModeRequests
  <2>3. modeRequests' = Append(modeRequests, r)
    BY <1>2, <2>1 DEF AskMode
  <2>4. /\ modeRequests' # <<>> /\ Newest(modeRequests') = r
        /\ \A i \in DOMAIN modeRequests' :
             modeRequests'[i] = r \/ \E j \in DOMAIN modeRequests : modeRequests'[i] = modeRequests[j]
    <3> HIDE DEF r
    <3> QED  BY <2>2, <2>3, AppendFacts
  <2>5. LastMode' = m
    BY <2>4 DEF LastMode
  <2>6. StartupAsked'
    BY <2>1, <2>4 DEF StartupAsked
  <2> QED
    BY <1>2, <2>1, <2>5, <2>6 DEF ModeIsOwned
<1> QED
  BY <1>1, <1>2 DEF StackTypeOK, ArbiterTypeOK

\* A request for IDLE reaches every arbiter that lives.
LEMMA AskIdleKept ==
  ASSUME StackTypeOK, ModeInv, AskIdle,
         UNCHANGED <<agentUp, agent, arbiterUp, motionMode, arbiterSeen, modeReplies>>
  PROVE  ModeInv'
<1>1. CASE arbiterSeen
  <2>1. "IDLE" \in MotionModes /\ "IDLE" # "NAVIGATION" /\ "nobody" # "startup"
    BY DEF MotionModes
  <2>2. Asks  BY <1>1, <2>1 DEF AskIdle, Asks
  <2> QED  BY <2>2, AsksKept
<1>2. CASE ~arbiterSeen
  BY <1>2 DEF AskIdle, ModeInv, SeenWhileUp, ModeIsOwned, StartupAsked
<1> QED
  BY <1>1, <1>2

\* The coroutine asks for NAVIGATION, and for IDLE when it is over.
LEMMA CoroutineModes ==
  ASSUME StackInv, OrphanInv, ModeInv, NEW g \in Goals, Coroutine(g)
  PROVE  ModeInv'
<1>a. StackTypeOK /\ agent \in Agents /\ goalPc \in [Goals -> GoalPcs]
  BY DEF StackInv, StackTypeOK, AgentTypeOK
<1>1. CASE ExecutionStarts(g) \/ SendGoal(g) \/ GoalRegistered(g) \/ WatchResult(g)
           \/ Decides(g) \/ Conclude(g) \/ GiveUp(g) \/ GoalClosesAuthorization(g)
  <2>1. agent'.startupIdle = agent.startupIdle
    BY <1>1, <1>a DEF ExecutionStarts, SendGoal, GoalRegistered, WatchResult, Decides, Conclude,
                      GiveUp, GoalClosesAuthorization, Finished, Agents
  <2>2. \A h \in Goals : goalPc[h] \in Driving => goalPc'[h] \in Driving
    BY <1>1, <1>a DEF ExecutionStarts, SendGoal, GoalRegistered, WatchResult, Decides, Conclude,
                      GiveUp, GoalClosesAuthorization, To, Driving
  <2>3. /\ UNCHANGED <<agentUp, arbiterUp, motionMode, modeRequests, arbiterSeen>>
        /\ modeReplies' \subseteq modeReplies
    BY <1>1 DEF ExecutionStarts, SendGoal, GoalRegistered, WatchResult, Decides, Conclude,
                GiveUp, GoalClosesAuthorization, modeVars, arbiterVars
  <2> QED
    BY <2>1, <2>2, <2>3, SilentKept DEF Silent, DriversGoOn
<1>2. CASE AskNavigation(g)
  <2>1. goalPc'[g] \in Driving
    BY <1>2, <1>a DEF AskNavigation, To, Driving
  <2>2. UNCHANGED <<agentUp, agent, arbiterUp, motionMode, arbiterSeen, modeReplies>>
    BY <1>2 DEF AskNavigation, arbiterVars
  <2>3. CASE arbiterSeen
    <3>1. agent.startupIdle = "sent"
      <4>1. goalPc[g] = "mode"
        BY <1>2 DEF AskNavigation
      <4> QED
        BY <4>1, AgentAssumption DEF StackInv, OneOwner, Busy, OrphanInv, SafeFirst, StartupSafe
    <3>2. Asks
      BY <1>2, <2>1, <2>2, <2>3, <3>1 DEF AskNavigation, Asks, MotionModes
    <3> QED
      BY <1>a, <3>2, AsksKept
  <2>4. CASE ~arbiterSeen
    BY <1>2, <2>2, <2>4 DEF AskNavigation, ModeInv, SeenWhileUp, ModeIsOwned, StartupAsked
  <2> QED
    BY <2>3, <2>4
<1>3. CASE GoalAsksIdle(g)
  BY <1>a, <1>3, AskIdleKept DEF GoalAsksIdle, arbiterVars
<1> QED
  BY <1>1, <1>2, <1>3 DEF Coroutine

\* The calls, the checks and the other threads of the agent.
LEMMA AgentModes ==
  ASSUME StackTypeOK, OrphanInv, ModeInv,
         \/ \E g \in Goals : ResultCallback(g)
         \/ StopThread \/ CheckLease \/ ExpiryThread \/ AuthorizationTimer \/ Startup
         \/ StartupReplies \/ LifecycleTimer \/ LifecycleReply \/ AgentRestart
         \/ FleetAndSensors
  PROVE  ModeInv'
<1>a. agent \in Agents /\ goalPc \in [Goals -> GoalPcs]
  BY DEF StackTypeOK, AgentTypeOK
<1>1. CASE StopAsksIdle \/ ExpiryAsksIdle
  BY <1>1, AskIdleKept DEF StopAsksIdle, ExpiryAsksIdle, arbiterVars
<1>2. CASE StartupTimer
  <2>1. UNCHANGED <<agentUp, goalPc, arbiterUp, motionMode, arbiterSeen, modeReplies>>
    BY <1>2 DEF StartupTimer, arbiterVars
  <2>2. CASE agent.startupIdle = "unsent" /\ arbiterSeen
    <3>1. Asks
      BY <1>2, <2>1, <2>2 DEF StartupTimer, Asks, MotionModes
    <3> QED
      BY <3>1, AsksKept
  <2>3. CASE ~(agent.startupIdle = "unsent" /\ arbiterSeen)
    <3>1. agent'.startupIdle = agent.startupIdle /\ UNCHANGED modeRequests
      BY <1>2, <1>a, <2>3 DEF StartupTimer, Agents
    <3> QED
      BY <2>1, <3>1, SilentKept DEF Silent, DriversGoOn
  <2> QED
    BY <2>2, <2>3
<1>3. CASE AgentRespawns
  <2>1. agent'.startupIdle = "unsent"
    BY <1>3 DEF AgentRespawns, OrphanInv, DeadIsFresh, FreshAgent
  <2> QED
    BY <1>3, <2>1, SilentKept DEF AgentRespawns, modeVars, arbiterVars, Silent, DriversGoOn
<1>4. CASE StartupIdleAnswered
  <2>1. agent.startupIdle # "unsent" /\ agent'.startupIdle = "sent"
    BY <1>4, <1>a DEF StartupIdleAnswered, ModeInv, StartupAsked, Agents
  <2>2. /\ UNCHANGED <<agentUp, goalPc, arbiterUp, motionMode, modeRequests, arbiterSeen>>
        /\ modeReplies' \subseteq modeReplies /\ agentUp
    BY <1>4 DEF StartupIdleAnswered, arbiterVars, Unlocked
  <2> QED
    BY <2>1, <2>2, SilentKept DEF Silent, DriversGoOn
<1>5. CASE \/ \E g \in Goals : ResultCallback(g)
           \/ StopClosesAuthorization \/ ExpiryClosesAuthorization \/ AuthorizationTimer
           \/ StartupCancelAnswered \/ LifecycleTimer \/ LifecycleReply
  <2>1. agent'.startupIdle = agent.startupIdle
    BY <1>5, <1>a DEF ResultCallback, ResultArrives, StopClosesAuthorization,
       ExpiryClosesAuthorization, AuthorizationTimer, AuthorizationComputed,
       AuthorizationPublished, StartupCancelAnswered, LifecycleTimer, PollLifecycle,
       LifecycleReply, LifecycleAnswered, Agents
  <2>2. UNCHANGED <<agentUp, goalPc, arbiterUp, motionMode, modeVars>>
    BY <1>5 DEF ResultCallback, ResultArrives, notAgent, StopClosesAuthorization,
       ExpiryClosesAuthorization, AuthorizationTimer, AuthorizationComputed,
       AuthorizationPublished, StartupCancelAnswered, LifecycleTimer, PollLifecycle,
       LifecycleReply, LifecycleAnswered, arbiterVars
  <2> QED
    BY <2>1, <2>2, SilentKept DEF Silent, DriversGoOn, modeVars
<1>6. CASE CheckLease
  <2>1. agent'.startupIdle = agent.startupIdle
    BY <1>6, <1>a DEF CheckLease, CheckFindsUnsafe, CheckMissesNav2, CheckGivesUpNav2,
       CheckFailsProgress, CheckPasses, CheckExpiresLease, RequestStop, Agents
  <2>2. UNCHANGED <<agentUp, goalPc, arbiterUp, motionMode, modeVars>>
    BY <1>6 DEF CheckLease, CheckFindsUnsafe, CheckMissesNav2, CheckGivesUpNav2,
       CheckFailsProgress, CheckPasses, CheckExpiresLease, notStop, notAgent, arbiterVars
  <2> QED
    BY <2>1, <2>2, SilentKept DEF Silent, DriversGoOn, modeVars
<1>7. CASE FleetAndSensors
  <2>1. agent'.startupIdle = agent.startupIdle
    BY <1>7, <1>a DEF FleetAndSensors, OnGoal, OnCancel, OnStatus, OnLease, Lapses,
       OnSetInitialPose, OnAmclPose, RequestStop, Agents
  <2>2. UNCHANGED <<agentUp, arbiterUp, motionMode, modeVars>>
    BY <1>7 DEF FleetAndSensors, OnGoal, OnCancel, OnStatus, OnLease, Lapses,
       OnSetInitialPose, OnAmclPose, notStop, notAgent, arbiterVars
  <2>3. \A g \in Goals : goalPc[g] \in Driving => goalPc'[g] \in Driving
    BY <1>7, <1>a DEF FleetAndSensors, OnGoal, OnCancel, OnStatus, OnLease, Lapses,
       OnSetInitialPose, OnAmclPose, notStop, notAgent, Driving
  <2> QED
    BY <2>1, <2>2, <2>3, SilentKept DEF Silent, DriversGoOn, modeVars
<1> QED
  BY <1>1, <1>2, <1>3, <1>4, <1>5, <1>6, <1>7
     DEF StopThread, ExpiryThread, Startup, StartupReplies, AgentRestart

\* The arbiter serves what was asked first, and loses it when it dies.
LEMMA ArbiterModes ==
  ASSUME StackTypeOK, ModeInv,
         \/ ArbiterServesMode \/ ArbiterHandlesAuthorization
         \/ \E c \in Motion : NavigationInput(c)
         \/ ArbiterTimerFires \/ StackTick \/ ArbiterVanishes \/ ArbiterRespawns
         \/ ArbiterDies
  PROVE  ModeInv'
<1>u. UNCHANGED threadVars
  BY DEF ArbiterServesMode, ArbiterHandlesAuthorization, NavigationInput, ArbiterTimerFires,
         StackTick, ArbiterVanishes, ArbiterRespawns, ArbiterDies, agentSideVars
<1>1. CASE ArbiterServesMode
  <2>1. modeRequests \in Seq(ModeRequests) /\ modeRequests # <<>>
    BY <1>1 DEF ArbiterServesMode, StackTypeOK, AgentTypeOK, ModeRequests
  <2>2. /\ modeRequests' = Tail(modeRequests) /\ motionMode' = Head(modeRequests).mode
        /\ modeReplies' \subseteq modeReplies \cup {Head(modeRequests).from}
        /\ UNCHANGED <<arbiterUp, arbiterSeen>> /\ arbiterUp
    BY <1>1 DEF ArbiterServesMode, OnSetMode
  <2>3. LastMode' = LastMode
    BY <2>1, <2>2, TailFacts DEF LastMode
  <2>4. StartupAsked'
    BY <1>u, <2>1, <2>2, TailFacts DEF threadVars, ModeInv, StartupAsked
  <2> QED
    BY <1>u, <2>2, <2>3, <2>4 DEF threadVars, ModeInv, SeenWhileUp, ModeIsOwned
<1>2. CASE \/ ArbiterHandlesAuthorization \/ \E c \in Motion : NavigationInput(c)
           \/ ArbiterTimerFires \/ StackTick
  <2>1. UNCHANGED <<arbiterUp, motionMode, modeVars>>
    BY <1>2 DEF ArbiterHandlesAuthorization, OnAuthorization, NavigationInput,
         OnNavigationCommand, ArbiterTimerFires, ArbiterOnTimer, StackTick, ArbiterTick,
         agentSideVars
  <2> QED
    BY <1>u, <2>1, SilentKept DEF threadVars, modeVars, Silent, DriversGoOn
<1>3. CASE ArbiterVanishes
  BY <1>u, <1>3 DEF ArbiterVanishes, threadVars, arbiterVars, ModeInv, SeenWhileUp, ModeIsOwned,
                    StartupAsked
<1>4. CASE ArbiterRespawns
  <2>1. LastMode' = DefaultMode
    BY <1>4 DEF ArbiterRespawns, ArbiterStart, ModeInv, SeenWhileUp, LastMode
  <2> QED
    BY <1>u, <1>4, <2>1, LaunchAssumption
       DEF ArbiterRespawns, ArbiterStart, threadVars, ModeInv, SeenWhileUp, ModeIsOwned,
           StartupAsked
<1>5. CASE ArbiterDies
  <2>1. DOMAIN <<>> = {}
    BY SMT
  <2> QED
    BY <1>u, <1>5, <2>1 DEF ArbiterDies, ArbiterEnd, threadVars, ModeInv, SeenWhileUp, ModeIsOwned,
                            StartupAsked
<1> QED
  BY <1>1, <1>2, <1>3, <1>4, <1>5

\* Every step keeps it.
LEMMA ModeStep ==
  ASSUME StackInv, OrphanInv, ModeInv, [StackNext]_stackVars
  PROVE  ModeInv'
<1>a. StackTypeOK
  BY DEF StackInv
<1>1. CASE \/ \E g \in Goals : Nav2AnswersGoal(g) \/ Nav2EndsGoal(g) \/ Nav2HonoursCancel(g)
           \/ Nav2Housekeeping \/ Nav2Restart \/ GraphForgetsNav2 \/ UNCHANGED stackVars
           \/ Nav2Dies /\ UNCHANGED <<threadVars, authSamples, modeVars, arbiterVars>>
  <2>1. Silent
    BY <1>1 DEF Nav2AnswersGoal, Nav2EndsGoal, Nav2HonoursCancel, Nav2Housekeeping, Nav2Restart,
         GraphForgetsNav2, notNav2, agentSideVars, stackVars, threadVars, modeVars, arbiterVars,
         Silent, DriversGoOn
  <2> QED
    BY <2>1, SilentKept
<1>2. CASE AgentDies
  <2>1. /\ ~agentUp' /\ agent' = FreshAgent /\ modeReplies' = {}
        /\ UNCHANGED <<arbiterUp, arbiterSeen>>
        /\ modeRequests' = [i \in DOMAIN modeRequests |->
                              [modeRequests[i] EXCEPT !.from = "nobody"]]
    BY <1>2 DEF AgentDies, arbiterVars
  <2>2. modeRequests = <<>> => modeRequests' = <<>>
    <3>1. DOMAIN <<>> = {}
      BY SMT
    <3>2. [i \in {} |-> [modeRequests[i] EXCEPT !.from = "nobody"]] = <<>>
      BY SMT
    <3> QED
      BY <2>1, <3>1, <3>2
  <2>3. \A i \in DOMAIN modeRequests' : modeRequests'[i].from # "startup"
    <3>1. modeRequests \in Seq(ModeRequests)
      BY <1>a DEF StackTypeOK, AgentTypeOK, ModeRequests
    <3>2. \A i \in DOMAIN modeRequests : modeRequests[i] \in ModeRequests
      BY <3>1, SMT
    <3> QED
      BY <2>1, <3>2 DEF ModeRequests
  <2> QED
    BY <2>1, <2>2, <2>3 DEF ModeInv, SeenWhileUp, ModeIsOwned, StartupAsked
<1>3. CASE Failure
  BY <1>a, <1>1, <1>2, <1>3, ArbiterModes DEF Failure
<1>4. CASE StackNext
  BY <1>a, <1>1, <1>3, <1>4, CoroutineModes, AgentModes, ArbiterModes DEF StackNext
<1> QED
  BY <1>1, <1>4

\* THEOREM: NAVIGATION is given back: an agent at rest, all requests served, has
\* not left the arbiter in it, whoever died or restarted and however the four
\* threads interleaved (_finish_goal, _request_stop, _startup_fail_closed).
THEOREM RestingHoldsNoMode == StackSpec => []RestingAgentHoldsNoMode
<1>1. StackInit => OrphanInv /\ ModeInv
  <2>1. StackInit => OrphanInv
    BY DEF StackInit, AgentInit, FreshAgent, Nav2Init, OrphanInv, DeadIsFresh, HandleIsHeld,
           SafeFirst, Nav2IsWatched, NoneLeft, InNav2
  <2>2. StackInit => ModeInv
    BY DEF StackInit, AgentInit, FreshAgent, ArbiterInit, ModeInv, SeenWhileUp, ModeIsOwned,
           StartupAsked
  <2> QED
    BY <2>1, <2>2
<1>2. StackInv /\ (OrphanInv /\ ModeInv) /\ [StackNext]_stackVars => (OrphanInv /\ ModeInv)'
  BY OrphanStep, ModeStep
<1>3. ModeInv => RestingAgentHoldsNoMode
  BY DEF ModeInv, ModeIsOwned, LastMode, Driving, RestingAgentHoldsNoMode
<1> QED
  BY <1>1, <1>2, <1>3, StackInvariant, PTL DEF StackSpec
=============================================================================
