------------------------ MODULE WatchdogLayers_proofs ------------------------
(***************************************************************************)
(* Proofs about the two watchdog layers, each alone (type correctness and  *)
(* that both implement NeutralGate) and connected: an e-stop overtakes     *)
(* motion already queued, and the base stops within the sum of the two     *)
(* timeouts, for every queue depth, timeout, limit and set of commands.    *)
(***************************************************************************)
EXTENDS WatchdogLayers, Topic_proofs

-----------------------------------------------------------------------------
(* The operators of Velocity. *)

\* The clamps and the sanitizer return commands within the limits.
LEMMA SanitizeLimits ==
  ASSUME NEW c \in Command
  PROVE  /\ Sanitize(c) \in Limited
         /\ IsFinite(c) => ClampAxes(c) \in Limited
         /\ Zero \in Limited
BY LimitsAssumption, SMT
   DEF Command, Axis, Sanitize, ClampSymmetric, ClampFinite, ClampAxes,
       Limited, IsFinite, Zero

\* A limited command is a command, and passes the guard unchanged.
LEMMA LimitedIsClamped ==
  ASSUME NEW c \in Limited
  PROVE  c \in Command /\ IsFinite(c) /\ ClampAxes(c) = c
BY LimitsAssumption, SMT
   DEF Limited, Command, Axis, IsFinite, ClampAxes, ClampFinite

\* Zero is a finite, neutral command.
LEMMA ZeroIsNeutral == IsFinite(Zero) /\ IsNeutral(Zero)
BY LimitsAssumption DEF Zero, IsFinite, IsNeutral, Within

\* What the policy publishes, the guard takes as commands.
LEMMA GuardInputsAreCommands == GuardInputs \subseteq Command
BY LimitedIsClamped, InputsAssumption DEF GuardInputs

-----------------------------------------------------------------------------
(* The policy node. *)

\* Every step of the policy node keeps its type invariant.
LEMMA PolicyStepTyped ==
  ASSUME PolicyTypeOK, [PolicyNext]_policyVars
  PROVE  PolicyTypeOK'
<1> USE DEF PolicyTypeOK
<1>a. /\ 0 \in 0..Expired(PolicyTimeout)
      /\ Expired(PolicyTimeout) \in 0..Expired(PolicyTimeout)
  BY PolicyAssumption, SMT DEF Expired
<1>z. Zero \in Limited  BY LimitsAssumption DEF Zero, Limited
<1>1. ASSUME NEW c \in Inputs, PolicyOnCommand(c) PROVE PolicyTypeOK'
  <2>1. Sanitize(c) \in Limited  BY SanitizeLimits, InputsAssumption
  <2> QED  BY <1>1, <1>a, <1>z, <2>1, Zenon DEF PolicyOnCommand
<1>2. CASE PolicyOnTimer
  BY <1>2, <1>z DEF PolicyOnTimer, TimerMode, Modes
<1>3. ASSUME NEW data \in BOOLEAN, PolicyOnSetEstop(data) PROVE PolicyTypeOK'
  <2>1. safetyStatus' \in Statuses
    BY <1>3, Zenon DEF PolicyOnSetEstop, PublishStatus, StatusOf, Statuses, Modes
  <2> QED  BY <1>3, <1>a, <1>z, <2>1 DEF PolicyOnSetEstop, Forget, Modes
<1>4. CASE PolicyOnGuardRestart
  <2>1. currentMode' \in Modes  BY <1>4 DEF PolicyOnGuardRestart, Modes
  <2>2. safetyStatus' \in Statuses
    BY <1>4, <2>1, Zenon DEF PolicyOnGuardRestart, PublishStatus, StatusOf, Statuses
  <2> QED  BY <1>4, <1>a, <1>z, <2>1, <2>2 DEF PolicyOnGuardRestart, Forget
<1>5. CASE PolicyOnStatusTimer
  <2>1. safetyStatus' \in Statuses
    BY <1>5, Zenon DEF PolicyOnStatusTimer, StatusOf, Statuses
  <2> QED  BY <1>5, <2>1 DEF PolicyOnStatusTimer
<1>6. CASE PolicyStart
  <2>1. safetyStatus' \in Statuses
    BY <1>6, Zenon DEF PolicyStart, PublishStatus, StatusOf, Statuses, Modes
  <2> QED  BY <1>6, <1>a, <1>z, <2>1 DEF PolicyStart, Forget, Modes
<1>7. ASSUME NEW lastStop \in BOOLEAN, PolicyEnd(lastStop) PROVE PolicyTypeOK'
  BY <1>7, <1>z DEF PolicyEnd
<1>8. CASE PolicyTick
  <2>1. commandAge' \in 0..Expired(PolicyTimeout)
    BY <1>8, PolicyAssumption, SMT DEF PolicyTick, Older, Fresh, Expired
  <2> QED  BY <1>8, <2>1 DEF PolicyTick
<1>9. CASE UNCHANGED policyVars
  BY <1>9 DEF policyVars
<1> QED  BY <1>1, <1>2, <1>3, <1>4, <1>5, <1>6, <1>7, <1>8, <1>9 DEF PolicyNext

\* THEOREM: every reachable state of the policy node is well typed; what it
\* holds and publishes is within the velocity limits (_on_command, _on_timer).
THEOREM PolicyTyped == PolicySpec => []PolicyTypeOK
<1>1. PolicyInit => PolicyTypeOK
  <2>z. Zero \in Limited  BY LimitsAssumption DEF Zero, Limited
  <2>a. Expired(PolicyTimeout) \in 0..Expired(PolicyTimeout)
    BY PolicyAssumption, SMT DEF Expired
  <2>1. StatusOf("WAITING_NEUTRAL", FALSE, TRUE) \in Statuses
    BY Zenon DEF StatusOf, Statuses, Modes
  <2> QED  BY <2>z, <2>a, <2>1 DEF PolicyInit, PolicyTypeOK, Modes
<1>2. PolicyTypeOK /\ [PolicyNext]_policyVars => PolicyTypeOK'
  BY PolicyStepTyped
<1> QED  BY <1>1, <1>2, PTL DEF PolicySpec

\* Every step of the policy node is a step of the gate, or leaves it alone.
LEMMA PolicyStepsAsGate ==
  ASSUME PolicyTypeOK, [PolicyNext]_policyVars
  PROVE  [PolicyGate!GateNext]_(PolicyGate!gateVars)
<1> USE DEF PolicyTypeOK, PolicyGateOf, PolicyGate!gateVars,
        PolicyGate!GateNext, Expired, Fresh
<1>z. Zero \in Limited  BY LimitsAssumption DEF Zero, Limited
<1>1. ASSUME NEW c \in Inputs, PolicyOnCommand(c)
      PROVE  [PolicyGate!GateNext]_(PolicyGate!gateVars)
  <2>1. Sanitize(c) \in Limited  BY SanitizeLimits, InputsAssumption
  <2>2. CASE ~estopActive /\ awaitingNeutral /\ IsNeutral(c)
    BY <1>1, <2>2 DEF PolicyOnCommand, PolicyGate!Open
  <2>3. CASE ~estopActive /\ ~awaitingNeutral
    BY <1>1, <2>1, <2>3 DEF PolicyOnCommand, PolicyGate!Accept
  <2>4. CASE estopActive \/ (awaitingNeutral /\ ~IsNeutral(c))
    BY <1>1, <2>4 DEF PolicyOnCommand
  <2> QED  BY <2>2, <2>3, <2>4
<1>2. CASE PolicyOnTimer
  BY <1>2 DEF PolicyOnTimer, TimerMode, PolicyGate!Emit
<1>3. ASSUME NEW data \in BOOLEAN, PolicyOnSetEstop(data)
      PROVE  [PolicyGate!GateNext]_(PolicyGate!gateVars)
  BY <1>3 DEF PolicyOnSetEstop, Forget, PolicyGate!Close
<1>4. CASE PolicyOnGuardRestart
  BY <1>4 DEF PolicyOnGuardRestart, Forget, PolicyGate!Close
<1>5. CASE PolicyOnStatusTimer
  BY <1>5 DEF PolicyOnStatusTimer
<1>6. CASE PolicyStart
  BY <1>6 DEF PolicyStart, Forget, PolicyGate!Close
<1>7. ASSUME NEW lastStop \in BOOLEAN, PolicyEnd(lastStop)
      PROVE  [PolicyGate!GateNext]_(PolicyGate!gateVars)
  BY <1>7 DEF PolicyEnd, PolicyGate!Die
<1>8. CASE PolicyTick
  BY <1>8 DEF PolicyTick, Older, PolicyGate!Age
<1>9. CASE UNCHANGED policyVars
  BY <1>9 DEF policyVars
<1> QED  BY <1>1, <1>2, <1>3, <1>4, <1>5, <1>6, <1>7, <1>8, <1>9 DEF PolicyNext

\* THEOREM: the Python policy node implements the abstract gate for every
\* timeout, limit and set of incoming commands.
THEOREM PolicyImplementsGate == PolicySpec => PolicyIsNeutralGate
<1>1. PolicyInit => PolicyGate!GateInit
  BY DEF PolicyInit, PolicyGate!GateInit, PolicyGateOf, Expired
<1>2. PolicyTypeOK /\ [PolicyNext]_policyVars
        => [PolicyGate!GateNext]_(PolicyGate!gateVars)
  BY PolicyStepsAsGate
<1> QED
  BY <1>1, <1>2, PolicyTyped, PTL DEF PolicySpec, PolicyIsNeutralGate, PolicyGate!GateSpec

-----------------------------------------------------------------------------
(* The C++ guard. *)

\* Every step of the guard keeps its type invariant.
LEMMA GuardStepTyped ==
  ASSUME GuardTypeOK, [GuardNext]_guardVars
  PROVE  GuardTypeOK'
<1> USE DEF GuardTypeOK
<1>a. 0 \in 0..Expired(GuardTimeout)  BY GuardAssumption, SMT DEF Expired
<1>z. Zero \in Limited  BY LimitsAssumption DEF Zero, Limited
<1>1. ASSUME NEW c \in GuardInputs, GuardOnCommand(c) PROVE GuardTypeOK'
  <2>1. IsFinite(c) => ClampAxes(c) \in Limited
    BY SanitizeLimits, GuardInputsAreCommands
  <2>2. CASE guardAwaiting
    BY <1>1, <1>a, <1>z, <2>2 DEF GuardOnCommand
  <2>3. CASE ~guardAwaiting /\ IsFinite(c)
    BY <1>1, <1>a, <2>1, <2>3 DEF GuardOnCommand
  <2>4. CASE ~guardAwaiting /\ ~IsFinite(c)
    BY <1>1, <2>4 DEF GuardOnCommand
  <2> QED  BY <2>2, <2>3, <2>4
<1>2. CASE GuardOnTimer
  BY <1>2, <1>z DEF GuardOnTimer
<1>3. CASE GuardStart
  BY <1>3, <1>a, <1>z DEF GuardStart
<1>4. ASSUME NEW lastStop \in BOOLEAN, GuardEnd(lastStop) PROVE GuardTypeOK'
  BY <1>4, <1>z DEF GuardEnd
<1>5. CASE GuardTick
  <2>1. guardAge' \in 0..Expired(GuardTimeout)
    BY <1>5, GuardAssumption, SMT DEF GuardTick, Older, Fresh, Expired
  <2> QED  BY <1>5, <2>1 DEF GuardTick
<1>6. CASE UNCHANGED guardVars
  BY <1>6 DEF guardVars
<1> QED  BY <1>1, <1>2, <1>3, <1>4, <1>5, <1>6 DEF GuardNext

\* And that a guard awaiting neutral holds no command.
LEMMA GuardStepInv ==
  ASSUME GuardInv, [GuardNext]_guardVars
  PROVE  GuardInv'
<1>t. GuardTypeOK'  BY GuardStepTyped DEF GuardInv
<1>1. (guardAwaiting => ~haveCommand)'
  BY Zenon DEF GuardInv, GuardNext, GuardOnCommand, GuardOnTimer, GuardStart,
               GuardEnd, GuardTick, guardVars
<1> QED  BY <1>t, <1>1 DEF GuardInv

\* THEOREM: every reachable state of the guard is well typed, so /cmd_vel always
\* carries a finite command within the limits, and an unarmed guard holds no
\* command (on_command, on_timer).
THEOREM GuardInvariant == GuardSpec => []GuardInv
<1>1. GuardInit => GuardInv
  <2>z. Zero \in Limited  BY LimitsAssumption DEF Zero, Limited
  <2>a. 0 \in 0..Expired(GuardTimeout)  BY GuardAssumption, SMT DEF Expired
  <2> QED  BY <2>z, <2>a DEF GuardInit, GuardInv, GuardTypeOK
<1>2. GuardInv /\ [GuardNext]_guardVars => GuardInv'
  BY GuardStepInv
<1> QED  BY <1>1, <1>2, PTL DEF GuardSpec

\* Every step of the guard is a step of NeutralGate or a stutter.
LEMMA GuardStepsAsGate ==
  ASSUME GuardInv, [GuardNext]_guardVars
  PROVE  [GuardGate!GateNext]_(GuardGate!gateVars)
<1> USE DEF GuardInv, GuardTypeOK, GuardGateOf, GuardGate!gateVars,
        GuardGate!GateNext, Expired, Fresh
<1>1. ASSUME NEW c \in GuardInputs, GuardOnCommand(c)
      PROVE  [GuardGate!GateNext]_(GuardGate!gateVars)
  <2>1. IsFinite(c) => ClampAxes(c) \in Limited
    BY SanitizeLimits, GuardInputsAreCommands
  <2>2. CASE guardAwaiting /\ IsNeutral(c)
    BY <1>1, <2>2 DEF GuardOnCommand, GuardGate!Open
  <2>3. CASE guardAwaiting /\ ~IsNeutral(c)
    <3>1. UNCHANGED <<guardUp, guardAwaiting, guardCommand, haveCommand, guardAge, cmdVel>>
      BY <1>1, <2>3 DEF GuardOnCommand
    <3> QED  BY <3>1, Zenon
  <2>4. CASE ~guardAwaiting /\ IsFinite(c)
    BY <1>1, <2>1, <2>4 DEF GuardOnCommand, GuardGate!Accept
  <2>5. CASE ~guardAwaiting /\ ~IsFinite(c)
    BY <1>1, <2>5 DEF GuardOnCommand, GuardGate!Withdraw
  <2> QED  BY <2>2, <2>3, <2>4, <2>5
<1>2. CASE GuardOnTimer
  <2>1. GuardFresh <=> (IF haveCommand THEN guardAge ELSE GuardTimeout + 1) =< GuardTimeout
    BY GuardAssumption DEF GuardFresh
  <2>2. guardAwaiting => ~GuardFresh  BY DEF GuardFresh
  <2> QED  BY <1>2, <2>1, <2>2 DEF GuardOnTimer, GuardGate!Emit
<1>3. CASE GuardStart
  BY <1>3 DEF GuardStart, GuardGate!Close
<1>4. ASSUME NEW lastStop \in BOOLEAN, GuardEnd(lastStop)
      PROVE  [GuardGate!GateNext]_(GuardGate!gateVars)
  BY <1>4 DEF GuardEnd, GuardGate!Die
<1>5. CASE GuardTick
  BY <1>5 DEF GuardTick, Older, GuardGate!Age
<1>6. CASE UNCHANGED guardVars
  BY <1>6 DEF guardVars
<1> QED  BY <1>1, <1>2, <1>3, <1>4, <1>5, <1>6 DEF GuardNext

\* THEOREM: the C++ guard implements the same abstract gate.
THEOREM GuardImplementsGate == GuardSpec => GuardIsNeutralGate
<1>1. GuardInit => GuardGate!GateInit
  BY DEF GuardInit, GuardGate!GateInit, GuardGateOf, Expired
<1>2. GuardInv /\ [GuardNext]_guardVars
        => [GuardGate!GateNext]_(GuardGate!gateVars)
  BY GuardStepsAsGate
<1> QED
  BY <1>1, <1>2, GuardInvariant, PTL DEF GuardSpec, GuardIsNeutralGate, GuardGate!GateSpec

-----------------------------------------------------------------------------
(* Typing of the composition. *)

\* What the policy publishes keeps the guard's queue typed and bounded.
LEMMA PublishToGuard ==
  ASSUME LayersTypeOK, PolicyTypeOK', PolicyPublishes
  PROVE  watchdogCmd' \in Seq(Limited) /\ Len(watchdogCmd') =< Depth
<1>1. CASE guardUp
  BY <1>1, PublishFacts DEF PolicyPublishes, LayersTypeOK, ChannelTypeOK, PolicyTypeOK
<1>2. CASE ~guardUp
  <2>1. <<>> \in Seq(Limited) /\ Len(<<>>) =< Depth  BY DepthAssumption, SMT
  <2> QED  BY <1>2, <2>1 DEF PolicyPublishes
<1> QED  BY <1>1, <1>2

\* A step of the composition is a step of each node, or leaves it alone.
LEMMA LayersStepByNode ==
  ASSUME LayersTypeOK, [LayersNext]_layerVars
  PROVE  [PolicyNext]_policyVars /\ [GuardNext]_guardVars
<1> USE DEF LayersTypeOK, ChannelTypeOK
<1>1. ASSUME PolicyHandlesCommand PROVE [PolicyNext]_policyVars /\ UNCHANGED guardVars
  <2>1. Head(cmdVelIn) \in Inputs
    BY <1>1, TailFacts DEF PolicyHandlesCommand
  <2> QED  BY <1>1, <2>1 DEF PolicyHandlesCommand, PolicyNext
<1>2. ASSUME GuardHandlesCommand PROVE [GuardNext]_guardVars /\ UNCHANGED policyVars
  <2>1. Head(watchdogCmd) \in GuardInputs
    BY <1>2, TailFacts DEF GuardHandlesCommand, GuardInputs
  <2> QED  BY <1>2, <2>1 DEF GuardHandlesCommand, GuardNext
<1>3. CASE \/ \E c \in Inputs : SourcePublishes(c)
           \/ PolicyTimerFires
           \/ \E data \in BOOLEAN : EstopCalled(data)
           \/ PolicyHandlesGuardRestart
           \/ StatusTimerFires
  BY <1>3 DEF SourcePublishes, PolicyTimerFires, EstopCalled,
       PolicyHandlesGuardRestart, StatusTimerFires, PolicyNext
<1>4. CASE PolicyDies \/ PolicyRespawns
  BY <1>4 DEF PolicyDies, PolicyRespawns, PolicyNext
<1>5. CASE GuardTimerFires \/ GuardDies \/ GuardRespawns
  BY <1>5 DEF GuardTimerFires, GuardDies, GuardRespawns, GuardNext
<1>6. CASE Tick
  BY <1>6 DEF Tick, PolicyNext, GuardNext
<1>7. CASE UNCHANGED layerVars
  BY <1>7 DEF layerVars
<1> QED  BY <1>1, <1>2, <1>3, <1>4, <1>5, <1>6, <1>7 DEF LayersNext

\* Every step of the composition keeps its type invariant.
LEMMA LayersStepTyped ==
  ASSUME LayersTypeOK, [LayersNext]_layerVars
  PROVE  LayersTypeOK'
<1>p. PolicyTypeOK'  BY LayersStepByNode, PolicyStepTyped DEF LayersTypeOK
<1>g. GuardTypeOK'  BY LayersStepByNode, GuardStepTyped DEF LayersTypeOK
<1>e. /\ <<>> \in Seq(Inputs) /\ <<>> \in Seq(Limited) /\ Len(<<>>) =< Depth
      /\ 0 \in 0..Expired(StopBound) /\ StopBound \in Nat
  BY DepthAssumption, PolicyAssumption, GuardAssumption, SMT DEF StopBound, Expired
<1> SUFFICES ChannelTypeOK'  BY <1>p, <1>g DEF LayersTypeOK
<1> USE DEF ChannelTypeOK
<1>t. ChannelTypeOK  BY DEF LayersTypeOK
<1>1. ASSUME NEW c \in Inputs, SourcePublishes(c) PROVE ChannelTypeOK'
  <2>1. cmdVelIn' \in Seq(Inputs) /\ Len(cmdVelIn') =< Depth
    BY <1>1, <1>e, <1>t, PublishFacts DEF SourcePublishes
  <2> QED  BY <1>1, <1>e, <1>t, <2>1 DEF SourcePublishes
<1>2. CASE PolicyHandlesCommand
  <2>1. cmdVelIn' \in Seq(Inputs) /\ Len(cmdVelIn') =< Depth
    <3>1. /\ cmdVelIn # <<>> /\ cmdVelIn' = Tail(cmdVelIn)
          /\ cmdVelIn \in Seq(Inputs) /\ Len(cmdVelIn) =< Depth
      BY <1>2, <1>t DEF PolicyHandlesCommand
    <3> QED  BY <3>1, DepthAssumption, SMT
  <2> QED  BY <1>2, <1>t, <2>1 DEF PolicyHandlesCommand
<1>3. CASE PolicyTimerFires
  BY <1>3, <1>p, <1>t, PublishToGuard DEF PolicyTimerFires
<1>4. ASSUME NEW data \in BOOLEAN, EstopCalled(data) PROVE ChannelTypeOK'
  BY <1>4, <1>p, <1>t, PublishToGuard DEF EstopCalled
<1>5. CASE PolicyHandlesGuardRestart
  BY <1>5, <1>p, <1>t, PublishToGuard DEF PolicyHandlesGuardRestart
<1>6. CASE StatusTimerFires
  BY <1>6, <1>t DEF StatusTimerFires, channelVars
<1>7. CASE PolicyDies
  BY <1>7, <1>e, <1>p, <1>t, PublishToGuard DEF PolicyDies
<1>8. CASE PolicyRespawns
  BY <1>8, <1>e, <1>p, <1>t, PublishToGuard DEF PolicyRespawns, LayersTypeOK, GuardTypeOK
<1>9. CASE GuardHandlesCommand
  <2>1. watchdogCmd' \in Seq(Limited) /\ Len(watchdogCmd') =< Depth
    <3>1. /\ watchdogCmd # <<>> /\ watchdogCmd' = Tail(watchdogCmd)
          /\ watchdogCmd \in Seq(Limited) /\ Len(watchdogCmd) =< Depth
      BY <1>9, <1>t DEF GuardHandlesCommand
    <3> QED  BY <3>1, DepthAssumption, SMT
  <2> QED  BY <1>9, <1>t, <2>1 DEF GuardHandlesCommand
<1>10. CASE GuardTimerFires
  BY <1>10, <1>t DEF GuardTimerFires
<1>11. CASE GuardDies
  BY <1>11, <1>e, <1>t DEF GuardDies
<1>12. CASE GuardRespawns
  BY <1>12, <1>e, <1>t DEF GuardRespawns, LayersTypeOK, PolicyTypeOK
<1>13. CASE Tick
  <2>1. sourceAge' \in 0..Expired(StopBound)
    <3>1. \A a \in 0..Expired(StopBound) : Older(a, StopBound) \in 0..Expired(StopBound)
      BY <1>e, SMT DEF Older, Fresh, Expired
    <3> QED  BY <1>13, <1>t, <3>1 DEF Tick
  <2> QED  BY <1>13, <1>t, <2>1 DEF Tick
<1>14. CASE UNCHANGED layerVars
  BY <1>14, <1>t DEF layerVars, channelVars
<1> QED
  BY <1>1, <1>2, <1>3, <1>4, <1>5, <1>6, <1>7, <1>8, <1>9, <1>10, <1>11, <1>12,
     <1>13, <1>14 DEF LayersNext
-----------------------------------------------------------------------------
(* What a closed endpoint receives, and the e-stop. *)

\* A topic whose reader is down stays empty.
LEMMA NobodyListensStep ==
  ASSUME LayersTypeOK, NobodyListens, [LayersNext]_layerVars
  PROVE  NobodyListens'
<1> USE DEF NobodyListens, PolicyPublishes
<1>1. ASSUME NEW c \in Inputs, SourcePublishes(c) PROVE NobodyListens'
  BY <1>1 DEF SourcePublishes, policyVars, guardVars
<1>2. CASE PolicyHandlesCommand
  BY <1>2 DEF PolicyHandlesCommand, PolicyOnCommand, guardVars
<1>3. CASE PolicyTimerFires
  BY <1>3 DEF PolicyTimerFires, PolicyOnTimer, guardVars
<1>4. ASSUME NEW data \in BOOLEAN, EstopCalled(data) PROVE NobodyListens'
  BY <1>4 DEF EstopCalled, PolicyOnSetEstop, guardVars
<1>5. CASE PolicyHandlesGuardRestart
  BY <1>5 DEF PolicyHandlesGuardRestart, PolicyOnGuardRestart, guardVars
<1>6. CASE StatusTimerFires
  BY <1>6 DEF StatusTimerFires, PolicyOnStatusTimer, guardVars, channelVars
<1>7. CASE PolicyDies
  BY <1>7 DEF PolicyDies, guardVars
<1>8. CASE PolicyRespawns
  BY <1>8 DEF PolicyRespawns, guardVars
<1>9. CASE GuardHandlesCommand
  BY <1>9 DEF GuardHandlesCommand, GuardOnCommand, policyVars
<1>10. CASE GuardTimerFires
  BY <1>10 DEF GuardTimerFires, GuardOnTimer, policyVars
<1>11. CASE GuardDies
  BY <1>11 DEF GuardDies, policyVars
<1>12. CASE GuardRespawns
  BY <1>12 DEF GuardRespawns, GuardStart, policyVars
<1>13. CASE Tick
  BY <1>13 DEF Tick, PolicyTick, GuardTick
<1>14. CASE UNCHANGED layerVars
  BY <1>14 DEF layerVars, policyVars, guardVars, channelVars
<1> QED
  BY <1>1, <1>2, <1>3, <1>4, <1>5, <1>6, <1>7, <1>8, <1>9, <1>10, <1>11, <1>12,
     <1>13, <1>14 DEF LayersNext

\* What the policy publishes becomes the newest sample of a listening guard.
LEMMA PublishedIsNewest ==
  ASSUME LayersTypeOK, PolicyTypeOK', PolicyPublishes, guardUp
  PROVE  watchdogCmd' # <<>> /\ Newest(watchdogCmd') = policyOut'
BY PublishFacts DEF PolicyPublishes, LayersTypeOK, ChannelTypeOK, PolicyTypeOK

\* A step under an engaged e-stop leaves a stop behind every queued motion.
LEMMA EstopStep ==
  ASSUME LayersTypeOK, NobodyListens, EstopOvertakesMotion, [LayersNext]_layerVars
  PROVE  EstopOvertakesMotion'
<1>t. PolicyTypeOK' /\ GuardTypeOK'
  BY LayersStepByNode, PolicyStepTyped, GuardStepTyped DEF LayersTypeOK
<1>q. watchdogCmd \in Seq(Limited)  BY DEF LayersTypeOK, ChannelTypeOK
<1> SUFFICES ASSUME policyUp', estopActive', guardUp'
             PROVE  \/ watchdogCmd' # <<>> /\ Newest(watchdogCmd') = Zero
                    \/ watchdogCmd' = <<>> /\ (guardCommand' = Zero \/ ~GuardFresh')
  BY DEF EstopOvertakesMotion
<1> DEFINE Covered == \/ watchdogCmd # <<>> /\ Newest(watchdogCmd) = Zero
                      \/ watchdogCmd = <<>> /\ (guardCommand = Zero \/ ~GuardFresh)
<1>s. (policyUp /\ estopActive /\ guardUp) => Covered  BY DEF EstopOvertakesMotion
<1> HIDE DEF Covered
<1>n. ASSUME policyUp, estopActive, guardUp, UNCHANGED <<guardVars, watchdogCmd>>
      PROVE  Covered'
  BY <1>n, <1>s DEF Covered, guardVars, GuardFresh
<1> SUFFICES Covered'  BY DEF Covered
<1>z. ASSUME PolicyPublishes, policyOut' = Zero, guardUp PROVE Covered'
  BY <1>z, <1>t, PublishedIsNewest DEF Covered
<1>1. ASSUME NEW c \in Inputs, SourcePublishes(c) PROVE Covered'
  BY <1>1, <1>n DEF SourcePublishes, policyVars, guardVars
<1>2. CASE PolicyHandlesCommand
  BY <1>2, <1>n DEF PolicyHandlesCommand, PolicyOnCommand, guardVars
<1>3. CASE PolicyTimerFires
  <2>1. policyOut' = Zero /\ guardUp /\ PolicyPublishes
    BY <1>3 DEF PolicyTimerFires, PolicyOnTimer, TimerMode, guardVars
  <2> QED  BY <1>z, <2>1
<1>4. ASSUME NEW data \in BOOLEAN, EstopCalled(data) PROVE Covered'
  BY <1>4, <1>z DEF EstopCalled, PolicyOnSetEstop, guardVars
<1>5. CASE PolicyHandlesGuardRestart
  BY <1>5, <1>z DEF PolicyHandlesGuardRestart, PolicyOnGuardRestart, guardVars
<1>6. CASE StatusTimerFires
  BY <1>6, <1>n DEF StatusTimerFires, PolicyOnStatusTimer, guardVars, channelVars
<1>7. CASE PolicyDies
  BY <1>7 DEF PolicyDies, PolicyEnd
<1>8. CASE PolicyRespawns
  BY <1>8 DEF PolicyRespawns, PolicyStart
<1>9. CASE GuardHandlesCommand
  <2>0. policyUp /\ estopActive /\ guardUp /\ watchdogCmd # <<>>
    BY <1>9 DEF GuardHandlesCommand, GuardOnCommand, policyVars
  <2>1. Newest(watchdogCmd) = Zero  BY <2>0, <1>s DEF Covered
  <2>2. CASE watchdogCmd' # <<>>
    BY <1>9, <1>q, <2>0, <2>1, <2>2, TailFacts DEF GuardHandlesCommand, Covered
  <2>3. CASE watchdogCmd' = <<>>
    <3>1. Head(watchdogCmd) = Zero /\ Zero \in Limited
      BY <1>9, <1>q, <2>0, <2>1, <2>3, TailFacts DEF GuardHandlesCommand
    <3>2. ClampAxes(Zero) = Zero /\ IsNeutral(Zero) /\ IsFinite(Zero)
      BY <3>1, LimitedIsClamped, ZeroIsNeutral
    <3>3. GuardOnCommand(Zero)  BY <1>9, <3>1 DEF GuardHandlesCommand
    <3>4. guardCommand' = Zero  BY <3>2, <3>3 DEF GuardOnCommand
    <3> QED  BY <2>3, <3>4 DEF Covered
  <2> QED  BY <2>2, <2>3
<1>10. CASE GuardTimerFires
  BY <1>10, <1>s DEF GuardTimerFires, GuardOnTimer, policyVars, Covered, GuardFresh
<1>11. CASE GuardDies
  BY <1>11 DEF GuardDies, GuardEnd
<1>12. CASE GuardRespawns
  BY <1>12 DEF GuardRespawns, GuardStart, Covered
<1>13. CASE Tick
  <2>1. Fresh(guardAge', GuardTimeout) => Fresh(guardAge, GuardTimeout)
    BY <1>13, GuardAssumption, SMT DEF Tick, GuardTick, Older, Fresh, LayersTypeOK,
       GuardTypeOK, Expired
  <2> QED  BY <1>13, <1>s, <2>1 DEF Tick, GuardTick, PolicyTick, Covered, GuardFresh
<1>14. CASE UNCHANGED layerVars
  BY <1>14, <1>n DEF layerVars, policyVars, guardVars, channelVars
<1> QED
  BY <1>1, <1>2, <1>3, <1>4, <1>5, <1>6, <1>7, <1>8, <1>9, <1>10, <1>11, <1>12,
     <1>13, <1>14 DEF LayersNext
-----------------------------------------------------------------------------
(* How old the request behind a command can be. *)

\* A sample that replaces nothing newer keeps the age facts of the queue.
LEMMA PublishedRequestAges ==
  ASSUME LayersTypeOK, PolicyTypeOK', RequestAges, PolicyPublishes,
         policyOut' # Zero => sourceAge =< PolicyTimeout
  PROVE  \A i \in DOMAIN watchdogCmd' : watchdogCmd'[i] # Zero => sourceAge =< PolicyTimeout
<1>1. CASE guardUp
  BY <1>1, PublishFacts
     DEF PolicyPublishes, RequestAges, LayersTypeOK, ChannelTypeOK, PolicyTypeOK
<1>2. CASE ~guardUp
  <2>1. DOMAIN (<<>>) = {}  BY SMT
  <2> QED  BY <1>2, <2>1 DEF PolicyPublishes
<1> QED  BY <1>1, <1>2

\* A command grows no older on its way than the timeouts it passed.
LEMMA RequestAgesStep ==
  ASSUME LayersInv, Punctual, [LayersNext]_layerVars
  PROVE  RequestAges'
<1> USE PolicyAssumption, GuardAssumption
<1>i. LayersTypeOK /\ NobodyListens /\ RequestAges  BY DEF LayersInv
<1>t. PolicyTypeOK /\ GuardTypeOK /\ ChannelTypeOK  BY <1>i DEF LayersTypeOK
<1>p. PolicyTypeOK' /\ GuardTypeOK'
  BY <1>i, LayersStepByNode, PolicyStepTyped, GuardStepTyped DEF LayersTypeOK
<1>n. /\ commandAge \in Nat /\ guardAge \in Nat /\ sourceAge \in Nat
      /\ StopBound = PolicyTimeout + GuardTimeout + 1
  BY <1>t, SMT DEF PolicyTypeOK, GuardTypeOK, ChannelTypeOK, StopBound, Expired
<1>e. DOMAIN (<<>>) = {}  BY SMT
<1> DEFINE A == \A i \in DOMAIN cmdVelIn : Drives(cmdVelIn[i]) => sourceAge = 0
           B == (lastCommand # Zero /\ Fresh(commandAge, PolicyTimeout)) => sourceAge =< commandAge
           C == \A i \in DOMAIN watchdogCmd : watchdogCmd[i] # Zero => sourceAge =< PolicyTimeout
           D == (guardCommand # Zero /\ GuardFresh) => sourceAge =< PolicyTimeout + guardAge
           E == (guardUp /\ cmdVel # Zero) =>
                  sourceAge =< IF "guard" \in due THEN StopBound ELSE PolicyTimeout + GuardTimeout
<1>r. A /\ B /\ C /\ D /\ E  BY <1>i DEF RequestAges
<1> SUFFICES A' /\ B' /\ C' /\ D' /\ E'  BY DEF RequestAges
<1>1. ASSUME NEW c \in Inputs, SourcePublishes(c) PROVE A' /\ B' /\ C' /\ D' /\ E'
  <2>1. UNCHANGED <<policyVars, guardVars, watchdogCmd, due>>
    BY <1>1 DEF SourcePublishes
  <2>2. CASE Drives(c)
    <3>1. sourceAge' = 0  BY <1>1, <2>2 DEF SourcePublishes
    <3>2. 0 =< commandAge /\ 0 =< PolicyTimeout /\ 0 =< PolicyTimeout + guardAge
          /\ 0 =< StopBound /\ 0 =< PolicyTimeout + GuardTimeout
      BY <1>n, SMT
    <3> QED  BY <2>1, <3>1, <3>2 DEF policyVars, guardVars
  <2>3. CASE ~Drives(c)
    <3>1. sourceAge' = sourceAge  BY <1>1, <2>3 DEF SourcePublishes
    <3>2. A'
      <4>1. CASE policyUp
        <5>1. cmdVelIn' = Publish(cmdVelIn, c) /\ cmdVelIn \in Seq(Inputs) /\ Len(cmdVelIn) =< Depth
          BY <1>1, <1>t, <4>1 DEF SourcePublishes, ChannelTypeOK
        <5>2. \A i \in DOMAIN cmdVelIn' :
                cmdVelIn'[i] = c \/ \E j \in DOMAIN cmdVelIn : cmdVelIn'[i] = cmdVelIn[j]
          BY <5>1, PublishFacts
        <5> QED  BY <1>r, <2>3, <3>1, <5>2, Zenon
      <4>2. CASE ~policyUp
        BY <1>1, <1>e, <4>2 DEF SourcePublishes
      <4> QED  BY <4>1, <4>2
    <3> QED  BY <1>r, <2>1, <3>1, <3>2 DEF policyVars, guardVars, GuardFresh
  <2> QED  BY <2>2, <2>3
<1>2. CASE PolicyHandlesCommand
  <2>1. PICK c \in Inputs : c = Head(cmdVelIn) /\ PolicyOnCommand(c) /\ (Drives(c) => sourceAge = 0)
    BY <1>2, <1>r, <1>t, TailFacts DEF PolicyHandlesCommand, ChannelTypeOK
  <2>2. A'
    BY <1>2, <1>r, <1>t, TailFacts DEF PolicyHandlesCommand, ChannelTypeOK
  <2>3. B'
    <3>1. \/ UNCHANGED <<lastCommand, commandAge>>
          \/ lastCommand' = Zero
          \/ lastCommand' = Sanitize(c) /\ commandAge' = 0
      BY <2>1 DEF PolicyOnCommand
    <3>2. CASE lastCommand' = Sanitize(c) /\ commandAge' = 0
      <4>1. lastCommand' # Zero => sourceAge' =< 0
        BY <1>2, <1>n, <2>1, <3>2 DEF Drives, PolicyHandlesCommand
      <4> QED  BY <3>2, <4>1
    <3> QED  BY <1>2, <1>r, <3>1, <3>2 DEF PolicyHandlesCommand
  <2>4. C' /\ D' /\ E'
    BY <1>2, <1>r DEF PolicyHandlesCommand, guardVars, GuardFresh
  <2> QED  BY <2>2, <2>3, <2>4
<1>3. CASE PolicyTimerFires
  <2>1. policyOut' # Zero => sourceAge =< PolicyTimeout
    <3>1. policyOut' # Zero => lastCommand # Zero /\ Fresh(commandAge, PolicyTimeout)
      BY <1>3 DEF PolicyTimerFires, PolicyOnTimer, TimerMode
    <3>2. (sourceAge =< commandAge /\ Fresh(commandAge, PolicyTimeout)) => sourceAge =< PolicyTimeout
      BY <1>n, SMT DEF Fresh
    <3> QED  BY <1>r, <3>1, <3>2
  <2>2. C'  BY <1>3, <1>i, <1>p, <2>1, PublishedRequestAges DEF PolicyTimerFires
  <2>3. "guard" \in due' <=> "guard" \in due  BY <1>3 DEF PolicyTimerFires
  <2> QED  BY <1>3, <1>r, <2>2, <2>3 DEF PolicyTimerFires, PolicyOnTimer, guardVars, GuardFresh
<1>4. ASSUME NEW data \in BOOLEAN, EstopCalled(data) PROVE A' /\ B' /\ C' /\ D' /\ E'
  <2>1. C'  BY <1>4, <1>i, <1>p, PublishedRequestAges DEF EstopCalled, PolicyOnSetEstop
  <2> QED  BY <1>4, <1>r, <2>1 DEF EstopCalled, PolicyOnSetEstop, Forget, guardVars, GuardFresh
<1>5. CASE PolicyHandlesGuardRestart
  <2>1. C'
    BY <1>5, <1>i, <1>p, PublishedRequestAges DEF PolicyHandlesGuardRestart, PolicyOnGuardRestart
  <2> QED  BY <1>5, <1>r, <2>1 DEF PolicyHandlesGuardRestart, PolicyOnGuardRestart, Forget,
              guardVars, GuardFresh
<1>6. CASE StatusTimerFires
  BY <1>6, <1>r DEF StatusTimerFires, PolicyOnStatusTimer, guardVars, channelVars, GuardFresh
<1>7. CASE PolicyDies
  <2>1. C'
    BY <1>7, <1>i, <1>p, <1>r, PublishedRequestAges DEF PolicyDies, PolicyEnd
  <2> QED  BY <1>7, <1>e, <1>r, <2>1 DEF PolicyDies, PolicyEnd, guardVars, GuardFresh
<1>8. CASE PolicyRespawns
  <2>1. C'
    BY <1>8, <1>i, <1>p, <1>r, PublishedRequestAges DEF PolicyRespawns, PolicyStart
  <2> QED  BY <1>8, <1>e, <1>r, <2>1 DEF PolicyRespawns, PolicyStart, Forget, guardVars, GuardFresh
<1>9. CASE GuardHandlesCommand
  <2>1. PICK c \in Limited : /\ c = Head(watchdogCmd) /\ GuardOnCommand(c)
                             /\ c # Zero => sourceAge =< PolicyTimeout
    BY <1>9, <1>r, <1>t, TailFacts DEF GuardHandlesCommand, ChannelTypeOK
  <2>2. C'
    BY <1>9, <1>r, <1>t, TailFacts DEF GuardHandlesCommand, ChannelTypeOK
  <2>3. D'
    <3>1. \/ UNCHANGED <<guardCommand, guardAge, haveCommand>>
          \/ guardCommand' = Zero
          \/ guardCommand' = c /\ guardAge' = 0
      BY <2>1, LimitedIsClamped DEF GuardOnCommand
    <3>2. CASE guardCommand' = c /\ guardAge' = 0
      <4>1. guardCommand' # Zero => sourceAge' =< PolicyTimeout + 0
        BY <1>9, <1>n, <2>1, <3>2, SMT DEF GuardHandlesCommand
      <4> QED  BY <3>2, <4>1
    <3> QED  BY <1>9, <1>r, <3>1, <3>2 DEF GuardHandlesCommand, GuardFresh
  <2>4. A' /\ B' /\ E'
    BY <1>9, <1>r DEF GuardHandlesCommand, GuardOnCommand, policyVars
  <2> QED  BY <2>2, <2>3, <2>4
<1>10. CASE GuardTimerFires
  <2>1. cmdVel' # Zero => sourceAge =< PolicyTimeout + GuardTimeout
    <3>1. cmdVel' # Zero => guardCommand # Zero /\ GuardFresh
      BY <1>10 DEF GuardTimerFires, GuardOnTimer
    <3>2. (sourceAge =< PolicyTimeout + guardAge /\ GuardFresh)
            => sourceAge =< PolicyTimeout + GuardTimeout
      BY <1>n, SMT DEF GuardFresh, Fresh
    <3> QED  BY <1>r, <3>1, <3>2
  <2>2. "guard" \notin due'  BY <1>10 DEF GuardTimerFires
  <2> QED  BY <1>10, <1>r, <2>1, <2>2 DEF GuardTimerFires, GuardOnTimer, policyVars, GuardFresh
<1>11. CASE GuardDies
  BY <1>11, <1>e, <1>r DEF GuardDies, GuardEnd, policyVars, GuardFresh
<1>12. CASE GuardRespawns
  BY <1>12, <1>e, <1>r DEF GuardRespawns, GuardStart, policyVars, GuardFresh
<1>13. CASE Tick
  <2>1. Settled  BY <1>13 DEF Tick
  <2>2. cmdVelIn' = <<>> /\ watchdogCmd' = <<>>
    BY <1>13, <1>i, <2>1 DEF Tick, Settled, NobodyListens
  <2>3. sourceAge' = Older(sourceAge, StopBound)  BY <1>13 DEF Tick
  <2>4. B'
    <3>1. lastCommand' = lastCommand /\ commandAge' = Older(commandAge, PolicyTimeout)
      BY <1>13 DEF Tick, PolicyTick
    <3>2. Fresh(Older(commandAge, PolicyTimeout), PolicyTimeout)
            => /\ Fresh(commandAge, PolicyTimeout)
               /\ sourceAge =< commandAge
                    => Older(sourceAge, StopBound) =< Older(commandAge, PolicyTimeout)
      BY <1>n, SMT DEF Older, Fresh
    <3> QED  BY <1>r, <2>3, <3>1, <3>2
  <2>5. D'
    <3>1. /\ UNCHANGED <<guardCommand, haveCommand>>
          /\ guardAge' = Older(guardAge, GuardTimeout)
      BY <1>13 DEF Tick, GuardTick
    <3>2. Fresh(Older(guardAge, GuardTimeout), GuardTimeout)
            => /\ Fresh(guardAge, GuardTimeout)
               /\ sourceAge =< PolicyTimeout + guardAge
                    => Older(sourceAge, StopBound) =< PolicyTimeout + Older(guardAge, GuardTimeout)
      BY <1>n, SMT DEF Older, Fresh
    <3> QED  BY <1>r, <2>3, <3>1, <3>2 DEF GuardFresh
  <2>6. E'
    <3>1. UNCHANGED <<guardUp, cmdVel>> /\ "guard" \in due'  BY <1>13 DEF Tick, GuardTick
    <3>2. guardUp => "guard" \notin due  BY <2>1 DEF Settled
    <3>3. sourceAge =< PolicyTimeout + GuardTimeout => Older(sourceAge, StopBound) =< StopBound
      BY <1>n, SMT DEF Older, Fresh
    <3>4. StopBound' = StopBound  BY DEF StopBound
    <3> QED  BY <1>r, <2>3, <3>1, <3>2, <3>3, <3>4
  <2> QED  BY <1>e, <2>2, <2>4, <2>5, <2>6
<1>14. CASE UNCHANGED layerVars
  BY <1>14, <1>r DEF layerVars, policyVars, guardVars, channelVars, GuardFresh
<1> QED
  BY <1>1, <1>2, <1>3, <1>4, <1>5, <1>6, <1>7, <1>8, <1>9, <1>10, <1>11, <1>12,
     <1>13, <1>14 DEF LayersNext

-----------------------------------------------------------------------------
\* THEOREM: the inductive invariant of the connected layers.
THEOREM LayersInvariant == LayersSpec => []LayersInv
<1>1. LayersInit => LayersInv
  <2> SUFFICES ASSUME LayersInit PROVE LayersInv
    OBVIOUS
  <2>z. Zero \in Limited  BY LimitsAssumption DEF Zero, Limited
  <2>a. /\ 0 \in 0..Expired(GuardTimeout)
        /\ Expired(PolicyTimeout) \in 0..Expired(PolicyTimeout)
        /\ Expired(StopBound) \in 0..Expired(StopBound)
        /\ ~(Expired(PolicyTimeout) =< PolicyTimeout)
    BY PolicyAssumption, GuardAssumption, SMT DEF Expired, StopBound
  <2>s. StatusOf("WAITING_NEUTRAL", FALSE, TRUE) \in Statuses
    BY Zenon DEF StatusOf, Statuses, Modes
  <2>q. /\ <<>> \in Seq(Inputs) /\ Len(<<>>) =< Depth /\ DOMAIN (<<>>) = {}
        /\ DOMAIN <<Zero>> = {1} /\ <<Zero>>[1] = Zero
        /\ Len(<<Zero>>) =< Depth /\ <<Zero>> \in Seq(Limited)
    BY <2>z, DepthAssumption, SMT
  <2>1. PolicyTypeOK
    BY <2>z, <2>a, <2>s DEF LayersInit, PolicyInit, PolicyTypeOK, Modes
  <2>2. GuardTypeOK
    BY <2>z, <2>a DEF LayersInit, GuardInit, GuardTypeOK
  <2>3. ChannelTypeOK
    BY <2>a, <2>q DEF LayersInit, ChannelTypeOK
  <2>4. NobodyListens /\ EstopOvertakesMotion
    BY DEF LayersInit, PolicyInit, GuardInit, NobodyListens, EstopOvertakesMotion
  <2>5. RequestAges
    BY <2>a, <2>q DEF LayersInit, PolicyInit, GuardInit, RequestAges, GuardFresh
  <2> QED  BY <2>1, <2>2, <2>3, <2>4, <2>5 DEF LayersInv, LayersTypeOK
<1>2. LayersInv /\ [LayersNext]_layerVars => LayersInv'
  <2> SUFFICES ASSUME LayersInv, [LayersNext]_layerVars PROVE LayersInv'
    OBVIOUS
  <2>1. LayersTypeOK' /\ NobodyListens' /\ EstopOvertakesMotion'
    BY LayersStepTyped, NobodyListensStep, EstopStep DEF LayersInv
  <2>2. Punctual => RequestAges'  BY RequestAgesStep
  <2> QED  BY <2>1, <2>2 DEF LayersInv
<1> QED  BY <1>1, <1>2, PTL DEF LayersSpec

\* THEOREM: an engaged e-stop overrides motion already queued on its way to the
\* base, for every queue depth (_on_set_estop publishes its own stop).
THEOREM EstopOvertakes == LayersSpec => []EstopOvertakesMotion
BY LayersInvariant, PTL DEF LayersInv

\* THEOREM: with punctual timers the base never executes a request older than
\* the sum of the two timeouts, whichever process dies (_on_timer, on_timer).
THEOREM MotionBounded == LayersSpec => []MotionIsBounded
<1>1. LayersInv => MotionIsBounded
  <2>1. RequestAges /\ guardUp /\ cmdVel # Zero /\ sourceAge \in Nat => sourceAge =< StopBound
    <3>1. sourceAge \in Nat /\ sourceAge =< PolicyTimeout + GuardTimeout => sourceAge =< StopBound
      BY PolicyAssumption, GuardAssumption, SMT DEF StopBound
    <3> QED  BY <3>1 DEF RequestAges
  <2>2. LayersTypeOK => sourceAge \in Nat
    BY SMT DEF LayersTypeOK, ChannelTypeOK
  <2> QED  BY <2>1, <2>2 DEF LayersInv, MotionIsBounded
<1> QED  BY <1>1, LayersInvariant, PTL
=============================================================================
