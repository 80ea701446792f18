---------------------------- MODULE WatchdogLayers ----------------------------
(***************************************************************************)
(* The two watchdog layers connected: arbiter -> SafetyPolicy ->           *)
(* WatchdogGuard -> /cmd_vel, with the queued samples between the nodes,   *)
(* the transient-local restart signal from the guard back to the policy,   *)
(* and crashes and respawns of both processes.  The arbiter's output is    *)
(* the environment: any command, at any time.                              *)
(*                                                                         *)
(* Time: one tick is one period of the 20 Hz timers.  With Punctual every  *)
(* live node handles its queued samples and its timer once per tick, which *)
(* is what the timeouts are sized for; without it callbacks are as late as *)
(* they like and only the order of events is constrained.                  *)
(***************************************************************************)
EXTENDS SafetyPolicy, WatchdogGuard, Topic

CONSTANT Punctual       \* BOOLEAN

ASSUME PunctualAssumption == Punctual \in BOOLEAN

VARIABLES cmdVelIn,       \* samples of /safety/cmd_vel_in not yet handled
          watchdogCmd,    \* samples of /safety/watchdog_cmd_vel not yet handled
          restartSignal,  \* a guard-restarted sample waits for the policy
          due,            \* nodes whose timer has not fired in this tick
          sourceAge       \* history, when Punctual: ticks since motion was last asked

channelVars == <<cmdVelIn, watchdogCmd, restartSignal, due, sourceAge>>
layerVars == <<policyVars, guardVars, channelVars>>

\* The bound MotionIsBounded states; sourceAge saturates above it.
StopBound == PolicyTimeout + GuardTimeout + 1

LayersInit ==
  /\ PolicyInit
  /\ GuardInit
  /\ cmdVelIn = <<>>
  /\ watchdogCmd = <<Zero>>      \* the stop published by the policy's __init__
  /\ restartSignal = TRUE        \* the constructor's signal
  /\ due = {"policy", "guard"}
  /\ sourceAge = Expired(StopBound)

\* The arbiter publishes; nobody listens while the policy process is gone.
SourcePublishes(c) ==
  /\ cmdVelIn' = IF policyUp THEN Publish(cmdVelIn, c) ELSE <<>>
  /\ sourceAge' = IF Drives(c) THEN 0 ELSE sourceAge
  /\ UNCHANGED <<policyVars, guardVars, watchdogCmd, restartSignal, due>>

PolicyHandlesCommand ==
  /\ cmdVelIn # <<>>
  /\ PolicyOnCommand(Head(cmdVelIn))
  /\ cmdVelIn' = Tail(cmdVelIn)
  /\ UNCHANGED <<guardVars, watchdogCmd, restartSignal, due, sourceAge>>

\* What the policy published in this step reaches the guard's queue.
PolicyPublishes ==
  watchdogCmd' = IF guardUp THEN Publish(watchdogCmd, policyOut') ELSE <<>>

PolicyTimerFires ==
  /\ "policy" \in due
  /\ PolicyOnTimer
  /\ PolicyPublishes
  /\ due' = due \ {"policy"}
  /\ UNCHANGED <<guardVars, cmdVelIn, restartSignal, sourceAge>>

\* Mutant of EstopCalled: the handler forgets publish_stop.
EstopCalledSilently(data) ==
  /\ PolicyOnSetEstop(data)
  /\ UNCHANGED <<guardVars, channelVars>>

EstopCalled(data) ==
  /\ PolicyOnSetEstop(data)
  /\ PolicyPublishes
  /\ UNCHANGED <<guardVars, cmdVelIn, restartSignal, due, sourceAge>>

PolicyHandlesGuardRestart ==
  /\ restartSignal
  /\ PolicyOnGuardRestart
  /\ PolicyPublishes
  /\ restartSignal' = FALSE
  /\ UNCHANGED <<guardVars, cmdVelIn, due, sourceAge>>

StatusTimerFires ==
  /\ PolicyOnStatusTimer
  /\ UNCHANGED <<guardVars, channelVars>>

\* A crashed policy leaves its own queue behind; what it published stays with
\* the guard.
PolicyDies ==
  /\ \E lastStop \in BOOLEAN :
       /\ PolicyEnd(lastStop)
       /\ IF lastStop THEN PolicyPublishes ELSE UNCHANGED watchdogCmd
  /\ cmdVelIn' = <<>>
  /\ restartSignal' = FALSE
  /\ UNCHANGED <<guardVars, due, sourceAge>>

\* The restart topic is transient local: a policy that joins late is given the
\* signal of the guard that is alive.  The first stop of a node not yet
\* discovered may reach nobody.
PolicyRespawns ==
  /\ PolicyStart
  /\ PolicyPublishes \/ UNCHANGED watchdogCmd
  /\ cmdVelIn' = <<>>
  /\ restartSignal' = guardUp
  /\ UNCHANGED <<guardVars, due, sourceAge>>

GuardHandlesCommand ==
  /\ watchdogCmd # <<>>
  /\ GuardOnCommand(Head(watchdogCmd))
  /\ watchdogCmd' = Tail(watchdogCmd)
  /\ UNCHANGED <<policyVars, cmdVelIn, restartSignal, due, sourceAge>>

GuardTimerFires ==
  /\ "guard" \in due
  /\ GuardOnTimer
  /\ due' = due \ {"guard"}
  /\ UNCHANGED <<policyVars, cmdVelIn, watchdogCmd, restartSignal, sourceAge>>

GuardDies ==
  /\ \E lastStop \in BOOLEAN : GuardEnd(lastStop)
  /\ watchdogCmd' = <<>>
  /\ UNCHANGED <<policyVars, cmdVelIn, restartSignal, due, sourceAge>>

GuardRespawns ==
  /\ GuardStart
  /\ watchdogCmd' = <<>>
  /\ restartSignal' = policyUp
  /\ UNCHANGED <<policyVars, cmdVelIn, due, sourceAge>>

Settled == /\ policyUp => cmdVelIn = <<>> /\ ~restartSignal /\ "policy" \notin due
           /\ guardUp => watchdogCmd = <<>> /\ "guard" \notin due

Tick ==
  /\ Punctual => Settled
  /\ PolicyTick
  /\ GuardTick
  /\ due' = {"policy", "guard"}
  /\ sourceAge' = IF Punctual THEN Older(sourceAge, StopBound) ELSE sourceAge
  /\ UNCHANGED <<cmdVelIn, watchdogCmd, restartSignal>>

LayersNext ==
  \/ \E c \in Inputs : SourcePublishes(c)
  \/ PolicyHandlesCommand
  \/ PolicyTimerFires
  \/ \E data \in BOOLEAN : EstopCalled(data)
  \/ PolicyHandlesGuardRestart
  \/ StatusTimerFires
  \/ PolicyDies
  \/ PolicyRespawns
  \/ GuardHandlesCommand
  \/ GuardTimerFires
  \/ GuardDies
  \/ GuardRespawns
  \/ Tick

LayersSpec == LayersInit /\ [][LayersNext]_layerVars

\* The executors run every queued callback and timer eventually, time passes,
\* and ros2 launch respawns both processes (respawn=True).  Nothing is assumed
\* of the arbiter here beyond its periodic output.
LayersFairness ==
  /\ WF_layerVars(PolicyHandlesCommand)
  /\ WF_layerVars(PolicyTimerFires)
  /\ WF_layerVars(PolicyHandlesGuardRestart)
  /\ WF_layerVars(PolicyRespawns)
  /\ WF_layerVars(GuardHandlesCommand)
  /\ WF_layerVars(GuardTimerFires)
  /\ WF_layerVars(GuardRespawns)
  /\ WF_layerVars(Tick)
  /\ WF_layerVars(\E c \in Inputs : SourcePublishes(c))

FairLayersSpec == LayersSpec /\ LayersFairness

-----------------------------------------------------------------------------
ChannelTypeOK ==
  /\ cmdVelIn \in Seq(Inputs) /\ Len(cmdVelIn) =< Depth
  /\ watchdogCmd \in Seq(Limited) /\ Len(watchdogCmd) =< Depth
  /\ restartSignal \in BOOLEAN
  /\ due \subseteq {"policy", "guard"}
  /\ sourceAge \in 0..Expired(StopBound)

LayersTypeOK == PolicyTypeOK /\ GuardTypeOK /\ ChannelTypeOK

\* INVARIANT: an engaged e-stop overrides motion already on its way.  While the
\* policy holds the e-stop, a guard that could still drive on the command in its
\* hand or on one queued has a zero behind all of it, however full the queue.
EstopOvertakesMotion ==
  (policyUp /\ estopActive /\ guardUp) =>
    \/ watchdogCmd # <<>> /\ Newest(watchdogCmd) = Zero
    \/ watchdogCmd = <<>> /\ (guardCommand = Zero \/ ~GuardFresh)

\* INVARIANT: with every timer on time, the base stops within the sum of the
\* two timeouts after the arbiter last asked for motion, even when the policy
\* process dies at the worst moment.
MotionIsBounded ==
  (Punctual /\ guardUp /\ cmdVel # Zero) => sourceAge =< StopBound

\* The inductive invariant behind the two (module WatchdogLayers_proofs): how
\* old the request behind each command on its way to the base can be.
RequestAges ==
  /\ \A i \in DOMAIN cmdVelIn : Drives(cmdVelIn[i]) => sourceAge = 0
  /\ (lastCommand # Zero /\ Fresh(commandAge, PolicyTimeout)) => sourceAge =< commandAge
  /\ \A i \in DOMAIN watchdogCmd : watchdogCmd[i] # Zero => sourceAge =< PolicyTimeout
  /\ (guardCommand # Zero /\ GuardFresh) => sourceAge =< PolicyTimeout + guardAge
  /\ (guardUp /\ cmdVel # Zero) =>
       sourceAge =< IF "guard" \in due THEN StopBound ELSE PolicyTimeout + GuardTimeout

NobodyListens == (~policyUp => cmdVelIn = <<>>) /\ (~guardUp => watchdogCmd = <<>>)

LayersInv ==
  /\ LayersTypeOK
  /\ NobodyListens
  /\ EstopOvertakesMotion
  /\ Punctual => RequestAges

\* LIVENESS: once nothing restarts or calls the e-stop service any more, the
\* e-stop is released and the arbiter only sends zero, both layers are re-armed
\* for good: no start order or interleaving leaves one waiting for the other.
QuietIdle == /\ policyUp /\ guardUp /\ ~estopActive
             /\ \A i \in DOMAIN cmdVelIn : cmdVelIn[i] = Zero

ZeroRearmsBothLayers ==
  (<>[]QuietIdle /\ <>[][~\E data \in BOOLEAN : EstopCalled(data)]_layerVars)
    => <>[](~awaitingNeutral /\ ~guardAwaiting)
=============================================================================
