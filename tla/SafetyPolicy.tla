---------------------------- MODULE SafetyPolicy ----------------------------
(***************************************************************************)
(* The policy node of the watchdog, robot/safety_watchdog/.../node.py: an  *)
(* emergency stop, a neutral re-arm requirement and a dead-man timeout     *)
(* between the motion arbiter and the C++ output guard.  The node runs on  *)
(* a single-threaded executor, so each callback is one step.  policyOut is *)
(* the last Twist it published, safetyStatus the last SafetyStatus.        *)
(***************************************************************************)
EXTENDS Velocity

CONSTANT PolicyTimeout     \* timeout_sec, in ticks

ASSUME PolicyAssumption == PolicyTimeout \in Nat

VARIABLES policyUp,         \* the process exists
          lastCommand,      \* _last_command
          commandAge,       \* now - _last_received_at
          estopActive,      \* _estop_active
          awaitingNeutral,  \* _awaiting_neutral
          currentMode,      \* _current_mode
          policyOut,        \* last Twist on the output topic
          safetyStatus      \* last SafetyStatus

policyVars == <<policyUp, lastCommand, commandAge, estopActive,
                awaitingNeutral, currentMode, policyOut, safetyStatus>>

Modes == {"TIMEOUT", "ACTIVE", "ESTOP", "WAITING_NEUTRAL"}
Statuses == [mode : Modes, estop : BOOLEAN, armed : BOOLEAN]

StatusOf(mode, estop, awaiting) ==
  [mode |-> mode, estop |-> estop, armed |-> ~estop /\ ~awaiting]

PolicyInit ==
  /\ policyUp = TRUE
  /\ lastCommand = Zero
  /\ commandAge = Expired(PolicyTimeout)
  /\ estopActive = FALSE
  /\ awaitingNeutral = TRUE
  /\ currentMode = "WAITING_NEUTRAL"
  /\ policyOut = Zero
  /\ safetyStatus = StatusOf("WAITING_NEUTRAL", FALSE, TRUE)

Forget == /\ lastCommand' = Zero
          /\ commandAge' = Expired(PolicyTimeout)

\* _publish_status, from the state a handler leaves.
PublishStatus == safetyStatus' = StatusOf(currentMode', estopActive', awaitingNeutral')

\* Mutant of PolicyOnCommand: the first command of any kind re-arms.
PolicyOnAnyCommand(c) ==
  /\ policyUp /\ ~estopActive
  /\ awaitingNeutral' = FALSE
  /\ lastCommand' = Sanitize(c)
  /\ commandAge' = 0
  /\ UNCHANGED <<policyUp, estopActive, currentMode, policyOut, safetyStatus>>

PolicyOnCommand(c) ==
  /\ policyUp
  /\ \/ /\ estopActive \/ (awaitingNeutral /\ ~IsNeutral(c))
        /\ UNCHANGED <<lastCommand, commandAge, awaitingNeutral>>
     \/ /\ ~estopActive /\ awaitingNeutral /\ IsNeutral(c)
        /\ awaitingNeutral' = FALSE
        /\ lastCommand' = Zero
        /\ commandAge' = 0
     \/ /\ ~estopActive /\ ~awaitingNeutral
        /\ lastCommand' = Sanitize(c)
        /\ commandAge' = 0
        /\ UNCHANGED awaitingNeutral
  /\ UNCHANGED <<policyUp, estopActive, currentMode, policyOut, safetyStatus>>

TimerMode == CASE estopActive -> "ESTOP"
               [] ~estopActive /\ awaitingNeutral -> "WAITING_NEUTRAL"
               [] ~estopActive /\ ~awaitingNeutral /\ Fresh(commandAge, PolicyTimeout)
                    -> "ACTIVE"
               [] OTHER -> "TIMEOUT"

PolicyOnTimer ==
  /\ policyUp
  /\ currentMode' = TimerMode
  /\ policyOut' = IF TimerMode = "ACTIVE" THEN lastCommand ELSE Zero
  /\ UNCHANGED <<policyUp, lastCommand, commandAge, estopActive,
                 awaitingNeutral, safetyStatus>>

PolicyOnSetEstop(data) ==
  /\ policyUp
  /\ estopActive' = data
  /\ awaitingNeutral' = ~data
  /\ Forget
  /\ currentMode' = IF data THEN "ESTOP" ELSE "WAITING_NEUTRAL"
  /\ policyOut' = Zero
  /\ PublishStatus
  /\ UNCHANGED policyUp

PolicyOnGuardRestart ==
  /\ policyUp
  /\ Forget
  /\ awaitingNeutral' = (awaitingNeutral \/ ~estopActive)
  /\ currentMode' = IF estopActive THEN currentMode ELSE "WAITING_NEUTRAL"
  /\ policyOut' = Zero
  /\ UNCHANGED <<policyUp, estopActive>>
  /\ PublishStatus

PolicyOnStatusTimer ==
  /\ policyUp
  /\ safetyStatus' = StatusOf(currentMode, estopActive, awaitingNeutral)
  /\ UNCHANGED <<policyUp, lastCommand, commandAge, estopActive,
                 awaitingNeutral, currentMode, policyOut>>

\* The process starts again after it ended: __init__ re-initialises every
\* field, e-stop included, and publishes a stop and a status.
PolicyStart ==
  /\ ~policyUp
  /\ policyUp' = TRUE
  /\ Forget
  /\ estopActive' = FALSE
  /\ awaitingNeutral' = TRUE
  /\ currentMode' = "WAITING_NEUTRAL"
  /\ policyOut' = Zero
  /\ PublishStatus

\* The process ends: killed, or through main's finally clause, which
\* publishes a last stop while the ROS context is still valid.
PolicyEnd(lastStop) ==
  /\ policyUp
  /\ policyUp' = FALSE
  /\ policyOut' = IF lastStop THEN Zero ELSE policyOut
  /\ UNCHANGED <<lastCommand, commandAge, estopActive, awaitingNeutral,
                 currentMode, safetyStatus>>

PolicyTick ==
  /\ commandAge' = Older(commandAge, PolicyTimeout)
  /\ UNCHANGED <<policyUp, lastCommand, estopActive, awaitingNeutral,
                 currentMode, policyOut, safetyStatus>>

PolicyNext ==
  \/ \E c \in Inputs : PolicyOnCommand(c)
  \/ PolicyOnTimer
  \/ \E data \in BOOLEAN : PolicyOnSetEstop(data)
  \/ PolicyOnGuardRestart
  \/ PolicyOnStatusTimer
  \/ PolicyStart
  \/ \E lastStop \in BOOLEAN : PolicyEnd(lastStop)
  \/ PolicyTick

PolicySpec == PolicyInit /\ [][PolicyNext]_policyVars

-----------------------------------------------------------------------------
PolicyTypeOK ==
  /\ policyUp \in BOOLEAN
  /\ lastCommand \in Limited
  /\ commandAge \in 0..Expired(PolicyTimeout)
  /\ estopActive \in BOOLEAN
  /\ awaitingNeutral \in BOOLEAN
  /\ currentMode \in Modes
  /\ policyOut \in Limited
  /\ safetyStatus \in Statuses

\* The gate is open when a command would be let through.
PolicyGateOf == IF ~policyUp THEN "down"
                ELSE IF estopActive \/ awaitingNeutral THEN "closed" ELSE "open"

\* The promise of one watchdog layer (module NeutralGate) as this node keeps it.
PolicyGate == INSTANCE NeutralGate WITH
          gate <- PolicyGateOf, held <- lastCommand, age <- commandAge,
          out <- policyOut, Timeout <- PolicyTimeout

\* PROPERTY: every behaviour of the node is one of the abstract gate: it never
\* emits motion unless a neutral command reopened it after the last stop,
\* whatever the order of commands, e-stop calls, guard restarts and crashes.
PolicyIsNeutralGate == PolicyGate!GateSpec
=============================================================================
