---------------------------- MODULE MotionArbiter ----------------------------
(***************************************************************************)
(* The motion arbiter, robot/navigation_agent/navigation_agent/            *)
(* arbiter_node.py: the one process that feeds the watchdog.  It forwards  *)
(* the source its mode selects, and zero when that source, or the          *)
(* navigation authorization, is stale.  Receipt times are ages that        *)
(* saturate one tick after the timeout; the saturated age is also None.    *)
(* Commands are Still (zero) or any member of Motion.                      *)
(***************************************************************************)
EXTENDS Integers

CONSTANTS Still, Motion,           \* the zero command, the commands that move
          InputTimeout,            \* input_timeout_sec, in ticks
          AuthorizationTimeout,    \* authorization_timeout_sec
          DefaultMode              \* default_mode

Commands == Motion \cup {Still}
MotionModes == {"IDLE", "MANUAL", "NAVIGATION"}

ASSUME ArbiterAssumption ==
  /\ Still \notin Motion
  /\ InputTimeout \in Nat
  /\ AuthorizationTimeout \in Nat
  /\ DefaultMode \in MotionModes

VARIABLES arbiterUp,            \* the process exists
          motionMode,           \* _mode
          manualCommand,        \* _manual_command
          manualAge,            \* now - _manual_received_at
          navigationCommand,    \* _navigation_command
          navigationAge,        \* now - _navigation_received_at
          authorizationAge,     \* now - _authorization_received_at
          arbiterOut            \* last Twist on /safety/cmd_vel_in

arbiterVars == <<arbiterUp, motionMode, manualCommand, manualAge, navigationCommand,
                 navigationAge, authorizationAge, arbiterOut>>

NoInput == InputTimeout + 1
NoAuthorization == AuthorizationTimeout + 1

\* What __init__ and every mode change set, both of which publish a zero.
ForgetSources ==
  /\ manualCommand' = Still
  /\ manualAge' = NoInput
  /\ navigationCommand' = Still
  /\ navigationAge' = NoInput
  /\ authorizationAge' = NoAuthorization
  /\ arbiterOut' = Still

ArbiterInit ==
  /\ arbiterUp = TRUE
  /\ motionMode = DefaultMode
  /\ manualCommand = Still
  /\ manualAge = NoInput
  /\ navigationCommand = Still
  /\ navigationAge = NoInput
  /\ authorizationAge = NoAuthorization
  /\ arbiterOut = Still

OnManualCommand(c) ==
  /\ arbiterUp
  /\ manualCommand' = c
  /\ manualAge' = 0
  /\ UNCHANGED <<arbiterUp, motionMode, navigationCommand, navigationAge,
                 authorizationAge, arbiterOut>>

OnNavigationCommand(c) ==
  /\ arbiterUp
  /\ navigationCommand' = c
  /\ navigationAge' = 0
  /\ UNCHANGED <<arbiterUp, motionMode, manualCommand, manualAge,
                 authorizationAge, arbiterOut>>

OnAuthorization(data) ==
  /\ arbiterUp
  /\ authorizationAge' = IF data THEN 0 ELSE NoAuthorization
  /\ UNCHANGED <<arbiterUp, motionMode, manualCommand, manualAge,
                 navigationCommand, navigationAge, arbiterOut>>

\* _on_set_mode for a known mode; an unknown one is refused with no effect.
OnSetMode(m) ==
  /\ arbiterUp
  /\ motionMode' = m
  /\ ForgetSources
  /\ UNCHANGED arbiterUp

ChooseCommand ==
  IF motionMode = "MANUAL" /\ manualAge =< InputTimeout THEN manualCommand
  ELSE IF /\ motionMode = "NAVIGATION"
          /\ navigationAge =< InputTimeout
          /\ authorizationAge =< AuthorizationTimeout
  THEN navigationCommand ELSE Still

ArbiterOnTimer ==
  /\ arbiterUp
  /\ arbiterOut' = ChooseCommand
  /\ UNCHANGED <<arbiterUp, motionMode, manualCommand, manualAge,
                 navigationCommand, navigationAge, authorizationAge>>

ArbiterStart ==
  /\ ~arbiterUp
  /\ arbiterUp' = TRUE
  /\ motionMode' = DefaultMode
  /\ ForgetSources

\* The process ends: killed, or with the last zero of shutdown().
ArbiterEnd(lastStop) ==
  /\ arbiterUp
  /\ arbiterUp' = FALSE
  /\ arbiterOut' = IF lastStop THEN Still ELSE arbiterOut
  /\ UNCHANGED <<motionMode, manualCommand, manualAge, navigationCommand,
                 navigationAge, authorizationAge>>

Aged(age, timeout) == IF age =< timeout THEN age + 1 ELSE age

ArbiterTick ==
  /\ manualAge' = Aged(manualAge, InputTimeout)
  /\ navigationAge' = Aged(navigationAge, InputTimeout)
  /\ authorizationAge' = Aged(authorizationAge, AuthorizationTimeout)
  /\ UNCHANGED <<arbiterUp, motionMode, manualCommand, navigationCommand, arbiterOut>>

ArbiterTypeOK ==
  /\ arbiterUp \in BOOLEAN
  /\ motionMode \in MotionModes
  /\ manualCommand \in Commands
  /\ manualAge \in 0..NoInput
  /\ navigationCommand \in Commands
  /\ navigationAge \in 0..NoInput
  /\ authorizationAge \in 0..NoAuthorization
  /\ arbiterOut \in Commands
=============================================================================
