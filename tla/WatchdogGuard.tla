---------------------------- MODULE WatchdogGuard ----------------------------
(***************************************************************************)
(* The C++ output guard, robot/safety_watchdog_guard/src/watchdog_guard.cpp*)
(* the only publisher of /cmd_vel.  It repeats the neutral requirement and *)
(* the limits of the policy with its own, shorter, timeout, so that a dead *)
(* policy process cannot leave the wheels turning.                         *)
(***************************************************************************)
EXTENDS Velocity

CONSTANT GuardTimeout      \* timeout_sec, in ticks

ASSUME GuardAssumption == GuardTimeout \in Nat

VARIABLES guardUp,         \* the process exists
          guardAwaiting,   \* awaiting_neutral_
          guardCommand,    \* command_
          haveCommand,     \* have_command_
          guardAge,        \* now - last_received_
          cmdVel           \* last Twist on /cmd_vel, what the base executes

guardVars == <<guardUp, guardAwaiting, guardCommand, haveCommand, guardAge, cmdVel>>

GuardInit ==
  /\ guardUp = TRUE
  /\ guardAwaiting = TRUE
  /\ guardCommand = Zero
  /\ haveCommand = FALSE
  /\ guardAge = 0
  /\ cmdVel = Zero

GuardOnCommand(c) ==
  /\ guardUp
  /\ \/ /\ guardAwaiting /\ ~IsNeutral(c)
        /\ UNCHANGED <<guardAwaiting, guardCommand, guardAge, haveCommand>>
     \/ /\ guardAwaiting /\ IsNeutral(c)
        /\ guardAwaiting' = FALSE
        /\ guardCommand' = Zero
        /\ guardAge' = 0
        /\ haveCommand' = TRUE
     \/ /\ ~guardAwaiting /\ ~IsFinite(c)
        /\ haveCommand' = FALSE
        /\ UNCHANGED <<guardAwaiting, guardCommand, guardAge>>
     \/ /\ ~guardAwaiting /\ IsFinite(c)
        /\ guardCommand' = ClampAxes(c)
        /\ guardAge' = 0
        /\ haveCommand' = TRUE
        /\ UNCHANGED guardAwaiting
  /\ UNCHANGED <<guardUp, cmdVel>>

\* Mutant of GuardFresh: the age of the command is not looked at.
GuardHoldsCommand == haveCommand

GuardFresh == haveCommand /\ Fresh(guardAge, GuardTimeout)

GuardOnTimer ==
  /\ guardUp
  /\ cmdVel' = IF GuardFresh THEN guardCommand ELSE Zero
  /\ UNCHANGED <<guardUp, guardAwaiting, guardCommand, haveCommand, guardAge>>

\* Mutant of GuardStart: the new process trusts the first command it gets.
GuardStartArmed ==
  /\ ~guardUp
  /\ guardUp' = TRUE
  /\ guardAwaiting' = FALSE
  /\ guardCommand' = Zero
  /\ haveCommand' = FALSE
  /\ guardAge' = 0
  /\ cmdVel' = Zero

\* The constructor: every field from its initialiser, then a stop.  (It also
\* publishes the restart signal, which module WatchdogLayers carries.)
GuardStart ==
  /\ ~guardUp
  /\ guardUp' = TRUE
  /\ guardAwaiting' = TRUE
  /\ guardCommand' = Zero
  /\ haveCommand' = FALSE
  /\ guardAge' = 0
  /\ cmdVel' = Zero

\* The process ends: killed, or destroyed while rclcpp::ok(), with a last stop.
GuardEnd(lastStop) ==
  /\ guardUp
  /\ guardUp' = FALSE
  /\ cmdVel' = IF lastStop THEN Zero ELSE cmdVel
  /\ UNCHANGED <<guardAwaiting, guardCommand, haveCommand, guardAge>>

GuardTick ==
  /\ guardAge' = Older(guardAge, GuardTimeout)
  /\ UNCHANGED <<guardUp, guardAwaiting, guardCommand, haveCommand, cmdVel>>

\* The policy sends limited commands, but the topic would carry any.
GuardInputs == Inputs \cup Limited

GuardNext ==
  \/ \E c \in GuardInputs : GuardOnCommand(c)
  \/ GuardOnTimer
  \/ GuardStart
  \/ \E lastStop \in BOOLEAN : GuardEnd(lastStop)
  \/ GuardTick

GuardSpec == GuardInit /\ [][GuardNext]_guardVars

-----------------------------------------------------------------------------
GuardTypeOK ==
  /\ guardUp \in BOOLEAN
  /\ guardAwaiting \in BOOLEAN
  /\ guardCommand \in Limited
  /\ haveCommand \in BOOLEAN
  /\ guardAge \in 0..Expired(GuardTimeout)
  /\ cmdVel \in Limited

\* What GuardTypeOK lacks to be inductive for the refinement: on_timer never
\* looks at awaiting_neutral_ because an unarmed guard has no command.
GuardInv == GuardTypeOK /\ (guardAwaiting => ~haveCommand)

GuardGateOf == IF ~guardUp THEN "down"
               ELSE IF guardAwaiting THEN "closed" ELSE "open"

GuardGate == INSTANCE NeutralGate WITH
          gate <- GuardGateOf, held <- guardCommand, out <- cmdVel,
          age <- IF haveCommand THEN guardAge ELSE Expired(GuardTimeout),
          Timeout <- GuardTimeout

\* PROPERTY: the C++ guard makes the same promise as the Python policy: after
\* a start nothing but zero leaves it until a neutral command came, and a
\* command it accepted outlives its timeout in no interleaving.
GuardIsNeutralGate == GuardGate!GateSpec
=============================================================================
