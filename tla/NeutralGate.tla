----------------------------- MODULE NeutralGate -----------------------------
(***************************************************************************)
(* What each of the two watchdog layers promises, whatever its internals:  *)
(* a gate that a stop closes, that only a neutral command reopens (with a  *)
(* zero command in hand), that emits a limited command only while open and *)
(* only for Timeout ticks after it accepted one, and otherwise emits zero. *)
(* SafetyPolicy (Python) and WatchdogGuard (C++) both implement it.        *)
(***************************************************************************)
EXTENDS Naturals

CONSTANTS Timeout,   \* ticks a command may drive
          Limited,   \* commands within the velocity limits
          Zero       \* the stop command

VARIABLES gate,   \* "down": no process, "closed", "open"
          held,   \* the command that would be emitted
          age,    \* ticks since it was accepted
          out     \* the last command emitted

gateVars == <<gate, held, age, out>>

GateInit ==
  /\ gate = "closed"
  /\ held = Zero
  /\ age = Timeout + 1
  /\ out = Zero

\* A stop, or the start of a new process: emits zero at once.
Close ==
  /\ gate' = "closed"
  /\ held' = Zero
  /\ age' = Timeout + 1
  /\ out' = Zero

\* A neutral command arrived at a closed gate.
Open ==
  /\ gate = "closed"
  /\ gate' = "open"
  /\ held' = Zero
  /\ age' = 0
  /\ UNCHANGED out

Accept ==
  /\ gate = "open"
  /\ held' \in Limited
  /\ age' = 0
  /\ UNCHANGED <<gate, out>>

\* An invalid command withdraws the one in hand.
Withdraw ==
  /\ gate = "open"
  /\ age' = Timeout + 1
  /\ UNCHANGED <<gate, held, out>>

Emit ==
  /\ gate # "down"
  /\ out' = IF gate = "open" /\ age =< Timeout THEN held ELSE Zero
  /\ UNCHANGED <<gate, held, age>>

\* The process ends; what it emitted last stays with the receiver.
Die ==
  /\ gate' = "down"
  /\ out' \in {out, Zero}
  /\ UNCHANGED <<held, age>>

Age ==
  /\ age' = IF age =< Timeout THEN age + 1 ELSE age
  /\ UNCHANGED <<gate, held, out>>

GateNext == Close \/ Open \/ Accept \/ Withdraw \/ Emit \/ Die \/ Age

GateSpec == GateInit /\ [][GateNext]_gateVars
=============================================================================
