------------------------------ MODULE Velocity ------------------------------
(***************************************************************************)
(* Planar velocity commands and the pure policies applied to them:         *)
(* robot/safety_watchdog/safety_watchdog/policy.py, guard_policy.hpp and   *)
(* the receipt-age tests of navigation_agent/model.py.                     *)
(*                                                                         *)
(* A velocity is an integer multiple of some unit, or NonFinite (the code's*)
(* NaN and infinities, which every test treats alike).  A receipt time is  *)
(* kept as the age of the receipt in ticks, saturating one tick after the  *)
(* timeout; the saturated age also stands for "nothing received" (None).   *)
(***************************************************************************)
EXTENDS Integers

CONSTANTS MaxLinear,    \* max_linear_x
          MaxAngular,   \* max_angular_z
          Epsilon,      \* neutral_epsilon
          NonFinite,    \* NaN, +inf, -inf
          Inputs        \* the commands senders are taken to publish

ASSUME LimitsAssumption ==
  /\ MaxLinear \in Nat \ {0}
  /\ MaxAngular \in Nat \ {0}
  /\ Epsilon \in Nat
  /\ NonFinite \notin Int

Axis == Int \cup {NonFinite}
Command == [lin : Axis, ang : Axis]
Limited == [lin : -MaxLinear..MaxLinear, ang : -MaxAngular..MaxAngular]
Zero == [lin |-> 0, ang |-> 0]

ASSUME InputsAssumption == Inputs \subseteq Command

IsFinite(c) == c.lin # NonFinite /\ c.ang # NonFinite

\* Mutant of ClampFinite: only the reverse direction is limited.
ClampReverseOnly(v, limit) == IF v < -limit THEN -limit ELSE v

ClampFinite(v, limit) ==
  IF v > limit THEN limit ELSE IF v < -limit THEN -limit ELSE v

\* The policy node maps a non-finite axis to zero and keeps the other one.
ClampSymmetric(v, limit) == IF v = NonFinite THEN 0 ELSE ClampFinite(v, limit)

Sanitize(c) == [lin |-> ClampSymmetric(c.lin, MaxLinear),
                ang |-> ClampSymmetric(c.ang, MaxAngular)]

\* The guard clamps only what command_is_valid let through.
ClampAxes(c) == [lin |-> ClampFinite(c.lin, MaxLinear),
                 ang |-> ClampFinite(c.ang, MaxAngular)]

\* Mutant of Within: a command on the bound is not within it.
StrictlyWithin(v, bound) == -bound < v /\ v < bound

Within(v, bound) == -bound =< v /\ v =< bound
IsNeutral(c) == IsFinite(c) /\ Within(c.lin, Epsilon) /\ Within(c.ang, Epsilon)

\* What still drives the wheels once sanitized.
Drives(c) == Sanitize(c) # Zero

Expired(timeout) == timeout + 1
Fresh(age, timeout) == age =< timeout
Older(age, timeout) == IF Fresh(age, timeout) THEN age + 1 ELSE age
=============================================================================
