------------------------------- MODULE MockRobot -------------------------------
(***************************************************************************)
(* The robot that the dashboard and the tasks are developed against,       *)
(* fleet_gateway/mock_robot.py: a reentrant node with four threads, so     *)
(* that services, the lease and two goals interleave between the locks of  *)
(* the goal's loop.  A tick is a second: a loop comes round every 0.1 s    *)
(* and the state is published every 0.2 s, so once in a tick at least.     *)
(* Its poses move along and are left out.                                  *)
(***************************************************************************)
EXTENDS Naturals

CONSTANTS MockGoals,    \* by the number of their command
          MockSessions, \* of manual driving
          LeaseTimeout, \* 2 s, and the duration of a near goal
          FarDuration   \* 30 s

ASSUME MockAssumption ==
  /\ MockGoals \subseteq Nat \ {0}
  /\ {LeaseTimeout, FarDuration} \subseteq Nat
  /\ FarDuration > LeaseTimeout + 1

VARIABLES mockEstop,   \* _estop_active; _motion_armed is its negation
          localized,   \* _localization_ready
          mockState,   \* _state
          mockActive,  \* _active_command, 0 for the empty one
          mockProfile,
          session,     \* _manual_session, 0 for the empty one
          commandAge, \* of its last command
          leaseOf, leaseAge,
          elapsed,     \* since _navigation_started_at, which all goals share
          destination, \* of each goal
          goalAt,      \* where it stands
          cancelAsked, \* is_cancel_requested
          heldFor      \* ticks the e-stop has been engaged

mockSafety == <<mockEstop, heldFor>>
mockLease == <<leaseOf, leaseAge>>
mockManual == <<session, commandAge>>
mockGoal == <<destination, goalAt, cancelAsked>>
mockVars == <<mockSafety, localized, mockState, mockActive, mockProfile, mockManual, mockLease,
              elapsed, mockGoal>>

Late == FarDuration + 1
MockProfiles == {"IDLE", "MAPPING", "NAVIGATION"}
Destinations == {"near", "far", "behind"}
InLoop == {"reading", "canceling", "expiring", "moving", "aborting", "succeeding", "sleeping"}
Executing(g) == goalAt[g] \in InLoop

Capped(n) == IF n < Late THEN n + 1 ELSE n

MockInit ==
  /\ mockEstop = TRUE /\ heldFor = 0 /\ localized = FALSE
  /\ mockState = "IDLE" /\ mockActive = 0 /\ mockProfile = "NAVIGATION"
  /\ session = 0 /\ commandAge = 0
  /\ leaseOf = 0 /\ leaseAge = Late /\ elapsed = 0
  /\ destination \in [MockGoals -> Destinations]
  /\ goalAt = [g \in MockGoals |-> "unsent"]
  /\ cancelAsked = [g \in MockGoals |-> FALSE]

-----------------------------------------------------------------------------
(* Services and subscriptions.                                               *)

SetMockEstop(engaged) ==
  /\ mockEstop' = engaged
  /\ heldFor' = IF engaged THEN heldFor ELSE 0
  /\ session' = IF engaged THEN 0 ELSE session
  /\ mockState' = IF ~engaged /\ localized THEN "READY" ELSE mockState
  /\ UNCHANGED <<localized, mockActive, mockProfile, commandAge, mockLease, elapsed, mockGoal>>

\* _manual_command_callback
MockDrives(s) ==
  /\ ~mockEstop /\ mockProfile # "IDLE" /\ session \in {0, s}
  /\ session' = s /\ commandAge' = 0
  /\ UNCHANGED <<mockSafety, localized, mockState, mockActive, mockProfile, mockLease, elapsed,
                 mockGoal>>

MockDriveStops ==
  /\ session # 0
  /\ session' = 0
  /\ UNCHANGED <<mockSafety, localized, mockState, mockActive, mockProfile, commandAge, mockLease,
                 elapsed, mockGoal>>

SetMockProfile(profile) ==
  /\ mockEstop
  /\ mockProfile' = profile
  /\ mockActive' = 0 /\ session' = 0 /\ mockState' = "IDLE"
  /\ localized' = (localized /\ profile # "MAPPING")
  /\ UNCHANGED <<mockSafety, commandAge, mockLease, elapsed, mockGoal>>

SetMockPose ==
  /\ localized' = TRUE
  /\ mockState' = IF mockEstop THEN "LOCALIZING" ELSE "READY"
  /\ UNCHANGED <<mockSafety, mockActive, mockProfile, mockManual, mockLease, elapsed, mockGoal>>

MockHearsLease(g) ==
  /\ leaseOf' = g /\ leaseAge' = 0
  /\ UNCHANGED <<mockSafety, localized, mockState, mockActive, mockProfile, mockManual, elapsed,
                 mockGoal>>

\* The gateway's cancel request, which is always accepted.
MockCancel(g) ==
  /\ Executing(g) \/ goalAt[g] = "accepted"
  /\ cancelAsked' = [cancelAsked EXCEPT ![g] = TRUE]
  /\ UNCHANGED <<mockSafety, localized, mockState, mockActive, mockProfile, mockManual, mockLease,
                 elapsed, destination, goalAt>>

-----------------------------------------------------------------------------
(* _accept_navigation and _execute_navigation                                *)

GoalMoves(g, to) == goalAt' = [goalAt EXCEPT ![g] = to]
steady == <<mockSafety, localized, mockProfile, mockManual, mockLease, destination, cancelAsked>>

MockAccepts(g) ==
  /\ goalAt[g] = "unsent"
  /\ GoalMoves(g, IF ~mockEstop /\ localized /\ mockActive = 0 THEN "accepted" ELSE "ended")
  /\ UNCHANGED <<steady, mockState, mockActive, elapsed>>

MockExecutes(g) ==
  /\ goalAt[g] = "accepted"
  /\ mockActive' = g /\ mockState' = "ACTIVE" /\ elapsed' = 0
  /\ GoalMoves(g, IF destination[g] = "behind" THEN "aborting" ELSE "reading")
  /\ UNCHANGED steady

\* Mutant of Cancels: the loop only looks for the gateway's request.
CancelsAsked(g) == cancelAsked[g]

Cancels(g) == cancelAsked[g] \/ mockEstop

Unleased(g) == elapsed > LeaseTimeout /\ (leaseOf # g \/ leaseAge > LeaseTimeout)

MockReads(g) ==
  /\ goalAt[g] \in {"reading", "sleeping"}
  /\ GoalMoves(g, IF Cancels(g) THEN "canceling" ELSE IF Unleased(g) THEN "expiring" ELSE "moving")
  /\ UNCHANGED <<steady, mockState, mockActive, elapsed>>

Duration(g) == IF destination[g] = "far" THEN FarDuration ELSE LeaseTimeout

MockMoves(g) ==
  /\ goalAt[g] = "moving"
  /\ GoalMoves(g, IF elapsed >= Duration(g) THEN "succeeding" ELSE "sleeping")
  /\ UNCHANGED <<steady, mockState, mockActive, elapsed>>

Verdicts == [canceling |-> "CANCELED", expiring |-> "LEASE_EXPIRED", aborting |-> "FAILED",
             succeeding |-> "SUCCEEDED"]

\* _finish.  The goal handle refuses canceled() when nobody asked for it: after
\* an e-stop alone that raises, which ends the goal and leaves the fields.
MockFinishes(g) ==
  /\ goalAt[g] \in DOMAIN Verdicts
  /\ IF goalAt[g] = "canceling" /\ ~cancelAsked[g]
     THEN UNCHANGED <<mockState, mockActive>>
     ELSE mockState' = Verdicts[goalAt[g]] /\ mockActive' = 0
  /\ GoalMoves(g, "ended")
  /\ UNCHANGED <<steady, elapsed>>

\* _publish_state ends a session without a command for 0.35 s.
MockPublishes ==
  /\ session # 0 /\ commandAge > 0
  /\ session' = 0
  /\ UNCHANGED <<mockSafety, localized, mockState, mockActive, mockProfile, commandAge, mockLease,
                 elapsed, mockGoal>>

MockTicks ==
  /\ \A g \in MockGoals : goalAt[g] \in {"unsent", "sleeping", "ended"}
  /\ session # 0 => commandAge = 0
  /\ goalAt' = [g \in MockGoals |-> IF goalAt[g] = "sleeping" THEN "reading" ELSE goalAt[g]]
  /\ elapsed' = Capped(elapsed) /\ leaseAge' = Capped(leaseAge)
  /\ commandAge' = IF session = 0 THEN 0 ELSE 1
  /\ heldFor' = IF mockEstop /\ heldFor < 2 THEN heldFor + 1 ELSE heldFor
  /\ UNCHANGED <<mockEstop, localized, mockState, mockActive, mockProfile, session, leaseOf,
                 destination, cancelAsked>>

MockNext ==
  \/ \E engaged \in BOOLEAN : SetMockEstop(engaged)
  \/ \E s \in MockSessions : MockDrives(s)
  \/ MockDriveStops
  \/ \E profile \in MockProfiles : SetMockProfile(profile)
  \/ SetMockPose
  \/ \E g \in MockGoals :
       \/ MockHearsLease(g)
       \/ MockCancel(g)
       \/ MockAccepts(g)
       \/ MockExecutes(g)
       \/ MockReads(g)
       \/ MockMoves(g)
       \/ MockFinishes(g)
  \/ MockPublishes
  \/ MockTicks

MockSpec == MockInit /\ [][MockNext]_mockVars

MockTypeOK ==
  /\ {mockEstop, localized} \subseteq BOOLEAN
  /\ mockState \in {"IDLE", "LOCALIZING", "READY", "ACTIVE", "CANCELED", "LEASE_EXPIRED",
                    "FAILED", "SUCCEEDED"}
  /\ mockActive \in MockGoals \cup {0} /\ leaseOf \in MockGoals \cup {0}
  /\ mockProfile \in MockProfiles
  /\ session \in MockSessions \cup {0}
  /\ commandAge \in 0..1 /\ heldFor \in 0..2
  /\ {elapsed, leaseAge} \subseteq 0..Late
  /\ destination \in [MockGoals -> Destinations]
  /\ goalAt \in [MockGoals -> InLoop \cup {"unsent", "accepted", "ended"}]
  /\ cancelAsked \in [MockGoals -> BOOLEAN]

-----------------------------------------------------------------------------
\* INVARIANT, _execute_navigation and _set_estop: while the e-stop stays
\* engaged, nothing goes on for longer than a loop takes to come round.
MockObeysEstop == heldFor = 2 => session = 0 /\ \A g \in MockGoals : ~Executing(g)

\* INVARIANT: no goal goes on without a lease for longer than that either,
\* whichever goal the lease was for.
MockNeedsLease ==
  (\E g \in MockGoals : Executing(g)) => elapsed <= LeaseTimeout + 1 \/ leaseAge <= LeaseTimeout + 1

\* INVARIANT, the mock stops for what the real robot stops for.
MockStops == MockObeysEstop /\ MockNeedsLease
=============================================================================
