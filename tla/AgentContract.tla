---------------------------- MODULE AgentContract ----------------------------
(***************************************************************************)
(* What the navigation agent promises to the fleet about its goals: it     *)
(* takes one goal at a time, shows it as active_command_id while it lasts, *)
(* and shows a verdict after it, which is a success only if that was       *)
(* settled while no failure had been shown.  A failure may still be shown  *)
(* between settling a success and showing it, and is then unsaid.          *)
(* NavigationStack implements it; RobotLink, the robot as the fleet        *)
(* gateway sees it, builds on it.                                          *)
(***************************************************************************)
CONSTANTS Goals, NoGoal

VARIABLES held,     \* the goal accepted and not yet shown
          shown,    \* active_command_id
          verdict,  \* the state shown with it; "PENDING" before any goal
          settled   \* the goal shown will end as a success

contractVars == <<held, shown, verdict, settled>>

Failures == {"FAILED", "LEASE_EXPIRED"}
Endings == Failures \cup {"SUCCEEDED", "CANCELED"}

ContractInit == held = NoGoal /\ shown = NoGoal /\ verdict = "PENDING" /\ settled = FALSE

Accept(g) ==
  /\ held = NoGoal /\ shown = NoGoal
  /\ held' = g
  /\ UNCHANGED <<shown, verdict, settled>>

Begin ==
  /\ held # NoGoal
  /\ shown' = held
  /\ held' = NoGoal
  /\ verdict' = "ACTIVE"
  /\ UNCHANGED settled

\* A failure is shown before the goal has wound down.
Condemn ==
  /\ shown # NoGoal
  /\ verdict' \in Failures
  /\ UNCHANGED <<held, shown, settled>>

\* No success is settled after a failure was shown.
Settle ==
  /\ shown # NoGoal
  /\ verdict \notin Failures
  /\ settled' = TRUE
  /\ UNCHANGED <<held, shown, verdict>>

Finish ==
  /\ shown # NoGoal
  /\ shown' = NoGoal
  /\ verdict' \in IF settled THEN {"SUCCEEDED"} ELSE Endings \ {"SUCCEEDED"}
  /\ settled' = FALSE
  /\ UNCHANGED held

\* A new initial pose clears the verdict of the last goal.
Forget ==
  /\ shown = NoGoal
  /\ verdict' = "PENDING"
  /\ UNCHANGED <<held, shown, settled>>

Restart ==
  /\ held' = NoGoal
  /\ shown' = NoGoal
  /\ verdict' = "PENDING"
  /\ settled' = FALSE

ContractNext ==
  \/ \E g \in Goals : Accept(g)
  \/ Begin
  \/ Condemn
  \/ Settle
  \/ Finish
  \/ Forget
  \/ Restart

ContractSpec == ContractInit /\ [][ContractNext]_contractVars
=============================================================================
