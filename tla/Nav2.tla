-------------------------------- MODULE Nav2 --------------------------------
(***************************************************************************)
(* Nav2's bt_navigator as the navigation agent uses it (external to the    *)
(* repository): the NavigateToPose action, its cancel service and the      *)
(* lifecycle query.  One goal executes at a time, a new one preempts it.   *)
(* The server may die; it respawns inactive and forgets every goal and     *)
(* every request it had not answered.                                      *)
(***************************************************************************)
EXTENDS Naturals

CONSTANT Goals        \* command ids, each used for one goal

VARIABLES nav2,            \* "down", "inactive", "active"
          nav2Seen,        \* the ROS graph still shows its services
          nav2Goal,        \* per goal, see Nav2States
          cancels,         \* goals whose cancellation was requested
          lifecycleQuery,  \* "none", "asked", or the answer on its way
          cancelAll        \* "none", "asked", "acked": the startup cancel-all

nav2Vars == <<nav2, nav2Seen, nav2Goal, cancels, lifecycleQuery, cancelAll>>

Nav2Results == {"succeeded", "aborted", "canceled"}
Nav2States == {"none", "requested", "rejected", "executing", "lost"} \cup Nav2Results

Nav2Init ==
  /\ nav2 = "active"
  /\ nav2Seen = TRUE
  /\ nav2Goal = [g \in Goals |-> "none"]
  /\ cancels = {}
  /\ lifecycleQuery = "none"
  /\ cancelAll = "none"

Executing == {g \in Goals : nav2Goal[g] = "executing"}

Nav2Accepts(g) ==
  /\ nav2 = "active"
  /\ nav2Goal[g] = "requested"
  /\ nav2Goal' = [h \in Goals |-> IF h = g THEN "executing"
                                  ELSE IF h \in Executing THEN "aborted" ELSE nav2Goal[h]]
  /\ UNCHANGED <<nav2, nav2Seen, cancels, lifecycleQuery, cancelAll>>

Nav2Rejects(g) ==
  /\ nav2 # "down"
  /\ nav2Goal[g] = "requested"
  /\ nav2Goal' = [nav2Goal EXCEPT ![g] = "rejected"]
  /\ UNCHANGED <<nav2, nav2Seen, cancels, lifecycleQuery, cancelAll>>

Nav2Finishes(g) ==
  /\ nav2 # "down"
  /\ g \in Executing
  /\ nav2Goal' \in {[nav2Goal EXCEPT ![g] = r] : r \in {"succeeded", "aborted"}}
  /\ UNCHANGED <<nav2, nav2Seen, cancels, lifecycleQuery, cancelAll>>

Nav2Cancels(g) ==
  /\ nav2 # "down"
  /\ g \in Executing \cap cancels
  /\ nav2Goal' = [nav2Goal EXCEPT ![g] = "canceled"]
  /\ UNCHANGED <<nav2, nav2Seen, cancels, lifecycleQuery, cancelAll>>

Nav2ServesCancelAll ==
  /\ nav2 # "down"
  /\ cancelAll = "asked"
  /\ cancelAll' = "acked"
  /\ cancels' = cancels \cup Executing
  /\ UNCHANGED <<nav2, nav2Seen, nav2Goal, lifecycleQuery>>

Nav2AnswersLifecycle ==
  /\ nav2 # "down"
  /\ lifecycleQuery = "asked"
  /\ lifecycleQuery' = nav2
  /\ UNCHANGED <<nav2, nav2Seen, nav2Goal, cancels, cancelAll>>

Nav2Activates ==
  /\ nav2 = "inactive"
  /\ nav2' = "active"
  /\ UNCHANGED <<nav2Seen, nav2Goal, cancels, lifecycleQuery, cancelAll>>

Nav2Dies ==
  /\ nav2 # "down"
  /\ nav2' = "down"
  /\ nav2Goal' = [g \in Goals |-> IF nav2Goal[g] = "none" THEN "none" ELSE "lost"]
  /\ lifecycleQuery' = "none"
  /\ cancelAll' = "none"
  /\ UNCHANGED <<nav2Seen, cancels>>

\* Its liveliness lapses in the graph.
Nav2Vanishes ==
  /\ nav2 = "down" /\ nav2Seen
  /\ nav2Seen' = FALSE
  /\ UNCHANGED <<nav2, nav2Goal, cancels, lifecycleQuery, cancelAll>>

Nav2Respawns ==
  /\ nav2 = "down"
  /\ nav2' = "inactive"
  /\ nav2Seen' = TRUE
  /\ UNCHANGED <<nav2Goal, cancels, lifecycleQuery, cancelAll>>

Nav2TypeOK ==
  /\ nav2 \in {"down", "inactive", "active"}
  /\ nav2Seen \in BOOLEAN
  /\ nav2Goal \in [Goals -> Nav2States]
  /\ cancels \subseteq Goals
  /\ lifecycleQuery \in {"none", "asked", "inactive", "active"}
  /\ cancelAll \in {"none", "asked", "acked"}
=============================================================================
