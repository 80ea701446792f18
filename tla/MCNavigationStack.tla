-------------------------- MODULE MCNavigationStack --------------------------
(* NavigationStack for TLC: one or two goals, one command that moves.        *)
EXTENDS NavigationStack, TLC

CONSTANTS still, go, none, g1, g2

MCOneGoal == {g1}
MCTwoGoals == {g1, g2}
MCMonitors == {"status"}
MCNoMonitors == {}
MCMotion == {go}
MCNoMotion == {}
(* The authorization traffic enables and changes nothing else in the stack,    *)
(* so that states that differ only in it need not be told apart.               *)
WithoutAuthorization == <<agentUp, agent, goalPc, stopping, expiring, modeVars,
                          nav2Vars, arbiterUp, motionMode, failures>>
GoalSymmetry == Permutations(MCTwoGoals)
(* A second goal, or a failure: each interleaves with all of the first goal.  *)
OneDisturbance == failures = 0 \/ \E g \in Goals : goalPc[g] = "new"
(* An active Nav2 that is known to be active and that will not fail any more   *)
(* answers the lifecycle query with nothing new: it is not asked.              *)
MayFail == failures = 0 /\ \E g \in Goals : goalPc[g] = "new"
NewsPolled == lifecycleQuery # "none" => MayFail \/ nav2 # "active" \/ ~agent.lifecycleActive
=============================================================================
