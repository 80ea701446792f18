----------------------------- MODULE GoalProgress -----------------------------
(***************************************************************************)
(* The supervision of a running goal, NavigationProgressMonitor of         *)
(* navigation_agent/goal_progress.py: Nav2's feedback updates it, the      *)
(* agent's lease timer asks it for a reason to fail the goal.  Distances,  *)
(* angles and time are counted in steps; feedback that is not finite       *)
(* changes nothing and is left out.                                        *)
(***************************************************************************)
EXTENDS Naturals

CONSTANTS MaxDistance, Turn,            \* distances 0..MaxDistance, yaws 0..Turn - 1
          DistanceProgress, YawProgress, \* what counts as progress
          ProgressTimeout, FeedbackTimeout, MaxDuration,
          MaxRecoveries                 \* bound

ASSUME ProgressAssumption ==
  /\ {MaxDistance, MaxRecoveries} \subseteq Nat
  /\ {Turn, DistanceProgress, YawProgress, ProgressTimeout, FeedbackTimeout, MaxDuration}
       \subseteq Nat \ {0}
  /\ MaxDuration > ProgressTimeout

VARIABLES now, lastFeedback, lastProgress, \* since the goal was sent
          heardOnce,                       \* last_feedback_at is set
          best, bestYawError, progressYaw, recoveries,
          failure,                         \* failure_reason, once the goal has one
          checked,                         \* the lease timer fired in this step of time
          report,                          \* the last feedback
          changedAt,                       \* when feedback last differed from the one before
          nearest, earlier                 \* least distance in each of the last ProgressTimeout
                                           \* steps, and before them

monitor == <<lastFeedback, lastProgress, heardOnce, best, bestYawError, progressYaw, recoveries>>
told == <<report, changedAt, nearest, earlier>>
progressVars == <<now, monitor, failure, checked, told>>

Distances == 0..MaxDistance
Yaws == 0..Turn - 1
Target == 0
Beyond == MaxDistance + 1 \* no distance yet

Less(i, j) == IF i < j THEN i ELSE j

\* |wrap_angle(i - j)|
Between(i, j) == LET d == (i + Turn - j) % Turn IN Less(d, Turn - d)

ProgressInit ==
  /\ now = 0 /\ lastFeedback = 0 /\ lastProgress = 0 /\ heardOnce = FALSE
  /\ best = 0 /\ bestYawError = 0 /\ progressYaw = 0 /\ recoveries = 0
  /\ failure = "none" /\ checked = FALSE
  /\ report = [distance |-> Beyond, yaw |-> Target] /\ changedAt = 0
  /\ nearest = [i \in 1..ProgressTimeout |-> Beyond] /\ earlier = Beyond

\* Mutant of BestDistance: the best there was is kept up to date.
BestOfAll(distance, progress) == Less(best, distance)

BestDistance(distance, progress) == IF progress THEN distance ELSE best

\* Mutant of ProgressAt: any feedback shows the goal alive.
AliveAt(progress) == now

ProgressAt(progress) == IF progress THEN now ELSE lastProgress

\* update
Feedback(distance, yaw, count) ==
  LET error == Between(Target, yaw)
      starts == ~heardOnce \/ count > recoveries
      nearer == distance + DistanceProgress <= best
      turned == \/ error + YawProgress <= bestYawError
                \/ Between(yaw, progressYaw) >= YawProgress
  IN /\ failure = "none"
     /\ heardOnce' = TRUE /\ lastFeedback' = now
     /\ IF starts
        THEN /\ best' = distance /\ bestYawError' = error /\ progressYaw' = yaw
             /\ lastProgress' = now
             /\ recoveries' = count
        ELSE /\ best' = BestDistance(distance, nearer)
             /\ bestYawError' = IF turned THEN Less(bestYawError, error) ELSE bestYawError
             /\ progressYaw' = IF turned THEN yaw ELSE progressYaw
             /\ lastProgress' = ProgressAt(nearer \/ turned)
             /\ UNCHANGED recoveries
     /\ report' = [distance |-> distance, yaw |-> yaw]
     /\ changedAt' = IF report' # report \/ starts THEN now ELSE changedAt
     /\ nearest' = [nearest EXCEPT ![ProgressTimeout] = Less(@, distance)]
     /\ UNCHANGED <<now, failure, checked, earlier>>

\* failure_reason, asked by _check_lease.
CheckProgress ==
  /\ failure = "none" /\ ~checked
  /\ checked' = TRUE
  /\ failure' = CASE now >= MaxDuration -> "duration"
                  [] now < MaxDuration /\ now - lastFeedback >= FeedbackTimeout -> "feedback"
                  [] now < MaxDuration /\ now - lastFeedback < FeedbackTimeout
                       /\ now - lastProgress >= ProgressTimeout -> "progress"
                  [] OTHER -> "none"
  /\ UNCHANGED <<now, monitor, told>>

SecondPasses ==
  /\ failure = "none" /\ checked
  /\ now' = now + 1
  /\ checked' = FALSE
  /\ earlier' = Less(earlier, nearest[1])
  /\ nearest' = [i \in 1..ProgressTimeout |->
                   IF i < ProgressTimeout THEN nearest[i + 1] ELSE Beyond]
  /\ UNCHANGED <<monitor, failure, report, changedAt>>

ProgressNext ==
  \/ \E distance \in Distances, yaw \in Yaws, count \in 0..MaxRecoveries :
       Feedback(distance, yaw, count)
  \/ CheckProgress
  \/ SecondPasses

ProgressSpec == ProgressInit /\ [][ProgressNext]_progressVars

ProgressTypeOK ==
  /\ {now, lastFeedback, lastProgress, changedAt} \subseteq 0..MaxDuration
  /\ {heardOnce, checked} \subseteq BOOLEAN
  /\ {best, bestYawError, progressYaw, recoveries} \subseteq Nat
  /\ failure \in {"none", "duration", "feedback", "progress"}
  /\ report \in [distance : Distances \cup {Beyond}, yaw : Yaws]
  /\ nearest \in [1..ProgressTimeout -> Distances \cup {Beyond}]
  /\ earlier \in Distances \cup {Beyond}

-----------------------------------------------------------------------------
\* INVARIANT: a goal that the timer lets go on has had, within the progress
\* timeout, feedback that said something else than the one before.
StuckGoalFails == checked /\ failure = "none" => now < changedAt + ProgressTimeout

\* INVARIANT: a goal is not failed for lack of progress while its robot is
\* nearer, by a step of progress, than it ever was before the timeout began,
\* however slowly it came there.
CreepingIsProgress ==
  failure = "progress" => report.distance + DistanceProgress > earlier

\* INVARIANT, NavigationProgressMonitor: neither does a robot that is stuck go
\* on, nor does one that creeps along fail.
ProgressIsJudged == StuckGoalFails /\ CreepingIsProgress
=============================================================================
