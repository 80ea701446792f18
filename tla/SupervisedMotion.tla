--------------------------- MODULE SupervisedMotion ---------------------------
(***************************************************************************)
(* One bounded move under the eyes of an operator,                         *)
(* robot/navigation_agent/.../supervised_motion.py, with the checkpoint of *)
(* pose_checkpoint.py that outlives the process.  run_once is one phase    *)
(* after the other; whatever fails in one ends in fail_closed.  The        *)
(* watchdog is its NeutralGate, reduced to what it lets through, behind    *)
(* its e-stop service.  Distances are counted in steps of the odometry;    *)
(* the robot may be pushed by hand between two runs.                       *)
(***************************************************************************)
EXTENDS Naturals, Sequences

CONSTANTS MaxPose, Tolerance, \* of the pose between two runs
          MaxRuns, MaxDeaths  \* bounds

ASSUME MotionAssumption == {MaxPose, Tolerance, MaxRuns, MaxDeaths} \subseteq Nat

VARIABLES phase,      \* where run_once stands, "off" without a process
          asked,      \* the phase's e-stop request: not sent, sent or answered
          dryRun,     \* "no", "dry", or "reset" for one with reset_pose_checkpoint
          run,        \* runs started
          checkpoint, \* the file
          pose,       \* what the odometry reports
          gate,       \* the watchdog
          requests,   \* e-stop requests it has not handled
          deaths,     \* of the watchdog
          estopLost,  \* it died since it last handled a request
          pushed,     \* the robot was moved by hand since the file was committed
          unsettled   \* the node commanded a motion since then

motionVars == <<phase, asked, dryRun, run, checkpoint, pose, gate, requests, deaths, estopLost,
                pushed, unsettled>>

Calls == {"engaging", "releasing", "stopping", "failing"}
Phases == Calls \cup {"off", "preflight", "checking", "marking", "arming", "executing",
                      "settling", "saving", "zeroing", "ended"}
Gates == {"estop", "waiting", "armed", "driving"}
Resting == {"off", "ended"}

MotionInit ==
  /\ phase = "off" /\ asked = "no" /\ dryRun = "no" /\ run = 0
  /\ checkpoint = [exists |-> FALSE, moving |-> FALSE, pose |-> 0]
  /\ pose = 0
  /\ gate = "waiting" /\ requests = <<>> /\ deaths = 0 /\ estopLost = FALSE
  /\ pushed = TRUE /\ unsettled = FALSE

unmoved == <<pose, pushed, unsettled>>
watchdog == <<gate, requests, deaths, estopLost>>

Goes(next) == phase' = next /\ asked' = "no"

\* fail_closed tries the e-stop first and the zeros whatever became of it.
Failed == IF phase = "failing" THEN "zeroing" ELSE "failing"

StartRun(kind) ==
  /\ phase \in Resting
  /\ run < MaxRuns
  /\ run' = run + 1
  /\ dryRun' = kind
  /\ Goes("engaging")
  /\ UNCHANGED <<checkpoint, unmoved, watchdog>>

\* An exception in any phase.
PhaseFails ==
  /\ phase \notin Resting \cup {"zeroing"}
  /\ Goes(Failed)
  /\ UNCHANGED <<dryRun, run, checkpoint, unmoved, watchdog>>

\* Killed, or interrupted: the handler of rclpy may shut the context down
\* before fail_closed uses it.
Killed ==
  /\ phase \notin Resting
  /\ Goes("off")
  /\ UNCHANGED <<dryRun, run, checkpoint, unmoved, watchdog>>

-----------------------------------------------------------------------------
(* _set_estop                                                                *)

Wanted == phase # "releasing"

AfterCall ==
  CASE phase = "engaging" -> "preflight"
    [] phase = "releasing" -> "arming"
    [] phase = "stopping" -> "settling"
    [] phase = "failing" -> "zeroing"

AsksEstop ==
  /\ phase \in Calls /\ asked = "no"
  /\ asked' = "sent"
  /\ requests' = Append(requests, Wanted)
  /\ UNCHANGED <<phase, dryRun, run, checkpoint, unmoved, gate, deaths, estopLost>>

\* Mutant of EstopConfirmed: a call that takes too long is taken for done.
ConfirmedUnanswered ==
  /\ phase \in Calls /\ asked \in {"sent", "done"}
  /\ Goes(AfterCall)
  /\ UNCHANGED <<dryRun, run, checkpoint, unmoved, watchdog>>

\* The answer, and a fresh status that agrees with it.
EstopConfirmed ==
  /\ phase \in Calls /\ asked = "done"
  /\ (gate = "estop") = Wanted
  /\ Goes(AfterCall)
  /\ UNCHANGED <<dryRun, run, checkpoint, unmoved, watchdog>>

-----------------------------------------------------------------------------
(* What the watchdog makes of requests and commands.                         *)

HandlesEstop ==
  /\ requests # <<>>
  /\ gate' = IF Head(requests) THEN "estop" ELSE IF gate = "estop" THEN "waiting" ELSE gate
  /\ requests' = Tail(requests)
  /\ asked' = IF asked = "sent" /\ Len(requests) = 1 THEN "done" ELSE asked
  /\ estopLost' = FALSE
  /\ UNCHANGED <<phase, dryRun, run, checkpoint, unmoved, deaths>>

PassesZero == IF gate = "estop" THEN gate ELSE "armed"
PassesMove == IF gate = "armed" THEN "driving" ELSE gate

\* The command is too old.
GateTimesOut ==
  /\ gate \in {"armed", "driving"}
  /\ gate' = "waiting"
  /\ UNCHANGED <<phase, asked, dryRun, run, checkpoint, unmoved, requests, deaths, estopLost>>

\* A watchdog that comes back has forgotten its e-stop.
WatchdogDies ==
  /\ deaths < MaxDeaths
  /\ deaths' = deaths + 1
  /\ gate' = "waiting" /\ requests' = <<>> /\ estopLost' = TRUE
  /\ UNCHANGED <<phase, asked, dryRun, run, checkpoint, unmoved>>

RobotMoves ==
  /\ gate = "driving"
  /\ pose < MaxPose
  /\ pose' = pose + 1
  /\ UNCHANGED <<phase, asked, dryRun, run, checkpoint, pushed, unsettled, watchdog>>

RobotPushed ==
  /\ phase \in Resting
  /\ \E p \in 0..MaxPose : pose' = p
  /\ pushed' = TRUE
  /\ UNCHANGED <<phase, asked, dryRun, run, checkpoint, unsettled, watchdog>>

-----------------------------------------------------------------------------
(* The phases.                                                               *)

\* Zeros, the exclusive graph, fresh data, a neutral output and no other input.
Preflight ==
  /\ phase = "preflight"
  /\ gate # "driving"
  /\ gate' = PassesZero
  /\ Goes("checking")
  /\ UNCHANGED <<dryRun, run, checkpoint, unmoved, requests, deaths, estopLost>>

Commit == /\ checkpoint' = [exists |-> TRUE, moving |-> FALSE, pose |-> pose]
          /\ pushed' = FALSE
          /\ unsettled' = FALSE

Deviation == IF pose > checkpoint.pose THEN pose - checkpoint.pose ELSE checkpoint.pose - pose

\* Mutant of Loadable: a file left in progress by a run that died is taken.
LoadableInProgress == checkpoint.exists

\* load_pose_checkpoint
Loadable == checkpoint.exists /\ ~checkpoint.moving

\* _check_pose_checkpoint; a dry run ends here.
ChecksPose ==
  /\ phase = "checking"
  /\ IF dryRun = "reset" THEN Commit
     ELSE Loadable /\ Deviation =< Tolerance /\ UNCHANGED <<checkpoint, pushed, unsettled>>
  /\ IF dryRun = "no" THEN Goes("marking") /\ UNCHANGED gate
     ELSE Goes("ended") /\ gate # "driving" /\ gate' = PassesZero
  /\ UNCHANGED <<dryRun, run, pose, requests, deaths, estopLost>>

\* Mutant of MarksMotion: the file is marked only by its name.
MarksNothing ==
  /\ phase = "marking"
  /\ Goes("releasing")
  /\ UNCHANGED <<dryRun, run, checkpoint, unmoved, watchdog>>

\* mark_pose_checkpoint_in_progress reads the file again.
MarksMotion ==
  /\ phase = "marking"
  /\ Loadable
  /\ checkpoint' = [checkpoint EXCEPT !.moving = TRUE]
  /\ Goes("releasing")
  /\ UNCHANGED <<dryRun, run, unmoved, watchdog>>

Arms ==
  /\ phase = "arming"
  /\ gate' = PassesZero
  /\ Goes("executing")
  /\ UNCHANGED <<dryRun, run, checkpoint, unmoved, requests, deaths, estopLost>>

\* One turn of _execute; what stops it early is PhaseFails.
ExecuteSends ==
  /\ phase = "executing"
  /\ gate' = PassesMove
  /\ unsettled' = TRUE
  /\ UNCHANGED <<phase, asked, dryRun, run, checkpoint, pose, pushed, requests, deaths, estopLost>>

\* Mutant of ExecuteReturns: the endpoint is stored before the base is stopped.
ReturnsUnstopped ==
  /\ phase = "executing"
  /\ Goes("saving")
  /\ UNCHANGED <<dryRun, run, checkpoint, unmoved, watchdog>>

\* The target is reached: a zero, then the e-stop.
ExecuteReturns ==
  /\ phase = "executing"
  /\ gate' = PassesZero
  /\ Goes("stopping")
  /\ UNCHANGED <<dryRun, run, checkpoint, unmoved, requests, deaths, estopLost>>

\* Five zeros and a neutral output.
Settles ==
  /\ phase = "settling"
  /\ gate' = PassesZero
  /\ Goes("saving")
  /\ UNCHANGED <<dryRun, run, checkpoint, unmoved, requests, deaths, estopLost>>

SavesPose ==
  /\ phase = "saving"
  /\ Commit
  /\ Goes("ended")
  /\ UNCHANGED <<dryRun, run, pose, watchdog>>

\* Mutant of Zeroes: nothing is published after a stop that failed.
ZeroesNothing ==
  /\ phase = "zeroing"
  /\ Goes("ended")
  /\ UNCHANGED <<dryRun, run, checkpoint, unmoved, watchdog>>

Zeroes ==
  /\ phase = "zeroing"
  /\ gate' = PassesZero
  /\ Goes("ended")
  /\ UNCHANGED <<dryRun, run, checkpoint, unmoved, requests, deaths, estopLost>>

MotionNext ==
  \/ \E kind \in {"no", "dry", "reset"} : StartRun(kind)
  \/ PhaseFails
  \/ Killed
  \/ AsksEstop
  \/ EstopConfirmed
  \/ HandlesEstop
  \/ GateTimesOut
  \/ WatchdogDies
  \/ RobotMoves
  \/ RobotPushed
  \/ Preflight
  \/ ChecksPose
  \/ MarksMotion
  \/ Arms
  \/ ExecuteSends
  \/ ExecuteReturns
  \/ Settles
  \/ SavesPose
  \/ Zeroes

MotionSpec == MotionInit /\ [][MotionNext]_motionVars

MotionTypeOK ==
  /\ phase \in Phases
  /\ asked \in {"no", "sent", "done"}
  /\ dryRun \in {"no", "dry", "reset"}
  /\ run \in 0..MaxRuns
  /\ checkpoint \in [exists : BOOLEAN, moving : BOOLEAN, pose : 0..MaxPose]
  /\ pose \in 0..MaxPose
  /\ gate \in Gates
  /\ requests \in Seq(BOOLEAN)
  /\ deaths \in 0..MaxDeaths
  /\ {estopLost, pushed, unsettled} \subseteq BOOLEAN

-----------------------------------------------------------------------------
\* INVARIANT: a motion is on record before the base moves and as long as it
\* does, whatever dies: the file says in progress, so that no later run takes
\* the pose it holds for the robot's.
MotionIsRecorded == gate = "driving" => checkpoint.moving

\* INVARIANT, what the checkpoint is for: a motion whose end was not committed,
\* for whatever reason, is followed by another only after an inspection.
UnsettledMotionBlocks == phase \in {"releasing", "arming"} => ~unsettled

\* INVARIANT: the next run accepts a robot nobody pushed: the pose committed is
\* the one the base came to rest at.
CommittedPoseIsFinal ==
  checkpoint.exists /\ ~checkpoint.moving /\ ~pushed => checkpoint.pose = pose

\* INVARIANT: while a run prepares or settles, the e-stop is engaged, although a
\* release that an earlier run gave up may be handled late.
PreparesUnderEstop ==
  phase \in {"preflight", "checking", "marking", "settling", "saving"} =>
    gate = "estop" \/ estopLost

\* INVARIANT: a run that ended by itself, well or badly, does not leave the base
\* moving, also when the e-stop service did not answer.
EndedRunIsStill == phase = "ended" => gate # "driving"

\* INVARIANT, run_once and fail_closed: a run neither begins nor ends in a
\* situation it was not written for, whatever failed or died before.
RunIsSafe == UnsettledMotionBlocks /\ CommittedPoseIsFinal /\ PreparesUnderEstop /\ EndedRunIsStill
=============================================================================
