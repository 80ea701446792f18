----------------------------- MODULE TaskMission -----------------------------
(***************************************************************************)
(* Tasks on a robot: the task manager, the gateway's ROS node and the      *)
(* robot.  As in PatrolMission leases are published and none lapses, and a *)
(* goal that fails for any reason fails.                                   *)
(***************************************************************************)
EXTENDS TaskManager

taskMissionVars == <<robotVars, gatewayVars, taskVars>>

TaskMissionInit == LinkInit /\ GatewayInit /\ TaskInit

RobotAnswers(c) == AgentAnswers(c) /\ UNCHANGED <<gatewayVars, taskVars>>
RobotBegins == AgentBegins /\ UNCHANGED <<gatewayVars, taskVars>>
RobotEnds ==
  (AgentCondemns \/ AgentSettles \/ AgentFinishes) /\ UNCHANGED <<gatewayVars, taskVars>>
RobotPublishes == AgentPublishes /\ UNCHANGED <<gatewayVars, taskVars>>

\* The threads of the gateway's node that are not the task manager's.
GatewayThread(c) ==
  /\ \/ StartAnswered(c)
     \/ StartActivates(c)
     \/ StartGivesUp(c)
     \/ StartLeases(c)
     \/ PoppedIsCanceled(c)
  /\ UNCHANGED taskVars

GatewayTimers ==
  /\ \/ LeaseTimerGivesUp
     \/ \E c \in Commands : ResultArrives(c)
  /\ UNCHANGED taskVars

StatusIsTaken == StatusTaken /\ UNCHANGED taskVars

StatusListeners(i) ==
  \/ TaskHearsStatus(i)
  \/ syncing = NoSync /\ StatusApplied(i) /\ UNCHANGED taskVars

RunThread ==
  \/ TaskRunStarts
  \/ \E c \in Commands : TaskRunCalls(c)
  \/ TaskRunAnswered
  \/ TaskRunRegisters

Operator ==
  \E t \in Tasks :
    \/ \E target \in Targets : CreateTask(t, target)
    \/ \E new \in Tasks : RetryTask(t, new)
    \/ TaskRunChecks(t)
    \/ TaskCancelReads(t)

CancelThread == TaskCancelCalls \/ TaskCancelCloses

TaskNext ==
  \/ \E c \in Commands : RobotAnswers(c) \/ GatewayThread(c)
  \/ RobotBegins
  \/ RobotEnds
  \/ RobotPublishes
  \/ GatewayTimers
  \/ StatusIsTaken
  \/ \E i \in DOMAIN heard : StatusListeners(i)
  \/ TaskSynced
  \/ Operator
  \/ RunThread
  \/ CancelThread
  \/ TasksRestart

TaskMissionSpec == TaskMissionInit /\ [][TaskNext]_taskMissionVars

\* Threads that are ready run, and the agent reports what became of a goal.
FairTaskSpec ==
  /\ TaskMissionSpec
  /\ \A c \in Commands :
       WF_taskMissionVars(RobotAnswers(c)) /\ WF_taskMissionVars(GatewayThread(c))
  /\ WF_taskMissionVars(RunThread)
  /\ WF_taskMissionVars(RobotPublishes)
  /\ WF_taskMissionVars(StatusIsTaken)
  /\ WF_taskMissionVars(StatusListeners(1))
  /\ WF_taskMissionVars(TaskSynced)

-----------------------------------------------------------------------------
TaskMissionTypeOK == GatewayTypeOK /\ TaskTypeOK

\* INVARIANT: a task is shown as SUCCEEDED only if the robot reached its pose,
\* although the status that closes it names no command and may be the last one
\* of an earlier goal.
SucceededTaskReached ==
  \A t \in Tasks : tasks[t].state = "SUCCEEDED" =>
    \E c \in Commands : goalTarget[c] = tasks[t].target /\ outcome[c] = "SUCCEEDED"

\* INVARIANT: somebody starts the goal of every task that is STARTING, also
\* after a restart of the gateway; one that nobody drives would keep the robot
\* from any other task.
StartingTaskIsDriven ==
  \A t \in Tasks : tasks[t].state = "STARTING" => runner.task = t

Awaits(t, c) == tasks[t].state = "ACTIVE" /\ tasks[t].command = c

\* The robot took no goal but c: what it shows is c's verdict.
Only(c) == \A d \in Commands \ {c} : goalRequest[d] # "accepted"

\* LIVENESS: a task does not stay ACTIVE when its goal ended, although the
\* status that says so names no command and the one that named it may have
\* been displaced.  (A goal the gateway had given up, and the robot accepts
\* after all, shows its own verdict instead; then the task stays ACTIVE.)
EndedGoalClosesTask ==
  \A t \in Tasks, c \in Commands :
    (Awaits(t, c) /\ outcome[c] \in Agent!Endings) ~> (~Awaits(t, c) \/ ~Only(c))
=============================================================================
