-------------------------- MODULE TaskMission_proofs --------------------------
(***************************************************************************)
(* Tasks for any number of tasks, commands and restarts: to the gateway's  *)
(* node they are clients like any other, and none is forgotten while it    *)
(* starts.                                                                 *)
(***************************************************************************)
EXTENDS TaskMission, FleetOwnership_proofs

\* Whoever has started has a pose, whoever is ACTIVE a command.
RowsOK ==
  /\ tasks \in [Tasks -> TaskRows]
  /\ \A t \in Tasks :
       /\ tasks[t].state = "ACTIVE" => tasks[t].command # NoCommand
       /\ tasks[t].state # "none" \/ tasks[t].command # NoCommand => tasks[t].target \in Targets

RunPcs == {"idle", "accepted", "call", "wait", "register"}
CancelPcs == {"idle", "call", "closed", "failed"}

RunnerOK ==
  /\ runner \in [task : Tasks \cup {NoTask}, pc : RunPcs, command : Commands \cup {NoCommand}]
  /\ runner.pc # "idle" => runner.task \in Tasks /\ tasks[runner.task].target \in Targets
  /\ runner.pc \in {"wait", "register"} => runner.command \in Commands

CancelerOK ==
  /\ canceler \in [task : Tasks \cup {NoTask}, pc : CancelPcs, command : Commands \cup {NoCommand}]
  /\ canceler.pc # "idle" => canceler.task \in Tasks /\ tasks[canceler.task].target \in Targets
  /\ canceler.pc = "call" => canceler.command \in Commands

\* What sync_navigation found is a row with a command, and no state but those
\* a status gives.
Found == [task : Tasks, state : Closed \cup {"ACTIVE"}, command : Commands \cup {NoCommand}]

SyncOK ==
  /\ observedCommand \in Commands \cup {NoCommand}
  /\ syncing = NoSync \/ (syncing \in Found /\ tasks[syncing.task].command # NoCommand)

\* STARTING is written by the run request alone, which is then calling the node.
Driven ==
  \A t \in Tasks : tasks[t].state = "STARTING" => runner.task = t /\ runner.pc \in {"call", "wait"}

TasksInv == RowsOK /\ RunnerOK /\ CancelerOK /\ SyncOK /\ Driven

LEMMA TaskFacts == NoTask \notin Tasks /\ NoCommand \notin Commands
  BY CommandFacts, TaskAssumption DEF Tasks, NoTask, CommandTypes

\* Nothing of the tasks changes.
LEMMA TasksUntouched == ASSUME TasksInv, UNCHANGED taskVars PROVE TasksInv'
  BY DEF TasksInv, RowsOK, RunnerOK, CancelerOK, SyncOK, Driven, taskVars

\* A row whose state is written keeps its pose and its command; the rows keep
\* their types, and with them what the threads know of them.
LEMMA StateWritten ==
  ASSUME TasksInv, NEW t \in Tasks, NEW state \in Closed \cup {"ACTIVE"},
         tasks[t].target \in Targets, state = "ACTIVE" => tasks[t].command # NoCommand,
         SetState(t, state)
  PROVE  /\ RowsOK'
         /\ \A u \in Tasks : /\ tasks'[u].target = tasks[u].target
                             /\ tasks'[u].command = tasks[u].command
                             /\ tasks'[u].state = IF u = t THEN state ELSE tasks[u].state
<1>1. tasks \in [Tasks -> TaskRows] /\ tasks' = [tasks EXCEPT ![t].state = state]
  BY DEF TasksInv, RowsOK, SetState
<1>2. \A u \in Tasks : /\ tasks'[u].target = tasks[u].target
                       /\ tasks'[u].command = tasks[u].command
                       /\ tasks'[u].state = IF u = t THEN state ELSE tasks[u].state
  BY <1>1 DEF TaskRows
<1>3. tasks' \in [Tasks -> TaskRows]
  BY <1>1 DEF TaskRows, Underway
<1> QED
  BY <1>2, <1>3 DEF TasksInv, RowsOK

-----------------------------------------------------------------------------
(* The operator and the run request.                                         *)

\* A new row, for a pose given or the pose of another row.
LEMMA CreateStep ==
  ASSUME TasksInv, NEW t \in Tasks, NEW target \in Targets, CreateTask(t, target)
  PROVE  TasksInv'
<1>1. /\ tasks \in [Tasks -> TaskRows] /\ tasks[t].state = "none"
      /\ tasks' = [tasks EXCEPT ![t].state = "CREATED", ![t].target = target]
  BY DEF CreateTask, TasksInv, RowsOK
<1>2. \A u \in Tasks : /\ tasks'[u].command = tasks[u].command
                       /\ tasks'[u].target = IF u = t THEN target ELSE tasks[u].target
                       /\ tasks'[u].state = IF u = t THEN "CREATED" ELSE tasks[u].state
  BY <1>1 DEF TaskRows
<1>3. tasks' \in [Tasks -> TaskRows]
  BY <1>1 DEF TaskRows
<1>4. RowsOK'
  BY <1>2, <1>3 DEF TasksInv, RowsOK
<1>5. UNCHANGED <<observedCommand, syncing, runner, canceler>>
  BY DEF CreateTask
<1> QED
  BY <1>2, <1>4, <1>5 DEF TasksInv, RunnerOK, CancelerOK, SyncOK, Found, Driven

LEMMA OperatorStep == ASSUME TasksInv, Operator PROVE TasksInv'
<1> USE TaskFacts
<1>1. ASSUME NEW t \in Tasks, NEW target \in Targets, CreateTask(t, target) PROVE TasksInv'
  BY <1>1, CreateStep
<1>2. ASSUME NEW t \in Tasks, NEW new \in Tasks, RetryTask(t, new) PROVE TasksInv'
  <2>1. tasks[t].target \in Targets
    BY <1>2 DEF RetryTask, TasksInv, RowsOK
  <2> QED
    BY <1>2, <2>1, CreateStep DEF RetryTask
<1>3. ASSUME NEW t \in Tasks, TaskRunChecks(t) PROVE TasksInv'
  <2>1. /\ runner = NoRequest /\ tasks[t].state = "CREATED" /\ tasks[t].target \in Targets
        /\ runner' = [runner EXCEPT !.task = t, !.pc = "accepted"]
        /\ UNCHANGED <<tasks, observedCommand, syncing, canceler>>
    BY <1>3 DEF TaskRunChecks, TasksInv, RowsOK
  <2>2. runner' = [task |-> t, pc |-> "accepted", command |-> NoCommand]
    BY <2>1 DEF NoRequest
  <2>3. \A u \in Tasks : tasks[u].state # "STARTING"
    BY <2>1 DEF TasksInv, Driven, NoRequest
  <2> QED
    BY <2>1, <2>2, <2>3 DEF TasksInv, RowsOK, RunnerOK, CancelerOK, SyncOK, Driven, RunPcs
<1>4. ASSUME NEW t \in Tasks, TaskCancelReads(t) PROVE TasksInv'
  <2>1. /\ tasks[t].target \in Targets /\ tasks[t].command \in Commands \cup {NoCommand}
        /\ canceler' = [task |-> t, command |-> tasks[t].command,
                        pc |-> IF tasks[t].state = "CREATED" THEN "closed"
                               ELSE IF tasks[t].command = NoCommand THEN "failed" ELSE "call"]
        /\ UNCHANGED <<tasks, observedCommand, syncing, runner>>
    BY <1>4 DEF TaskCancelReads, TasksInv, RowsOK, TaskRows, Underway
  <2>2. CancelerOK'
    BY <2>1 DEF CancelerOK, CancelPcs
  <2> QED
    BY <2>1, <2>2 DEF TasksInv, RowsOK, RunnerOK, SyncOK, Driven
<1> QED
  BY <1>1, <1>2, <1>3, <1>4 DEF Operator

LEMMA RunStep == ASSUME TasksInv, RunThread PROVE TasksInv'
<1> USE TaskFacts
<1>1. CASE TaskRunStarts
  <2>1. /\ runner.pc = "accepted" /\ runner.task \in Tasks /\ tasks \in [Tasks -> TaskRows]
        /\ tasks[runner.task].target \in Targets
        /\ tasks' = [tasks EXCEPT ![runner.task].state = "STARTING"]
        /\ runner' = [runner EXCEPT !.pc = "call"]
        /\ UNCHANGED <<observedCommand, syncing, canceler>>
    BY <1>1 DEF TaskRunStarts, SetState, RunGoes, TasksInv, RowsOK, RunnerOK
  <2>2. \A u \in Tasks :
          /\ tasks'[u].target = tasks[u].target
          /\ tasks'[u].command = tasks[u].command
          /\ tasks'[u].state = IF u = runner.task THEN "STARTING" ELSE tasks[u].state
    BY <2>1 DEF TaskRows
  <2>3. tasks' \in [Tasks -> TaskRows]
    BY <2>1 DEF TaskRows, Underway
  <2>4. RowsOK'
    BY <2>1, <2>2, <2>3 DEF TasksInv, RowsOK
  <2>5. runner' \in [task : Tasks \cup {NoTask}, pc : RunPcs, command : Commands \cup {NoCommand}]
        /\ runner'.task = runner.task /\ runner'.pc = "call"
    BY <2>1 DEF TasksInv, RunnerOK, RunPcs
  <2>6. Driven'
    BY <2>1, <2>2, <2>5 DEF TasksInv, Driven
  <2> QED
    BY <2>1, <2>2, <2>4, <2>5, <2>6 DEF TasksInv, RunnerOK, CancelerOK, SyncOK, Found
<1>2. ASSUME NEW c \in Commands, TaskRunCalls(c) PROVE TasksInv'
  <2>1. /\ runner.pc = "call" /\ runner' = [runner EXCEPT !.pc = "wait", !.command = c]
        /\ UNCHANGED <<tasks, observedCommand, syncing, canceler>>
    BY <1>2 DEF TaskRunCalls
  <2>2. runner' \in [task : Tasks \cup {NoTask}, pc : RunPcs, command : Commands \cup {NoCommand}]
        /\ runner'.task = runner.task /\ runner'.pc = "wait" /\ runner'.command = c
    BY <2>1 DEF TasksInv, RunnerOK, RunPcs
  <2> QED
    BY <2>1, <2>2 DEF TasksInv, RowsOK, RunnerOK, CancelerOK, SyncOK, Driven
<1>3. CASE TaskRunAnswered
  <2> DEFINE t == runner.task
  <2>1. /\ runner.pc = "wait" /\ t \in Tasks /\ runner.command \in Commands
        /\ tasks[t].target \in Targets /\ tasks \in [Tasks -> TaskRows]
        /\ UNCHANGED <<observedCommand, syncing, canceler>>
    BY <1>3 DEF TaskRunAnswered, TasksInv, RowsOK, RunnerOK
  <2>2. CASE /\ tasks' = [tasks EXCEPT ![t].state = "ACTIVE", ![t].command = runner.command]
             /\ RunGoes("register")
    <3>1. \A u \in Tasks :
            /\ tasks'[u].target = tasks[u].target
            /\ tasks'[u].command = IF u = t THEN runner.command ELSE tasks[u].command
            /\ tasks'[u].state = IF u = t THEN "ACTIVE" ELSE tasks[u].state
      BY <2>1, <2>2 DEF TaskRows
    <3>2. tasks' \in [Tasks -> TaskRows]
      BY <2>1, <2>2 DEF TaskRows, Underway
    <3>3. RowsOK'
      BY <2>1, <3>1, <3>2 DEF TasksInv, RowsOK
    <3>4. runner' \in [task : Tasks \cup {NoTask}, pc : RunPcs,
                       command : Commands \cup {NoCommand}]
          /\ runner'.task = t /\ runner'.pc = "register" /\ runner'.command = runner.command
      BY <2>2 DEF RunGoes, TasksInv, RunnerOK, RunPcs
    <3>5. Driven'
      BY <3>1 DEF TasksInv, Driven
    <3> QED
      BY <2>1, <3>1, <3>3, <3>4, <3>5 DEF TasksInv, RunnerOK, CancelerOK, SyncOK, Found
  <2>3. CASE SetState(t, "FAILED") /\ runner' = NoRequest
    <3>1. /\ RowsOK'
          /\ \A u \in Tasks : /\ tasks'[u].target = tasks[u].target
                              /\ tasks'[u].command = tasks[u].command
                              /\ tasks'[u].state = IF u = t THEN "FAILED" ELSE tasks[u].state
      BY <2>1, <2>3, StateWritten DEF Closed
    <3>2. Driven'
      BY <3>1 DEF TasksInv, Driven
    <3>3. RunnerOK'
      BY <2>3 DEF RunnerOK, NoRequest, RunPcs
    <3> QED
      BY <2>1, <3>1, <3>2, <3>3 DEF TasksInv, CancelerOK, SyncOK, Found
  <2> QED
    BY <1>3, <2>2, <2>3 DEF TaskRunAnswered
<1>4. CASE TaskRunRegisters
  <2>1. /\ runner.pc = "register" /\ runner.command \in Commands
        /\ observedCommand' = runner.command /\ runner' = NoRequest
        /\ UNCHANGED <<tasks, syncing, canceler>>
    BY <1>4 DEF TaskRunRegisters, TasksInv, RunnerOK
  <2>2. \A u \in Tasks : tasks[u].state # "STARTING"
    BY <2>1 DEF TasksInv, Driven
  <2> QED
    BY <2>1, <2>2 DEF TasksInv, RowsOK, RunnerOK, CancelerOK, SyncOK, Driven, NoRequest, RunPcs
<1> QED
  BY <1>1, <1>2, <1>3, <1>4 DEF RunThread

-----------------------------------------------------------------------------
(* The cancel request, sync_navigation and the restart.                      *)

LEMMA CancelStep == ASSUME TasksInv, CancelThread PROVE TasksInv'
<1> USE TaskFacts
<1>1. CASE TaskCancelCalls
  <2>1. /\ canceler.pc = "call" /\ UNCHANGED <<tasks, observedCommand, syncing, runner>>
        /\ \E pc \in {"closed", "failed"} : canceler' = [canceler EXCEPT !.pc = pc]
    BY <1>1 DEF TaskCancelCalls
  <2>2. CancelerOK'
    BY <2>1 DEF TasksInv, CancelerOK, CancelPcs
  <2> QED
    BY <2>1, <2>2 DEF TasksInv, RowsOK, RunnerOK, SyncOK, Driven
<1>2. CASE TaskCancelCloses
  <2> DEFINE state == IF canceler.pc = "closed" THEN "CANCELED" ELSE "FAILED"
  <2>1. /\ canceler.task \in Tasks /\ tasks[canceler.task].target \in Targets
        /\ SetState(canceler.task, state) /\ canceler' = NoRequest
        /\ UNCHANGED <<observedCommand, syncing, runner>>
    BY <1>2 DEF TaskCancelCloses, TasksInv, CancelerOK
  <2>2. state \in Closed /\ state \notin {"ACTIVE", "STARTING"}
    BY DEF Closed
  <2> HIDE DEF state
  <2>3. /\ RowsOK'
        /\ \A u \in Tasks : /\ tasks'[u].target = tasks[u].target
                            /\ tasks'[u].command = tasks[u].command
                            /\ tasks'[u].state = IF u = canceler.task THEN state ELSE tasks[u].state
    BY <2>1, <2>2, StateWritten
  <2>4. Driven'
    BY <2>1, <2>2, <2>3 DEF TasksInv, Driven
  <2>5. CancelerOK'
    BY <2>1 DEF CancelerOK, NoRequest, CancelPcs
  <2> QED
    BY <2>1, <2>3, <2>4, <2>5 DEF TasksInv, RunnerOK, SyncOK, Found
<1> QED
  BY <1>1, <1>2 DEF CancelThread

\* Whatever sync_navigation finds has a command and a state a status gives.
LEMMA HearsStep ==
  ASSUME TasksInv, GatewayTypeOK, NEW i \in DOMAIN heard, TaskHearsStatus(i)
  PROVE  TasksInv'
<1> USE TaskFacts
<1> DEFINE status == heard[i].status
<1>1. status \in Statuses
  <2>1. heard \in Seq(Callbacks)
    BY DEF GatewayTypeOK
  <2>2. heard[i] \in Callbacks
    BY <2>1
  <2> QED
    BY <2>2 DEF Callbacks
<1>2. UNCHANGED <<tasks, runner, canceler>> /\ syncing = NoSync
  BY DEF TaskHearsStatus
<1>3. SyncOK'
  <2>1. CASE FindsInterrupted(status)
    <3>1. observedCommand' = NoCommand
      BY <2>1 DEF FindsInterrupted
    <3>2. CASE syncing' = syncing
      BY <1>2, <3>1, <3>2 DEF SyncOK
    <3>3. ASSUME NEW t \in Tasks, tasks[t].command # NoCommand, Finds(t, "FAILED", NoCommand)
          PROVE  SyncOK'
      BY <1>2, <3>1, <3>3 DEF SyncOK, Finds, Found, Closed
    <3> QED
      BY <2>1, <3>2, <3>3 DEF FindsInterrupted
  <2>2. CASE /\ FindsByCommand(status) /\ status.command # NoCommand
             /\ status.state \in Agent!Endings \cup {"ACTIVE"}
    <3>1. RowState(status.state) \in Closed \cup {"ACTIVE"}
      BY <2>2 DEF RowState, Closed, Agent!Endings, Agent!Failures
    <3>2. status.command \in Commands
      BY <1>1, <2>2 DEF Statuses
    <3>3. CASE UNCHANGED <<syncing, observedCommand>>
      BY <1>2, <3>3 DEF TasksInv, SyncOK
    <3>4. ASSUME NEW t \in Tasks, tasks[t].command = status.command,
                 Finds(t, RowState(status.state), status.command),
                 observedCommand' = status.command
          PROVE  SyncOK'
      BY <1>2, <3>1, <3>2, <3>4 DEF SyncOK, Finds, Found
    <3> QED
      BY <2>2, <3>3, <3>4 DEF FindsByCommand
  <2>3. CASE FindsObserved(status) /\ status.state \in Agent!Endings \cup {"ACTIVE"}
    <3>1. RowState(status.state) \in Closed \cup {"ACTIVE"}
      BY <2>3 DEF RowState, Closed, Agent!Endings, Agent!Failures
    <3>2. observedCommand' = observedCommand /\ observedCommand \in Commands \cup {NoCommand}
      BY <2>3 DEF FindsObserved, TasksInv, SyncOK
    <3>3. CASE syncing' = syncing
      BY <1>2, <3>2, <3>3 DEF SyncOK
    <3>4. ASSUME NEW t \in Tasks, observedCommand # NoCommand,
                 tasks[t].command = observedCommand,
                 Finds(t, RowState(status.state), observedCommand)
          PROVE  SyncOK'
      BY <1>2, <3>1, <3>2, <3>4 DEF SyncOK, Finds, Found
    <3> QED
      BY <2>3, <3>3, <3>4 DEF FindsObserved
  <2>4. CASE UNCHANGED <<syncing, observedCommand>>
    BY <1>2, <2>4 DEF TasksInv, SyncOK
  <2> QED
    BY <2>1, <2>2, <2>3, <2>4 DEF TaskHearsStatus
<1> QED
  BY <1>2, <1>3 DEF TasksInv, RowsOK, RunnerOK, CancelerOK, Driven

LEMMA SyncedStep == ASSUME TasksInv, TaskSynced PROVE TasksInv'
<1> USE TaskFacts
<1>1. /\ syncing \in Found /\ tasks[syncing.task].command # NoCommand
      /\ SetState(syncing.task, syncing.state) /\ syncing' = NoSync
      /\ observedCommand' \in {NoCommand, observedCommand}
      /\ UNCHANGED <<runner, canceler>>
  BY DEF TaskSynced, TasksInv, SyncOK
<1>2. /\ syncing.task \in Tasks /\ syncing.state \in Closed \cup {"ACTIVE"}
      /\ syncing.state # "STARTING"
  BY <1>1 DEF Found, Closed
<1>3. tasks[syncing.task].target \in Targets
  BY <1>1, <1>2 DEF TasksInv, RowsOK
<1>4. /\ RowsOK'
      /\ \A u \in Tasks : /\ tasks'[u].target = tasks[u].target
                          /\ tasks'[u].command = tasks[u].command
                          /\ tasks'[u].state = IF u = syncing.task THEN syncing.state
                                               ELSE tasks[u].state
  BY <1>1, <1>2, <1>3, StateWritten
<1>5. Driven'
  BY <1>1, <1>2, <1>4 DEF TasksInv, Driven
<1>6. SyncOK'
  BY <1>1 DEF TasksInv, SyncOK
<1> QED
  BY <1>1, <1>4, <1>5, <1>6 DEF TasksInv, RunnerOK, CancelerOK

LEMMA TasksRestartStep == ASSUME TasksInv, TasksRestart PROVE TasksInv'
<1> USE TaskFacts
<1>1. /\ runner' = NoRequest /\ canceler' = NoRequest /\ syncing' = NoSync
      /\ observedCommand' = NoCommand
      /\ tasks' = [t \in Tasks |-> IF TaskIsLost(t) THEN [tasks[t] EXCEPT !.state = "FAILED"]
                                   ELSE tasks[t]]
  BY DEF TasksRestart
<1>2. tasks \in [Tasks -> TaskRows]
  BY DEF TasksInv, RowsOK
<1>3. \A u \in Tasks : /\ tasks'[u].target = tasks[u].target
                       /\ tasks'[u].command = tasks[u].command
                       /\ tasks'[u].state = IF tasks[u].state \in Underway THEN "FAILED"
                                            ELSE tasks[u].state
  BY <1>1, <1>2 DEF TaskRows, TaskIsLost
<1>4. tasks' \in [Tasks -> TaskRows]
  BY <1>1, <1>2 DEF TaskRows, Closed
<1>5. RowsOK'
  BY <1>3, <1>4 DEF TasksInv, RowsOK, Underway
<1>6. Driven'
  BY <1>3 DEF Driven, Underway
<1> QED
  BY <1>1, <1>5, <1>6 DEF TasksInv, RunnerOK, CancelerOK, SyncOK, NoRequest, RunPcs, CancelPcs

-----------------------------------------------------------------------------
(* To the gateway's node and the robot.                                      *)

\* A step of the tasks is one of the node and its clients, or none to them.
LEMMA TaskStepOfFleet ==
  ASSUME TasksInv, GatewayTypeOK, [TaskNext]_taskMissionVars
  PROVE  [FleetNext]_fleetVars
<1> USE DEF fleetVars
<1>1. ASSUME NEW c \in Commands, RobotAnswers(c) PROVE FleetNext
  BY <1>1 DEF RobotAnswers, FleetNext, Robot
<1>2. ASSUME NEW c \in Commands, GatewayThread(c) PROVE FleetNext
  BY <1>2 DEF GatewayThread, FleetNext, StartThread
<1>3. CASE RobotBegins \/ RobotEnds \/ RobotPublishes
  BY <1>3 DEF RobotBegins, RobotEnds, RobotPublishes, FleetNext, RobotRuns, RobotReports
<1>4. CASE GatewayTimers
  BY <1>4 DEF GatewayTimers, FleetNext
<1>5. CASE StatusIsTaken
  BY <1>5 DEF StatusIsTaken, FleetNext
<1>6. ASSUME NEW i \in DOMAIN heard, StatusListeners(i) PROVE FleetNext
  BY <1>6 DEF StatusListeners, TaskHearsStatus, FleetNext, StatusCallback
<1>7. CASE TaskSynced
  BY <1>7 DEF TaskSynced
<1>8. CASE Operator
  BY <1>8 DEF Operator, CreateTask, RetryTask, TaskRunChecks, TaskCancelReads
<1>9. CASE RunThread
  <2>1. ASSUME NEW c \in Commands, TaskRunCalls(c) PROVE FleetNext
    <3>1. tasks[runner.task].target \in Targets
      BY <2>1 DEF TaskRunCalls, TasksInv, RunnerOK
    <3> QED
      BY <2>1, <3>1 DEF TaskRunCalls, FleetNext, Clients
  <2> QED
    BY <1>9, <2>1 DEF RunThread, TaskRunStarts, TaskRunAnswered, TaskRunRegisters
<1>10. CASE CancelThread
  <2>1. CASE TaskCancelCalls /\ active = canceler.command
    <3>1. active \in Commands /\ CancelPops(active)
      BY <2>1 DEF TaskCancelCalls, TasksInv, CancelerOK
    <3> QED
      BY <3>1 DEF FleetNext, Clients
  <2> QED
    BY <1>10, <2>1 DEF CancelThread, TaskCancelCalls, TaskCancelCloses
<1>11. CASE TasksRestart
  BY <1>11 DEF TasksRestart, FleetNext
<1>12. CASE UNCHANGED taskMissionVars
  BY <1>12 DEF taskMissionVars
<1> QED
  BY <1>1, <1>2, <1>3, <1>4, <1>5, <1>6, <1>7, <1>8, <1>9, <1>10, <1>11, <1>12 DEF TaskNext

LEMMA TaskStep == FleetInv /\ TasksInv /\ [TaskNext]_taskMissionVars => FleetInv' /\ TasksInv'
<1> SUFFICES ASSUME FleetInv, TasksInv, [TaskNext]_taskMissionVars
             PROVE  FleetInv' /\ TasksInv'
  OBVIOUS
<1>1. GatewayTypeOK
  BY DEF FleetInv
<1>2. FleetInv'
  BY <1>1, TaskStepOfFleet, FleetStep
<1>3. TasksInv'
  <2>1. ASSUME NEW c \in Commands, RobotAnswers(c) \/ GatewayThread(c) PROVE TasksInv'
    BY <2>1, TasksUntouched DEF RobotAnswers, GatewayThread
  <2>2. CASE RobotBegins \/ RobotEnds \/ RobotPublishes \/ GatewayTimers \/ StatusIsTaken
    BY <2>2, TasksUntouched DEF RobotBegins, RobotEnds, RobotPublishes, GatewayTimers,
                                StatusIsTaken
  <2>3. ASSUME NEW i \in DOMAIN heard, StatusListeners(i) PROVE TasksInv'
    BY <1>1, <2>3, TasksUntouched, HearsStep DEF StatusListeners
  <2>4. CASE UNCHANGED taskMissionVars
    BY <2>4, TasksUntouched DEF taskMissionVars
  <2> QED
    BY <2>1, <2>2, <2>3, <2>4, SyncedStep, OperatorStep, RunStep, CancelStep, TasksRestartStep
    DEF TaskNext
<1> QED
  BY <1>2, <1>3

LEMMA TasksInitially == TaskMissionInit => FleetInv /\ TasksInv
<1> SUFFICES ASSUME TaskMissionInit PROVE FleetInv /\ TasksInv
  OBVIOUS
<1>1. FleetInv
  BY FleetInitially DEF TaskMissionInit, FleetInit
<1>2. RowsOK
  BY DEF TaskMissionInit, TaskInit, RowsOK, TaskRows
<1>3. RunnerOK /\ CancelerOK /\ SyncOK /\ Driven
  BY DEF TaskMissionInit, TaskInit, RunnerOK, CancelerOK, SyncOK, Driven, NoRequest, RunPcs,
         CancelPcs
<1> QED
  BY <1>1, <1>2, <1>3 DEF TasksInv

LEMMA TasksInvariant == TaskMissionSpec => [](FleetInv /\ TasksInv)
<1>1. (FleetInv /\ TasksInv) /\ [TaskNext]_taskMissionVars => (FleetInv /\ TasksInv)'
  BY TaskStep
<1> QED
  BY <1>1, TasksInitially, PTL DEF TaskMissionSpec

\* THEOREM: the types of the tasks and of the node they use, and no ACTIVE task
\* without the command its statuses are found by.
THEOREM TasksTyped == TaskMissionSpec => []TaskMissionTypeOK
<1>1. FleetInv /\ TasksInv => TaskMissionTypeOK
  BY DEF FleetInv, TasksInv, RowsOK, RunnerOK, CancelerOK, SyncOK, Found, NoSync,
         TaskMissionTypeOK, TaskTypeOK
<1> QED
  BY <1>1, TasksInvariant, PTL

\* THEOREM: somebody starts the goal of every STARTING task, whatever is canceled
\* or synchronized meanwhile, and none is left of a gateway that died.
THEOREM TasksDriven == TaskMissionSpec => []StartingTaskIsDriven
<1>1. FleetInv /\ TasksInv => StartingTaskIsDriven
  BY DEF TasksInv, Driven, StartingTaskIsDriven
<1> QED
  BY <1>1, TasksInvariant, PTL

\* THEOREM: to the gateway's node and the robot the tasks are clients like any
\* other, so that whatever holds of FleetOwnership holds with them.
THEOREM TasksAreClients == TaskMissionSpec => FleetSpec
<1>1. TaskMissionInit => FleetInit
  BY DEF TaskMissionInit, FleetInit
<1>2. (FleetInv /\ TasksInv) /\ [TaskNext]_taskMissionVars => [FleetNext]_fleetVars
  BY TaskStepOfFleet DEF FleetInv
<1> QED
  BY <1>1, <1>2, TasksInvariant, PTL DEF TaskMissionSpec, FleetSpec
-----------------------------------------------------------------------------
(* What a SUCCEEDED task is worth.                                           *)

\* A row that says SUCCEEDED, or is found to have, is for a pose that was
\* reached; one that is not used has no command to be found by.
SuccessIsOfPose ==
  /\ \A t \in Tasks :
       /\ tasks[t].state = "SUCCEEDED" => Reached(tasks[t].target)
       /\ tasks[t].state = "none" => tasks[t].command = NoCommand
  /\ syncing.state = "SUCCEEDED" => Reached(tasks[syncing.task].target)

\* What a step does to the rows: a pose once given stays, a row is used once, and
\* only what sync_navigation found makes one SUCCEEDED.
RowsKeepPose ==
  \A t \in Tasks :
    /\ tasks[t].state # "none" => tasks'[t].target = tasks[t].target /\ tasks'[t].state # "none"
    /\ tasks'[t].state = "none" => tasks'[t].command = tasks[t].command
    /\ tasks'[t].state = "SUCCEEDED" =>
         \/ tasks[t].state = "SUCCEEDED"
         \/ syncing # NoSync /\ syncing.state = "SUCCEEDED" /\ syncing.task = t

LEMMA TasksKeepPose ==
  ASSUME TasksInv, GatewayTypeOK, [TaskNext]_taskMissionVars
  PROVE  RowsKeepPose
<1>t. tasks \in [Tasks -> TaskRows]
  BY DEF TasksInv, RowsOK
<1>0. ASSUME UNCHANGED tasks PROVE RowsKeepPose
  BY <1>0 DEF RowsKeepPose
<1>w. ASSUME NEW t \in Tasks, NEW state, SetState(t, state), state # "none",
             state = "SUCCEEDED" =>
               syncing # NoSync /\ syncing.state = "SUCCEEDED" /\ syncing.task = t
      PROVE  RowsKeepPose
  <2>1. \A u \in Tasks : /\ tasks'[u].target = tasks[u].target
                         /\ tasks'[u].command = tasks[u].command
                         /\ tasks'[u].state = IF u = t THEN state ELSE tasks[u].state
    BY <1>t, <1>w DEF SetState, TaskRows
  <2> QED
    BY <1>w, <2>1 DEF RowsKeepPose
<1>1. ASSUME NEW c \in Commands, RobotAnswers(c) \/ GatewayThread(c) PROVE RowsKeepPose
  BY <1>0, <1>1 DEF RobotAnswers, GatewayThread, taskVars
<1>2. CASE RobotBegins \/ RobotEnds \/ RobotPublishes \/ GatewayTimers \/ StatusIsTaken
  BY <1>0, <1>2 DEF RobotBegins, RobotEnds, RobotPublishes, GatewayTimers, StatusIsTaken, taskVars
<1>3. ASSUME NEW i \in DOMAIN heard, StatusListeners(i) PROVE RowsKeepPose
  BY <1>0, <1>3 DEF StatusListeners, TaskHearsStatus, taskVars
<1>4. CASE TaskSynced
  <2>1. syncing # NoSync /\ SetState(syncing.task, syncing.state)
    BY <1>4 DEF TaskSynced
  <2>2. syncing.task \in Tasks /\ syncing.state # "none"
    BY <2>1 DEF TasksInv, SyncOK, Found, Closed
  <2> QED
    BY <1>w, <2>1, <2>2
<1>5. CASE Operator
  <2>1. ASSUME NEW t \in Tasks, NEW target, CreateTask(t, target) PROVE RowsKeepPose
    <3>1. /\ tasks[t].state = "none"
          /\ tasks' = [tasks EXCEPT ![t].state = "CREATED", ![t].target = target]
      BY <2>1 DEF CreateTask
    <3>2. tasks'[t].state = "CREATED" /\ \A u \in Tasks \ {t} : tasks'[u] = tasks[u]
      BY <1>t, <3>1 DEF TaskRows
    <3> QED
      BY <3>1, <3>2 DEF RowsKeepPose
  <2>2. ASSUME NEW t \in Tasks, TaskRunChecks(t) \/ TaskCancelReads(t) PROVE RowsKeepPose
    BY <1>0, <2>2 DEF TaskRunChecks, TaskCancelReads
  <2> QED
    BY <1>5, <2>1, <2>2 DEF Operator, RetryTask
<1>6. CASE RunThread
  <2>1. CASE TaskRunStarts
    BY <1>w, <2>1 DEF TaskRunStarts, TasksInv, RunnerOK
  <2>2. ASSUME NEW c \in Commands, TaskRunCalls(c) PROVE RowsKeepPose
    BY <1>0, <2>2 DEF TaskRunCalls
  <2>3. CASE TaskRunAnswered
    <3>1. runner.task \in Tasks
      BY <2>3 DEF TaskRunAnswered, TasksInv, RunnerOK
    <3>2. CASE tasks' = [tasks EXCEPT ![runner.task].state = "ACTIVE",
                                      ![runner.task].command = runner.command]
      <4>1. \A u \in Tasks : /\ tasks'[u].target = tasks[u].target
                             /\ u # runner.task => tasks'[u] = tasks[u]
                             /\ u = runner.task => tasks'[u].state = "ACTIVE"
        BY <1>t, <3>1, <3>2 DEF TaskRows
      <4> QED
        BY <4>1 DEF RowsKeepPose
    <3>3. CASE SetState(runner.task, "FAILED")
      BY <1>w, <3>1, <3>3
    <3> QED
      BY <2>3, <3>2, <3>3 DEF TaskRunAnswered
  <2>4. CASE TaskRunRegisters
    BY <1>0, <2>4 DEF TaskRunRegisters
  <2> QED
    BY <1>6, <2>1, <2>2, <2>3, <2>4 DEF RunThread
<1>7. CASE CancelThread
  <2>1. CASE TaskCancelCalls
    BY <1>0, <2>1 DEF TaskCancelCalls
  <2>2. CASE TaskCancelCloses
    <3>1. canceler.task \in Tasks
      BY <2>2 DEF TaskCancelCloses, TasksInv, CancelerOK
    <3>2. PICK state \in {"CANCELED", "FAILED"} : SetState(canceler.task, state)
      BY <2>2 DEF TaskCancelCloses
    <3> QED
      BY <1>w, <3>1, <3>2
  <2> QED
    BY <1>7, <2>1, <2>2 DEF CancelThread
<1>8. CASE TasksRestart
  <2>1. \A u \in Tasks : /\ tasks'[u].target = tasks[u].target
                         /\ tasks'[u].command = tasks[u].command
                         /\ tasks'[u].state = IF tasks[u].state \in Underway THEN "FAILED"
                                              ELSE tasks[u].state
    BY <1>t, <1>8 DEF TasksRestart, TaskRows, TaskIsLost
  <2> QED
    BY <2>1 DEF RowsKeepPose, Underway
<1>9. CASE UNCHANGED taskMissionVars
  BY <1>0, <1>9 DEF taskMissionVars, taskVars
<1> QED
  BY <1>1, <1>2, <1>3, <1>4, <1>5, <1>6, <1>7, <1>8, <1>9 DEF TaskNext

\* Only a status without a command says SUCCEEDED, and sync_navigation asks it
\* for the pose of the row.
LEMMA HearsSuccess ==
  ASSUME TasksInv, GatewayTypeOK, TruthInv, NEW i \in DOMAIN heard, TaskHearsStatus(i),
         syncing'.state = "SUCCEEDED"
  PROVE  syncing'.task \in Tasks /\ Reached(tasks[syncing'.task].target)
<1> DEFINE status == heard[i].status
<1>1. Truthful(status)
  BY DEF TruthInv, StatusesAreTrue
<1>2. syncing' # syncing
  BY DEF TaskHearsStatus, NoSync
<1>3. \A state : RowState(state) = "SUCCEEDED" => state = "SUCCEEDED"
  BY DEF RowState
<1>4. ~FindsInterrupted(status)
  BY <1>2 DEF FindsInterrupted, Finds
<1>5. ASSUME FindsByCommand(status), status.command # NoCommand PROVE FALSE
  BY <1>1, <1>2, <1>3, <1>5 DEF FindsByCommand, Finds, Truthful
<1>6. ASSUME FindsObserved(status)
      PROVE  syncing'.task \in Tasks /\ Reached(tasks[syncing'.task].target)
  <2>1. PICK t \in Tasks : /\ tasks[t].target = status.target
                           /\ Finds(t, RowState(status.state), observedCommand)
    BY <1>2, <1>6 DEF FindsObserved
  <2>2. status.state = "SUCCEEDED" /\ syncing'.task = t
    BY <1>3, <2>1 DEF Finds
  <2> QED
    BY <1>1, <2>1, <2>2 DEF Truthful
<1> QED
  BY <1>2, <1>4, <1>5, <1>6 DEF TaskHearsStatus

\* Whatever else the step does, what is found stays or is written.
LEMMA SyncKept ==
  ASSUME [TaskNext]_taskMissionVars, syncing' # syncing, syncing' # NoSync
  PROVE  \E i \in DOMAIN heard : TaskHearsStatus(i)
BY DEF TaskNext, RobotAnswers, GatewayThread, RobotBegins, RobotEnds, RobotPublishes,
       GatewayTimers, StatusIsTaken, StatusListeners, TaskSynced, Operator, CreateTask, RetryTask,
       TaskRunChecks, TaskCancelReads, RunThread, TaskRunStarts, TaskRunCalls, TaskRunAnswered,
       TaskRunRegisters, CancelThread, TaskCancelCalls, TaskCancelCloses, TasksRestart,
       taskMissionVars, taskVars

LEMMA SuccessStep ==
  ASSUME FleetInv, TasksInv, TruthInv, SuccessIsOfPose, [TaskNext]_taskMissionVars
  PROVE  TruthInv' /\ SuccessIsOfPose'
<1>1. GatewayTypeOK
  BY DEF FleetInv
<1>2. TruthInv' /\ SuccessStays
  BY <1>1, TaskStepOfFleet, TruthStep
<1>3. RowsKeepPose
  BY <1>1, TasksKeepPose
<1>4. \A target : Reached(target) =>
        \E c \in Commands : outcome'[c] = "SUCCEEDED" /\ goalTarget'[c] = target
  BY <1>2 DEF Reached, SuccessStays
<1>5. syncing # NoSync => syncing.task \in Tasks /\ tasks[syncing.task].state # "none"
  BY DEF TasksInv, SyncOK, Found, SuccessIsOfPose
<1>6. ASSUME NEW t \in Tasks, tasks'[t].state = "SUCCEEDED"
      PROVE  \E c \in Commands : outcome'[c] = "SUCCEEDED" /\ goalTarget'[c] = tasks'[t].target
  <2>1. tasks[t].state # "none" /\ Reached(tasks[t].target)
    BY <1>3, <1>5, <1>6 DEF RowsKeepPose, SuccessIsOfPose
  <2> QED
    BY <1>3, <1>4, <2>1 DEF RowsKeepPose
<1>7. ASSUME NEW t \in Tasks, tasks'[t].state = "none" PROVE tasks'[t].command = NoCommand
  BY <1>3, <1>7 DEF RowsKeepPose, SuccessIsOfPose
<1>8. ASSUME syncing'.state = "SUCCEEDED"
      PROVE  \E c \in Commands :
               outcome'[c] = "SUCCEEDED" /\ goalTarget'[c] = tasks'[syncing'.task].target
  <2>0. syncing' # NoSync
    BY <1>8 DEF NoSync
  <2>1. CASE syncing' = syncing
    <3>1. Reached(tasks[syncing.task].target)
      BY <1>8, <2>1 DEF SuccessIsOfPose
    <3>2. tasks'[syncing.task].target = tasks[syncing.task].target
      BY <1>3, <1>5, <2>0, <2>1 DEF RowsKeepPose
    <3> QED
      BY <1>4, <2>1, <3>1, <3>2
  <2>2. CASE syncing' # syncing
    <3>1. PICK i \in DOMAIN heard : TaskHearsStatus(i)
      BY <2>0, <2>2, SyncKept
    <3>2. syncing'.task \in Tasks /\ Reached(tasks[syncing'.task].target)
      BY <1>1, <1>8, <3>1, HearsSuccess
    <3>3. tasks' = tasks
      BY <3>1 DEF TaskHearsStatus
    <3> QED
      BY <1>4, <3>2, <3>3
  <2> QED
    BY <2>1, <2>2
<1> QED
  BY <1>2, <1>6, <1>7, <1>8 DEF SuccessIsOfPose, Reached

\* THEOREM: a task is SUCCEEDED only when the robot reached its pose, however
\* late the status that closes it and whatever was run, canceled, retried or
\* restarted before.
THEOREM SucceededReached == TaskMissionSpec => []SucceededTaskReached
<1> DEFINE Inv == FleetInv /\ TasksInv /\ TruthInv /\ SuccessIsOfPose
<1>1. TaskMissionInit => Inv
  <2>1. TaskMissionInit => SuccessIsOfPose
    BY DEF TaskMissionInit, TaskInit, SuccessIsOfPose, NoSync
  <2> QED
    BY <2>1, TasksInitially, TruthInitially DEF TaskMissionInit, FleetInit
<1>2. Inv /\ [TaskNext]_taskMissionVars => Inv'
  BY TaskStep, SuccessStep
<1>3. Inv => SucceededTaskReached
  BY DEF SuccessIsOfPose, SucceededTaskReached, Reached
<1> QED
  BY <1>1, <1>2, <1>3, PTL DEF TaskMissionSpec
=============================================================================
