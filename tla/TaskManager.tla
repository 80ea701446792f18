----------------------------- MODULE TaskManager -----------------------------
(***************************************************************************)
(* Navigation tasks, control/fleet_gateway/.../task_manager.py with the    *)
(* rows operations.py stores for them and what its sync_navigation makes   *)
(* of the navigation statuses.                                             *)
(*                                                                         *)
(* A run and a cancel are HTTP threads of their own; every call of the     *)
(* store is one step, and update_task has no condition on the state it     *)
(* replaces.  sync_navigation finds its row under the store's lock, lets   *)
(* go of it and writes afterwards.  Bounds: MaxTasks tasks, one run and    *)
(* one cancel request at a time, one status callback (ExecutorThreads = 1).*)
(***************************************************************************)
EXTENDS GatewayNavigation

CONSTANT MaxTasks

ASSUME TaskAssumption == MaxTasks \in Nat

Tasks == 1..MaxTasks
NoTask == 0

VARIABLES tasks,           \* the rows, see Rows
          observedCommand, \* _observed_navigation_commands
          syncing,         \* what sync_navigation found and is still to write
          runner,          \* the run request: whose, where it stands, the command it drew
          canceler         \* the cancel request

taskVars == <<tasks, observedCommand, syncing, runner, canceler>>

Underway == {"STARTING", "ACTIVE"}
Closed == {"SUCCEEDED", "CANCELED", "FAILED"}
TaskRows == [state : Underway \cup Closed \cup {"none", "CREATED"},
             target : Targets \cup {NoTarget}, command : Commands \cup {NoCommand}]

NoSync == [task |-> NoTask, state |-> "none", command |-> NoCommand]
NoRequest == [task |-> NoTask, pc |-> "idle", command |-> NoCommand]

TaskInit ==
  /\ tasks = [t \in Tasks |-> [state |-> "none", target |-> NoTarget, command |-> NoCommand]]
  /\ observedCommand = NoCommand
  /\ syncing = NoSync
  /\ runner = NoRequest
  /\ canceler = NoRequest

SetState(t, state) == tasks' = [tasks EXCEPT ![t].state = state]

-----------------------------------------------------------------------------
(* create and retry.                                                         *)

CreateTask(t, target) ==
  /\ tasks[t].state = "none"
  /\ \A u \in 1..(t - 1) : tasks[u].state # "none"
  /\ tasks' = [tasks EXCEPT ![t].state = "CREATED", ![t].target = target]
  /\ UNCHANGED <<robotVars, gatewayVars, observedCommand, syncing, runner, canceler>>

\* A retry is a new task for the same pose.
RetryTask(t, new) ==
  /\ tasks[t].state \in {"FAILED", "CANCELED"}
  /\ CreateTask(new, tasks[t].target)

-----------------------------------------------------------------------------
(* run                                                                       *)

RunGoes(pc) == runner' = [runner EXCEPT !.pc = pc]

\* The HTTP API asks for a robot that shows no goal, run for no other task.
TaskRunChecks(t) ==
  /\ runner = NoRequest
  /\ observed = NoCommand
  /\ tasks[t].state = "CREATED"
  /\ \A u \in Tasks \ {t} : tasks[u].state \notin Underway
  /\ runner' = [runner EXCEPT !.task = t, !.pc = "accepted"]
  /\ UNCHANGED <<robotVars, gatewayVars, tasks, observedCommand, syncing, canceler>>

TaskRunStarts ==
  /\ runner.pc = "accepted"
  /\ SetState(runner.task, "STARTING")
  /\ RunGoes("call")
  /\ UNCHANGED <<robotVars, gatewayVars, observedCommand, syncing, canceler>>

TaskRunCalls(c) ==
  /\ runner.pc = "call"
  /\ StartNavigation(c, tasks[runner.task].target)
  /\ runner' = [runner EXCEPT !.pc = "wait", !.command = c]
  /\ UNCHANGED <<tasks, observedCommand, syncing, canceler>>

\* Mutant of TaskRunAnswered: the command is stored with the next status.
AnsweredWithoutCommand ==
  /\ runner.pc = "wait"
  /\ \/ startPc[runner.command] = "ok" /\ SetState(runner.task, "ACTIVE") /\ RunGoes("register")
     \/ startPc[runner.command] = "failed" /\ SetState(runner.task, "FAILED") /\ runner' = NoRequest
  /\ UNCHANGED <<robotVars, gatewayVars, observedCommand, syncing, canceler>>

\* The row is written whatever became of it meanwhile.
TaskRunAnswered ==
  /\ runner.pc = "wait"
  /\ LET t == runner.task IN
     \/ /\ startPc[runner.command] = "ok"
        /\ tasks' = [tasks EXCEPT ![t].state = "ACTIVE", ![t].command = runner.command]
        /\ RunGoes("register")
     \/ /\ startPc[runner.command] = "failed"
        /\ SetState(t, "FAILED")
        /\ runner' = NoRequest
  /\ UNCHANGED <<robotVars, gatewayVars, observedCommand, syncing, canceler>>

\* Mutant of TaskRunRegisters: the command is left to the first status.
RunRegistersNothing ==
  /\ runner.pc = "register"
  /\ runner' = NoRequest
  /\ UNCHANGED <<robotVars, gatewayVars, tasks, observedCommand, syncing, canceler>>

\* register_navigation_command
TaskRunRegisters ==
  /\ runner.pc = "register"
  /\ observedCommand' = runner.command
  /\ runner' = NoRequest
  /\ UNCHANGED <<robotVars, gatewayVars, tasks, syncing, canceler>>

-----------------------------------------------------------------------------
(* cancel                                                                    *)

\* A task that is closed is refused, one without a command cannot be canceled.
TaskCancelReads(t) ==
  /\ canceler = NoRequest
  /\ tasks[t].state \in {"CREATED"} \cup Underway
  /\ canceler' = [task |-> t, command |-> tasks[t].command,
                  pc |-> IF tasks[t].state = "CREATED" THEN "closed"
                         ELSE IF tasks[t].command = NoCommand THEN "failed" ELSE "call"]
  /\ UNCHANGED <<robotVars, gatewayVars, tasks, observedCommand, syncing, runner>>

\* cancel_navigation succeeds only for the active command.
TaskCancelCalls ==
  /\ canceler.pc = "call"
  /\ IF active = canceler.command
     THEN CancelPops(active) /\ canceler' = [canceler EXCEPT !.pc = "closed"]
     ELSE canceler' = [canceler EXCEPT !.pc = "failed"] /\ UNCHANGED <<robotVars, gatewayVars>>
  /\ UNCHANGED <<tasks, observedCommand, syncing, runner>>

TaskCancelCloses ==
  /\ canceler.pc \in {"closed", "failed"}
  /\ canceler.command \notin popped
  /\ SetState(canceler.task, IF canceler.pc = "closed" THEN "CANCELED" ELSE "FAILED")
  /\ canceler' = NoRequest
  /\ UNCHANGED <<robotVars, gatewayVars, observedCommand, syncing, runner>>

-----------------------------------------------------------------------------
(* sync_navigation                                                           *)

Finds(t, state, command) == syncing' = [task |-> t, state |-> state, command |-> command]

RowState(state) == IF state = "LEASE_EXPIRED" THEN "FAILED" ELSE state

\* _fail_task_after_agent_restart, and what was observed is forgotten.
FindsInterrupted(status) ==
  /\ observedCommand' = NoCommand
  /\ LET Owned == {t \in Tasks : tasks[t].state = "ACTIVE" /\ tasks[t].command # NoCommand} IN
     IF Owned = {} THEN UNCHANGED syncing
     ELSE \E t \in Owned : Finds(t, "FAILED", NoCommand)

\* A status that names its command is believed whatever the row's state.
FindsByCommand(status) ==
  LET Named == {t \in Tasks : tasks[t].command = status.command} IN
  IF Named = {} THEN UNCHANGED <<syncing, observedCommand>>
  ELSE /\ \E t \in Named : Finds(t, RowState(status.state), status.command)
       /\ observedCommand' = status.command

\* Mutant of FindsObserved: the status is not compared with the task's pose.
FindsAnyPose(status) ==
  LET Meant == {t \in Tasks : /\ observedCommand # NoCommand
                              /\ tasks[t].command = observedCommand
                              /\ tasks[t].state \in Underway} IN
  /\ IF Meant = {} THEN UNCHANGED syncing
     ELSE \E t \in Meant : Finds(t, RowState(status.state), observedCommand)
  /\ UNCHANGED observedCommand

\* One that names none is taken for the last command observed, if it is still
\* under way and its pose is the one the status is about.  (Every status of the
\* node has one, ros_node.py:204: the branch for a status without is dead.)
FindsObserved(status) ==
  LET Meant == {t \in Tasks : /\ observedCommand # NoCommand
                              /\ tasks[t].command = observedCommand
                              /\ tasks[t].state \in Underway
                              /\ tasks[t].target = status.target} IN
  /\ IF Meant = {} THEN UNCHANGED syncing
     ELSE \E t \in Meant : Finds(t, RowState(status.state), observedCommand)
  /\ UNCHANGED observedCommand

\* The store listens to the registry: the status callback goes through it.
TaskHearsStatus(i) ==
  /\ syncing = NoSync
  /\ StatusHeard(i)
  /\ LET status == heard[i].status IN
     CASE status.state = "UNAVAILABLE" /\ status.command = NoCommand -> FindsInterrupted(status)
       [] status.state \in Agent!Endings \cup {"ACTIVE"} ->
            IF status.command # NoCommand THEN FindsByCommand(status) ELSE FindsObserved(status)
       [] OTHER -> UNCHANGED <<syncing, observedCommand>>
  /\ UNCHANGED <<tasks, runner, canceler>>

\* The write, and a terminal status takes its command out of what is observed.
TaskSynced ==
  /\ syncing # NoSync
  /\ SetState(syncing.task, syncing.state)
  /\ observedCommand' = IF syncing.state # "ACTIVE" /\ observedCommand = syncing.command
                        THEN NoCommand ELSE observedCommand
  /\ syncing' = NoSync
  /\ UNCHANGED <<robotVars, gatewayVars, runner, canceler>>

-----------------------------------------------------------------------------
\* Mutant of TaskIsLost: a task whose goal was not answered is forgotten.
ActiveIsLost(t) == tasks[t].state = "ACTIVE"

\* What reconcile_gateway_restart looks for.
TaskIsLost(t) == tasks[t].state \in Underway

\* The gateway is restarted: threads are gone, and what was under way fails.
TasksRestart ==
  /\ GatewayRestarts
  /\ tasks' = [t \in Tasks |-> IF TaskIsLost(t) THEN [tasks[t] EXCEPT !.state = "FAILED"]
                               ELSE tasks[t]]
  /\ observedCommand' = NoCommand
  /\ syncing' = NoSync
  /\ runner' = NoRequest
  /\ canceler' = NoRequest

TaskTypeOK ==
  /\ tasks \in [Tasks -> TaskRows]
  /\ \A t \in Tasks : tasks[t].state = "ACTIVE" => tasks[t].command # NoCommand
  /\ observedCommand \in Commands \cup {NoCommand}
  /\ syncing.task \in Tasks \cup {NoTask}
  /\ {runner.command, canceler.command} \subseteq Commands \cup {NoCommand}
=============================================================================
