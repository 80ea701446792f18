# Verification of turtlebot-fleet-ops

TLA+ models of the parts of this repository that decide **when a robot may move
and who is moving it**: the two watchdog layers in front of the wheels, the
motion arbiter, the manual-control adapter, the navigation agent, and on the
fleet side the gateway's ROS node, its patrols and its tasks. Around that core:
supervised motion with its pose checkpoint, operating profiles, goal progress,
robot health with its ledger, the log collector, its diagnosis and its advice,
and the mock robot. TLC checks them on small instances; TLAPS proves for every value
of the constants the safety of the watchdog layers, of the navigation stack, of the
manual adapter's deadman and of supervised motion; that the emergency stop leaves
neither goal nor session; what a status, a task and a patrol say of the robot; and what
goal progress, advice, the mock robot, profiles and the log collector promise.

Paths below are relative to `src/`. Everything was translated from the code.
Nav2, the ROS graph and topic queues are modelled from how the code uses them and
are marked external in `PROJECT.json`.

## 1. The system

```
 browser ── HTTP ──> fleet gateway (control/fleet_gateway)
                      api.py ─ ros_node.py ─ patrol_manager.py / task_manager.py
                                  │                     └── operations.py (sqlite)
   NavigateRobot goal, lease,     │      NavigationStatus, results
   cancel, ManualCommand, SetEstop│             ▲
 ─────────────────────────────────┼─────────────┼──────────────── network ──
                                  ▼             │
   manual_control_node ──┐   navigation agent ──┴──> Nav2 (bt_navigator)
        velocity, mode   │     authorization, mode      │ velocity
                         ▼          ▼                   ▼
                        motion arbiter (arbiter_node.py)
                                  │ /safety/cmd_vel_in
                        safety watchdog policy (Python)
                                  │ /safety/watchdog_cmd_vel
                        watchdog output guard (C++)
                                  │ /cmd_vel
                                 base
```

| Component | State it keeps | Operations | What is hard about it |
|---|---|---|---|
| watchdog policy, `robot/safety_watchdog` | e-stop, awaiting neutral, last command and its age | command, timer, `SetEstop`, guard-restart signal, respawn | the e-stop overtaking queued commands; a respawn that forgets the e-stop; re-arming |
| output guard, `robot/safety_watchdog_guard` | awaiting neutral, command, age | command, timer, respawn, destructor | a second, independent dead-man; start order of the two processes |
| motion arbiter, `arbiter_node.py` | mode, newest input of each source, authorization age | manual and Nav2 commands, authorization, `SetMotionMode`, timer | stale sources, a mode that outlives its owner |
| manual adapter, `manual_control_node.py` | session, command lease, cached and desired mode, one outstanding request | `ManualCommand`, timer, mode replies, respawn | a cached belief about another process; replies lost with it; retries |
| navigation agent, `agent_node.py` | reserved and active goal, Nav2 handle, lease, health, verdict, startup flags | goals, cancels, leases, statuses, five timers, result callbacks, respawn | four threads in one reentrant group; locks released around awaits; deaths of three processes |
| goal progress, `goal_progress.py` | time and best value of the last progress, recoveries, last feedback | feedback, the lease timer's question | boundaries of time and distance; creeping and wandering |
| profile manager, `profile_manager_node.py` | transition flag and target; two systemd units | switch and save requests, respawn | a systemctl that outlives its timeout, with the node dead and its job still running |
| supervised motion, `supervised_motion.py`, `pose_checkpoint.py` | phase of the run, a file in the robot's storage | one bounded move, dry run, reset | a run killed in any phase; an e-stop release that is handled late |
| robot agent, `robot/robot_agent` | freshness of each source, clearance warning | sensor callbacks, status timer | stale and invalid sources; hysteresis |
| gateway ROS node, `ros_node.py` | active/pending goal, confirmation, lease timer, manual session, `_estop_engaged` | start, cancel, lease timer, status and result callbacks, `set_estop`, manual start/send/stop | HTTP threads against executor threads; the lock released around every call to the robot |
| patrol manager, `patrol_manager.py` | patrol rows, phase of the waypoint, expected goal, worker queue | run, cancel, `stop_for_safety`, `observe`, worker | a read of a row, a blocking call, a write of the row; repeated statuses |
| task manager and store, `task_manager.py`, `operations.py` | task rows, command last observed | create, run, cancel, retry, status sync, restart reconciliation | unconditional writes of one row by three threads; the last status names no command |
| fault ledger, connectivity, `operations.py` | active faults, state of each robot | status callback, monitor, restart | statuses lost, overtaken or handled at once |
| status registry, `registry.py` | newest status of every kind | update, listeners | order of listeners and of updates |
| HTTP API, web UI | none that matters here | routes | order of the calls inside one route (`set_estop`, `run_patrol`) |
| log collector, `log_mlops_node.py` | journal cursors and position, raw log, loaded model | journal poll, inference timer, promotion by another process | overlapping polls that fail; a file replaced between `stat` and read |
| log diagnosis, `log_mlops.py` | none: a function of the records | `diagnose_records` | ranking and expectation change with every record |
| log AI analyzer, `log_ai.py` | one inference slot, cached reports | analysis requests | the log grows between two readings of one context |
| mock robot, `mock_robot.py` | state of one robot | all services of the real one | four threads, two goals accepted at once |
| maps, annotations, telemetry, motion guard, training, deployment | files, tables | | data processing and I/O |

What makes each of the first group correct:

* **Watchdog layers**: no motion after the e-stop, after a timeout or after a
  restart, until a neutral command has been seen; limits are never exceeded; and
  the two layers always find their way back to being armed.
* **Arbiter and its clients**: the arbiter forwards one source; a client that
  has given up the robot does not leave the arbiter in its mode; a client's
  cached mode does not say it gave up when it did not.
* **Navigation agent**: one goal at a time; a stop reaches Nav2 in every phase of
  the goal; a stopped goal stops the base and ends; Nav2 never executes a goal
  that nobody answers for; the fleet sees a verdict that is not unsaid.
* **Gateway**: an engaged emergency stop leaves no goal and no session; the
  robot ends even a goal whose acceptance was lost; a goal that is gone is let go.
* **Patrols**: a patrol advances only on waypoints the robot reached; a goal that
  ended moves it; every STARTING patrol has somebody who starts it.
* **Tasks**: one succeeds only if the robot reached its pose; none stays STARTING
  with nobody at it, also after a restart; a goal that ended closes its task.
* **Supervised motion**: a motion is on record before the base moves and until its
  end is committed, so that no later run trusts a pose the base did not rest at.
* **Profiles**: mapping and navigation never run together; a transition ends.
* **Health**: the ledger settles on what the robot reports; an outage is recorded.
* **Goal progress**: a stuck robot fails, a creeping one does not.
* **Logs**: every warning is kept once; the promoted model is used; no incident
  that requires action is hidden; advice cites evidence its own request built.

The full list of what can go wrong, line by line, is `hazards` in `PROJECT.json`.

## 2. Modules

| Module | Models | Notes |
|---|---|---|
| `Velocity` | `policy.py`, `guard_policy.hpp` | clamping, NaN, neutrality, freshness: the pure functions of both layers |
| `Topic` | a KEEP_LAST queue | external |
| `NeutralGate` | nothing of the code: the abstract promise of a layer | a gate closed by a stop, opened by a neutral, emitting limited commands for `Timeout` ticks |
| `SafetyPolicy` | `safety_watchdog/node.py` | one action per callback |
| `WatchdogGuard` | `watchdog_guard.cpp` | one action per callback, constructor and destructor |
| `WatchdogLayers` | both with the topics between them, deaths, respawns, time | `SafetyPolicy` and `WatchdogGuard` each implement `NeutralGate` |
| `MotionArbiter` | `arbiter_node.py` | used by the next and by `NavigationStack` |
| `ManualControl` | `manual_control_node.py` with the arbiter | the navigation agent is another client of `SetMotionMode` |
| `Nav2` | bt_navigator as the agent uses it | external |
| `NavigationAgent` | `agent_node.py` | one action per stretch of code between two releases of the lock or two awaits |
| `NavigationStack` | agent, arbiter and Nav2 with their queues and deaths | implements `AgentContract` |
| `AgentContract` | nothing of the code: what the agent promises to the fleet | one goal at a time, a success only if it was settled while no failure was shown |
| `RobotLink` | the robot as the gateway sees it | built on `AgentContract`, with leases, requests and statuses on their way |
| `GatewayNavigation` | navigation, manual and e-stop parts of `ros_node.py` | |
| `FleetOwnership` | gateway, robot and HTTP clients together | |
| `PatrolManager` | `patrol_manager.py`, patrol rows of `operations.py` | |
| `PatrolMission` | patrols, gateway and robot together | |
| `TaskManager` | `task_manager.py`, task rows and `sync_navigation` of `operations.py` | extends `GatewayNavigation` |
| `TaskMission` | tasks, gateway and robot together | |
| `SupervisedMotion` | `supervised_motion.py`, `pose_checkpoint.py` | the watchdog reduced to `NeutralGate` behind its e-stop service |
| `ProfileManager` | `profile_manager_node.py` | systemd external |
| `RobotHealth` | `robot_agent/node.py` and `model.py`, `registry.py`, `sync_faults` and `sync_connectivity` of `operations.py` | robot and gateway |
| `GoalProgress` | `goal_progress.py` | against feedback as it was really given (`told`) |
| `LogCollector` | `log_mlops_node.py`, `promote_model` | the journal is external |
| `LogDiagnosis` | `diagnose_records` of `log_mlops.py` | a pure algorithm over growing logs |
| `LogAnalyzer` | `log_ai.py` | the language model is external |
| `MockRobot` | `mock_robot.py` | |
| `MC...` | instances for TLC; `MCGatewayOwners` puts `FleetOwnership` and patrols side by side, `MCStandalone` the components that meet no other one | |
| `Topic_proofs` | lemmas about `Topic` | used by the proofs of composed nodes |
| `WatchdogLayers_proofs` | theorems about the two layers, each alone and connected | |
| `NavigationStack_proofs` | theorems about agent, arbiter and Nav2 | |
| `ManualControl_proofs` | theorems about the manual adapter and the arbiter | |
| `Standalone_proofs` | theorems about the components of `MCStandalone` | |
| `FleetOwnership_proofs` | theorems about the gateway's node and the robot | |
| `TaskMission_proofs`, `PatrolMission_proofs` | theorems about tasks and patrols | use `FleetOwnership_proofs` |

How state and actions correspond to the code:

* `SafetyPolicy`/`WatchdogGuard`: a timestamp is an *age* in ticks that
  saturates one past the timeout; the saturated age also stands for `None`. A
  tick is one timer period. `cmdVel` is what the base was last told.
* `NavigationAgent`: `agent` holds the node's fields under the names its comment
  gives, `goalPc[g]` is the position of the coroutine `_execute_navigation`,
  `stopping`, `expiring` and `draft` are the positions of the threads inside
  `_request_stop`, `_check_lease` and `_publish_authorization`. A value that is
  read under the lock and acted on after it therefore is a variable, and
  everything else can happen in between. Timeouts are not counted there: what a
  timeout measures may lapse at any moment, so the results hold for every timing.
  Map, pose and scan tests are one verdict (`localized`, `health`). The end of a goal
  is two steps, one per lock: `Decides` reads the flags and chooses the outcome
  (`ending`), `Conclude` is `_finish_goal`.
* `NavigationStack`: the service queue of the arbiter (`modeRequests`), the
  authorization topic, replies, and the ROS graph's delayed knowledge that a
  server died (`nav2Seen`, `arbiterSeen`).
* `GatewayNavigation`: `startPc[c]`, `estopPc[o]`, `manualPc[s]` are the positions
  of the HTTP threads inside `start_navigation`, `set_estop` and `start_manual`; an
  action ends where the code releases `_navigation_lock` or `_manual_lock`.
  `leaseDraft` is what the lease timer copied under the lock and still publishes;
  `heard` the navigation-status callbacks that run at the moment.
* `PatrolManager`: `drivers[d]` is the thread that carries out
  `_start_current_waypoint` (the run route's thread or the worker), `canceler` the
  thread inside `cancel`. Rows are read, a blocking call is made, rows are
  written: three steps.

* `TaskManager`: `runner` and `canceler` are the positions of the HTTP threads
  inside `run` and `cancel`; `syncing` is the row `sync_navigation` found under the
  store's lock and writes after it let go of it.
* `SupervisedMotion`: `phase` is where `run_once` stands; `_set_estop` is a request,
  its handling by the watchdog and the confirmation, three steps. Every test that
  can stop a phase (clearance, graph, progress, timeouts) is `PhaseFails`.
* `ProfileManager`: `manager` is the position inside the service callback; a
  systemctl that times out leaves `startJob` with systemd and kills the node.
* `RobotHealth`: `underway` are statuses published and not applied; any of them may
  be applied next, or lost. Ages are three values (never, recent, old).
* `LogCollector`: `node` is the position of its one thread; a poll reads the journal
  at any moment until it returns. Versions stand for the times of the model's file.
* `LogDiagnosis`: a record is what the patterns find in it; `Clusters` is the one
  pass of the code, `LastOfBursts` its definition without a pass.
* `LogAnalyzer`: `analysis[a]` is the position of a request's thread; the two
  readings of a context are two steps, between which records are logged. How many
  records around the incident the size limit leaves is any number: `left` is the list
  that is hashed, `around` what may be cited.
* `MockRobot`: a goal's loop is three steps (read, move, finish), one per lock. After an
  e-stop without a cancel request the goal handle refuses `canceled()`
  (`mock_robot.py:436`) and `_finish` raises: the loop is over, the fields stay.

Steps that are merged:
`update_patrol` (its read and its UPDATE take the store's lock one after the other;
the state it writes is an argument, and only the loop, the waypoint and the command
it carries over could be older); `_forget_goal` with the row it follows; the loop of `stop_for_safety`;
the watchdog's answer to `SetEstop` with the assignment of `_estop_engaged`
(the hazard this hides is listed). In `PatrolMission` leases do not lapse (a
lapsed lease is one of the failures of a goal, which are all there), and the
robot's pose is always known. `RobotLink` leaves out the initial pose (`Forget` of
`AgentContract`). `MonitorConnectivity` writes the state of a robot and the event of its
change together, and takes both to succeed (`operations.py:190-210`); an event that
cannot be written is lost in the code, and the exception ends the monitor's task
(`api.py:218-231`). `TargetMatches` and `FindsObserved` leave out that a status without a target
matches (`patrol_manager.py:370` and its counterpart for tasks): `ros_node.py:204` gives every
status one. `_fail_active_after_worker_error` needs an exception of the store
and is not modelled. The agent's respawn follows
`navigation_agent.launch.py:17-33`; `tb1_navigation.launch.py` sets
`respawn=False` and shuts the profile down instead, which to the other processes is
a death without a respawn, also a behaviour of the model.

## 3. Runs

| Run | Question | Bounds |
|---|---|---|
| `watchdog_layers` | Does the e-stop overtake queued motion, is motion bounded by the two timeouts, does each layer implement `NeutralGate`, do both re-arm? | timeouts 2 and 1, queues of 2, commands zero, over-limit, and half NaN; any number of deaths and e-stops |
| `manual_driving` | Does the adapter ever rest in a wrong belief, does the deadman bound motion, does an ended session leave MANUAL? | two sessions, one moving and one malformed command, two queued requests, topic depth 2, adapter timeout 1, arbiter timeout 2, retry after 2 ticks |
| `stack_authorization` | Is the base of a stopped goal still for good? | one goal, velocities and authorizations, no status stream, no deaths: stops come from cancels, Nav2, progress and the lease |
| `stack_goals` | Does a stop reach Nav2, is NAVIGATION given back, is no Nav2 goal orphaned, and does the stack implement `AgentContract`? | two goals, the threads of the first running into the second, or one goal and one death of any of the three processes |
| `stack_ending` | Does a stopped goal end? | one goal, no deaths |
| `stack_vanished_nav2` | violated, see 5 | one goal, one death |
| `gateway_owners` | Does an engaged emergency stop leave no goal and no session, and is every STARTING patrol driven? | one command; one operator and one session, or one patrol with cancels, the emergency stop and one restart |
| `fleet_liveness` | Does the stop end whatever the robot has, and does the gateway let go of what is gone? | one command, one operator, one restart of agent or gateway |
| `patrol_mission` | Does a patrol advance only on visits, and does an ended goal move it? | two places, one loop, three goals (approach, turn, next), one status in the worker's queue |
| `patrol_canceled` | violated, see 5 | two goals, cancels |
| `task_mission` | Does a task succeed only at its pose, is a STARTING one driven, does an ended goal close it? | two tasks, the second perhaps a retry of the first, two commands, one restart of the gateway |
| `standalone` | The components that talk to no other one | see below |

`standalone` is eleven worlds in one run; the world is chosen at the start and only
its component moves:

| World | Component | Shows | Bounds |
|---|---|---|---|
| `motion` | `SupervisedMotion` | `MotionIsRecorded`, `RunIsSafe` | three runs, positions 0..2, tolerance 1, one death of the watchdog |
| `profile` | `ProfileManager` | `ProfilesSwitch` | three requests, one death of the node |
| `ledger`, `clearance`, `outage` | `RobotHealth` | `HealthIsTracked` | battery and scan, two gateway threads, three recovery samples |
| `progress` | `GoalProgress` | `ProgressIsJudged` | distances 0..2, three yaws, timeouts 2, duration 4, one recovery |
| `journal`, `model` | `LogCollector` | `CollectorKeepsUp` | three entries in four ticks, two cursors, two promotions, one death |
| `diagnosis` | `LogDiagnosis` | `DiagnosisHolds` | three records of eight kinds, 4 s or 130 s apart, one incident shown |
| `advice` | `LogAnalyzer` | `AdviceIsSound` | two requests, three records, one cached report (`OneReport`), every cut of the context |
| `mock` | `MockRobot` | `MockStops` | a long goal and another one, one manual session |

A component with two concerns that share no state (sources and heartbeat, journal
and model) has a world for each, because their product says no more.

Bounds are constants: `Depth` (queue length of a topic), `MaxRequests` (service
queue), `MaxFailures` and `MaxRestarts` (deaths), `MaxCommands` (command ids),
`MaxTasks`, `MaxUpdates` (statuses queued for the patrol worker), `Loops`,
`ExecutorThreads`, and the `Max...` of each world. They are enough because the
hazards need few actors: a stop, the goal it hits and one thread that is between two
steps; a second goal is needed exactly where a thread of the first could act on it
(`stack_goals`, `patrol_mission`, `task_mission`, `mock`); a third run of supervised motion
follows one that left the file and one that refused it; a third record changes a
ranking of two. Depth 1 in the larger runs makes every queue a latest-value
register, the strongest form of losing samples; depth 2 is used where an older
sample in front of a newer one matters (the watchdog and the manual adapter).

What the runs cut off, and why:

* `stack_goals` is symmetric in the goals and has a `VIEW` without the authorization
  samples, which enable no action that changes anything else; `stack_authorization` keeps
  them. `OneDisturbance` keeps a death and a second goal apart: each meets every step of
  the first goal, and both together exceed the time of a run. `NewsPolled`: no lifecycle
  query is on its way while Nav2 is active, known to be active and will not fail any more;
  its answer would change nothing.
* `gateway_owners` has no patrol and no restart on the side of the HTTP clients, and no
  client but the patrol's on the other: two owners contend on each side. `StopsFirst`: the
  emergency stop of a patrol is pressed before a restart, which may cut its call short.
* `task_mission`: `HeardAtOnce` (a status is noted by the registry in the step that
  follows its arrival: with one thread it could as well still be queued),
  `CreatedAtRest` (a task is created before anything runs or after it; creating a row
  touches nothing else), `OneDisturbance` (a second task follows a first without cancel or
  restart; a task alone meets one of the two; a failure unsaid by a success meets neither,
  nor a task to the other place), `NewsOnly`
  (a robot at rest publishes only UNAVAILABLE, the one status of that kind the gateway
  looks at).
* `task_mission`, `fleet_liveness` and `gateway_owners`: `SettledLate`, a success is settled
  right before what the robot shows next. Nobody sees it being settled, so nothing is lost
  by that order. `fleet_liveness` and `gateway_owners` also have `OneRest`, as `NewsOnly`.
* `standalone`: `MockSlice` fixes which of the two goals is the long one, whose lease
  is sent, and that the session and the profile are changed before the goals.

`ExecutorThreads` is 1 in the runs, for their size: the gateway has two executor
threads (`main.py:119`). With two, `EstopLeavesNoGoal` and `EstopEndsManual` of the HTTP
clients' side (1.0 million states) and the invariants of `patrol_mission` (5.0 million)
hold as well, with `SettledLate`, `OneRest` and the endings the gateway takes alike as
FAILED (any of them for the clients, all but a success for a patrol); what changes with
two is described in 5. The world `ledger` has two threads.

### Fairness

Safety runs use none. The liveness properties assume weak fairness of

* timers and callbacks of a live process (the executors run them) and the tick of
  the clock;
* respawns of processes whose launch file says `respawn=True` (both watchdog
  layers, arbiter, adapter, agent), never of Nav2;
* the graph noticing a death, and a live Nav2 answering requests and honouring a
  cancellation; never of Nav2 reaching its goal;
* in the fleet models, the threads inside the calls a property waits for, a lease that is not
  renewed lapsing, and the agent ending a stopped goal, which `stack_ending` shows
  of it.

Each liveness run assumes only what its property needs, so it holds under any larger
set too. `stack_authorization` (`ClosingSpec`) needs the stopping thread, the
authorization timer and the arbiter's two callbacks, not the coroutine, the lease
check or Nav2; `fleet_liveness` needs no progress of a start call, of a cancel
call, of a result or of the lease timer; `patrol_mission` none of the cancel call or the
result callback.

`task_mission` (`FairTaskSpec`) assumes the run request's thread, the node's threads, the
robot's answer and its status stream, the taking and applying of statuses and the
write of `sync_navigation`: all of them live threads or timers. It assumes nothing of
cancels, results or the lease timer, and not that a goal ends.

In `standalone`: the manager's thread, its restart (`Restart=always` in
`infra/systemd/user/tb1-profile-manager.service`) and the delivery of a retained topic
(`ProfileFairness`); the status timer, the connectivity monitor and the passing of time
(`HealthFairness`); the collector's timers and its restart after a failure
(`fleet-log-mlops.service`, `CollectorFairness`). Strong fairness is used twice. A status stream may lose samples
again and again, but not all of them for ever (`StatusArrives`: without it the ledger
could not settle). The inference timer is kept off by polls of the same thread, yet its
turn comes again and again (`InferenceStarts`).

Nothing is assumed of operators, of HTTP clients or of leases. Elsewhere only weak
fairness is used: no property depends on a queue that is always nearly full being
served.

## 4. Proofs

All theorems hold for every value of the constants that satisfies the assumptions the
modules name; tlapm checks them to the last leaf. The assumptions say that limits and
timeouts are naturals, that the "none" of a set is not in it, that a topic holds at least one
sample, that zero is no motion and a limited command, and that a broken axis is no number.
Four come from more than a type:

* `LaunchAssumption`, `ManualLaunchAssumption`: the arbiter does not start in NAVIGATION
  or in MANUAL. Every launch file gives it `default_mode` 0, IDLE.
* `PlacesAssumption`: a patrol has a waypoint, and its poses can be sent. `api.py:1321`
  takes 2 to 20 waypoints.
* `ProgressAssumption`: the longest duration of a goal exceeds the progress timeout.

**`WatchdogLayers_proofs`**

* `PolicyTyped`, `PolicyImplementsGate`: every step of the Python policy, in any
  environment, is a step of `NeutralGate` or a stutter. The type invariant alone is
  inductive enough: the gate is closed exactly while the policy is awaiting neutral or
  e-stopped.
* `GuardInvariant`, `GuardImplementsGate`: the same of the C++ guard, whose
  refinement needs a strengthening, that a guard that awaits neutral holds no
  command.
* `LayersInvariant`: the inductive invariant `LayersInv` of the two layers and the topics.
  `EstopOvertakesMotion` is inductive next to the type invariant and to `NobodyListens`
  (a topic whose reader is down holds nothing); `MotionIsBounded` needs `RequestAges`,
  which gives, for each place a command can be (the input queue, the policy's hand, the
  queue between the layers, the guard's hand, the base), how long ago the arbiter asked
  for it. The invariant is also checked by `watchdog_layers`.
* `EstopOvertakes` and `MotionBounded` follow from it.

**`NavigationStack_proofs`**: agent, arbiter and Nav2 with any number of goals, status
streams and deaths, any queue depth and any timeout.

* `StackTyped`: the type invariant. What an action does to the arbiter and to Nav2 is
  first classified (`ArbiterSteps`, `Nav2Steps`), so that each group of
  actions says once what it does to the agent.
* `StackInvariant`: the inductive invariant `StackInv`. `StopReachesNav2` is inductive next to
  the types: the flags are set under the lock that also reads the handle, and a
  coroutine that gets its handle reads them again under it. The contract needs two
  strengthenings. `OneOwner`: a goal reserved, or a coroutine at work, is the one
  the agent holds, hence a coroutine never finishes another one's goal.
  `FailureHasReason`: a failure shown with an active goal has set one of the flags
  that decide the outcome before Nav2's result does, hence no success is chosen after
  it. It says nothing of a success chosen before: the outcome is chosen and written
  under two locks, and a failure shown in between is unsaid (section 5). The contract
  therefore has a step of its own, `Settle`, for choosing a success; `EndingIsDecided`
  ties the outcome chosen to the coroutine that will write it.
  Every step is one of `OwnerMoves`: it keeps the ownership (`Keeps`),
  stops the goal (`Stops`), or is one of eight actions that change owner, handle or
  outcome.
* `StopReaches` and `StackImplementsContract` follow: `RobotLink` and the gateway models may
  rely on `AgentContract` whatever fails inside the robot.
* `NoOrphans`: `OrphanInv` says, position by position of the coroutine, who still waits
  for what Nav2 was asked (`HandleIsHeld`, `Nav2IsWatched`); that a process without an
  agent has nothing asked (`DeadIsFresh`); and that a restarted agent stays in SAFE until
  its cancel-all was served (`SafeFirst`), after which every goal of the dead one has its
  cancellation on the way (`NoneLeft`). A goal may outlive its agent: until the cancel-all
  is served the property allows it, because the agent does not report itself safe.
* `RestingHoldsNoMode`: `ModeInv` follows `LastMode`, the mode once the arbiter has served
  all it was asked. It becomes NAVIGATION only for a coroutine that goes on to ask for IDLE
  or for an agent that died (`ModeIsOwned`), and then the successor has not asked yet
  (`StartupAsked`). An arbiter that restarts comes up in its default mode, hence
  `LaunchAssumption`.

**`ManualControl_proofs`**: the adapter and the arbiter with any timeouts, sessions, deaths,
and any other client of `SetMotionMode`.

* `ManualTyped`, `IdleBelief`: the adapter has one request outstanding at a time, but it
  forgets it when it dies and when its wait runs out. `QueueInv` says that what
  it believes is still decided by the last one: at most one request of its own is queued
  (`OneRequest`), a reply still to come answers the last that may ask for MANUAL
  (`ReplyIsLast`), and an adapter that believes in IDLE and waits for nothing has nothing
  of that kind on the way (`NothingOutstanding`).
* `Deadman`: `DeadmanInv` follows the age of the operator's last command along the path, as
  `RequestAges` does for the layers: the adapter's hand (`CommandIsRecent`), the topic
  (`SamplesAreRecent`), the arbiter's input and output (`InputIsRecent`,
  `OutputIsRecent`), and the input once the adapter's timer has fired (`HandledIsRecent`).
  `LateIsAnswered`: what a dead adapter left moving is ended by the IDLE its successor
  asks for. Like the property it is about punctual callbacks, every one within its tick.

**`Standalone_proofs`**

* `MotionTyped`, for any distance, tolerance, number of runs and number of deaths of the
  watchdog; `MotionRecorded` and `RunSafe` are read from the inductive invariant
  `MotionInv`. It adds to the properties that whoever may make the base move has marked
  the file (`Marked`), that only a commit takes the mark away (`UnsettledIsMarked`), that
  what commits has stopped the base (`StillAtCommit`), and that the confirmation of an
  e-stop leaves no request behind it (`NoLateRelease`), without which the release of an
  earlier run could open the gate while a later one prepares. Three lemmas keep them: file
  and gate (`MarkStep`), the order of the requests (`EstopStep`), the pose (`PoseStep`).
* `AdviceSound`, for any number of requests: `AdviceInv` says of the cached reports what
  the property says of the answers (`ReportsAreGrounded`), since one request may hand out
  what another one wrote. What a report cites is evidence of the context of its writer;
  equal digests give equal incidents and equal lists after the cut, so that the only
  record it can cite out of another context is one cut from its writer's (`CutIsOfAround`).
  The property excepts exactly these, and section 5 says where the code has them.
* `MockStopped`, for any number of goals: `MockInv` counts the ticks of an engaged stop;
  after the first every goal's loop has read it (`HeldIsRead`), after the second none is
  left (`HeldIsOver`), and a loop that goes on has read a lease in time (`LeaseWasRead`).
* `ProgressJudged`, for all limits, distances and angles: the property compares the
  monitor's anchors with feedback as it was really given. `ProgressInv` therefore relates
  them: when the best distance was told (`BestWasReached`), that the last feedback
  repeated is no progress (`RepeatedIsNone`), that a failure for want of progress came
  after its timeout (`FailedIsFar`). The relation is kept step by step; no induction over
  the feedback is needed.

* `UnitsExclude`, the safety part of `ProfilesSwitch`: a unit is started where none runs and
  systemd has no job for the other one (`StartsAlone`). The job that a timed out start leaves
  behind is there only while no unit runs, and the next switch drops it or stops.
* `ClearedEarned`, that of `HealthIsTracked`: while the warning is on, the count is that of
  clear samples in a row (`CountIsOfClear`).
* `JournalIsKept`, that of `CollectorKeepsUp`: `PolledTo(r)` says that the polls have come to
  the entry `r`, that all up to it are stored and none after it is, and that the cursors are
  the last ones up to it. What a poll prints therefore is what follows `r`
  (`PrintedIsNew`). A cursor that is dropped is of an entry the next poll does not ask
  for, since the entries of two polls fit in `SeenLimit` (`JournalRises`). It assumes of the
  journal that an entry can be read within the overlap (`Delay =< Overlap`).
* `StandaloneTyped`: the types of all of them in every world of `standalone`, from
  `WorldIsPart`: a world takes only steps of its own component, so that what is proved of
  the component holds in the run.

**`FleetOwnership_proofs`**: the gateway's node and one robot with any number of commands,
sessions, operators, restarts and executor threads.

* `FleetTyped`: the type invariant, inductive next to `OfActive` (an acceptance is
  confirmed only for an active command: `_active` is popped together with
  the deadline).
* `EstopLeaves`: a goal becomes active only under the lock that also reads the stop, and
  whoever engages the stop has a thread that is still to pop what was active before. So
  `EstopLeavesNoGoal` is inductive next to the types, and holds with any number of
  operators.
* `OneStopEndsManual`: the same of manual sessions, with one operator as a hypothesis of
  the theorem. It is needed: with two, one may release the stop between the other's steps
  and a session begin that the acknowledged call never ends.
* `StatusesTrue`: a status that reports a success is of a goal that reached that pose.
  `TruthInv` needs that a command is sent once (`SentOnce`), that a goal that runs
  is the robot's current target (`GoalRuns`), that the robot's verdict is of it
  (`VerdictIsTrue`), and the claim itself of every status on its way or being handled
  (`StatusesAreTrue`). `SuccessStays`: no step takes a success back, which is what makes
  late and displaced statuses harmless.

**`TaskMission_proofs`**: any number of tasks on top of that.

* `TasksTyped`: the type invariant, which also says that an ACTIVE task has its command.
  It needs that who has started has a pose, that a request waiting for the robot has
  a command, and that a status is applied only to a row that had one (`TasksInv`).
* `TasksDriven`: `Driven`, the inductive form of `StartingTaskIsDriven`. STARTING is written by the
  run request alone, and every way out of its call writes the row again. `cancel`,
  `sync_navigation` and the repair after a restart only take tasks out of STARTING.
* `TasksAreClients`: every step of `TaskMission` is a step of `FleetOwnership` or a
  stutter (`TaskStepOfFleet`); `FleetTyped`, `EstopLeaves` and `StatusesTrue` hold with tasks.
* `SucceededReached`: a task that SUCCEEDED has a goal that reached its pose. Only a status
  without a command says SUCCEEDED, and `sync_navigation` takes it for a row of the same
  pose (`HearsSuccess`); a row's pose never changes, and nothing else writes SUCCEEDED
  (`TasksKeepPose`). The rest is `StatusesTrue`. The goal may be an earlier one to that pose:
  the code compares poses, and the theorem claims no more.

**`PatrolMission_proofs`**: any number of patrols, places, loops, commands and restarts.

* `MissionTyped`, `PatrolsDriven`: under `DisturbedSpec`, with cancels, emergency stops and
  restarts. `PatrolsDriven` is inductive next to the types (`PatrolInv`): run request and
  worker write STARTING only for the patrol they drive, and every way out of a drive
  writes the row again, also one that was canceled underneath it.
* `PatrolsAreClients`: every step of `PatrolMission` is a step of `FleetOwnership` or a
  stutter (`PatrolStepOfFleet`); what is proved of the node holds with patrols.
* `PassedVisited`: the robot has been at every waypoint an undisturbed patrol has passed.
  `MissionInv` adds that no two patrols are open (`OneOpen`), that request and worker
  never drive at once (`RunDrives`, `WorkerDrives`), that the expected pose is that of the
  patrol's waypoint and phase (`GoalExpected`), and that the success the worker acts on
  is of that pose (`VerdictIsOfGoal`, from `StatusesTrue`). It is proved of
  `UndisturbedSpec` because a cancel between the worker's match and its reading of the
  phase breaks `VerdictIsOfGoal` (section 5).
* `OnVisits`: `AdvancesOnVisits` by counting, an injection from the waypoints passed to the goals
  that reached them (`VisitsCounted`). Its hypotheses are one loop and distinct places,
  under which the run checks it too: with more loops, or a place named twice, a repeated
  status of an earlier goal may count for a later waypoint (section 5).

Model-checked only:

* the liveness properties (`EndedGoalClosesTask`, `EndedGoalMovesPatrol`, and the liveness
  parts of `ProfilesSwitch`, `HealthIsTracked` and `CollectorKeepsUp`): liveness and
  `ENABLED` are outside what tlapm 1.4.5 proves;
* `DiagnosisHolds`: it compares a pass over the log with its definition, for every length an
  induction over data, out of this prover's reach.

## 5. Where code and documents disagree

Two have a run that TLC violates:

* `stack_vanished_nav2`: Nav2 dies while its answer to the goal request is awaited
  (`agent_node.py:583`), or after the lease expired (`:736`). The goal stays active
  for good, which `docs/design/phase-5-tb1-navigation.md:121-122` excludes.
* `patrol_canceled`: `cancel` closes a STARTING patrol while the start call of its
  waypoint is out, and `_start_goal` writes ACTIVE afterwards
  (`patrol_manager.py:315`), against "no waypoint will resume" (`:130`).

Others were met with these models and have no run of their own:

* The agent reads the flags that decide the outcome under its lock
  (`agent_node.py:627-632`), chooses the outcome without it and writes it under the lock
  again (`:682`). The goal is active in between, so `_check_lease` may set FAILED or
  LEASE_EXPIRED (`:763`, `:775`, `:786`), which the status timer shows, and SUCCEEDED follows.
  `docs/design/phase-5-tb1-navigation.md:89` has an expired lease end the goal as LEASE_EXPIRED, and
  `docs/learning-log/2026-07-17-phase-5-tb1-navigation-implementation.md:144-145` keeps a terminal
  state until a new pose or goal. The contract without `Settle` (no success once a
  failure was shown) fails in `stack_goals`; `AgentContract` promises what is left, and the
  gateway models are built on that.
* A context over the size limit loses the oldest records of `surrounding_logs`
  (`log_ai.py:422-424`), the list that is hashed (`:445`), while `allowed_evidence` keeps them.
  Two requests with the same remainder, perhaps none, share a report, and the second may
  be shown a citation of a record it never showed the model; the reuse is for the same
  evidence in `docs/setup/ros2-log-mlops.md:242-243`. `AdviceIsSound` excepts these
  records (`unhashed`).
* The mock robot whose goal ends by an e-stop alone keeps ACTIVE and its command
  (`mock_robot.py:381-385`, `:436`), and as long as the command is set `_accept_navigation`
  rejects every further goal (`:333`), until the profile is set (`:281`). `MockStops` asks only
  that the loop ends.
* An authorization is closed after the Nav2 goal is canceled (`agent_node.py:834-836`);
  `robot/navigation_agent/README.md:58-59` says before. The base stops either way
  (`StoppedGoalStopsTheBase`).
* A lifecycle query that dies with Nav2 is never repeated
  (`agent_node.py:979-981`): with Nav2 respawned,
  `<>[](agentUp /\ nav2 = "active") => <>[](agent.lifecycleActive)` fails.
* `start_navigation` gives up `_pending_navigation` before it sets
  `_active_navigation` (`ros_node.py:1431`, `:1447`) and a manual session is admitted
  in between: `~(ManualActive /\ (active # NoCommand \/ pending))` fails in six steps,
  against `docs/setup/tb1-operation-command-guide.md:93`.
* With two executor threads an older status applied second drops a live goal
  (`ros_node.py:916`), which then ends with its lease.
* `_target_matches` compares poses: with two equal consecutive waypoints a repeated
  SUCCEEDED of the first counts for the second (`patrol_manager.py:364`).
  `AdvancesOnVisits` is therefore checked with distinct places. A cancel between the
  worker's match and its read of the phase (`:203`) breaks it too, on a patrol that
  is closed.
* A closed task becomes ACTIVE again: `run` and `sync_navigation` write the row whatever it
  is by then (`task_manager.py:94`, `operations.py:692`), against the state machine of
  `docs/design/phase-6-tb1-operations.md:49`. The cancel's own call stops the robot, and the
  next status closes the row.
* A goal that the gateway gave up and the robot accepts after all shows its own verdict
  in place of the task's, which stays ACTIVE; `EndedGoalClosesTask` excepts it (`Only`).
* A stop message with "timed out" is a safety stop for the rule at `log_mlops.py:285` and
  `test_log_mlops.py:810`, but not for the pattern at `:985`: next to an active e-stop it
  looks expected. `EvidenceHidesNothing` excepts it (`TimedOut`).
* The confirmation of a profile by a status (`ros_node.py:1242`) does not look at
  `transitioning`: a status of the old transition may confirm the new request.
* A robot that turns back and forth by more than a step of yaw makes progress for ever
  (`goal_progress.py:72`); only the longest duration ends its goal.
* The mock robot reads its e-stop every 0.1 s: one engaged and released in between
  leaves the goal running (`mock_robot.py:332`). `MockStops` speaks of one that lasts.
* An agent that dies with a waypoint's goal reports no terminal state, and the
  patrol stays ACTIVE (`patrol_manager.py:157`), against
  `docs/design/phase-8-web-patrol-mapping-diagnostics.md:88`.

## 6. Not modelled

* Geometry and file formats (`map_annotations.py`, `map_validator.py`, `motion_guard.py`, scan
  and map registries): real arithmetic, no concurrency. `SupervisedMotion` and
  `NavigationAgent` take their verdicts as choices.
* Scan normalizer and web telemetry: conversion and throttling of data nothing else
  in the model depends on.
* Datasets, features, training and scoring of `log_mlops.py`, 1194-1857 above all: batch
  computations over files with real arithmetic. What they leave to other processes, the
  promoted file, is in `LogCollector`.
* The event log of `operations.py`: written in many places, read by nobody but the browser.
* The confirmation of profiles and maps by a later status, initial pose and annotations
  in `ros_node.py`; the limits of battery and the system metrics of the robot agent,
  which add fault codes of the same kind.
* `_fail_active_after_worker_error` of the patrols, which needs an exception of sqlite.
* What the base does with a silent `/cmd_vel` is in its firmware.
* The rclpy action state machine beyond accept, cancel and result; systemd's
  `Conflicts=`.
* Scripts, infrastructure and acceptance fixtures; `web/app.js`, except that its clients
  may call anything at any time.

## 7. Plan

1. The confirmation of profiles and maps in the gateway, next to `ProfileManager`.
2. Tasks and patrols in one composition: each keeps to `FleetSpec` (`TasksAreClients`,
   `PatrolsAreClients`); that the other's calls are among the clients there is left to show.
