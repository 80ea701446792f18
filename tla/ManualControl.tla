---------------------------- MODULE ManualControl ----------------------------
(***************************************************************************)
(* Deadman driving on the robot: the web's leased ManualCommand calls, the *)
(* adapter manual_control_node.py that turns them into velocity samples    *)
(* and motion-mode requests, and the arbiter it shares with the navigation *)
(* agent, here an environment that asks for IDLE or NAVIGATION whenever it *)
(* likes and publishes no motion.  Both processes may die and respawn.     *)
(*                                                                         *)
(* The adapter runs on a single-threaded executor: a callback is one step. *)
(* Its limits (0.05 m/s, 0.3 rad/s) are data here: a member of Motion is a *)
(* command already clamped, Malformed one that is not finite and planar.   *)
(***************************************************************************)
EXTENDS MotionArbiter, Topic

CONSTANTS Sessions,        \* session ids
          NoSession,       \* the empty session id
          Malformed,       \* a command the adapter refuses
          ManualTimeout,   \* command_timeout_sec, in ticks
          RetryDelay,      \* the 0.25 s after a failed mode request, in ticks
          MaxRequests,     \* bound of the arbiter's service queue
          Punctual         \* BOOLEAN: every callback runs within its tick

ASSUME ManualAssumption ==
  /\ NoSession \notin Sessions
  /\ Malformed \notin Commands
  /\ ManualTimeout \in Nat
  /\ RetryDelay \in Nat \ {0}
  /\ MaxRequests \in Nat \ {0, 1}
  /\ Punctual \in BOOLEAN

\* Every launch file that starts an arbiter gives it default_mode 0, IDLE
\* (config/tb1.yaml:40, tb1_navigation.launch.py:125, tb1_mapping.launch.py:47).
ASSUME ManualLaunchAssumption == DefaultMode # "MANUAL"

VARIABLES
  manualUp,        \* the adapter's process exists
  manual,          \* its fields, see Adapters
  manualSamples,   \* samples of /motion/manual/cmd_vel not yet handled
  modeRequests,    \* SetMotionMode requests not yet served, in arrival order
  modeReply,       \* the mode of a reply on its way to the adapter, or NoMode
  due,             \* nodes whose timer has not fired in this tick
  sinceMotion      \* history, when Punctual: ticks since motion was last asked

driveVars == <<arbiterVars, manualUp, manual, manualSamples, modeRequests,
               modeReply, due, sinceMotion>>

NoMode == "none"
NoCommand == ManualTimeout + 1
StopBound == ManualTimeout + InputTimeout + 1

\* client: pending is the mode of the outstanding request (the closure's
\* requested_mode, NoMode when _mode_request_pending is false), retryIn the
\* ticks until _next_mode_retry_at.
Clients == [pending : MotionModes \cup {NoMode}, desired : MotionModes,
            applied : MotionModes \cup {NoMode}, retryIn : 0..RetryDelay]
Adapters == [session : Sessions \cup {NoSession}, age : 0..NoCommand,
             command : Commands, client : Clients]

FreshAdapter ==
  [session |-> NoSession, age |-> NoCommand, command |-> Still,
   client |-> [pending |-> NoMode, desired |-> "IDLE", applied |-> NoMode, retryIn |-> 0]]

\* Mutant of Ask: the retry timer and the cache are looked at before the
\* desired mode is recorded.
AskLate(client, mode, ready) ==
  IF \/ client.pending # NoMode
     \/ client.applied = mode
     \/ client.retryIn > 0
  THEN client
  ELSE IF ready THEN [client EXCEPT !.desired = mode, !.pending = mode]
  ELSE [client EXCEPT !.desired = mode, !.retryIn = RetryDelay]

\* _request_mode: ready is what service_is_ready says.
Ask(client, mode, ready) ==
  LET asked == [client EXCEPT !.desired = mode] IN
  IF asked.pending # NoMode \/ asked.applied = mode \/ asked.retryIn > 0 THEN asked
  ELSE IF ready THEN [asked EXCEPT !.pending = mode]
  ELSE [asked EXCEPT !.retryIn = RetryDelay]

\* _stop_locked, which also publishes a zero.
Stopped(m, ready) ==
  [session |-> NoSession, age |-> NoCommand, command |-> Still,
   client |-> IF m.session # NoSession THEN Ask(m.client, "IDLE", ready) ELSE m.client]

Overdue == manual.session # NoSession /\ manual.age > ManualTimeout

\* Mutant of Unexpired: the lease is not checked.
NeverExpires(ready) == manual

\* _expire_locked
Unexpired(ready) == IF Overdue THEN Stopped(manual, ready) ELSE manual

\* An arbiter that died is still in the graph until its liveliness lapses.
SeenReady == IF arbiterUp THEN {TRUE} ELSE BOOLEAN

\* A mode request leaves when the step set a new pending mode; it is lost when
\* no arbiter is there.
SendModeRequest ==
  modeRequests' =
    IF arbiterUp /\ manual'.client.pending \notin {NoMode, manual.client.pending}
    THEN Append(modeRequests, [from |-> "manual", mode |-> manual'.client.pending])
    ELSE modeRequests

\* Mutant of ManualPublish: a publisher that keeps every sample.
KeepAllPublish(queue, sample) == IF arbiterUp THEN Append(queue, sample) ELSE <<>>

ManualPublish(queue, sample) == IF arbiterUp THEN Publish(queue, sample) ELSE <<>>

DriveInit ==
  /\ ArbiterInit
  /\ manualUp = TRUE
  /\ manual = FreshAdapter
  /\ manualSamples = <<>>
  /\ modeRequests = <<>>
  /\ modeReply = NoMode
  /\ due = {"arbiter", "manual"}
  /\ sinceMotion = StopBound + 1

Recent(c) == sinceMotion' = IF c \in Motion THEN 0 ELSE sinceMotion

\* _on_command(stop) of the session id s.
StopCalled(s) ==
  /\ manualUp
  /\ \E ready \in SeenReady :
       LET m == Unexpired(ready) IN
       manual' = IF s = m.session THEN Stopped(m, ready) ELSE m
  /\ manualSamples' = IF Overdue \/ s = manual.session
                      THEN ManualPublish(manualSamples, Still) ELSE manualSamples
  /\ SendModeRequest
  /\ UNCHANGED <<arbiterVars, manualUp, modeReply, due, sinceMotion>>

\* _on_command of a velocity: another session's, or a malformed one, only has
\* the lease checked.
CommandCalled(s, c) ==
  /\ manualUp
  /\ \E ready \in SeenReady :
       LET m == Unexpired(ready)
           refused == m.session \notin {NoSession, s} \/ c = Malformed IN
       /\ manual' = IF refused THEN m ELSE
            [session |-> s, age |-> 0, command |-> c,
             client |-> IF m.session = NoSession THEN Ask(m.client, "MANUAL", ready)
                        ELSE m.client]
       /\ IF refused THEN UNCHANGED sinceMotion ELSE Recent(c)
  /\ manualSamples' = IF Overdue THEN ManualPublish(manualSamples, Still) ELSE manualSamples
  /\ SendModeRequest
  /\ UNCHANGED <<arbiterVars, manualUp, modeReply, due>>

\* The timer's _publish: a second zero follows the one of an expiry.
ManualTimerFires ==
  /\ manualUp
  /\ "manual" \in due
  /\ \E ready \in SeenReady :
       LET m == Unexpired(ready) IN
       manual' = [m EXCEPT !.client = Ask(@, @.desired, ready)]
  /\ manualSamples' = ManualPublish(IF Overdue THEN ManualPublish(manualSamples, Still)
                                    ELSE manualSamples, manual'.command)
  /\ SendModeRequest
  /\ due' = due \ {"manual"}
  /\ UNCHANGED <<arbiterVars, manualUp, modeReply, sinceMotion>>

\* Mutant of Completed: what is wanted now is taken for what was served.
CompletedAsDesired(client) == [client EXCEPT !.pending = NoMode, !.applied = client.desired]

\* complete(): the served mode is cached.  The arbiter knows every mode it is
\* asked for here, so the reply is a success.
Completed(client) ==
  [client EXCEPT !.pending = NoMode, !.applied = modeReply, !.retryIn = 0]

ModeReplyArrives ==
  /\ manualUp
  /\ modeReply # NoMode
  /\ \E ready \in SeenReady :
       manual' = [manual EXCEPT !.client =
         LET done == Completed(@) IN
         IF done.desired # done.applied THEN Ask(done, done.desired, ready) ELSE done]
  /\ SendModeRequest
  /\ modeReply' = NoMode
  /\ UNCHANGED <<arbiterVars, manualUp, manualSamples, due, sinceMotion>>

\* The process dies; what it sent is no longer its own.
ManualDies ==
  /\ manualUp
  /\ manualUp' = FALSE
  /\ modeReply' = NoMode
  /\ modeRequests' = [i \in DOMAIN modeRequests |-> [modeRequests[i] EXCEPT !.from = "other"]]
  /\ UNCHANGED <<arbiterVars, manual, manualSamples, due, sinceMotion>>

\* Or it is told to stop: destroy_node stops the session first.
ManualShutsDown ==
  /\ manualUp
  /\ manualUp' = FALSE
  /\ modeReply' = NoMode
  /\ \E ready \in SeenReady : manual' = Stopped(manual, ready)
  /\ manualSamples' = ManualPublish(manualSamples, Still)
  /\ modeRequests' =
       LET kept == [i \in DOMAIN modeRequests |->
                      [modeRequests[i] EXCEPT !.from = "other"]] IN
       IF arbiterUp /\ manual'.client.pending # manual.client.pending
       THEN Append(kept, [from |-> "other", mode |-> "IDLE"]) ELSE kept
  /\ UNCHANGED <<arbiterVars, due, sinceMotion>>

ManualRespawns ==
  /\ ~manualUp
  /\ Len(modeRequests) < MaxRequests
  /\ manualUp' = TRUE
  /\ manual' = FreshAdapter
  /\ UNCHANGED <<arbiterVars, manualSamples, modeRequests, modeReply, due, sinceMotion>>

\* The navigation agent on the same service.
AgentAsks(m) ==
  /\ arbiterUp
  /\ Len(modeRequests) + 1 < MaxRequests
  /\ modeRequests' = Append(modeRequests, [from |-> "other", mode |-> m])
  /\ UNCHANGED <<arbiterVars, manualUp, manual, manualSamples, modeReply, due, sinceMotion>>

ArbiterServesMode ==
  /\ modeRequests # <<>>
  /\ OnSetMode(Head(modeRequests).mode)
  /\ modeRequests' = Tail(modeRequests)
  /\ modeReply' = IF Head(modeRequests).from = "manual" THEN Head(modeRequests).mode
                  ELSE modeReply
  /\ UNCHANGED <<manualUp, manual, manualSamples, due, sinceMotion>>

ArbiterHandlesSample ==
  /\ manualSamples # <<>>
  /\ OnManualCommand(Head(manualSamples))
  /\ manualSamples' = Tail(manualSamples)
  /\ UNCHANGED <<manualUp, manual, modeRequests, modeReply, due, sinceMotion>>

ArbiterTimerFires ==
  /\ "arbiter" \in due
  /\ ArbiterOnTimer
  /\ due' = due \ {"arbiter"}
  /\ UNCHANGED <<manualUp, manual, manualSamples, modeRequests, modeReply, sinceMotion>>

\* A request it had not answered is never answered.
ArbiterDies ==
  /\ \E lastStop \in BOOLEAN : ArbiterEnd(lastStop)
  /\ manualSamples' = <<>>
  /\ modeRequests' = <<>>
  /\ UNCHANGED <<manualUp, manual, modeReply, due, sinceMotion>>

ArbiterRespawns ==
  /\ ArbiterStart
  /\ UNCHANGED <<manualUp, manual, manualSamples, modeRequests, modeReply, due, sinceMotion>>

DriveSettled ==
  /\ arbiterUp => manualSamples = <<>> /\ modeRequests = <<>> /\ "arbiter" \notin due
  /\ manualUp => modeReply = NoMode /\ "manual" \notin due

DriveTick ==
  /\ Punctual => DriveSettled
  /\ ArbiterTick
  /\ manual' = [manual EXCEPT !.age = Aged(@, ManualTimeout),
                              !.client.retryIn = IF @ > 0 THEN @ - 1 ELSE 0]
  /\ due' = {"arbiter", "manual"}
  /\ sinceMotion' = IF Punctual THEN Aged(sinceMotion, StopBound) ELSE sinceMotion
  /\ UNCHANGED <<manualUp, manualSamples, modeRequests, modeReply>>

DriveNext ==
  \/ \E s \in Sessions : StopCalled(s)
  \/ \E s \in Sessions, c \in Commands \cup {Malformed} : CommandCalled(s, c)
  \/ ManualTimerFires
  \/ ModeReplyArrives
  \/ ManualDies
  \/ ManualShutsDown
  \/ ManualRespawns
  \/ \E m \in {"IDLE", "NAVIGATION"} : AgentAsks(m)
  \/ ArbiterServesMode
  \/ ArbiterHandlesSample
  \/ ArbiterTimerFires
  \/ ArbiterDies
  \/ ArbiterRespawns
  \/ DriveTick

DriveSpec == DriveInit /\ [][DriveNext]_driveVars

\* Executors run their callbacks, time passes, launch respawns both processes.
DriveFairness ==
  /\ WF_driveVars(ManualTimerFires)
  /\ WF_driveVars(ModeReplyArrives)
  /\ WF_driveVars(ManualRespawns)
  /\ WF_driveVars(ArbiterServesMode)
  /\ WF_driveVars(ArbiterHandlesSample)
  /\ WF_driveVars(ArbiterTimerFires)
  /\ WF_driveVars(ArbiterRespawns)
  /\ WF_driveVars(DriveTick)

FairDriveSpec == DriveSpec /\ DriveFairness

-----------------------------------------------------------------------------
ManualTypeOK ==
  /\ ArbiterTypeOK
  /\ manualUp \in BOOLEAN
  /\ manual \in Adapters
  /\ manualSamples \in Seq(Commands) /\ Len(manualSamples) =< Depth
  /\ modeRequests \in Seq([from : {"manual", "other"}, mode : MotionModes])
  /\ Len(modeRequests) =< MaxRequests
  /\ modeReply \in MotionModes \cup {NoMode}
  /\ due \subseteq {"arbiter", "manual"}
  /\ sinceMotion \in 0..StopBound + 1

\* INVARIANT: the adapter never rests in a wrong belief.  With no session, no
\* request outstanding and IDLE cached as applied it will ask for nothing more,
\* so the arbiter must not be in MANUAL nor about to be put there.
IdleBeliefIsTrue ==
  (/\ manualUp
   /\ manual.session = NoSession
   /\ manual.client.pending = NoMode
   /\ manual.client.applied = "IDLE") =>
     /\ motionMode # "MANUAL"
     /\ \A i \in DOMAIN modeRequests : modeRequests[i].mode # "MANUAL"

\* INVARIANT: with every callback on time, the arbiter stops forwarding manual
\* motion within ManualTimeout and one timer period of the operator's last
\* request for it while the adapter lives, and within the sum of both timeouts when the adapter died.
DeadmanStops ==
  (Punctual /\ arbiterUp /\ arbiterOut # Still) =>
    /\ sinceMotion =< StopBound
    /\ (manualUp /\ DriveSettled) => sinceMotion =< ManualTimeout + 1

\* LIVENESS: a session that ended, whether stopped, expired or lost with its
\* process, takes MANUAL away from the arbiter, unless a new one begins; the
\* adapter may have been restarted or had its requests lost any number of times.
EndedSessionLeavesManual ==
  <>[]manualUp =>
    ((manual.session = NoSession) ~> (motionMode # "MANUAL" \/ manual.session # NoSession))
=============================================================================
