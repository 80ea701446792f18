------------------------ MODULE FleetOwnership_proofs ------------------------
(***************************************************************************)
(* What the gateway's node and one robot keep to, for any number of        *)
(* commands, sessions, operators, restarts and executor threads.           *)
(***************************************************************************)
EXTENDS FleetOwnership, Topic_proofs

\* An acceptance is waited for, or confirmed, only for the active command.
OfActive == unconfirmed => active # NoCommand

FleetInv == GatewayTypeOK /\ OfActive

CommandTypes == NoCommand \notin Commands /\ Commands \subseteq Nat

LEMMA CommandFacts == CommandTypes
  BY LinkAssumption DEF CommandTypes, Commands, NoCommand

\* The states a robot shows.
LEMMA StateFacts == /\ Agent!Endings \subseteq States /\ Agent!Failures \subseteq Agent!Endings
                    /\ {"PENDING", "ACTIVE", "UNAVAILABLE"} \subseteq States
  BY DEF States, Agent!Endings, Agent!Failures

-----------------------------------------------------------------------------
(* The robot.                                                                *)

\* A status published is a status, whatever it displaces.
LEMMA SamplePublished ==
  ASSUME LinkTypeOK, NEW sample \in Statuses
  PROVE  /\ Publish(statuses, sample) \in Seq(Statuses)
         /\ Len(Publish(statuses, sample)) =< Depth
<1>1. statuses \in Seq(Statuses) /\ Len(statuses) =< Depth
  BY DEF LinkTypeOK
<1> QED
  BY <1>1, PublishFacts

\* The robot's own steps keep the types of the link.
LEMMA RobotStep ==
  ASSUME LinkTypeOK,
         \/ \E c \in Commands : AgentAnswers(c) \/ LeaseArrives(c)
         \/ AgentBegins \/ AgentCondemns \/ AgentSettles \/ AgentFinishes \/ LeaseLapses
         \/ AgentRestarts \/ AgentPublishes
  PROVE  LinkTypeOK'
<1> USE CommandFacts, StateFacts DEF LinkTypeOK, agentVars, CommandTypes
<1>1. ASSUME NEW c \in Commands, AgentAnswers(c) PROVE LinkTypeOK'
  BY <1>1 DEF AgentAnswers, Agent!Accept, Requests
<1>2. ASSUME NEW c \in Commands, LeaseArrives(c) PROVE LinkTypeOK'
  BY <1>2 DEF LeaseArrives
<1>3. CASE AgentBegins
  <2>1. held \in Commands
    BY <1>3 DEF AgentBegins, Agent!Begin
  <2>2. robotTarget' \in Targets \cup {NoTarget}
    BY <1>3, <2>1 DEF AgentBegins
  <2> QED
    BY <1>3, <2>1, <2>2 DEF AgentBegins, Agent!Begin
<1>4. CASE AgentCondemns
  BY <1>4 DEF AgentCondemns, Agent!Condemn
<1>9. CASE AgentSettles
  BY <1>9 DEF AgentSettles, Agent!Settle
<1>5. CASE AgentFinishes
  <2>1. shown \in Commands /\ verdict' \in Agent!Endings
    BY <1>5 DEF AgentFinishes, Agent!Finish, Agent!Endings
  <2>2. outcome' \in [Commands -> Agent!Endings \cup {"none", "gone"}]
    BY <1>5, <2>1 DEF AgentFinishes
  <2> QED
    BY <1>5, <2>1, <2>2 DEF AgentFinishes, Agent!Finish
<1>6. CASE LeaseLapses
  BY <1>6 DEF LeaseLapses
<1>7. CASE AgentRestarts
  <2>1. restarts' \in 0..MaxRestarts
    BY <1>7, LinkAssumption DEF AgentRestarts
  <2>2. goalRequest' \in [Commands -> Requests]
    BY <1>7 DEF AgentRestarts, Requests
  <2>3. outcome' \in [Commands -> Agent!Endings \cup {"none", "gone"}]
    BY <1>7 DEF AgentRestarts
  <2>4. [command |-> NoCommand, state |-> "UNAVAILABLE", target |-> NoTarget] \in Statuses
    BY DEF Statuses
  <2>5. statuses' \in Seq(Statuses) /\ Len(statuses') =< Depth
    <3> HIDE DEF LinkTypeOK
    <3> QED
      BY <1>7, <2>4, SamplePublished DEF AgentRestarts
  <2>6. /\ {held', shown'} \subseteq Commands \cup {NoCommand}
        /\ verdict' \in States /\ settled' \in BOOLEAN
    BY <1>7 DEF AgentRestarts, Agent!Restart
  <2>7. /\ robotTarget' \in Targets \cup {NoTarget} /\ leaseFresh' \in BOOLEAN
        /\ goalTarget' = goalTarget /\ cancelRequests' = cancelRequests /\ leases' = leases
    BY <1>7 DEF AgentRestarts
  <2> QED
    BY <2>1, <2>2, <2>3, <2>5, <2>6, <2>7
<1>8. CASE AgentPublishes
  <2>1. PICK state \in IF verdict = "PENDING" THEN {"PENDING", "UNAVAILABLE"} ELSE {verdict} :
          statuses' = Publish(statuses, AgentSample(state))
    BY <1>8 DEF AgentPublishes
  <2>2. AgentSample(state) \in Statuses
    BY DEF AgentSample, Statuses
  <2>3. statuses' \in Seq(Statuses) /\ Len(statuses') =< Depth
    <3> HIDE DEF LinkTypeOK
    <3> QED
      BY <2>1, <2>2, SamplePublished
  <2> QED
    BY <1>8, <2>3 DEF AgentPublishes
<1> QED
  BY <1>1, <1>2, <1>3, <1>4, <1>5, <1>6, <1>7, <1>8, <1>9

-----------------------------------------------------------------------------
(* The gateway.                                                              *)

\* The threads of start_navigation.
LEMMA StartStep ==
  ASSUME FleetInv, NEW c \in Commands,
         \/ \E t \in Targets : StartNavigation(c, t)
         \/ StartAnswered(c) \/ StartActivates(c) \/ StartGivesUp(c) \/ StartLeases(c)
  PROVE  FleetInv'
<1> USE CommandFacts DEF FleetInv, OfActive, GatewayTypeOK, LinkTypeOK, CommandTypes, robotVars,
        agentVars, ownerVars, callVars, statusVars, manualVars, StartPcs
<1>1. ASSUME NEW t \in Targets, StartNavigation(c, t) PROVE FleetInv'
  <2>1. CASE goalRequest' = goalRequest /\ goalTarget' = goalTarget /\ manual' = manual
    <3>1. startPc' \in [Commands -> StartPcs] /\ pending' \in BOOLEAN
      BY <1>1 DEF StartNavigation
    <3> QED
      BY <1>1, <2>1, <3>1 DEF StartNavigation
  <2>2. CASE /\ pending' = TRUE
             /\ SendGoalRequest(c, t)
             /\ startPc' = [startPc EXCEPT ![c] = "sending"]
             /\ manual' = [manual EXCEPT !.session = NoSession]
    <3>1. /\ goalRequest' \in [Commands -> Requests]
          /\ goalTarget' \in [Commands -> Targets \cup {NoTarget}]
      BY <2>2 DEF SendGoalRequest, Requests
    <3>2. startPc' \in [Commands -> StartPcs]
      BY <2>2
    <3>3. manual' \in [session : Sessions \cup {NoSession}, pending : Sessions \cup {NoSession},
                       fresh : BOOLEAN]
      BY <2>2
    <3> QED
      BY <1>1, <2>2, <3>1, <3>2, <3>3 DEF StartNavigation
  <2> QED
    BY <1>1, <2>1, <2>2 DEF StartNavigation
<1>2. CASE StartAnswered(c)
  <2>1. startPc' \in [Commands -> StartPcs]
    BY <1>2 DEF StartAnswered
  <2> QED
    BY <1>2, <2>1 DEF StartAnswered
<1>3. CASE StartActivates(c)
  <2>1. startPc' \in [Commands -> StartPcs]
    BY <1>3 DEF StartActivates
  <2>2. /\ active' \in Commands \cup {NoCommand} /\ {confirmed', unconfirmed'} \subseteq BOOLEAN
        /\ unconfirmed' => active' # NoCommand
    BY <1>3 DEF StartActivates
  <2> QED
    BY <1>3, <2>1, <2>2 DEF StartActivates
<1>4. CASE StartGivesUp(c)
  BY <1>4 DEF StartGivesUp, SendCancel
<1>5. CASE StartLeases(c)
  BY <1>5 DEF StartLeases, PublishLease
<1> QED
  BY <1>1, <1>2, <1>3, <1>4, <1>5

\* Whatever takes a goal away, sends its cancel or leases it.
LEMMA GoalStep ==
  ASSUME FleetInv,
         \/ \E c \in Commands :
              CancelPops(c) \/ PoppedIsCanceled(c) \/ ResultArrives(c) \/ LeaseTimerPublishes(c)
         \/ LeaseTimerGivesUp \/ LeaseTimerCopies
  PROVE  FleetInv'
<1> USE CommandFacts DEF FleetInv, OfActive, GatewayTypeOK, LinkTypeOK, CommandTypes, robotVars,
        agentVars, ownerVars, callVars, statusVars, manualVars, Drop
<1>1. ASSUME NEW c \in Commands, CancelPops(c) PROVE FleetInv'
  BY <1>1 DEF CancelPops
<1>2. ASSUME NEW c \in Commands, PoppedIsCanceled(c) PROVE FleetInv'
  BY <1>2 DEF PoppedIsCanceled, SendCancel
<1>3. ASSUME NEW c \in Commands, ResultArrives(c) PROVE FleetInv'
  BY <1>3 DEF ResultArrives
<1>4. ASSUME NEW c \in Commands, LeaseTimerPublishes(c) PROVE FleetInv'
  BY <1>4 DEF LeaseTimerPublishes, PublishLease
<1>5. CASE LeaseTimerGivesUp
  BY <1>5 DEF LeaseTimerGivesUp
<1>6. CASE LeaseTimerCopies
  BY <1>6 DEF LeaseTimerCopies
<1> QED
  BY <1>1, <1>2, <1>3, <1>4, <1>5, <1>6

\* The status callbacks, in whichever order they end.
LEMMA StatusStep ==
  ASSUME FleetInv,
         \/ StatusTaken
         \/ \E i \in DOMAIN heard : StatusHeard(i) \/ StatusApplied(i)
  PROVE  FleetInv'
<1> USE CommandFacts DEF FleetInv, OfActive, CommandTypes, robotVars, agentVars, ownerVars,
        callVars, statusVars, manualVars, Drop
<1>1. heard \in Seq(Callbacks) /\ Len(heard) =< ExecutorThreads /\ ExecutorThreads \in Nat
  BY SessionAssumption DEF GatewayTypeOK
<1>2. CASE StatusTaken
  <2>1. statuses \in Seq(Statuses) /\ Len(statuses) =< Depth /\ statuses # <<>>
    BY <1>2 DEF StatusTaken, GatewayTypeOK, LinkTypeOK
  <2>2. /\ Head(statuses) \in Statuses
        /\ Tail(statuses) \in Seq(Statuses) /\ Len(Tail(statuses)) =< Len(statuses)
    BY <2>1, TailFacts
  <2>3. statuses' \in Seq(Statuses) /\ Len(statuses') =< Depth
    BY <1>2, <2>1, <2>2, DepthAssumption, SMT DEF StatusTaken
  <2>4. [status |-> Head(statuses), noted |-> FALSE] \in Callbacks
    BY <2>2 DEF Callbacks
  <2>5. heard' \in Seq(Callbacks) /\ Len(heard') =< ExecutorThreads
    <3>1. heard' = Append(heard, [status |-> Head(statuses), noted |-> FALSE])
          /\ Len(heard) < ExecutorThreads
      BY <1>2 DEF StatusTaken
    <3> QED
      BY ONLY <1>1, <2>4, <3>1, SMT
  <2> QED
    BY <1>2, <2>3, <2>5 DEF StatusTaken, GatewayTypeOK, LinkTypeOK
<1>3. ASSUME NEW i \in DOMAIN heard, StatusHeard(i) PROVE FleetInv'
  <2>1. heard[i] \in Callbacks
    BY <1>1
  <2>2. [heard[i] EXCEPT !.noted = TRUE] \in Callbacks
    BY <2>1 DEF Callbacks
  <2>3. heard' \in Seq(Callbacks) /\ Len(heard') = Len(heard)
    <3>1. heard' = [heard EXCEPT ![i] = [heard[i] EXCEPT !.noted = TRUE]]
      BY <1>3 DEF StatusHeard
    <3> QED
      BY ONLY <1>1, <2>2, <3>1, i \in DOMAIN heard, SMT
  <2>4. observed' \in Commands \cup {NoCommand}
    BY <1>3, <2>1 DEF StatusHeard, Callbacks, Statuses
  <2> QED
    BY <1>1, <1>3, <2>3, <2>4 DEF StatusHeard, GatewayTypeOK, LinkTypeOK
<1>4. ASSUME NEW i \in DOMAIN heard, StatusApplied(i) PROVE FleetInv'
  <2>1. heard' = SubSeq(heard, 1, i - 1) \o SubSeq(heard, i + 1, Len(heard))
    BY <1>4 DEF StatusApplied, CallbackReturns
  <2>2. i \in 1..Len(heard)
    BY <1>1
  <2>3. /\ SubSeq(heard, 1, i - 1) \in Seq(Callbacks) /\ Len(SubSeq(heard, 1, i - 1)) = i - 1
        /\ SubSeq(heard, i + 1, Len(heard)) \in Seq(Callbacks)
        /\ Len(SubSeq(heard, i + 1, Len(heard))) = Len(heard) - i
    BY ONLY <1>1, <2>2, SMT
  <2>4. heard' \in Seq(Callbacks) /\ Len(heard') =< ExecutorThreads
    BY ONLY <1>1, <2>1, <2>2, <2>3, SMT
  <2>5. /\ active' \in {active, NoCommand} /\ {confirmed', unconfirmed'} \subseteq BOOLEAN
        /\ unconfirmed' => active' # NoCommand
    BY <1>4 DEF StatusApplied, GatewayTypeOK
  <2> QED
    BY <1>4, <2>4, <2>5 DEF StatusApplied, GatewayTypeOK, LinkTypeOK
<1> QED
  BY <1>2, <1>3, <1>4

\* The emergency stop and the manual sessions.
LEMMA StopStep ==
  ASSUME FleetInv,
         \/ \E o \in Operators :
              EstopAnswered(o) \/ EstopReleased(o) \/ EstopStopsManual(o) \/ EstopPops(o)
              \/ EstopEnds(o)
         \/ \E s \in Sessions :
              StartManual(s) \/ ManualAnswered(s) \/ ManualEnds(s) \/ SendManual(s)
              \/ StopManual(s) \/ ManualLapses(s)
  PROVE  FleetInv'
<1> USE CommandFacts DEF FleetInv, OfActive, GatewayTypeOK, LinkTypeOK, CommandTypes, robotVars,
        agentVars, ownerVars, callVars, statusVars, manualVars, Drop, EstopPcs, ManualPcs
<1>1. ASSUME NEW o \in Operators, EstopAnswered(o) PROVE FleetInv'
  BY <1>1 DEF EstopAnswered
<1>2. ASSUME NEW o \in Operators, EstopReleased(o) PROVE FleetInv'
  BY <1>2 DEF EstopReleased
<1>3. ASSUME NEW o \in Operators, EstopStopsManual(o) PROVE FleetInv'
  BY <1>3 DEF EstopStopsManual
<1>4. ASSUME NEW o \in Operators, EstopPops(o) PROVE FleetInv'
  BY <1>4 DEF EstopPops
<1>5. ASSUME NEW o \in Operators, EstopEnds(o) PROVE FleetInv'
  BY <1>5 DEF EstopEnds
<1>6. ASSUME NEW s \in Sessions, StartManual(s) PROVE FleetInv'
  BY <1>6 DEF StartManual
<1>7. ASSUME NEW s \in Sessions, ManualAnswered(s) PROVE FleetInv'
  <2>1. manual' \in [session : Sessions \cup {NoSession}, pending : Sessions \cup {NoSession},
                     fresh : BOOLEAN]
    <3>1. CASE manual' = [session |-> s, pending |-> NoSession, fresh |-> TRUE]
      BY <3>1
    <3>2. CASE manual' = [manual EXCEPT !.pending = NoSession]
      BY <3>2
    <3> QED
      BY <1>7, <3>1, <3>2 DEF ManualAnswered
  <2>2. manualPc' \in [Sessions -> ManualPcs]
    BY <1>7 DEF ManualAnswered
  <2> QED
    BY <1>7, <2>1, <2>2 DEF ManualAnswered
<1>8. ASSUME NEW s \in Sessions, ManualEnds(s) PROVE FleetInv'
  BY <1>8 DEF ManualEnds
<1>9. ASSUME NEW s \in Sessions, SendManual(s) PROVE FleetInv'
  BY <1>9 DEF SendManual
<1>10. ASSUME NEW s \in Sessions, StopManual(s) PROVE FleetInv'
  BY <1>10 DEF StopManual
<1>11. ASSUME NEW s \in Sessions, ManualLapses(s) PROVE FleetInv'
  BY <1>11 DEF ManualLapses
<1> QED
  BY <1>1, <1>2, <1>3, <1>4, <1>5, <1>6, <1>7, <1>8, <1>9, <1>10, <1>11

\* A gateway that comes back.
LEMMA RestartStep == ASSUME FleetInv, GatewayRestarts PROVE FleetInv'
<1> USE DEF FleetInv, OfActive, GatewayTypeOK, LinkTypeOK, agentVars
<1>1. restarts' \in 0..MaxRestarts
  BY LinkAssumption DEF GatewayRestarts
<1>2. startPc' \in [Commands -> StartPcs] /\ manualPc' \in [Sessions -> ManualPcs]
  BY DEF GatewayRestarts, StartPcs, ManualPcs
<1>3. estopPc' \in [Operators -> EstopPcs]
  BY DEF GatewayRestarts, EstopPcs
<1>4. heard' \in Seq(Callbacks) /\ Len(heard') =< ExecutorThreads
  BY SessionAssumption DEF GatewayRestarts
<1>5. statuses' \in Seq(Statuses) /\ Len(statuses') =< Depth
  BY DepthAssumption DEF GatewayRestarts
<1>6. manual' \in [session : Sessions \cup {NoSession}, pending : Sessions \cup {NoSession},
                   fresh : BOOLEAN]
  BY DEF GatewayRestarts
<1>7. /\ {estopEngaged', confirmed', unconfirmed', pending'} \subseteq BOOLEAN
      /\ {active', observed'} \subseteq Commands \cup {NoCommand} /\ ~unconfirmed'
      /\ popped' \cup leaseDraft' \subseteq Commands
  BY DEF GatewayRestarts, Drop
<1> QED
  BY <1>1, <1>2, <1>3, <1>4, <1>5, <1>6, <1>7 DEF GatewayRestarts

-----------------------------------------------------------------------------
(* The theorems.                                                             *)

LEMMA FleetInitially == FleetInit => FleetInv /\ EstopLeavesNoGoal
<1> SUFFICES ASSUME FleetInit PROVE FleetInv /\ EstopLeavesNoGoal
  OBVIOUS
<1> USE StateFacts DEF FleetInit, LinkInit, GatewayInit, Agent!ContractInit
<1>1. LinkTypeOK
  <2>1. statuses \in Seq(Statuses) /\ Len(statuses) =< Depth
    BY DepthAssumption
  <2>2. restarts \in 0..MaxRestarts
    BY LinkAssumption
  <2> QED
    BY <2>1, <2>2 DEF LinkTypeOK, Requests
<1>2. heard \in Seq(Callbacks) /\ Len(heard) =< ExecutorThreads
  BY SessionAssumption
<1>3. GatewayTypeOK
  BY <1>1, <1>2 DEF GatewayTypeOK, StartPcs, EstopPcs, ManualPcs
<1> QED
  BY <1>3 DEF FleetInv, OfActive, EstopLeavesNoGoal

\* Every step is one of the robot's, which leaves the gateway as it is, or one
\* of those above.
LEMMA FleetStep == FleetInv /\ [FleetNext]_fleetVars => FleetInv'
<1> SUFFICES ASSUME FleetInv, [FleetNext]_fleetVars PROVE FleetInv'
  OBVIOUS
<1> DEFINE OfRobot == \/ \E c \in Commands : AgentAnswers(c) \/ LeaseArrives(c)
                      \/ AgentBegins \/ AgentCondemns \/ AgentSettles \/ AgentFinishes
                      \/ LeaseLapses \/ AgentRestarts \/ AgentPublishes
<1>1. ASSUME OfRobot \/ UNCHANGED robotVars, UNCHANGED gatewayVars PROVE FleetInv'
  <2>1. LinkTypeOK'
    <3>1. LinkTypeOK
      BY DEF FleetInv, GatewayTypeOK
    <3>2. CASE OfRobot
      BY <3>1, <3>2, RobotStep
    <3>3. CASE UNCHANGED robotVars
      BY <3>1, <3>3 DEF LinkTypeOK, robotVars, agentVars
    <3> QED
      BY <1>1, <3>2, <3>3
  <2> QED
    BY <1>1, <2>1 DEF FleetInv, OfActive, GatewayTypeOK, gatewayVars, ownerVars, callVars,
                      statusVars, manualVars
<1>2. ASSUME NEW c \in Commands, Robot(c) PROVE FleetInv'
  BY <1>1, <1>2 DEF Robot
<1>3. CASE RobotRuns \/ RobotReports
  BY <1>1, <1>3 DEF RobotRuns, RobotReports
<1>4. ASSUME NEW c \in Commands, StartThread(c) PROVE FleetInv'
  BY <1>4, StartStep DEF StartThread
<1>5. ASSUME NEW c \in Commands,
             PoppedIsCanceled(c) \/ ResultArrives(c) \/ LeaseTimerPublishes(c)
      PROVE  FleetInv'
  BY <1>5, GoalStep
<1>6. CASE LeaseTimerGivesUp \/ LeaseTimerCopies
  BY <1>6, GoalStep
<1>7. CASE StatusTaken \/ \E i \in DOMAIN heard : StatusCallback(i)
  BY <1>7, StatusStep DEF StatusCallback
<1>8. CASE (\E o \in Operators : EstopThread(o)) \/ (\E s \in Sessions : ManualThread(s))
  BY <1>8, StopStep DEF EstopThread, ManualThread
<1>9. CASE Clients
  <2>1. CASE \E c \in Commands, t \in Targets : StartNavigation(c, t)
    BY <2>1, StartStep
  <2>2. CASE \E c \in Commands : CancelPops(c)
    BY <2>2, GoalStep
  <2> QED
    BY <1>9, <2>1, <2>2, StopStep DEF Clients
<1>10. CASE GatewayRestarts
  BY <1>10, RestartStep
<1>11. CASE UNCHANGED fleetVars
  BY <1>1, <1>11 DEF fleetVars
<1> QED
  BY <1>2, <1>3, <1>4, <1>5, <1>6, <1>7, <1>8, <1>9, <1>10, <1>11 DEF FleetNext

\* THEOREM: the types of the gateway's node and of the robot, for any number of
\* callbacks handled at once.
THEOREM FleetTyped == FleetSpec => []GatewayTypeOK
<1>1. FleetInv => GatewayTypeOK
  BY DEF FleetInv
<1> QED
  BY <1>1, FleetInitially, FleetStep, PTL DEF FleetSpec

\* A goal becomes active only under the lock that sees the stop released, and a
\* stop that is engaged pops what was active before: whoever engages it has a
\* thread that is still to do so.
LEMMA EstopKeepsGoalsAway ==
  FleetInv /\ EstopLeavesNoGoal /\ [FleetNext]_fleetVars => EstopLeavesNoGoal'
<1> SUFFICES ASSUME FleetInv, EstopLeavesNoGoal, [FleetNext]_fleetVars
             PROVE  EstopLeavesNoGoal'
  OBVIOUS
<1>t. estopPc \in [Operators -> EstopPcs]
  BY DEF FleetInv, GatewayTypeOK
<1> USE DEF EstopLeavesNoGoal, ownerVars, callVars, Drop
<1>1. ASSUME UNCHANGED <<estopEngaged, estopPc>>, active' \in {active, NoCommand}
      PROVE  EstopLeavesNoGoal'
  BY <1>1
<1>2. ASSUME UNCHANGED gatewayVars PROVE EstopLeavesNoGoal'
  BY <1>2 DEF gatewayVars
<1>3. ASSUME NEW c \in Commands, Robot(c) PROVE EstopLeavesNoGoal'
  BY <1>2, <1>3 DEF Robot
<1>4. CASE RobotRuns \/ RobotReports
  BY <1>2, <1>4 DEF RobotRuns, RobotReports
<1>5. ASSUME NEW c \in Commands, StartThread(c) PROVE EstopLeavesNoGoal'
  BY <1>5 DEF StartThread, StartAnswered, StartActivates, StartGivesUp, StartLeases
<1>6. ASSUME NEW c \in Commands,
             PoppedIsCanceled(c) \/ ResultArrives(c) \/ LeaseTimerPublishes(c)
      PROVE  EstopLeavesNoGoal'
  BY <1>1, <1>6 DEF PoppedIsCanceled, ResultArrives, LeaseTimerPublishes
<1>7. CASE LeaseTimerGivesUp \/ LeaseTimerCopies
  BY <1>1, <1>7 DEF LeaseTimerGivesUp, LeaseTimerCopies
<1>8. CASE StatusTaken \/ \E i \in DOMAIN heard : StatusCallback(i)
  BY <1>1, <1>8 DEF StatusCallback, StatusTaken, StatusHeard, StatusApplied
<1>9. ASSUME NEW o \in Operators, EstopThread(o) PROVE EstopLeavesNoGoal'
  <2>1. CASE EstopStopsManual(o)
    <3>1. estopPc'[o] = "pop"
      BY <1>t, <2>1 DEF EstopStopsManual
    <3> QED
      BY <3>1
  <2>2. CASE EstopPops(o)
    BY <2>2 DEF EstopPops
  <2>3. CASE EstopEnds(o)
    <3>1. \A p \in Operators : estopPc'[p] \in {"idle", "patrols"} =>
            estopPc[p] \in {"idle", "patrols"}
      BY <1>t, <2>3 DEF EstopEnds
    <3> QED
      BY <2>3, <3>1 DEF EstopEnds
  <2> QED
    BY <1>9, <2>1, <2>2, <2>3 DEF EstopThread
<1>10. ASSUME NEW s \in Sessions, ManualThread(s) PROVE EstopLeavesNoGoal'
  BY <1>1, <1>10 DEF ManualThread, ManualAnswered, ManualEnds
<1>11. CASE Clients
  <2>1. CASE \E c \in Commands, t \in Targets : StartNavigation(c, t)
    BY <1>1, <2>1 DEF StartNavigation
  <2>2. CASE \E c \in Commands : CancelPops(c)
    BY <1>1, <2>2 DEF CancelPops
  <2>3. ASSUME NEW o \in Operators, EstopAnswered(o) PROVE EstopLeavesNoGoal'
    <3>1. estopPc'[o] \in {"manual", "popOnly"}
      BY <1>t, <2>3 DEF EstopAnswered
    <3> QED
      BY <3>1
  <2>4. ASSUME NEW o \in Operators, EstopReleased(o) PROVE EstopLeavesNoGoal'
    BY <2>4 DEF EstopReleased
  <2>5. ASSUME NEW s \in Sessions,
               StartManual(s) \/ SendManual(s) \/ StopManual(s) \/ ManualLapses(s)
        PROVE  EstopLeavesNoGoal'
    BY <1>1, <2>5 DEF StartManual, SendManual, StopManual, ManualLapses
  <2> QED
    BY <1>11, <2>1, <2>2, <2>3, <2>4, <2>5 DEF Clients
<1>12. CASE GatewayRestarts
  BY <1>12 DEF GatewayRestarts
<1>13. CASE UNCHANGED fleetVars
  BY <1>2, <1>13 DEF fleetVars
<1> QED
  BY <1>3, <1>4, <1>5, <1>6, <1>7, <1>8, <1>9, <1>10, <1>11, <1>12, <1>13 DEF FleetNext

\* THEOREM: an engaged emergency stop whose calls have run to the end leaves no
\* goal to lease, whoever presses and releases it meanwhile, with however many
\* goal requests in flight.
THEOREM EstopLeaves == FleetSpec => []EstopLeavesNoGoal
<1>1. (FleetInv /\ EstopLeavesNoGoal) /\ [FleetNext]_fleetVars => (FleetInv /\ EstopLeavesNoGoal)'
  BY FleetStep, EstopKeepsGoalsAway
<1> QED
  BY <1>1, FleetInitially, PTL DEF FleetSpec

\* While nobody else is between the steps of a call, who stops what is driven by
\* hand keeps it stopped: a session begins only under the released stop.
LEMMA EstopKeepsSessionsAway ==
  ASSUME \A o, p \in Operators : o = p,
         FleetInv, EstopEndsManual, [FleetNext]_fleetVars
  PROVE  EstopEndsManual'
<1>t. estopPc \in [Operators -> EstopPcs]
  BY DEF FleetInv, GatewayTypeOK
<1>m. manual \in [session : Sessions \cup {NoSession}, pending : Sessions \cup {NoSession},
                  fresh : BOOLEAN]
  BY DEF FleetInv, GatewayTypeOK
<1> USE DEF EstopEndsManual, ownerVars, callVars, manualVars
<1>1. ASSUME UNCHANGED <<estopEngaged, estopPc>>, manual'.session \in {manual.session, NoSession}
      PROVE  EstopEndsManual'
  BY <1>1
<1>2. ASSUME UNCHANGED gatewayVars PROVE EstopEndsManual'
  BY <1>2 DEF gatewayVars
<1>3. ASSUME NEW c \in Commands, Robot(c) PROVE EstopEndsManual'
  BY <1>2, <1>3 DEF Robot
<1>4. CASE RobotRuns \/ RobotReports
  BY <1>2, <1>4 DEF RobotRuns, RobotReports
<1>5. ASSUME NEW c \in Commands,
             \/ StartThread(c) \/ PoppedIsCanceled(c)
             \/ ResultArrives(c) \/ LeaseTimerPublishes(c)
      PROVE  EstopEndsManual'
  BY <1>1, <1>5 DEF StartThread, StartAnswered, StartActivates, StartGivesUp, StartLeases,
                    PoppedIsCanceled, ResultArrives, LeaseTimerPublishes
<1>6. CASE LeaseTimerGivesUp \/ LeaseTimerCopies
  BY <1>1, <1>6 DEF LeaseTimerGivesUp, LeaseTimerCopies
<1>7. CASE StatusTaken \/ \E i \in DOMAIN heard : StatusCallback(i)
  BY <1>1, <1>7 DEF StatusCallback, StatusTaken, StatusHeard, StatusApplied
<1>8. ASSUME NEW o \in Operators, EstopThread(o) PROVE EstopEndsManual'
  <2>1. CASE EstopStopsManual(o)
    <3>1. manual'.session = NoSession
      BY <1>m, <2>1 DEF EstopStopsManual
    <3> QED
      BY <3>1
  <2>2. CASE EstopPops(o)
    <3>1. UNCHANGED <<estopEngaged, manual>>
      BY <2>2 DEF EstopPops
    <3>2. \A p \in Operators : estopPc'[p] \in {"pop", "patrols"} => estopPc[p] \in {"pop", "patrols"}
      BY <1>t, <2>2 DEF EstopPops
    <3> QED
      BY <3>1, <3>2
  <2>3. CASE EstopEnds(o)
    <3>1. UNCHANGED <<estopEngaged, manual>>
      BY <2>3 DEF EstopEnds
    <3>2. \A p \in Operators : estopPc'[p] \in {"pop", "patrols"} => estopPc[p] \in {"pop", "patrols"}
      BY <1>t, <2>3 DEF EstopEnds
    <3> QED
      BY <3>1, <3>2
  <2> QED
    BY <1>8, <2>1, <2>2, <2>3 DEF EstopThread
<1>9. ASSUME NEW s \in Sessions, ManualThread(s) PROVE EstopEndsManual'
  <2>1. CASE ManualAnswered(s)
    <3>1. ~estopEngaged' \/ manual'.session = manual.session
      BY <1>m, <2>1 DEF ManualAnswered
    <3> QED
      BY <2>1, <3>1 DEF ManualAnswered
  <2> QED
    BY <1>1, <1>9, <2>1 DEF ManualThread, ManualEnds
<1>10. CASE Clients
  <2>1. ASSUME NEW c \in Commands, NEW t \in Targets, StartNavigation(c, t) PROVE EstopEndsManual'
    <3>1. manual'.session \in {manual.session, NoSession}
      BY <1>m, <2>1 DEF StartNavigation
    <3> QED
      BY <1>1, <2>1, <3>1 DEF StartNavigation
  <2>2. CASE \E c \in Commands : CancelPops(c)
    BY <1>1, <2>2 DEF CancelPops
  <2>3. ASSUME NEW o \in Operators, EstopAnswered(o) PROVE EstopEndsManual'
    <3>1. estopPc'[o] \in {"manual", "popOnly"}
      BY <1>t, <2>3 DEF EstopAnswered
    <3> QED
      BY <3>1
  <2>4. ASSUME NEW o \in Operators, EstopReleased(o) PROVE EstopEndsManual'
    BY <2>4 DEF EstopReleased
  <2>5. ASSUME NEW s \in Sessions,
               StartManual(s) \/ SendManual(s) \/ StopManual(s) \/ ManualLapses(s)
        PROVE  EstopEndsManual'
    <3>1. manual'.session \in {manual.session, NoSession}
      <4>1. CASE StartManual(s)
        BY <4>1 DEF StartManual
      <4>2. CASE SendManual(s) \/ ManualLapses(s)
        BY <1>m, <4>2 DEF SendManual, ManualLapses
      <4>3. CASE StopManual(s)
        BY <1>m, <4>3 DEF StopManual
      <4> QED
        BY <2>5, <4>1, <4>2, <4>3
    <3> QED
      BY <1>1, <2>5, <3>1 DEF StartManual, SendManual, StopManual, ManualLapses
  <2> QED
    BY <1>10, <2>1, <2>2, <2>3, <2>4, <2>5 DEF Clients
<1>11. CASE GatewayRestarts
  BY <1>11 DEF GatewayRestarts
<1>12. CASE UNCHANGED fleetVars
  BY <1>2, <1>12 DEF fleetVars
<1> QED
  BY <1>3, <1>4, <1>5, <1>6, <1>7, <1>8, <1>9, <1>10, <1>11, <1>12 DEF FleetNext

\* THEOREM: while one operator at a time works the stop, none that the watchdog
\* acknowledged leaves a manual session, with however many sessions starting.
\* Of two, one may release it between the other's steps.
THEOREM OneStopEndsManual ==
  ASSUME \A o, p \in Operators : o = p
  PROVE  FleetSpec => []EstopEndsManual
<1>1. FleetInit => EstopEndsManual
  BY DEF FleetInit, GatewayInit, EstopEndsManual
<1>2. (FleetInv /\ EstopEndsManual) /\ [FleetNext]_fleetVars => (FleetInv /\ EstopEndsManual)'
  BY FleetStep, EstopKeepsSessionsAway
<1> QED
  BY <1>1, <1>2, FleetInitially, PTL DEF FleetSpec

-----------------------------------------------------------------------------
(* What the statuses say.                                                    *)

\* A goal sent to this pose succeeded.
Reached(target) == \E c \in Commands : outcome[c] = "SUCCEEDED" /\ goalTarget[c] = target

\* A status that says so is of such a goal and names no command any more.
Truthful(status) ==
  status.state = "SUCCEEDED" => status.command = NoCommand /\ Reached(status.target)

\* A command is sent once, and only a goal that was accepted comes to an end.
SentOnce ==
  \A c \in Commands :
    /\ startPc[c] = "unused" => goalRequest[c] = "none"
    /\ goalRequest[c] # "accepted" => outcome[c] = "none"

\* The goal the robot has was accepted and did not end; the one it shows is the
\* one whose pose it names.
GoalRuns ==
  /\ held # NoCommand =>
       shown = NoCommand /\ goalRequest[held] = "accepted" /\ outcome[held] = "none"
  /\ shown # NoCommand =>
       /\ goalRequest[shown] = "accepted" /\ outcome[shown] = "none"
       /\ robotTarget = goalTarget[shown] /\ verdict # "SUCCEEDED"

VerdictIsTrue == verdict = "SUCCEEDED" => Reached(robotTarget)

\* What is on its way is true, and what is being handled.
StatusesAreTrue ==
  /\ \A i \in DOMAIN statuses : Truthful(statuses[i])
  /\ \A i \in DOMAIN heard : Truthful(heard[i].status)

TruthInv == SentOnce /\ GoalRuns /\ VerdictIsTrue /\ StatusesAreTrue

\* What of the robot and of the calls the truth is about.
RobotUntouched ==
  /\ UNCHANGED <<held, shown, verdict, robotTarget, outcome, goalRequest, goalTarget>>
  /\ \A c \in Commands : startPc'[c] = "unused" => startPc[c] = "unused"

LEMMA TruthUntouched ==
  ASSUME TruthInv, RobotUntouched, UNCHANGED <<statuses, heard>>
  PROVE  TruthInv'
BY DEF TruthInv, RobotUntouched, SentOnce, GoalRuns, VerdictIsTrue, StatusesAreTrue, Truthful,
       Reached

\* What was reached stays reached: the goal that ended is not sent again, and
\* the verdict of another is its own.
SuccessStays ==
  \A c \in Commands :
    outcome[c] = "SUCCEEDED" => outcome'[c] = "SUCCEEDED" /\ goalTarget'[c] = goalTarget[c]

\* Under it only the new statuses that say so matter.
LEMMA TruthOfStatuses ==
  ASSUME TruthInv, SuccessStays,
         \A i \in DOMAIN statuses' :
           statuses'[i].state # "SUCCEEDED" \/ \E j \in DOMAIN statuses : statuses'[i] = statuses[j],
         \A i \in DOMAIN heard' :
           \/ \E j \in DOMAIN heard : heard'[i].status = heard[j].status
           \/ \E j \in DOMAIN statuses : heard'[i].status = statuses[j]
  PROVE  StatusesAreTrue'
<1>1. /\ \A i \in DOMAIN statuses : Truthful(statuses[i])
      /\ \A i \in DOMAIN heard : Truthful(heard[i].status)
  BY DEF TruthInv, StatusesAreTrue
<1>2. ASSUME NEW i \in DOMAIN statuses' PROVE Truthful(statuses[i])'
  <2>1. CASE statuses'[i].state # "SUCCEEDED"
    BY <2>1 DEF Truthful
  <2>2. CASE \E j \in DOMAIN statuses : statuses'[i] = statuses[j]
    BY <1>1, <2>2 DEF Truthful, Reached, SuccessStays
  <2> QED
    BY <2>1, <2>2
<1>3. ASSUME NEW i \in DOMAIN heard' PROVE Truthful(heard[i].status)'
  BY <1>1 DEF Truthful, Reached, SuccessStays
<1> QED
  BY <1>2, <1>3 DEF StatusesAreTrue

\* The robot's steps.
LEMMA TruthOfRobot ==
  ASSUME FleetInv, TruthInv, UNCHANGED <<startPc, heard>>,
         \/ \E c \in Commands : AgentAnswers(c) \/ LeaseArrives(c)
         \/ AgentBegins \/ AgentCondemns \/ AgentSettles \/ AgentFinishes \/ LeaseLapses
         \/ AgentRestarts \/ AgentPublishes
  PROVE  TruthInv' /\ SuccessStays
<1>t. LinkTypeOK
  BY DEF FleetInv, GatewayTypeOK
<1> USE CommandFacts, StateFacts DEF CommandTypes
<1>1. ASSUME NEW c \in Commands, AgentAnswers(c) PROVE TruthInv' /\ SuccessStays
  <2>1. SuccessStays /\ UNCHANGED <<statuses, heard>>
    BY <1>1 DEF AgentAnswers, SuccessStays
  <2>2. StatusesAreTrue'
    BY <2>1, TruthOfStatuses
  <2>3. SentOnce' /\ GoalRuns' /\ VerdictIsTrue'
    BY <1>1, <1>t DEF AgentAnswers, Agent!Accept, LinkTypeOK, TruthInv, SentOnce, GoalRuns, VerdictIsTrue, Reached
  <2> QED
    BY <2>1, <2>2, <2>3 DEF TruthInv
<1>2. ASSUME NEW c \in Commands, LeaseArrives(c) PROVE TruthInv' /\ SuccessStays
  BY <1>2, TruthUntouched DEF LeaseArrives, RobotUntouched, SuccessStays
<1>3. CASE AgentBegins
  <2>1. SuccessStays /\ UNCHANGED <<statuses, heard>>
    BY <1>3 DEF AgentBegins, SuccessStays
  <2>2. StatusesAreTrue'
    BY <2>1, TruthOfStatuses
  <2>3. SentOnce' /\ GoalRuns' /\ VerdictIsTrue'
    BY <1>3, <1>t DEF AgentBegins, Agent!Begin, LinkTypeOK, TruthInv, SentOnce, GoalRuns, VerdictIsTrue
  <2> QED
    BY <2>1, <2>2, <2>3 DEF TruthInv
<1>4. CASE AgentCondemns
  <2>1. SuccessStays /\ UNCHANGED <<statuses, heard>>
    BY <1>4 DEF AgentCondemns, SuccessStays
  <2>2. StatusesAreTrue'
    BY <2>1, TruthOfStatuses
  <2>3. verdict' # "SUCCEEDED"
    BY <1>4 DEF AgentCondemns, Agent!Condemn, Agent!Failures
  <2>4. SentOnce' /\ GoalRuns' /\ VerdictIsTrue'
    BY <1>4, <2>3 DEF AgentCondemns, Agent!Condemn, TruthInv, SentOnce, GoalRuns, VerdictIsTrue
  <2> QED
    BY <2>1, <2>2, <2>4 DEF TruthInv
<1>9. CASE AgentSettles
  BY <1>9, TruthUntouched DEF AgentSettles, Agent!Settle, RobotUntouched, SuccessStays
<1>5. CASE AgentFinishes
  <2>0. /\ shown \in Commands /\ outcome[shown] = "none" /\ goalRequest[shown] = "accepted"
        /\ robotTarget = goalTarget[shown] /\ held = NoCommand
    BY <1>5, <1>t DEF AgentFinishes, Agent!Finish, LinkTypeOK, TruthInv, GoalRuns
  <2>1. SuccessStays /\ UNCHANGED <<statuses, heard>>
    BY <1>5, <1>t, <2>0 DEF AgentFinishes, SuccessStays, LinkTypeOK
  <2>2. StatusesAreTrue'
    BY <2>1, TruthOfStatuses
  <2>3. \A c \in Commands : outcome'[c] = IF c = shown THEN verdict' ELSE outcome[c]
    BY <1>5, <1>t DEF AgentFinishes, LinkTypeOK
  <2>4. /\ shown' = NoCommand /\ held' = NoCommand
        /\ UNCHANGED <<robotTarget, goalRequest, goalTarget, startPc>>
    BY <1>5, <2>0 DEF AgentFinishes, Agent!Finish
  <2>5. SentOnce' /\ GoalRuns' /\ VerdictIsTrue'
    BY <2>0, <2>3, <2>4 DEF TruthInv, SentOnce, GoalRuns, VerdictIsTrue, Reached
  <2> QED
    BY <2>1, <2>2, <2>5 DEF TruthInv
<1>6. CASE LeaseLapses
  BY <1>6, TruthUntouched DEF LeaseLapses, RobotUntouched, SuccessStays
<1>7. CASE AgentRestarts
  <2> DEFINE sample == [command |-> NoCommand, state |-> "UNAVAILABLE", target |-> NoTarget]
  <2>1. SuccessStays
    BY <1>7, <1>t DEF AgentRestarts, SuccessStays, TruthInv, GoalRuns, LinkTypeOK
  <2>2. sample \in Statuses /\ sample.state # "SUCCEEDED"
    BY DEF Statuses
  <2>3. statuses' = Publish(statuses, sample) /\ heard' = heard
    BY <1>7 DEF AgentRestarts
  <2> HIDE DEF sample
  <2>4. StatusesAreTrue'
    <3>1. \A i \in DOMAIN statuses' :
            statuses'[i] = sample \/ \E j \in DOMAIN statuses : statuses'[i] = statuses[j]
      BY <1>t, <2>2, <2>3, PublishFacts DEF LinkTypeOK
    <3> QED
      BY <2>1, <2>2, <2>3, <3>1, TruthOfStatuses
  <2>5. /\ held' = NoCommand /\ shown' = NoCommand /\ verdict' = "PENDING"
        /\ \A c \in Commands : /\ goalRequest'[c] = "accepted" <=> goalRequest[c] = "accepted"
                               /\ goalRequest[c] = "none" => goalRequest'[c] = "none"
                               /\ outcome'[c] = IF c \in {held, shown} THEN "gone" ELSE outcome[c]
    BY <1>7 DEF AgentRestarts, Agent!Restart
  <2>6. SentOnce' /\ GoalRuns' /\ VerdictIsTrue'
    BY <2>5 DEF TruthInv, SentOnce, GoalRuns, VerdictIsTrue
  <2> QED
    BY <2>1, <2>4, <2>6 DEF TruthInv
<1>8. CASE AgentPublishes
  <2>1. PICK state \in IF verdict = "PENDING" THEN {"PENDING", "UNAVAILABLE"} ELSE {verdict} :
          statuses' = Publish(statuses, AgentSample(state))
    BY <1>8 DEF AgentPublishes
  <2>2. /\ UNCHANGED <<agentVars, goalRequest, goalTarget, heard>> /\ SuccessStays
    BY <1>8 DEF AgentPublishes, SuccessStays, agentVars
  <2>3. AgentSample(state) \in Statuses
    BY <1>t DEF AgentSample, Statuses, LinkTypeOK
  <2>4. Truthful(AgentSample(state))
    <3>1. state = "SUCCEEDED" => verdict = "SUCCEEDED"
      OBVIOUS
    <3> QED
      BY <3>1 DEF Truthful, AgentSample, TruthInv, GoalRuns, VerdictIsTrue
  <2>5. \A i \in DOMAIN statuses' :
          statuses'[i] = AgentSample(state) \/ \E j \in DOMAIN statuses : statuses'[i] = statuses[j]
    BY <1>t, <2>1, <2>3, PublishFacts DEF LinkTypeOK
  <2>6. StatusesAreTrue'
    <3>1. ASSUME NEW status, Truthful(status) PROVE Truthful(status)'
      BY <2>2, <3>1 DEF Truthful, Reached, agentVars
    <3> QED
      BY <2>2, <2>4, <2>5, <3>1 DEF TruthInv, StatusesAreTrue
  <2>7. SentOnce' /\ GoalRuns' /\ VerdictIsTrue'
    BY <2>2 DEF TruthInv, SentOnce, GoalRuns, VerdictIsTrue, Reached, agentVars
  <2> QED
    BY <2>2, <2>6, <2>7 DEF TruthInv
<1> QED
  BY <1>1, <1>2, <1>3, <1>4, <1>5, <1>6, <1>7, <1>8, <1>9

\* The steps of start_navigation: a command that was not used is sent, and none
\* is used a second time.
LEMMA TruthOfStart ==
  ASSUME FleetInv, TruthInv, NEW c \in Commands,
         \/ \E t \in Targets : StartNavigation(c, t)
         \/ StartAnswered(c) \/ StartActivates(c) \/ StartGivesUp(c) \/ StartLeases(c)
  PROVE  TruthInv' /\ SuccessStays
<1>t. LinkTypeOK /\ startPc \in [Commands -> StartPcs]
  BY DEF FleetInv, GatewayTypeOK
<1>1. ASSUME NEW t \in Targets, StartNavigation(c, t) PROVE TruthInv' /\ SuccessStays
  <2>1. /\ startPc[c] = "unused"
        /\ \A d \in Commands : startPc'[d] = "unused" => startPc[d] = "unused" /\ d # c
        /\ UNCHANGED <<held, shown, verdict, robotTarget, outcome, statuses, heard>>
    <3>1. startPc[c] = "unused"
      BY <1>1, CommandFacts DEF StartNavigation, NextCommand, CommandTypes
    <3>2. UNCHANGED <<held, shown, verdict, robotTarget, outcome, statuses, heard>>
      BY <1>1 DEF StartNavigation, agentVars, statusVars
    <3>3. \E pc \in {"sending", "failed"} : startPc' = [startPc EXCEPT ![c] = pc]
      BY <1>1 DEF StartNavigation
    <3> QED
      BY <1>t, <3>1, <3>2, <3>3
  <2>2. CASE goalRequest' = goalRequest /\ goalTarget' = goalTarget
    BY <2>1, <2>2, TruthUntouched DEF RobotUntouched, SuccessStays
  <2>3. CASE SendGoalRequest(c, t)
    <3>1. \A d \in Commands :
            /\ goalRequest'[d] = IF d = c THEN "sent" ELSE goalRequest[d]
            /\ goalTarget'[d] = IF d = c THEN t ELSE goalTarget[d]
      BY <1>t, <2>3 DEF SendGoalRequest, LinkTypeOK
    <3>2. goalRequest[c] = "none" /\ outcome[c] = "none" /\ held # c /\ shown # c
      BY <2>1, CommandFacts DEF TruthInv, SentOnce, GoalRuns, CommandTypes
    <3>3. SuccessStays
      BY <2>1, <3>1, <3>2 DEF SuccessStays
    <3>4. StatusesAreTrue'
      BY <2>1, <3>3, TruthOfStatuses
    <3>5. held \in Commands \cup {NoCommand} /\ shown \in Commands \cup {NoCommand}
      BY <1>t DEF LinkTypeOK
    <3>6. SentOnce' /\ GoalRuns'
      BY <2>1, <3>1, <3>2, <3>5 DEF TruthInv, SentOnce, GoalRuns
    <3>7. VerdictIsTrue'
      BY <2>1, <3>3 DEF TruthInv, VerdictIsTrue, Reached, SuccessStays
    <3> QED
      BY <3>3, <3>4, <3>6, <3>7 DEF TruthInv
  <2> QED
    BY <1>1, <2>2, <2>3 DEF StartNavigation
<1>2. ASSUME \/ StartAnswered(c) \/ StartActivates(c) \/ StartGivesUp(c) \/ StartLeases(c)
      PROVE  TruthInv' /\ SuccessStays
  <2>1. /\ UNCHANGED <<held, shown, verdict, robotTarget, outcome, goalRequest, goalTarget, statuses,
                       heard>>
        /\ \E pc \in StartPcs \ {"unused"} : startPc' = [startPc EXCEPT ![c] = pc]
    BY <1>2 DEF StartAnswered, StartActivates, StartGivesUp, StartLeases, robotVars, agentVars,
                statusVars, StartPcs
  <2>2. \A d \in Commands : startPc'[d] = "unused" => startPc[d] = "unused"
    BY <1>t, <2>1
  <2> QED
    BY <2>1, <2>2, TruthUntouched DEF RobotUntouched, SuccessStays
<1> QED
  BY <1>1, <1>2

\* Every step of the node and its clients.
LEMMA TruthStep ==
  FleetInv /\ TruthInv /\ [FleetNext]_fleetVars => TruthInv' /\ SuccessStays
<1> SUFFICES ASSUME FleetInv, TruthInv, [FleetNext]_fleetVars
             PROVE  TruthInv' /\ SuccessStays
  OBVIOUS
<1>t. statuses \in Seq(Statuses) /\ heard \in Seq(Callbacks)
  BY DEF FleetInv, GatewayTypeOK, LinkTypeOK
<1>0. ASSUME UNCHANGED <<held, shown, verdict, robotTarget, outcome, goalRequest, goalTarget,
                         startPc, statuses, heard>>
      PROVE  TruthInv' /\ SuccessStays
  BY <1>0, TruthUntouched DEF RobotUntouched, SuccessStays
<1> USE DEF robotVars, agentVars, ownerVars, callVars, statusVars, manualVars
<1>1. ASSUME UNCHANGED gatewayVars,
             \/ \E c \in Commands : AgentAnswers(c) \/ LeaseArrives(c)
             \/ AgentBegins \/ AgentCondemns \/ AgentSettles \/ AgentFinishes \/ LeaseLapses
             \/ AgentRestarts \/ AgentPublishes
      PROVE  TruthInv' /\ SuccessStays
  BY <1>1, TruthOfRobot DEF gatewayVars
<1>2. ASSUME NEW c \in Commands, Robot(c) PROVE TruthInv' /\ SuccessStays
  BY <1>1, <1>2 DEF Robot
<1>3. CASE RobotRuns \/ RobotReports
  BY <1>1, <1>3 DEF RobotRuns, RobotReports
<1>4. ASSUME NEW c \in Commands, StartThread(c) PROVE TruthInv' /\ SuccessStays
  BY <1>4, TruthOfStart DEF StartThread
<1>5. ASSUME NEW c \in Commands,
             PoppedIsCanceled(c) \/ ResultArrives(c) \/ LeaseTimerPublishes(c)
      PROVE  TruthInv' /\ SuccessStays
  BY <1>0, <1>5 DEF PoppedIsCanceled, ResultArrives, LeaseTimerPublishes
<1>6. CASE LeaseTimerGivesUp \/ LeaseTimerCopies
  BY <1>0, <1>6 DEF LeaseTimerGivesUp, LeaseTimerCopies
<1>7. CASE StatusTaken
  <2>1. /\ statuses # <<>> /\ statuses' = Tail(statuses)
        /\ heard' = Append(heard, [status |-> Head(statuses), noted |-> FALSE])
        /\ RobotUntouched
    BY <1>7 DEF StatusTaken, RobotUntouched
  <2>2. SuccessStays
    BY <2>1 DEF RobotUntouched, SuccessStays
  <2>3. /\ Head(statuses) \in Statuses
        /\ 1 \in DOMAIN statuses /\ Head(statuses) = statuses[1]
        /\ \A i \in DOMAIN statuses' : i + 1 \in DOMAIN statuses /\ statuses'[i] = statuses[i + 1]
    BY <1>t, <2>1, TailFacts
  <2>4. [status |-> Head(statuses), noted |-> FALSE] \in Callbacks
    BY <2>3 DEF Callbacks
  <2>5. \A i \in DOMAIN heard' :
          \/ heard'[i] = [status |-> Head(statuses), noted |-> FALSE]
          \/ \E j \in DOMAIN heard : heard'[i] = heard[j]
    BY <1>t, <2>1, <2>4, AppendFacts
  <2>6. StatusesAreTrue'
    <3>1. \A i \in DOMAIN heard' :
            \/ heard'[i].status = statuses[1]
            \/ \E j \in DOMAIN heard : heard'[i].status = heard[j].status
      BY <2>3, <2>5
    <3> QED
      BY <2>2, <2>3, <3>1, TruthOfStatuses
  <2>7. SentOnce' /\ GoalRuns' /\ VerdictIsTrue'
    BY <2>1 DEF RobotUntouched, TruthInv, SentOnce, GoalRuns, VerdictIsTrue, Reached
  <2> QED
    BY <2>2, <2>6, <2>7 DEF TruthInv
<1>8. ASSUME NEW i \in DOMAIN heard, StatusHeard(i) \/ StatusApplied(i)
      PROVE  TruthInv' /\ SuccessStays
  <2>1. RobotUntouched /\ statuses' = statuses
    BY <1>8 DEF StatusHeard, StatusApplied, RobotUntouched
  <2>2. SuccessStays
    BY <2>1 DEF RobotUntouched, SuccessStays
  <2>3. \A j \in DOMAIN heard' : \E k \in DOMAIN heard : heard'[j].status = heard[k].status
    <3>1. CASE StatusHeard(i)
      <4>1. heard' = [heard EXCEPT ![i].noted = TRUE]
        BY <3>1 DEF StatusHeard
      <4>2. DOMAIN heard' = DOMAIN heard
        BY <4>1
      <4>3. \A j \in DOMAIN heard : heard[j] \in Callbacks
        BY <1>t
      <4>4. \A j \in DOMAIN heard : heard'[j].status = heard[j].status
        BY <4>1, <4>3 DEF Callbacks
      <4> QED
        BY <4>2, <4>4
    <3>2. CASE StatusApplied(i)
      <4>1. heard' = SubSeq(heard, 1, i - 1) \o SubSeq(heard, i + 1, Len(heard))
        BY <3>2 DEF StatusApplied, CallbackReturns
      <4>2. \A j \in DOMAIN heard' : \E k \in DOMAIN heard : heard'[j] = heard[k]
        <5>1. i \in DOMAIN heard /\ heard \in Seq(Callbacks)
          BY <1>t
        <5>2. heard' = Without(heard, i)
          BY <4>1 DEF Without
        <5>3. \A j \in DOMAIN Without(heard, i) : \E k \in DOMAIN heard : Without(heard, i)[j] = heard[k]
          BY ONLY <5>1, RemoveFacts
        <5> QED
          BY <5>2, <5>3, Zenon
      <4> QED
        BY <4>2
    <3> QED
      BY <1>8, <3>1, <3>2
  <2>4. StatusesAreTrue'
    BY <2>1, <2>2, <2>3, TruthOfStatuses
  <2>5. SentOnce' /\ GoalRuns' /\ VerdictIsTrue'
    BY <2>1 DEF RobotUntouched, TruthInv, SentOnce, GoalRuns, VerdictIsTrue, Reached
  <2> QED
    BY <2>2, <2>4, <2>5 DEF TruthInv
<1>9. ASSUME NEW o \in Operators, EstopThread(o) PROVE TruthInv' /\ SuccessStays
  BY <1>0, <1>9 DEF EstopThread, EstopStopsManual, EstopPops, EstopEnds
<1>10. ASSUME NEW s \in Sessions, ManualThread(s) PROVE TruthInv' /\ SuccessStays
  BY <1>0, <1>10 DEF ManualThread, ManualAnswered, ManualEnds
<1>11. CASE Clients
  <2>1. ASSUME NEW c \in Commands, CancelPops(c) PROVE TruthInv' /\ SuccessStays
    BY <1>0, <2>1 DEF CancelPops
  <2>2. ASSUME NEW o \in Operators, EstopAnswered(o) \/ EstopReleased(o)
        PROVE  TruthInv' /\ SuccessStays
    BY <1>0, <2>2 DEF EstopAnswered, EstopReleased
  <2>3. ASSUME NEW s \in Sessions,
               StartManual(s) \/ SendManual(s) \/ StopManual(s) \/ ManualLapses(s)
        PROVE  TruthInv' /\ SuccessStays
    BY <1>0, <2>3 DEF StartManual, SendManual, StopManual, ManualLapses
  <2> QED
    BY <1>11, <2>1, <2>2, <2>3, TruthOfStart DEF Clients
<1>12. CASE GatewayRestarts
  <2>1. RobotUntouched /\ statuses' = <<>> /\ heard' = <<>>
    BY <1>12 DEF GatewayRestarts, RobotUntouched
  <2>2. SuccessStays
    BY <2>1 DEF RobotUntouched, SuccessStays
  <2>3. SentOnce' /\ GoalRuns' /\ VerdictIsTrue'
    BY <2>1 DEF RobotUntouched, TruthInv, SentOnce, GoalRuns, VerdictIsTrue, Reached
  <2>4. StatusesAreTrue'
    BY <2>1 DEF StatusesAreTrue
  <2> QED
    BY <2>2, <2>3, <2>4 DEF TruthInv
<1>13. CASE UNCHANGED fleetVars
  BY <1>0, <1>13 DEF fleetVars, gatewayVars
<1> QED
  BY <1>2, <1>3, <1>4, <1>5, <1>6, <1>7, <1>8, <1>9, <1>10, <1>11, <1>12, <1>13
  DEF FleetNext, StatusCallback

LEMMA TruthInitially == FleetInit => TruthInv
BY DEF FleetInit, LinkInit, GatewayInit, Agent!ContractInit, TruthInv, SentOnce, GoalRuns,
       VerdictIsTrue, StatusesAreTrue

\* THEOREM: no status, on its way or being handled, however late or displaced,
\* says SUCCEEDED of a pose that no goal of the robot reached.
THEOREM StatusesTrue == FleetSpec => []StatusesAreTrue
<1>1. (FleetInv /\ TruthInv) /\ [FleetNext]_fleetVars => (FleetInv /\ TruthInv)'
  BY FleetStep, TruthStep
<1>2. FleetInv /\ TruthInv => StatusesAreTrue
  BY DEF TruthInv
<1> QED
  BY <1>1, <1>2, FleetInitially, TruthInitially, PTL DEF FleetSpec
=============================================================================
