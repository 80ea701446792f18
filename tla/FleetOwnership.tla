--------------------------- MODULE FleetOwnership ---------------------------
(***************************************************************************)
(* The gateway's ROS node with one robot and the clients of its HTTP API:  *)
(* they start and cancel goals, press and release the emergency stop and   *)
(* drive by hand, all at once.                                             *)
(***************************************************************************)
EXTENDS GatewayNavigation

fleetVars == <<robotVars, gatewayVars>>

Robot(c) == (AgentAnswers(c) \/ LeaseArrives(c)) /\ UNCHANGED gatewayVars

RobotRuns ==
  /\ \/ AgentBegins
     \/ AgentCondemns
     \/ AgentSettles
     \/ AgentFinishes
     \/ LeaseLapses
     \/ AgentRestarts
  /\ UNCHANGED gatewayVars

RobotReports == AgentPublishes /\ UNCHANGED gatewayVars

StartThread(c) == StartAnswered(c) \/ StartActivates(c) \/ StartGivesUp(c) \/ StartLeases(c)

EstopThread(o) == EstopStopsManual(o) \/ EstopPops(o) \/ EstopEnds(o)

ManualThread(s) == ManualAnswered(s) \/ ManualEnds(s)

StatusCallback(i) == StatusHeard(i) \/ StatusApplied(i)

Clients ==
  \/ \E c \in Commands, t \in Targets : StartNavigation(c, t)
  \/ \E c \in Commands : CancelPops(c)
  \/ \E o \in Operators : EstopAnswered(o) \/ EstopReleased(o)
  \/ \E s \in Sessions : StartManual(s) \/ SendManual(s) \/ StopManual(s) \/ ManualLapses(s)

FleetNext ==
  \/ \E c \in Commands :
       \/ Robot(c)
       \/ StartThread(c)
       \/ PoppedIsCanceled(c)
       \/ ResultArrives(c)
       \/ LeaseTimerPublishes(c)
  \/ RobotRuns
  \/ RobotReports
  \/ LeaseTimerGivesUp
  \/ LeaseTimerCopies
  \/ StatusTaken
  \/ \E i \in DOMAIN heard : StatusCallback(i)
  \/ \E o \in Operators : EstopThread(o)
  \/ \E s \in Sessions : ManualThread(s)
  \/ Clients
  \/ GatewayRestarts

FleetInit == LinkInit /\ GatewayInit

FleetSpec == FleetInit /\ [][FleetNext]_fleetVars

\* A lease that is not renewed lapses; a goal that was stopped or failed ends.
LeaseTimesOut == leases = {} /\ LeaseLapses /\ UNCHANGED gatewayVars
LeaseExpires == AgentCondemns /\ ~leaseFresh /\ verdict = "ACTIVE" /\ UNCHANGED gatewayVars
StoppedGoalEnds == Stopped /\ AgentFinishes /\ UNCHANGED gatewayVars

\* What it takes to end a goal when start calls hang, results and cancels are
\* lost and nobody leases: the stop's own thread, the timer that gives up, the
\* status callbacks, and of the agent what NavigationStack shows of it.  Nothing
\* is assumed of the clients.
FleetFairness ==
  /\ \A c \in Commands : WF_fleetVars(Robot(c))
  /\ \A o \in Operators : WF_fleetVars(EstopThread(o))
  /\ WF_fleetVars(AgentBegins /\ UNCHANGED gatewayVars)
  /\ WF_fleetVars(LeaseTimesOut)
  /\ WF_fleetVars(LeaseExpires)
  /\ WF_fleetVars(StoppedGoalEnds)
  /\ WF_fleetVars(RobotReports)
  /\ WF_fleetVars(LeaseTimerGivesUp)
  /\ WF_fleetVars(StatusTaken)
  /\ WF_fleetVars(StatusCallback(1))

FairFleetSpec == FleetSpec /\ FleetFairness

-----------------------------------------------------------------------------
\* LIVENESS: while the emergency stop stays engaged the robot ends whatever
\* goal it has, a goal it accepted after the gateway had given up waiting for
\* its answer included, and gets no other.
EstopStopsTheRobot == <>[]estopEngaged => <>[](shown = NoCommand /\ leases = {})

\* LIVENESS: a goal the robot no longer has does not keep the gateway from the
\* next one, whether it ended, was never confirmed or died with the agent.
GoneGoalFreesGateway ==
  \A c \in Commands : (active = c /\ outcome[c] # "none") ~> active # c
=============================================================================
