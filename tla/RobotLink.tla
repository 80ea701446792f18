------------------------------ MODULE RobotLink ------------------------------
(***************************************************************************)
(* One robot as the fleet gateway sees it: the navigation agent behind its *)
(* NavigateRobot action, its lease topic and its NavigationStatus topic.   *)
(* The agent is AgentContract, which NavigationStack implements, with the  *)
(* pose it was last sent to, the lease it lives on and the samples on      *)
(* their way.                                                              *)
(***************************************************************************)
EXTENDS Topic

CONSTANTS MaxCommands,   \* bound on the command ids drawn in a behaviour
          Targets, NoTarget,
          MaxRestarts    \* bound on the restarts of the agent and of the gateway

Commands == 1..MaxCommands
NoCommand == 0

ASSUME LinkAssumption ==
  MaxCommands \in Nat /\ MaxRestarts \in Nat /\ NoTarget \notin Targets

VARIABLES held, shown, verdict, settled,
          robotTarget,    \* _target_pose
          leaseFresh,     \* the lease age is below the timeout
          goalRequest,    \* per command, the NavigateRobot request and its answer
          goalTarget,     \* per command, the pose it asks for
          cancelRequests, \* commands with a cancel request sent
          leases,         \* leases published and not yet received
          outcome,        \* per command, how its goal ended
          statuses,       \* samples of NavigationStatus not yet heard
          restarts

agentVars == <<held, shown, verdict, settled, robotTarget, leaseFresh, outcome>>
robotVars == <<agentVars, goalRequest, goalTarget, cancelRequests, leases, statuses, restarts>>

Agent == INSTANCE AgentContract WITH Goals <- Commands, NoGoal <- NoCommand

Requests == {"none", "sent", "accepted", "rejected"}
States == Agent!Endings \cup {"PENDING", "ACTIVE", "UNAVAILABLE"}
Statuses == [command : Commands \cup {NoCommand}, state : States,
             target : Targets \cup {NoTarget}]

LinkInit ==
  /\ Agent!ContractInit
  /\ robotTarget = NoTarget
  /\ leaseFresh = FALSE
  /\ goalRequest = [c \in Commands |-> "none"]
  /\ goalTarget = [c \in Commands |-> NoTarget]
  /\ cancelRequests = {}
  /\ leases = {}
  /\ outcome = [c \in Commands |-> "none"]
  /\ statuses = <<>>
  /\ restarts = 0

-----------------------------------------------------------------------------
(* What the gateway does to the link.                                        *)

SendGoalRequest(c, target) ==
  /\ goalRequest' = [goalRequest EXCEPT ![c] = "sent"]
  /\ goalTarget' = [goalTarget EXCEPT ![c] = target]

PublishLease(c) == leases' = leases \cup {c}

SendCancel(c) == cancelRequests' = cancelRequests \cup {c}

-----------------------------------------------------------------------------
(* What the robot does by itself.                                            *)

\* on_goal accepts when the agent is free, and may always reject.
AgentAnswers(c) ==
  /\ goalRequest[c] = "sent"
  /\ \/ /\ Agent!Accept(c)
        /\ goalRequest' = [goalRequest EXCEPT ![c] = "accepted"]
     \/ /\ goalRequest' = [goalRequest EXCEPT ![c] = "rejected"]
        /\ UNCHANGED <<held, shown, verdict, settled>>
  /\ UNCHANGED <<robotTarget, leaseFresh, outcome, goalTarget, cancelRequests, leases,
                 statuses, restarts>>

AgentBegins ==
  /\ Agent!Begin
  /\ robotTarget' = goalTarget[held]
  /\ leaseFresh' = TRUE
  /\ UNCHANGED <<outcome, goalRequest, goalTarget, cancelRequests, leases, statuses, restarts>>

LeaseArrives(c) ==
  /\ c \in leases
  /\ leases' = leases \ {c}
  /\ leaseFresh' = (leaseFresh \/ shown = c)
  /\ UNCHANGED <<held, shown, verdict, settled, robotTarget, outcome, goalRequest, goalTarget,
                 cancelRequests, statuses, restarts>>

LeaseLapses ==
  /\ leaseFresh
  /\ leaseFresh' = FALSE
  /\ UNCHANGED <<held, shown, verdict, settled, robotTarget, outcome, goalRequest, goalTarget,
                 cancelRequests, leases, statuses, restarts>>

AgentCondemns ==
  /\ Agent!Condemn
  /\ verdict' = "LEASE_EXPIRED" => ~leaseFresh
  /\ UNCHANGED <<robotTarget, leaseFresh, outcome, goalRequest, goalTarget, cancelRequests,
                 leases, statuses, restarts>>

Stopped == shown \in cancelRequests \/ verdict \in Agent!Failures

\* A cancel request may still be on its way.
AgentSettles ==
  /\ Agent!Settle
  /\ UNCHANGED <<robotTarget, leaseFresh, outcome, goalRequest, goalTarget, cancelRequests,
                 leases, statuses, restarts>>

AgentFinishes ==
  /\ Agent!Finish
  /\ verdict' = "LEASE_EXPIRED" => verdict = "LEASE_EXPIRED"
  /\ outcome' = [outcome EXCEPT ![shown] = verdict']
  /\ leaseFresh' = FALSE
  /\ UNCHANGED <<robotTarget, goalRequest, goalTarget, cancelRequests, leases, statuses,
                 restarts>>

AgentSample(state) == [command |-> shown, state |-> state, target |-> robotTarget]

\* _publish_status; READY, IDLE and LOCALIZING are all PENDING here.
AgentPublishes ==
  /\ \E state \in IF verdict = "PENDING" THEN {"PENDING", "UNAVAILABLE"} ELSE {verdict} :
       statuses' = Publish(statuses, AgentSample(state))
  /\ UNCHANGED <<agentVars, goalRequest, goalTarget, cancelRequests, leases, restarts>>

\* The agent dies and comes back; its first status says UNAVAILABLE.  Nobody
\* answers for the goal it had, nor for one it had been sent.
AgentRestarts ==
  /\ restarts < MaxRestarts
  /\ restarts' = restarts + 1
  /\ Agent!Restart
  /\ robotTarget' = NoTarget
  /\ leaseFresh' = FALSE
  /\ goalRequest' = [c \in Commands |-> IF goalRequest[c] = "sent" THEN "none"
                                        ELSE goalRequest[c]]
  /\ outcome' = [c \in Commands |-> IF c \in {held, shown} \cap Commands THEN "gone"
                                    ELSE outcome[c]]
  /\ statuses' = Publish(statuses, [command |-> NoCommand, state |-> "UNAVAILABLE",
                                    target |-> NoTarget])
  /\ UNCHANGED <<goalTarget, cancelRequests, leases>>

LinkTypeOK ==
  /\ {held, shown} \subseteq Commands \cup {NoCommand}
  /\ verdict \in States /\ settled \in BOOLEAN
  /\ robotTarget \in Targets \cup {NoTarget}
  /\ leaseFresh \in BOOLEAN
  /\ goalRequest \in [Commands -> Requests]
  /\ goalTarget \in [Commands -> Targets \cup {NoTarget}]
  /\ cancelRequests \subseteq Commands
  /\ leases \subseteq Commands
  /\ outcome \in [Commands -> Agent!Endings \cup {"none", "gone"}]
  /\ statuses \in Seq(Statuses) /\ Len(statuses) =< Depth
  /\ restarts \in 0..MaxRestarts
=============================================================================
