---------------------------- MODULE ProfileManager ----------------------------
(***************************************************************************)
(* The operating profile, robot/navigation_agent/.../                      *)
(* profile_manager_node.py: mapping and navigation are two systemd units,  *)
(* one of which runs at most, and the node that switches between them.  It *)
(* spins in one thread, so that a request waits for the one before it; a   *)
(* systemctl that takes longer than 35 s raises in the service callback,   *)
(* the node dies, is respawned, and the job it gave systemd is still there.*)
(***************************************************************************)
EXTENDS Naturals, Sequences

CONSTANT MaxProfileRequests, MaxManagerDeaths \* bounds

ASSUME ProfileAssumption == {MaxProfileRequests, MaxManagerDeaths} \subseteq Nat

VARIABLES units,         \* the units that run
          startJob,      \* the unit a systemctl that timed out still starts
          manager,       \* where the node stands, "dead" without a process
          target,        \* the profile a transition goes to
          transitioning, \* _transitioning
          mapFile,       \* the map exists
          inbox,         \* requests it has not taken
          asks,          \* requests made
          managerDeaths,
          published,     \* the last MappingStatus, kept for late subscribers
          seen           \* the one in the gateway's registry

profileVars == <<units, startJob, manager, target, transitioning, mapFile, inbox, asks,
                 managerDeaths, published, seen>>

Units == {"MAPPING", "NAVIGATION"}
Profiles == Units \cup {"IDLE"}
Requests == Profiles \cup {"save", "overwrite"}
ManagerStates == {"dead", "spinning", "stopping", "starting", "undoing", "saving"}

ActiveProfile ==
  IF units = {"MAPPING"} THEN "MAPPING" ELSE IF units = {"NAVIGATION"} THEN "NAVIGATION" ELSE "IDLE"

ProfileInit ==
  /\ units \in {{}, {"MAPPING"}, {"NAVIGATION"}}
  /\ startJob = "none"
  /\ manager = "spinning" /\ target = "IDLE" /\ transitioning = FALSE
  /\ mapFile \in BOOLEAN
  /\ inbox = <<>> /\ asks = 0 /\ managerDeaths = 0
  /\ published = [profile |-> ActiveProfile, transitioning |-> FALSE]
  /\ seen = published

\* _publish_status, after the assignments of the step.
PublishStatus ==
  published' = [profile |-> ActiveProfile', transitioning |-> transitioning']

systemd == <<units, startJob>>

-----------------------------------------------------------------------------
(* _set_profile                                                              *)

TakesProfile ==
  /\ manager = "spinning" /\ inbox # <<>> /\ Head(inbox) \in Profiles
  /\ target' = Head(inbox) /\ inbox' = Tail(inbox)
  /\ transitioning' = TRUE
  /\ manager' = "stopping"
  /\ UNCHANGED <<systemd, mapFile, asks, managerDeaths, seen>>
  /\ PublishStatus

\* Mutant of TransitionReturns: the flag is reset where the switch succeeds.
ReturnsTransitioning ==
  /\ manager' = "spinning"
  /\ transitioning' = (manager = "undoing")
  /\ UNCHANGED <<target, mapFile, inbox, asks, managerDeaths, seen>>
  /\ PublishStatus

TransitionReturns ==
  /\ manager' = "spinning"
  /\ transitioning' = FALSE
  /\ UNCHANGED <<target, mapFile, inbox, asks, managerDeaths, seen>>
  /\ PublishStatus

ManagerGoes(next) ==
  /\ manager' = next
  /\ UNCHANGED <<target, transitioning, mapFile, inbox, asks, managerDeaths, published, seen>>

\* Mutant of StopSucceeds: only what is seen to run is stopped, and a job that
\* was still to start the other unit survives.
StopsWhatRuns == units' = {} /\ UNCHANGED startJob

\* systemctl stop of both: a job that was to start one is dropped.
StopSucceeds == units' = {} /\ startJob' = "none"

StopFails == units' \in SUBSET units /\ UNCHANGED startJob

StopsBoth ==
  /\ manager = "stopping"
  /\ \/ StopSucceeds /\ (IF target = "IDLE" THEN TransitionReturns ELSE ManagerGoes("starting"))
     \/ StopFails /\ TransitionReturns

StartsTarget ==
  /\ manager = "starting"
  /\ \/ units' = units \cup {target} /\ UNCHANGED startJob /\ TransitionReturns
     \/ UNCHANGED systemd /\ ManagerGoes("undoing")

\* Whatever the second stop says the answer is a failure.
Undoes ==
  /\ manager = "undoing"
  /\ StopSucceeds \/ StopFails
  /\ TransitionReturns

\* subprocess.TimeoutExpired leaves the callback and ends the node.
SystemctlTimesOut ==
  /\ managerDeaths < MaxManagerDeaths
  /\ manager \in {"stopping", "starting", "undoing"}
  /\ IF manager = "starting" THEN startJob' = target /\ UNCHANGED units ELSE StopFails
  /\ manager' = "dead"
  /\ managerDeaths' = managerDeaths + 1
  /\ UNCHANGED <<target, transitioning, mapFile, inbox, asks, published, seen>>

-----------------------------------------------------------------------------
(* _save_map                                                                 *)

TakesSave ==
  /\ manager = "spinning" /\ inbox # <<>> /\ Head(inbox) \notin Profiles
  /\ inbox' = Tail(inbox)
  /\ UNCHANGED <<systemd, target, transitioning, mapFile, asks, managerDeaths, seen>>
  /\ IF ActiveProfile = "MAPPING" /\ (mapFile => Head(inbox) = "overwrite")
     THEN manager' = "saving" /\ PublishStatus
     ELSE UNCHANGED <<manager, published>>

\* The script succeeds, fails or is killed after 90 s with the map written.
SaveReturns ==
  /\ manager = "saving"
  /\ mapFile' \in {mapFile, TRUE}
  /\ manager' = "spinning"
  /\ UNCHANGED <<systemd, target, transitioning, inbox, asks, managerDeaths, seen>>
  /\ PublishStatus

-----------------------------------------------------------------------------
(* The node and what is around it.                                           *)

TimerPublishes ==
  /\ manager = "spinning"
  /\ UNCHANGED <<systemd, manager, target, transitioning, mapFile, inbox, asks, managerDeaths,
                 seen>>
  /\ PublishStatus

ManagerDies ==
  /\ managerDeaths < MaxManagerDeaths
  /\ manager # "dead"
  /\ manager' = "dead"
  /\ managerDeaths' = managerDeaths + 1
  /\ UNCHANGED <<systemd, target, transitioning, mapFile, inbox, asks, published, seen>>

\* Restart=always; __init__ publishes a status.  Requests to the old node are lost.
ManagerRespawns ==
  /\ manager = "dead"
  /\ manager' = "spinning"
  /\ transitioning' = FALSE
  /\ inbox' = <<>>
  /\ UNCHANGED <<systemd, target, mapFile, asks, managerDeaths, seen>>
  /\ PublishStatus

JobRuns ==
  /\ startJob # "none"
  /\ units' \in {units, units \cup {startJob}}
  /\ startJob' = "none"
  /\ UNCHANGED <<manager, target, transitioning, mapFile, inbox, asks, managerDeaths, published,
                 seen>>

UnitEnds(u) ==
  /\ u \in units
  /\ units' = units \ {u}
  /\ UNCHANGED <<startJob, manager, target, transitioning, mapFile, inbox, asks, managerDeaths,
                 published, seen>>

GatewayAsks(request) ==
  /\ asks < MaxProfileRequests
  /\ asks' = asks + 1
  /\ inbox' = Append(inbox, request)
  /\ UNCHANGED <<systemd, manager, target, transitioning, mapFile, managerDeaths, published, seen>>

\* _mapping_status_callback
GatewaySees ==
  /\ seen # published
  /\ seen' = published
  /\ UNCHANGED <<systemd, manager, target, transitioning, mapFile, inbox, asks, managerDeaths,
                 published>>

ManagerWorks ==
  \/ TakesProfile
  \/ StopsBoth
  \/ StartsTarget
  \/ Undoes
  \/ TakesSave
  \/ SaveReturns

ProfileNext ==
  \/ ManagerWorks
  \/ SystemctlTimesOut
  \/ TimerPublishes
  \/ ManagerDies
  \/ ManagerRespawns
  \/ JobRuns
  \/ \E u \in Units : UnitEnds(u)
  \/ \E request \in Requests : GatewayAsks(request)
  \/ GatewaySees

\* systemctl returns within its timeout, systemd respawns the node.
ProfileFairness ==
  /\ WF_profileVars(ManagerWorks)
  /\ WF_profileVars(ManagerRespawns)
  /\ WF_profileVars(GatewaySees)

ProfileSpec == ProfileInit /\ [][ProfileNext]_profileVars /\ ProfileFairness

ProfileTypeOK ==
  /\ units \subseteq Units
  /\ startJob \in Units \cup {"none"}
  /\ manager \in ManagerStates
  /\ target \in Profiles
  /\ {transitioning, mapFile} \subseteq BOOLEAN
  /\ inbox \in Seq(Requests)
  /\ asks \in 0..MaxProfileRequests /\ managerDeaths \in 0..MaxManagerDeaths
  /\ {published, seen} \subseteq [profile : Profiles, transitioning : BOOLEAN]

-----------------------------------------------------------------------------
\* INVARIANT, the docstring of ProfileManagerNode: mapping and navigation
\* exclude each other, whatever times out and with a start still in systemd's
\* hands when the next switch begins (systemd's own Conflicts= left aside).
OneUnitAtMost == units # Units

\* LIVENESS: the gateway does not see a transition for ever, which would refuse
\* every goal: one that fails or dies with the node ends as well.
TransitionEnds == seen.transitioning ~> ~seen.transitioning

\* TEMPORAL, ProfileManagerNode: switching profiles is exclusive and comes to an
\* end, for the units and for the gateway that watches.
ProfilesSwitch == []OneUnitAtMost /\ TransitionEnds
=============================================================================
