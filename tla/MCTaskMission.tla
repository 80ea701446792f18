---------------------------- MODULE MCTaskMission ----------------------------
(* TaskMission for TLC: two tasks, the second of which may retry the first.  *)
EXTENDS TaskMission

CONSTANTS a, b, nowhere, none

MCTargets == {a, b}
MCNone == {}

\* With one executor thread a callback just taken is heard at once: it was as
\* well still in the queue.  Tasks are created while nothing runs.
HeardAtOnce == (\E i \in DOMAIN heard : ~heard[i].noted) => heard' # heard

CreatedAtRest ==
  (\E t \in Tasks : tasks[t].state = "none" /\ tasks'[t].state # "none") =>
    runner = NoRequest /\ \A u \in Tasks : tasks[u].state \notin Underway

\* Nobody sees a success being settled: it may as well be settled right before
\* the failure or the end that the robot shows next.
SettledLate == settled /\ verdict = "ACTIVE" => verdict' # "ACTIVE"

\* A robot at rest that never had a goal says nothing the node or a task looks at,
\* unless it is UNAVAILABLE.
NewsOnly == \A i \in DOMAIN statuses' : statuses'[i].state # "PENDING"

\* A second task runs after a first that was neither canceled nor cut short by
\* a restart; a task alone meets one of the two.  A success settled before a
\* failure is shown is met by neither, and by a second task to the same place.
Canceled == canceler # NoRequest \/ cancelRequests \cup popped # {}

OneDisturbance ==
  /\ tasks[1].target # b
  /\ restarts = 0 \/ ~Canceled
  /\ verdict = "CANCELED" => Canceled
  /\ settled /\ verdict = "FAILED" =>
       restarts = 0 /\ ~Canceled /\ tasks[2].target # b
  /\ tasks[2].state # "none" => restarts = 0 /\ ~Canceled
=============================================================================
