----------------------------- MODULE LogCollector -----------------------------
(***************************************************************************)
(* The node that collects logs, fleet_gateway/log_mlops_node.py, next to   *)
(* the journal it polls and to the registry log_mlops.py promotes models   *)
(* in.  It spins in one thread; a poll reads the journal as it is at some  *)
(* moment until journalctl returns.  An entry has a time and can be read a *)
(* little later, after those before it.  Only warnings are entries here:   *)
(* the others are skipped before anything is kept of them.                 *)
(***************************************************************************)
EXTENDS Integers, Sequences, FiniteSets

CONSTANTS Overlap,    \* of two polls, one second
          PollTime,   \* journalctl is given up after it
          Delay,      \* until an entry can be read
          SeenLimit,  \* of the cursors kept, 2048
          MaxTime, MaxEntries, MaxPromotions, MaxCollectorDeaths \* bounds

ASSUME CollectorAssumption ==
  /\ {Overlap, PollTime, Delay, MaxTime, MaxEntries, MaxPromotions, MaxCollectorDeaths}
       \subseteq Nat
  /\ SeenLimit \in Nat \ {0}
  /\ Delay <= Overlap

VARIABLES time,
          entries,    \* the time of each entry of the journal
          readable,   \* how many of them can be read
          node,       \* what the node does
          since,      \* _journal_since_usec
          seenOrder,  \* _journal_seen_order
          pollStart,  \* poll_started_usec
          stored,     \* how often each entry is in the raw log
          born,       \* when this process of the node began
          kept,       \* how often this process stored each entry
          production, \* the version of the registry's model, also its mtime
          model,      \* _model, with the mtime taken for it
          stamp,      \* the mtime taken before the model is read
          inference,  \* the model of the status it published
          collectorDeaths

journal == <<entries, readable>>
polling == <<since, seenOrder, pollStart, stored, kept>>
inferring == <<model, stamp, inference>>
collectorVars == <<time, journal, node, polling, born, production, inferring, collectorDeaths>>

NodeStates == {"down", "spinning", "polling", "loading"}
Entries == 1..MaxEntries
NoModel == 0

\* __init__: the poll goes back one second.
Begun(t) ==
  /\ since' = t - Overlap /\ seenOrder' = <<>> /\ pollStart' = t
  /\ born' = t
  /\ kept' = [e \in Entries |-> 0]
  /\ model' = [version |-> NoModel, mtime |-> NoModel] /\ stamp' = NoModel

CollectorInit ==
  /\ time = 0
  /\ entries = <<>> /\ readable = 0
  /\ node = "down"
  /\ since = 0 /\ seenOrder = <<>> /\ pollStart = 0 /\ born = 0
  /\ stored = [e \in Entries |-> 0] /\ kept = [e \in Entries |-> 0]
  /\ production = NoModel
  /\ model = [version |-> NoModel, mtime |-> NoModel] /\ stamp = NoModel
  /\ inference = NoModel
  /\ collectorDeaths = 0

-----------------------------------------------------------------------------
(* The journal; the cursors kept are enough for what two polls share.        *)

NewestEntries == {e \in DOMAIN entries : entries[e] >= time - Overlap - PollTime}

JournalWrites ==
  /\ Len(entries) < MaxEntries /\ Cardinality(NewestEntries) < SeenLimit
  /\ entries' = Append(entries, time)
  /\ UNCHANGED <<time, readable, node, polling, born, production, inferring, collectorDeaths>>

JournalCommits ==
  /\ readable < Len(entries)
  /\ readable' = readable + 1
  /\ UNCHANGED <<time, entries, node, polling, born, production, inferring, collectorDeaths>>

JournalTicks ==
  /\ time < MaxTime
  /\ readable < Len(entries) => time < entries[readable + 1] + Delay
  /\ node = "polling" => time < pollStart + PollTime
  /\ time' = time + 1
  /\ UNCHANGED <<journal, node, polling, born, production, inferring, collectorDeaths>>

-----------------------------------------------------------------------------
(* _poll_journal                                                             *)

PollStarts ==
  /\ node = "spinning"
  /\ node' = "polling"
  /\ pollStart' = time
  /\ UNCHANGED <<time, journal, since, seenOrder, stored, kept, born, production, inferring,
                 collectorDeaths>>

Cursors == {seenOrder[i] : i \in DOMAIN seenOrder}

\* What journalctl prints of what is new, in order.
Printed == {e \in 1..readable : entries[e] >= since /\ e \notin Cursors}

InOrder(set) ==
  [i \in 1..Cardinality(set) |-> CHOOSE e \in set : Cardinality({d \in set : d < e}) = i - 1]

\* Mutant of LastOf: the cursors seen are never forgotten.
AllOf(seq, n) == seq

LastOf(seq, n) == IF Len(seq) <= n THEN seq ELSE SubSeq(seq, Len(seq) - n + 1, Len(seq))

\* Mutant of Remember: what is new takes the place of what was seen.
RemembersNewest(new) == seenOrder' = LastOf(InOrder(new), SeenLimit)

Remember(new) == seenOrder' = LastOf(seenOrder \o InOrder(new), SeenLimit)

\* Mutant of SinceAfterPoll: the next poll begins where this one ended.
SinceItsEnd(t) == t

SinceAfterPoll(t) == LET back == pollStart - Overlap IN IF since > back THEN since ELSE back

PollReturns ==
  /\ node = "polling"
  /\ LET new == Printed
         count(f) == [e \in Entries |-> IF e \in new THEN f[e] + 1 ELSE f[e]]
     IN stored' = count(stored) /\ kept' = count(kept) /\ Remember(new)
  /\ since' = SinceAfterPoll(time)
  /\ node' = "spinning"
  /\ UNCHANGED <<time, journal, pollStart, born, production, inferring, collectorDeaths>>

\* It fails or takes too long, and the next poll begins where this one did.
PollFails ==
  /\ node = "polling"
  /\ node' = "spinning"
  /\ UNCHANGED <<time, journal, polling, born, production, inferring, collectorDeaths>>

-----------------------------------------------------------------------------
(* promote_model of another process, and _publish_inference.                 *)

Promote ==
  /\ production < MaxPromotions
  /\ production' = production + 1
  /\ UNCHANGED <<time, journal, node, polling, born, inferring, collectorDeaths>>

\* Mutant of TakesStamp: the mtime kept is that of the file after the reading.
TakesStampLast ==
  /\ stamp' = production
  /\ model' = IF node = "spinning" /\ production # model.mtime
              THEN [model EXCEPT !.version = production]
              ELSE IF node = "loading" THEN [model EXCEPT !.mtime = production] ELSE model

\* _reload_model asks for the mtime, then reads the file if that is new.
TakesStamp ==
  IF node = "spinning"
  THEN stamp' = production /\ UNCHANGED model
  ELSE /\ model' = IF stamp # model.mtime THEN [version |-> production, mtime |-> stamp] ELSE model
       /\ UNCHANGED stamp

InferenceStarts ==
  /\ node = "spinning"
  /\ TakesStamp
  /\ node' = "loading"
  /\ UNCHANGED <<time, journal, polling, born, production, inference, collectorDeaths>>

InferencePublished ==
  /\ node = "loading"
  /\ TakesStamp
  /\ inference' = model'.version
  /\ node' = "spinning"
  /\ UNCHANGED <<time, journal, polling, born, production, collectorDeaths>>

-----------------------------------------------------------------------------
CollectorDies ==
  /\ collectorDeaths < MaxCollectorDeaths
  /\ node # "down"
  /\ node' = "down"
  /\ collectorDeaths' = collectorDeaths + 1
  /\ UNCHANGED <<time, journal, polling, born, production, inferring>>

CollectorStarts ==
  /\ node = "down"
  /\ node' = "spinning"
  /\ Begun(time)
  /\ UNCHANGED <<time, journal, stored, production, inference, collectorDeaths>>

CollectorWorks ==
  \/ PollReturns
  \/ InferenceStarts
  \/ InferencePublished
  \/ CollectorStarts

CollectorNext ==
  \/ JournalWrites
  \/ JournalCommits
  \/ JournalTicks
  \/ PollStarts
  \/ PollFails
  \/ Promote
  \/ CollectorDies
  \/ CollectorWorks

\* The timers of the node and its service manager.
CollectorFairness ==
  /\ WF_collectorVars(PollReturns)
  /\ WF_collectorVars(InferencePublished)
  /\ WF_collectorVars(CollectorStarts)
  /\ SF_collectorVars(InferenceStarts)

CollectorSpec == CollectorInit /\ [][CollectorNext]_collectorVars /\ CollectorFairness

CollectorTypeOK ==
  /\ time \in 0..MaxTime
  /\ entries \in Seq(0..MaxTime) /\ Len(entries) <= MaxEntries
  /\ readable \in 0..Len(entries)
  /\ node \in NodeStates
  /\ since \in Int /\ seenOrder \in Seq(Entries) /\ Len(seenOrder) <= SeenLimit
  /\ {pollStart, born} \subseteq 0..MaxTime
  /\ stored \in [Entries -> Nat] /\ kept \in [Entries -> Nat]
  /\ {production, stamp, inference} \subseteq 0..MaxPromotions
  /\ model \in [version : 0..MaxPromotions, mtime : 0..MaxPromotions]
  /\ collectorDeaths \in 0..MaxCollectorDeaths

-----------------------------------------------------------------------------
\* INVARIANT, _poll_journal: a process of the node stores no entry twice,
\* although its polls overlap.
NothingStoredTwice == \A e \in Entries : kept[e] <= 1

\* INVARIANT, _poll_journal: an entry the next poll no longer asks for is
\* stored, unless it is older than the process: polls that fail and entries
\* that cannot be read yet lose none.
NothingMissed ==
  node # "down" =>
    \A e \in DOMAIN entries : entries[e] >= born - Overlap /\ entries[e] < since => kept[e] = 1

\* LIVENESS, _reload_model: the model last promoted is the one the status
\* finally speaks of, although it may replace another that is being loaded.
PromotedModelIsUsed ==
  \A v \in 0..MaxPromotions : <>[](production = v) => <>[](inference = v)

\* TEMPORAL, the collector: of the journal it keeps everything once, and of the
\* registry it uses the last model.
CollectorKeepsUp == []NothingStoredTwice /\ []NothingMissed /\ PromotedModelIsUsed
=============================================================================
