------------------------------ MODULE LogAnalyzer ------------------------------
(***************************************************************************)
(* The advice of a local language model on an incident,                    *)
(* LocalLogAIAnalyzer of fleet_gateway/log_ai.py, asked for by requests of *)
(* the web API, each in a thread of its own, while the raw logs grow.      *)
(* Records are numbered; evidence are the last ones of the incident and    *)
(* the last ones around it; a context over the size limit loses the oldest *)
(* of the latter, which are then not hashed into the name of the report    *)
(* but may still be cited.  The model's answer is a record it cites, or    *)
(* one it made up.  The catalogues of checks and fixes and the robot's     *)
(* health are treated like the evidence and left out, as is the age after  *)
(* which a report is pruned: any may be that old.                          *)
(***************************************************************************)
EXTENDS Naturals, FiniteSets

CONSTANTS Askers,    \* threads that may ask
          MaxLogged, \* bound of the records
          Evidence,  \* records of the incident, 3
          Around     \* records around it, 80

ASSUME AnalyzerAssumption ==
  /\ IsFiniteSet(Askers)
  /\ {Evidence, Around} \subseteq Nat
  /\ MaxLogged \in Nat \ {0}

VARIABLES logCount,   \* records in the raw log
          ofIncident, \* those of the incident
          analysis,   \* where each thread stands
          context,    \* what it built, and what the advice it returned cites
          slot,       \* _inference_lock
          reports     \* the files of ai/analyses

analyzerVars == <<logCount, ofIncident, analysis, context, slot, reports>>

Nobody == "nobody"

\* The slot is a lock: it is free or some thread's.
ASSUME SlotAssumption == Nobody \notin Askers

\* unhashed is history: the evidence around the incident that the size limit
\* had kept out of the digest of the cached report this advice was taken from.
Contexts == [incident : SUBSET (1..MaxLogged), around : SUBSET (1..MaxLogged),
             left : SUBSET (1..MaxLogged), cites : 0..MaxLogged + 1,
             unhashed : SUBSET (1..MaxLogged)]
NoContext == [incident |-> {}, around |-> {}, left |-> {}, cites |-> 0, unhashed |-> {}]
MadeUp == MaxLogged + 1
LastOnes(set, count) == {i \in set : Cardinality({j \in set : j > i}) < count}

\* allowed_evidence, filled before the list around the incident is cut.
Allowed(c) == c.incident \cup c.around

AnalyzerInit ==
  /\ logCount = 1 /\ ofIncident = {1}
  /\ analysis = [a \in Askers |-> "idle"]
  /\ context = [a \in Askers |-> NoContext]
  /\ slot = Nobody
  /\ reports = {}

AnalysisGoes(a, step) == analysis' = [analysis EXCEPT ![a] = step]
rawLog == <<logCount, ofIncident>>

RecordWritten(matching) ==
  /\ logCount < MaxLogged
  /\ logCount' = logCount + 1
  /\ ofIncident' = IF matching THEN ofIncident \cup {logCount'} ELSE ofIncident
  /\ UNCHANGED <<analysis, context, slot, reports>>

-----------------------------------------------------------------------------
(* analyze                                                                   *)

\* health(refresh=True): the model is there or the request fails.
AskAdvice(a) ==
  /\ analysis[a] = "idle"
  /\ AnalysisGoes(a, "ready")
  /\ context' = [context EXCEPT ![a] = NoContext]
  /\ UNCHANGED <<rawLog, slot, reports>>

NotReady(a) ==
  /\ analysis[a] = "ready"
  /\ AnalysisGoes(a, "idle")
  /\ UNCHANGED <<rawLog, context, slot, reports>>

\* acquire(blocking=False), busy otherwise.
TakesSlot(a) ==
  /\ analysis[a] = "ready"
  /\ IF slot = Nobody
     THEN slot' = a /\ AnalysisGoes(a, "building")
     ELSE AnalysisGoes(a, "idle") /\ UNCHANGED slot
  /\ UNCHANGED <<rawLog, context, reports>>

\* incidents_from_path of _build_context, which may not know the incident.
FindsIncident(a) ==
  /\ analysis[a] = "building"
  /\ AnalysisGoes(a, "found")
  /\ context' = [context EXCEPT ![a].incident = LastOnes(ofIncident, Evidence)]
  /\ UNCHANGED <<rawLog, slot, reports>>

\* records_from_status_path, the logs read a second time; while the context is
\* longer than max_context_chars the oldest of surrounding_logs is popped.
ReadsAround(a) ==
  /\ analysis[a] = "found"
  /\ AnalysisGoes(a, "built")
  /\ LET around == LastOnes(1..logCount, Around) IN
     \E room \in 0..Around :
       context' = [context EXCEPT ![a].around = around, ![a].left = LastOnes(around, room)]
  /\ UNCHANGED <<rawLog, slot, reports>>

\* Mutant of Digest: the log around the incident is no part of it.
DigestOfIncident(c) == c.incident

\* evidence_digest, in the name of the report's file: the list that was cut.
Digest(c) == <<c.incident, c.left>>

Cached(a) == {r \in reports : Digest(r) = Digest(context[a])}

Releases == slot' = Nobody

\* _prune_cache, and the report there is, unless its file cannot be read.
FindsReport(a) ==
  /\ analysis[a] = "built"
  /\ \E pruned \in SUBSET reports :
       /\ reports' = reports \ pruned
       /\ \/ /\ AnalysisGoes(a, "generating")
             /\ UNCHANGED <<context, slot>>
          \/ \E r \in Cached(a) \ pruned :
               /\ context' = [context EXCEPT ![a].cites = r.cites,
                                             ![a].unhashed = r.around \ r.left]
               /\ AnalysisGoes(a, "answered")
               /\ Releases
  /\ UNCHANGED rawLog

\* Mutant of AdviceFails: the slot is only given back with a report.
FailsHolding(a) ==
  /\ analysis[a] \in {"building", "generating"}
  /\ AnalysisGoes(a, "idle")
  /\ UNCHANGED <<slot>>

\* The incident is unknown, Ollama fails or takes too long, or the report does
\* not validate: an exception through the finally.
AdviceFails(a) ==
  /\ analysis[a] \in {"building", "generating"}
  /\ AnalysisGoes(a, "idle")
  /\ Releases

Fails(a) ==
  /\ AdviceFails(a)
  /\ context' = [context EXCEPT ![a] = NoContext]
  /\ UNCHANGED <<rawLog, reports>>

\* _generate cites nothing but what the context allows; _write_cache replaces
\* the file of the same digest.
Generates(a) ==
  /\ analysis[a] = "generating"
  /\ \E cites \in 1..MaxLogged \cup {MadeUp} :
       /\ cites \in Allowed(context[a])
       /\ context' = [context EXCEPT ![a].cites = cites]
       /\ reports' = (reports \ Cached(a)) \cup {[context[a] EXCEPT !.cites = cites]}
  /\ AnalysisGoes(a, "answered")
  /\ Releases
  /\ UNCHANGED rawLog

\* The web shows the advice and may ask again.
Shows(a) ==
  /\ analysis[a] = "answered"
  /\ AnalysisGoes(a, "idle")
  /\ context' = [context EXCEPT ![a] = NoContext]
  /\ UNCHANGED <<rawLog, slot, reports>>

\* The reports are in files.
AnalyzerRestarts ==
  /\ analysis' = [a \in Askers |-> "idle"]
  /\ context' = [a \in Askers |-> NoContext]
  /\ Releases
  /\ UNCHANGED <<rawLog, reports>>

AnalyzerNext ==
  \/ \E matching \in BOOLEAN : RecordWritten(matching)
  \/ \E a \in Askers :
       \/ AskAdvice(a)
       \/ NotReady(a)
       \/ TakesSlot(a)
       \/ FindsIncident(a)
       \/ ReadsAround(a)
       \/ FindsReport(a)
       \/ Fails(a)
       \/ Generates(a)
       \/ Shows(a)
  \/ AnalyzerRestarts

AnalyzerSpec == AnalyzerInit /\ [][AnalyzerNext]_analyzerVars

AnalyzerTypeOK ==
  /\ logCount \in 1..MaxLogged /\ ofIncident \subseteq 1..logCount
  /\ analysis \in [Askers -> {"idle", "ready", "building", "found", "built",
                              "generating", "answered"}]
  /\ context \in [Askers -> Contexts]
  /\ slot \in Askers \cup {Nobody}
  /\ reports \subseteq Contexts

-----------------------------------------------------------------------------
\* INVARIANT, analyze: the advice given, also out of the cache, cites evidence
\* of the context that the same request built; only a cached report whose writer
\* had its context cut may cite a record that was cut out there.
AdviceIsGrounded ==
  \A a \in Askers : analysis[a] = "answered" =>
    context[a].cites \in Allowed(context[a]) \cup context[a].unhashed

\* INVARIANT, analyze: the slot of the GPU is held by the one request that
\* works on a report, and by none that was answered or failed.
SlotIsHeldByWorker ==
  \A a \in Askers :
    slot = a <=> analysis[a] \in {"building", "found", "built", "generating"}

\* INVARIANT, analyze: advice stands on evidence and one request works at a time.
AdviceIsSound == AdviceIsGrounded /\ SlotIsHeldByWorker
=============================================================================
