----------------------------- MODULE Standalone_proofs -----------------------------
(***************************************************************************)
(* What the run of MCStandalone checks of single components, proved for    *)
(* every value of their constants: the supervised motion for any distance, *)
(* tolerance, number of runs and deaths, the advice for any number of      *)
(* threads and records, the mock robot for any goals and durations, the    *)
(* goal's progress for any distances, angles and timeouts, the profiles,   *)
(* the robot's health and the journal for any requests, statuses, entries  *)
(* and deaths.                                                             *)
(***************************************************************************)
EXTENDS MCStandalone, SequenceTheorems, FiniteSetTheorems, TLAPS

-----------------------------------------------------------------------------
(* SupervisedMotion                                                          *)

Prepares == {"preflight", "checking", "marking", "settling", "saving"}

\* Whoever may make the base move has marked the file before.
Marked == phase \in {"releasing", "arming", "executing"} => checkpoint.moving

\* No motion is forgotten by the file: only a commit takes the mark away.
UnsettledIsMarked == unsettled => checkpoint.moving

\* The phases that commit, and the end, come after a zero that got through.
StillAtCommit == phase \in {"checking", "marking", "saving", "ended"} => gate # "driving"

\* The last answer leaves no request behind it, and none is sent before the next
\* call: a release given up earlier is handled before the e-stop is confirmed.
NoLateRelease == phase \in Prepares \/ asked = "done" => requests = <<>>

MotionInv ==
  /\ MotionTypeOK
  /\ Marked
  /\ MotionIsRecorded
  /\ UnsettledIsMarked
  /\ StillAtCommit
  /\ NoLateRelease
  /\ UnsettledMotionBlocks
  /\ CommittedPoseIsFinal
  /\ PreparesUnderEstop

\* Every variable keeps its type, whichever phase fails, dies or is repeated.
LEMMA TypeStep == MotionTypeOK /\ [MotionNext]_motionVars => MotionTypeOK'
<1> SUFFICES ASSUME MotionTypeOK, [MotionNext]_motionVars PROVE MotionTypeOK'
  OBVIOUS
<1> USE MotionAssumption DEF MotionTypeOK, Phases, Calls, Gates, Goes, unmoved, watchdog,
                             PassesZero, PassesMove
<1>1. ASSUME NEW kind \in {"no", "dry", "reset"}, StartRun(kind) PROVE MotionTypeOK'
  BY <1>1 DEF StartRun
<1>2. CASE PhaseFails
  BY <1>2 DEF PhaseFails, Failed
<1>3. CASE Killed
  BY <1>3 DEF Killed
<1>4. CASE AsksEstop
  <2>1. Wanted \in BOOLEAN
    BY DEF Wanted
  <2> QED
    BY <1>4, <2>1 DEF AsksEstop
<1>5. CASE EstopConfirmed
  <2>1. phase \in {"engaging", "releasing", "stopping", "failing"}
    BY <1>5 DEF EstopConfirmed
  <2>2. AfterCall \in Phases
    BY <2>1 DEF AfterCall
  <2> QED
    BY <1>5, <2>2 DEF EstopConfirmed
<1>6. CASE HandlesEstop
  <2>1. gate' \in Gates
    BY <1>6 DEF HandlesEstop
  <2>2. asked' \in {"no", "sent", "done"}
    BY <1>6 DEF HandlesEstop
  <2>3. requests' \in Seq(BOOLEAN)
    <3>1. requests \in Seq(BOOLEAN) /\ requests # <<>> /\ requests' = Tail(requests)
      BY <1>6 DEF HandlesEstop
    <3> HIDE DEF MotionTypeOK
    <3> QED
      BY ONLY <3>1, SMT
  <2> QED
    BY <1>6, <2>1, <2>2, <2>3 DEF HandlesEstop
<1>7. CASE GateTimesOut
  BY <1>7 DEF GateTimesOut
<1>8. CASE WatchdogDies
  BY <1>8 DEF WatchdogDies
<1>9. CASE RobotMoves
  BY <1>9 DEF RobotMoves
<1>10. CASE RobotPushed
  BY <1>10 DEF RobotPushed
<1>11. CASE Preflight
  BY <1>11 DEF Preflight
<1>12. CASE ChecksPose
  <2>1. checkpoint' \in [exists : BOOLEAN, moving : BOOLEAN, pose : 0..MaxPose]
    <3>1. checkpoint' \in {checkpoint, [exists |-> TRUE, moving |-> FALSE, pose |-> pose]}
      BY <1>12 DEF ChecksPose, Commit
    <3>2. /\ checkpoint \in [exists : BOOLEAN, moving : BOOLEAN, pose : 0..MaxPose]
          /\ pose \in 0..MaxPose
      OBVIOUS
    <3>3. [exists |-> TRUE, moving |-> FALSE, pose |-> pose]
            \in [exists : BOOLEAN, moving : BOOLEAN, pose : 0..MaxPose]
      BY ONLY <3>2
    <3> QED
      BY ONLY <3>1, <3>2, <3>3, Zenon
  <2>2. {pushed', unsettled'} \subseteq BOOLEAN
    BY <1>12 DEF ChecksPose, Commit
  <2>3. phase' \in Phases /\ asked' \in {"no", "sent", "done"} /\ gate' \in Gates
    BY <1>12 DEF ChecksPose
  <2> QED
    BY <1>12, <2>1, <2>2, <2>3 DEF ChecksPose
<1>13. CASE MarksMotion
  BY <1>13 DEF MarksMotion
<1>14. CASE Arms
  BY <1>14 DEF Arms
<1>15. CASE ExecuteSends
  BY <1>15 DEF ExecuteSends
<1>16. CASE ExecuteReturns
  BY <1>16 DEF ExecuteReturns
<1>17. CASE Settles
  BY <1>17 DEF Settles
<1>18. CASE SavesPose
  BY <1>18 DEF SavesPose, Commit
<1>19. CASE Zeroes
  BY <1>19 DEF Zeroes
<1>20. CASE UNCHANGED motionVars
  BY <1>20 DEF motionVars
<1> QED
  BY <1>1, <1>2, <1>3, <1>4, <1>5, <1>6, <1>7, <1>8, <1>9, <1>10, <1>11, <1>12, <1>13,
     <1>14, <1>15, <1>16, <1>17, <1>18, <1>19, <1>20 DEF MotionNext

\* A run that was never started, and a watchdog that was.
LEMMA InitTyped == MotionInit => MotionTypeOK
<1> SUFFICES ASSUME MotionInit PROVE MotionTypeOK
  OBVIOUS
<1>1. checkpoint \in [exists : BOOLEAN, moving : BOOLEAN, pose : 0..MaxPose]
  BY MotionAssumption DEF MotionInit
<1>2. requests \in Seq(BOOLEAN)
  BY DEF MotionInit
<1>3. run \in 0..MaxRuns /\ pose \in 0..MaxPose /\ deaths \in 0..MaxDeaths
  BY MotionAssumption DEF MotionInit
<1>4. phase \in Phases /\ gate \in Gates
  BY DEF MotionInit, Phases, Calls, Gates
<1>5. {estopLost, pushed, unsettled} \subseteq BOOLEAN
  BY DEF MotionInit
<1>6. asked \in {"no", "sent", "done"} /\ dryRun \in {"no", "dry", "reset"}
  BY DEF MotionInit
<1> QED
  BY <1>1, <1>2, <1>3, <1>4, <1>5, <1>6 DEF MotionTypeOK

\* THEOREM: the run, the checkpoint and the watchdog keep their types.
THEOREM MotionTyped == MotionSpec => []MotionTypeOK
<1> QED
  BY InitTyped, TypeStep, PTL DEF MotionSpec

-----------------------------------------------------------------------------
\* The file and the gate: the mark outlives everything but a commit, and what
\* commits has stopped the base.
LEMMA MarkStep ==
  MotionInv /\ [MotionNext]_motionVars =>
    Marked' /\ MotionIsRecorded' /\ UnsettledIsMarked' /\ StillAtCommit'
<1> SUFFICES ASSUME MotionInv, [MotionNext]_motionVars
             PROVE  Marked' /\ MotionIsRecorded' /\ UnsettledIsMarked' /\ StillAtCommit'
  OBVIOUS
<1> DEFINE Goal == Marked' /\ MotionIsRecorded' /\ UnsettledIsMarked' /\ StillAtCommit'
<1> USE DEF MotionInv, MotionTypeOK, Marked, MotionIsRecorded, UnsettledIsMarked, StillAtCommit,
            Goes, unmoved, watchdog, PassesZero, PassesMove
<1>1. ASSUME NEW kind \in {"no", "dry", "reset"}, StartRun(kind) PROVE Goal
  BY <1>1 DEF StartRun
<1>2. CASE PhaseFails
  BY <1>2 DEF PhaseFails, Failed
<1>3. CASE Killed
  BY <1>3 DEF Killed
<1>4. CASE AsksEstop
  BY <1>4 DEF AsksEstop
<1>5. CASE EstopConfirmed
  <2>1. phase \in {"engaging", "releasing", "stopping", "failing"}
    BY <1>5 DEF EstopConfirmed, Calls
  <2>2. phase' = AfterCall /\ checkpoint' = checkpoint /\ gate' = gate /\ unsettled' = unsettled
    BY <1>5 DEF EstopConfirmed
  <2>3. AfterCall \notin {"checking", "marking", "saving", "ended", "releasing", "executing"}
    BY <2>1 DEF AfterCall
  <2>4. AfterCall = "arming" => phase = "releasing"
    BY <2>1 DEF AfterCall
  <2> QED
    BY <2>2, <2>3, <2>4
<1>6. CASE HandlesEstop
  <2>1. gate' \in {"estop", "waiting", gate}
    BY <1>6 DEF HandlesEstop
  <2> QED
    BY <1>6, <2>1 DEF HandlesEstop
<1>7. CASE GateTimesOut
  BY <1>7 DEF GateTimesOut
<1>8. CASE WatchdogDies
  BY <1>8 DEF WatchdogDies
<1>9. CASE RobotMoves
  BY <1>9 DEF RobotMoves
<1>10. CASE RobotPushed
  BY <1>10 DEF RobotPushed
<1>11. CASE Preflight
  BY <1>11 DEF Preflight
<1>12. CASE ChecksPose
  <2>1. phase' \in {"marking", "ended"} /\ gate # "driving" /\ gate' # "driving"
    BY <1>12 DEF ChecksPose
  <2>2. UnsettledIsMarked'
    BY <1>12 DEF ChecksPose, Commit
  <2> QED
    BY <2>1, <2>2
<1>13. CASE MarksMotion
  BY <1>13 DEF MarksMotion
<1>14. CASE Arms
  BY <1>14 DEF Arms
<1>15. CASE ExecuteSends
  BY <1>15 DEF ExecuteSends
<1>16. CASE ExecuteReturns
  BY <1>16 DEF ExecuteReturns
<1>17. CASE Settles
  BY <1>17 DEF Settles
<1>18. CASE SavesPose
  BY <1>18 DEF SavesPose, Commit
<1>19. CASE Zeroes
  BY <1>19 DEF Zeroes
<1>20. CASE UNCHANGED motionVars
  BY <1>20 DEF motionVars
<1> QED
  BY <1>1, <1>2, <1>3, <1>4, <1>5, <1>6, <1>7, <1>8, <1>9, <1>10, <1>11, <1>12, <1>13,
     <1>14, <1>15, <1>16, <1>17, <1>18, <1>19, <1>20 DEF MotionNext

\* The order of the requests: nothing is left to release the e-stop behind the
\* confirmation that it is engaged.
LEMMA EstopStep ==
  MotionInv /\ [MotionNext]_motionVars => NoLateRelease' /\ PreparesUnderEstop'
<1> SUFFICES ASSUME MotionInv, [MotionNext]_motionVars
             PROVE  NoLateRelease' /\ PreparesUnderEstop'
  OBVIOUS
<1> DEFINE Goal == NoLateRelease' /\ PreparesUnderEstop'
<1> USE DEF MotionInv, MotionTypeOK, NoLateRelease, PreparesUnderEstop, Prepares, Goes, unmoved,
            watchdog, PassesZero, PassesMove
<1>1. ASSUME NEW kind \in {"no", "dry", "reset"}, StartRun(kind) PROVE Goal
  BY <1>1 DEF StartRun
<1>2. CASE PhaseFails
  BY <1>2 DEF PhaseFails, Failed
<1>3. CASE Killed
  BY <1>3 DEF Killed
<1>4. CASE AsksEstop
  BY <1>4 DEF AsksEstop, Calls
<1>5. CASE EstopConfirmed
  <2>1. phase \in {"engaging", "releasing", "stopping", "failing"} /\ requests = <<>>
    BY <1>5 DEF EstopConfirmed, Calls
  <2>2. phase' = AfterCall /\ asked' = "no" /\ requests' = requests /\ gate' = gate
    BY <1>5 DEF EstopConfirmed
  <2>3. CASE phase = "releasing"
    BY <2>2, <2>3 DEF AfterCall
  <2>4. CASE phase # "releasing"
    <3>1. gate = "estop"
      BY <1>5, <2>4 DEF EstopConfirmed, Wanted
    <3> QED
      BY <2>1, <2>2, <3>1
  <2> QED
    BY <2>3, <2>4
<1>6. CASE HandlesEstop
  <2>1. requests # <<>> /\ phase' = phase /\ requests' = Tail(requests)
    BY <1>6 DEF HandlesEstop
  <2>2. phase \notin Prepares /\ asked # "done"
    BY <2>1
  <2>3. asked' = "done" => Len(requests) = 1
    BY <1>6, <2>2 DEF HandlesEstop
  <2>4. Len(requests) = 1 => Tail(requests) = <<>>
    <3>1. requests \in Seq(BOOLEAN)
      OBVIOUS
    <3> QED
      BY ONLY <3>1, <2>1, HeadTailProperties, EmptySeq
  <2> QED
    BY <2>1, <2>2, <2>3, <2>4
<1>7. CASE GateTimesOut
  BY <1>7 DEF GateTimesOut
<1>8. CASE WatchdogDies
  BY <1>8 DEF WatchdogDies
<1>9. CASE RobotMoves
  BY <1>9 DEF RobotMoves
<1>10. CASE RobotPushed
  BY <1>10 DEF RobotPushed, Resting
<1>11. CASE Preflight
  BY <1>11 DEF Preflight
<1>12. CASE ChecksPose
  <2>1. phase' \in {"marking", "ended"} /\ asked' = "no"
    BY <1>12 DEF ChecksPose
  <2>2. requests' = requests /\ estopLost' = estopLost /\ phase = "checking"
    BY <1>12 DEF ChecksPose
  <2>3. gate' \in {gate, PassesZero}
    BY <1>12 DEF ChecksPose
  <2> QED
    BY <2>1, <2>2, <2>3
<1>13. CASE MarksMotion
  BY <1>13 DEF MarksMotion
<1>14. CASE Arms
  BY <1>14 DEF Arms
<1>15. CASE ExecuteSends
  BY <1>15 DEF ExecuteSends
<1>16. CASE ExecuteReturns
  BY <1>16 DEF ExecuteReturns
<1>17. CASE Settles
  BY <1>17 DEF Settles
<1>18. CASE SavesPose
  BY <1>18 DEF SavesPose
<1>19. CASE Zeroes
  BY <1>19 DEF Zeroes
<1>20. CASE UNCHANGED motionVars
  BY <1>20 DEF motionVars
<1> QED
  BY <1>1, <1>2, <1>3, <1>4, <1>5, <1>6, <1>7, <1>8, <1>9, <1>10, <1>11, <1>12, <1>13,
     <1>14, <1>15, <1>16, <1>17, <1>18, <1>19, <1>20 DEF MotionNext

\* What the file says of the pose: only a base that stands is committed, and a
\* motion begins only from a file whose last motion was.
LEMMA PoseStep ==
  MotionInv /\ [MotionNext]_motionVars => UnsettledMotionBlocks' /\ CommittedPoseIsFinal'
<1> SUFFICES ASSUME MotionInv, [MotionNext]_motionVars
             PROVE  UnsettledMotionBlocks' /\ CommittedPoseIsFinal'
  OBVIOUS
<1> DEFINE Goal == UnsettledMotionBlocks' /\ CommittedPoseIsFinal'
<1> USE DEF MotionInv, MotionTypeOK, UnsettledMotionBlocks, CommittedPoseIsFinal, Goes, unmoved,
            watchdog
<1>1. ASSUME NEW kind \in {"no", "dry", "reset"}, StartRun(kind) PROVE Goal
  BY <1>1 DEF StartRun
<1>2. CASE PhaseFails
  BY <1>2 DEF PhaseFails, Failed
<1>3. CASE Killed
  BY <1>3 DEF Killed
<1>4. CASE AsksEstop
  BY <1>4 DEF AsksEstop
<1>5. CASE EstopConfirmed
  <2>1. phase \in {"engaging", "releasing", "stopping", "failing"}
    BY <1>5 DEF EstopConfirmed, Calls
  <2>2. phase' = AfterCall /\ UNCHANGED <<checkpoint, pose, pushed, unsettled>>
    BY <1>5 DEF EstopConfirmed
  <2>3. AfterCall # "releasing" /\ (AfterCall = "arming" => phase = "releasing")
    BY <2>1 DEF AfterCall
  <2> QED
    BY <2>2, <2>3
<1>6. CASE HandlesEstop
  BY <1>6 DEF HandlesEstop
<1>7. CASE GateTimesOut
  BY <1>7 DEF GateTimesOut
<1>8. CASE WatchdogDies
  BY <1>8 DEF WatchdogDies
<1>9. CASE RobotMoves
  BY <1>9 DEF RobotMoves, MotionIsRecorded
<1>10. CASE RobotPushed
  BY <1>10 DEF RobotPushed, Resting
<1>11. CASE Preflight
  BY <1>11 DEF Preflight
<1>12. CASE ChecksPose
  <2>1. phase' \in {"marking", "ended"} /\ pose' = pose
    BY <1>12 DEF ChecksPose
  <2>2. CommittedPoseIsFinal'
    BY <1>12 DEF ChecksPose, Commit
  <2> QED
    BY <2>1, <2>2
<1>13. CASE MarksMotion
  BY <1>13 DEF MarksMotion, Loadable, UnsettledIsMarked
<1>14. CASE Arms
  BY <1>14 DEF Arms
<1>15. CASE ExecuteSends
  BY <1>15 DEF ExecuteSends
<1>16. CASE ExecuteReturns
  BY <1>16 DEF ExecuteReturns
<1>17. CASE Settles
  BY <1>17 DEF Settles
<1>18. CASE SavesPose
  BY <1>18 DEF SavesPose, Commit
<1>19. CASE Zeroes
  BY <1>19 DEF Zeroes
<1>20. CASE UNCHANGED motionVars
  BY <1>20 DEF motionVars
<1> QED
  BY <1>1, <1>2, <1>3, <1>4, <1>5, <1>6, <1>7, <1>8, <1>9, <1>10, <1>11, <1>12, <1>13,
     <1>14, <1>15, <1>16, <1>17, <1>18, <1>19, <1>20 DEF MotionNext

-----------------------------------------------------------------------------
\* The invariant the two theorems below are read from.
LEMMA MotionInvariant == MotionSpec => []MotionInv
<1>1. MotionInit => MotionInv
  <2> SUFFICES ASSUME MotionInit PROVE MotionInv
    OBVIOUS
  <2>1. /\ Marked /\ MotionIsRecorded /\ UnsettledIsMarked /\ StillAtCommit
        /\ NoLateRelease /\ UnsettledMotionBlocks /\ CommittedPoseIsFinal /\ PreparesUnderEstop
    BY DEF MotionInit, Marked, MotionIsRecorded, UnsettledIsMarked, StillAtCommit, NoLateRelease,
           Prepares, UnsettledMotionBlocks, CommittedPoseIsFinal, PreparesUnderEstop
  <2> QED
    BY <2>1, InitTyped DEF MotionInv
<1>2. MotionInv /\ [MotionNext]_motionVars => MotionInv'
  <2> SUFFICES ASSUME MotionInv, [MotionNext]_motionVars PROVE MotionInv'
    OBVIOUS
  <2>1. MotionTypeOK'
    BY TypeStep DEF MotionInv
  <2> QED
    BY <2>1, MarkStep, EstopStep, PoseStep DEF MotionInv
<1> QED
  BY <1>1, <1>2, PTL DEF MotionSpec

\* THEOREM: the base moves only while the checkpoint says that a motion is in
\* progress, whichever phase fails and whoever dies or answers late.
THEOREM MotionRecorded == MotionSpec => []MotionIsRecorded
<1>1. MotionInv => MotionIsRecorded
  BY DEF MotionInv
<1> QED
  BY <1>1, MotionInvariant, PTL

\* THEOREM: no run begins after a motion that was not committed, none accepts a
\* pose the base did not come to rest at, none prepares or settles without the
\* e-stop unless the watchdog lost it, and none ends with the base moving.
THEOREM RunSafe == MotionSpec => []RunIsSafe
<1>1. MotionInv => RunIsSafe
  BY DEF MotionInv, StillAtCommit, RunIsSafe, EndedRunIsStill
<1> QED
  BY <1>1, MotionInvariant, PTL

-----------------------------------------------------------------------------
(* LogAnalyzer                                                               *)

\* What is in the files is as well founded as what was said.
ReportsAreGrounded == \A r \in reports : r.cites \in Allowed(r)

\* What the size limit leaves is some of what was read.
CutIsOfAround == \A a \in Askers : context[a].left \subseteq context[a].around

AdviceInv ==
  AnalyzerTypeOK /\ ReportsAreGrounded /\ CutIsOfAround /\ AdviceIsGrounded /\ SlotIsHeldByWorker

\* Every step of a request and of the log keeps the types: what is built is of
\* the log, and what is kept was built.
LEMMA AnalyzerTypeStep == AnalyzerTypeOK /\ [AnalyzerNext]_analyzerVars => AnalyzerTypeOK'
<1> SUFFICES ASSUME AnalyzerTypeOK, [AnalyzerNext]_analyzerVars PROVE AnalyzerTypeOK'
  OBVIOUS
<1> USE AnalyzerAssumption DEF AnalyzerTypeOK, AnalysisGoes, rawLog, Releases
<1>1. ASSUME NEW matching \in BOOLEAN, RecordWritten(matching) PROVE AnalyzerTypeOK'
  BY <1>1 DEF RecordWritten
<1>2. NoContext \in Contexts
  BY DEF NoContext, Contexts
<1>3. ASSUME NEW a \in Askers, AskAdvice(a) PROVE AnalyzerTypeOK'
  BY <1>2, <1>3 DEF AskAdvice
<1>4. ASSUME NEW a \in Askers, NotReady(a) PROVE AnalyzerTypeOK'
  BY <1>4 DEF NotReady
<1>5. ASSUME NEW a \in Askers, TakesSlot(a) PROVE AnalyzerTypeOK'
  BY <1>5 DEF TakesSlot
<1>6. ASSUME NEW a \in Askers, FindsIncident(a) PROVE AnalyzerTypeOK'
  <2>1. LastOnes(ofIncident, Evidence) \in SUBSET (1..MaxLogged)
    <3>1. ofIncident \subseteq 1..MaxLogged
      OBVIOUS
    <3> QED
      BY <3>1, Zenon DEF LastOnes
  <2>2. [context[a] EXCEPT !.incident = LastOnes(ofIncident, Evidence)] \in Contexts
    BY <2>1 DEF Contexts
  <2> QED
    BY <1>6, <2>2 DEF FindsIncident
<1>7. ASSUME NEW a \in Askers, ReadsAround(a) PROVE AnalyzerTypeOK'
  <2>1. LastOnes(1..logCount, Around) \in SUBSET (1..MaxLogged)
    BY DEF LastOnes
  <2>2. PICK room \in 0..Around :
          context' = [context EXCEPT ![a].around = LastOnes(1..logCount, Around),
                                     ![a].left = LastOnes(LastOnes(1..logCount, Around), room)]
    BY <1>7 DEF ReadsAround
  <2>3. LastOnes(LastOnes(1..logCount, Around), room) \in SUBSET (1..MaxLogged)
    BY <2>1, Zenon DEF LastOnes
  <2>4. [context[a] EXCEPT !.around = LastOnes(1..logCount, Around),
                           !.left = LastOnes(LastOnes(1..logCount, Around), room)] \in Contexts
    BY <2>1, <2>3 DEF Contexts
  <2> QED
    BY <1>7, <2>2, <2>4 DEF ReadsAround
<1>8. ASSUME NEW a \in Askers, FindsReport(a) PROVE AnalyzerTypeOK'
  <2>1. reports' \subseteq Contexts /\ UNCHANGED rawLog
    BY <1>8 DEF FindsReport
  <2>2. CASE UNCHANGED <<context, slot>> /\ AnalysisGoes(a, "generating")
    BY <2>1, <2>2
  <2>3. ASSUME NEW r \in Cached(a),
               context' = [context EXCEPT ![a].cites = r.cites, ![a].unhashed = r.around \ r.left],
               AnalysisGoes(a, "answered"), Releases
        PROVE  AnalyzerTypeOK'
    <3>1. [context[a] EXCEPT !.cites = r.cites, !.unhashed = r.around \ r.left] \in Contexts
      BY DEF Contexts, Cached
    <3> QED
      BY <2>1, <2>3, <3>1
  <2> QED
    BY <1>8, <2>2, <2>3 DEF FindsReport
<1>9. ASSUME NEW a \in Askers, Fails(a) PROVE AnalyzerTypeOK'
  BY <1>2, <1>9 DEF Fails, AdviceFails
<1>10. ASSUME NEW a \in Askers, Generates(a) PROVE AnalyzerTypeOK'
  <2>1. PICK cites \in 1..MaxLogged \cup {MadeUp} :
          /\ context' = [context EXCEPT ![a].cites = cites]
          /\ reports' = (reports \ Cached(a)) \cup {[context[a] EXCEPT !.cites = cites]}
    BY <1>10 DEF Generates
  <2>2. [context[a] EXCEPT !.cites = cites] \in Contexts
    BY DEF Contexts, MadeUp
  <2> QED
    BY <1>10, <2>1, <2>2 DEF Generates
<1>11. ASSUME NEW a \in Askers, Shows(a) PROVE AnalyzerTypeOK'
  BY <1>2, <1>11 DEF Shows
<1>12. CASE AnalyzerRestarts
  BY <1>2, <1>12 DEF AnalyzerRestarts
<1>13. CASE UNCHANGED analyzerVars
  BY <1>13 DEF analyzerVars
<1> QED
  BY <1>1, <1>3, <1>4, <1>5, <1>6, <1>7, <1>8, <1>9, <1>10, <1>11, <1>12, <1>13
     DEF AnalyzerNext

\* Nobody has asked, and nothing is kept.
LEMMA AdviceInit == AnalyzerInit => AdviceInv
<1> SUFFICES ASSUME AnalyzerInit PROVE AdviceInv
  OBVIOUS
<1>1. NoContext \in Contexts
  BY AnalyzerAssumption DEF NoContext, Contexts
<1> QED
  BY <1>1, AnalyzerAssumption, SlotAssumption
     DEF AnalyzerInit, AdviceInv, AnalyzerTypeOK, ReportsAreGrounded, CutIsOfAround,
         AdviceIsGrounded, SlotIsHeldByWorker, NoContext

\* The reports kept, the advice given and the slot, step by step: what is taken
\* from the cache was written for the same incident and what the same cut leaves,
\* and no request answers or fails without giving the slot back.
LEMMA AdviceStep ==
  AdviceInv /\ [AnalyzerNext]_analyzerVars =>
    ReportsAreGrounded' /\ CutIsOfAround' /\ AdviceIsGrounded' /\ SlotIsHeldByWorker'
<1> SUFFICES ASSUME AdviceInv, [AnalyzerNext]_analyzerVars
             PROVE  ReportsAreGrounded' /\ CutIsOfAround' /\ AdviceIsGrounded'
                      /\ SlotIsHeldByWorker'
  OBVIOUS
<1> DEFINE Goal ==
      ReportsAreGrounded' /\ CutIsOfAround' /\ AdviceIsGrounded' /\ SlotIsHeldByWorker'
<1> USE SlotAssumption
    DEF AdviceInv, AnalyzerTypeOK, ReportsAreGrounded, CutIsOfAround, AdviceIsGrounded,
        SlotIsHeldByWorker, AnalysisGoes, rawLog, Releases
<1>1. ASSUME NEW matching \in BOOLEAN, RecordWritten(matching) PROVE Goal
  BY <1>1 DEF RecordWritten
<1>2. ASSUME NEW a \in Askers, AskAdvice(a) PROVE Goal
  BY <1>2 DEF AskAdvice, NoContext
<1>3. ASSUME NEW a \in Askers, NotReady(a) PROVE Goal
  BY <1>3 DEF NotReady
<1>4. ASSUME NEW a \in Askers, TakesSlot(a) PROVE Goal
  BY <1>4 DEF TakesSlot
<1>5. ASSUME NEW a \in Askers, FindsIncident(a) PROVE Goal
  BY <1>5 DEF FindsIncident, Contexts
<1>6. ASSUME NEW a \in Askers, ReadsAround(a) PROVE Goal
  <2>1. PICK room \in 0..Around :
          context' = [context EXCEPT ![a].around = LastOnes(1..logCount, Around),
                                     ![a].left = LastOnes(LastOnes(1..logCount, Around), room)]
    BY <1>6 DEF ReadsAround
  <2>2. LastOnes(LastOnes(1..logCount, Around), room) \subseteq LastOnes(1..logCount, Around)
    <3>1. \A S, n : LastOnes(S, n) \subseteq S
      BY Zenon DEF LastOnes
    <3> QED
      BY <3>1, Zenon
  <2>3. CutIsOfAround'
    BY <2>1, <2>2 DEF Contexts
  <2> QED
    BY <1>6, <2>1, <2>3 DEF ReadsAround
<1>7. ASSUME NEW a \in Askers, FindsReport(a) PROVE Goal
  <2>1. ReportsAreGrounded' /\ analysis[a] = "built"
    BY <1>7 DEF FindsReport
  <2>2. CASE UNCHANGED <<context, slot>> /\ AnalysisGoes(a, "generating")
    BY <2>1, <2>2
  <2>3. ASSUME NEW r \in Cached(a),
               context' = [context EXCEPT ![a].cites = r.cites, ![a].unhashed = r.around \ r.left],
               AnalysisGoes(a, "answered"), Releases
        PROVE  Goal
    <3>1. r.cites \in Allowed(r) /\ r.incident = context[a].incident /\ r.left = context[a].left
      BY DEF Cached, Digest
    <3>2. /\ context'[a].cites = r.cites /\ context'[a].unhashed = r.around \ r.left
          /\ context'[a].incident = r.incident /\ context'[a].around = context[a].around
      BY <2>3, <3>1 DEF Contexts
    <3>3. context[a].left \subseteq context[a].around
      OBVIOUS
    <3>4. context'[a].cites \in Allowed(context'[a]) \cup context'[a].unhashed
      BY <3>1, <3>2, <3>3 DEF Allowed
    <3> QED
      BY <2>1, <2>3, <3>1, <3>2, <3>4
  <2> QED
    BY <1>7, <2>2, <2>3 DEF FindsReport
<1>8. ASSUME NEW a \in Askers, Fails(a) PROVE Goal
  BY <1>8 DEF Fails, AdviceFails, NoContext
<1>9. ASSUME NEW a \in Askers, Generates(a) PROVE Goal
  <2>1. PICK cites \in Allowed(context[a]) :
          /\ context' = [context EXCEPT ![a].cites = cites]
          /\ reports' = (reports \ Cached(a)) \cup {[context[a] EXCEPT !.cites = cites]}
    BY <1>9 DEF Generates
  <2>2. /\ Allowed([context[a] EXCEPT !.cites = cites]) = Allowed(context[a])
        /\ [context[a] EXCEPT !.cites = cites].cites = cites
        /\ [context[a] EXCEPT !.cites = cites].left = context[a].left
        /\ [context[a] EXCEPT !.cites = cites].around = context[a].around
    BY DEF Allowed, Contexts
  <2>3. context' = [context EXCEPT ![a] = [context[a] EXCEPT !.cites = cites]]
    BY <2>1
  <2>4. ReportsAreGrounded'
    BY <2>1, <2>2
  <2>5. CutIsOfAround'
    BY <2>2, <2>3
  <2>6. AdviceIsGrounded'
    BY <1>9, <2>2, <2>3 DEF Generates
  <2>7. SlotIsHeldByWorker'
    BY <1>9 DEF Generates
  <2> QED
    BY <2>4, <2>5, <2>6, <2>7
<1>10. ASSUME NEW a \in Askers, Shows(a) PROVE Goal
  BY <1>10 DEF Shows, NoContext
<1>11. CASE AnalyzerRestarts
  BY <1>11 DEF AnalyzerRestarts, NoContext
<1>12. CASE UNCHANGED analyzerVars
  BY <1>12 DEF analyzerVars
<1> QED
  BY <1>1, <1>2, <1>3, <1>4, <1>5, <1>6, <1>7, <1>8, <1>9, <1>10, <1>11, <1>12
     DEF AnalyzerNext

\* THEOREM: the advice a request gives cites evidence of the context that this
\* request built, also when it comes out of a file another one wrote, unless it
\* cites what the size limit had cut out of the context of that other one; and
\* the slot of the GPU is held by the one request that works.
THEOREM AdviceSound == AnalyzerSpec => []AdviceIsSound
<1>1. AdviceInv /\ [AnalyzerNext]_analyzerVars => AdviceInv'
  BY AnalyzerTypeStep, AdviceStep DEF AdviceInv
<1>2. AdviceInv => AdviceIsSound
  BY DEF AdviceInv, AdviceIsSound
<1> QED
  BY AdviceInit, <1>1, <1>2, PTL DEF AnalyzerSpec

-----------------------------------------------------------------------------
(* MockRobot                                                                 *)

\* An e-stop that has been held was not released since, and ended the session.
HeldIsEngaged == (heldFor > 0 => mockEstop) /\ (mockEstop => session = 0)

\* A tick after it was engaged a goal is where its loop reads it, or canceled.
HeldIsRead ==
  heldFor > 0 => \A g \in MockGoals : goalAt[g] \in {"unsent", "ended", "reading", "canceling"}

\* After two nothing goes on.
HeldIsOver == heldFor = 2 => \A g \in MockGoals : goalAt[g] \in {"unsent", "ended"}

\* A goal whose loop goes on was found to have a lease since the last tick.
LeaseWasRead ==
  \A g \in MockGoals : goalAt[g] \in {"moving", "succeeding", "sleeping"} =>
    elapsed <= LeaseTimeout \/ leaseAge <= LeaseTimeout

MockInv == MockTypeOK /\ HeldIsEngaged /\ HeldIsRead /\ HeldIsOver /\ LeaseWasRead /\ MockNeedsLease

\* The e-stop is engaged but for no tick yet, and no goal was sent.
LEMMA MockInitially == MockInit => MockInv
<1> SUFFICES ASSUME MockInit PROVE MockInv
  OBVIOUS
<1>1. MockTypeOK
  <2>1. {elapsed, leaseAge} \subseteq 0..Late
    BY MockAssumption DEF MockInit, Late
  <2>2. /\ goalAt \in [MockGoals -> InLoop \cup {"unsent", "accepted", "ended"}]
        /\ cancelAsked \in [MockGoals -> BOOLEAN] /\ destination \in [MockGoals -> Destinations]
    BY DEF MockInit
  <2>3. /\ mockEstop = TRUE /\ localized = FALSE
        /\ session \in MockSessions \cup {0} /\ commandAge \in 0..1 /\ heldFor \in 0..2
    BY DEF MockInit
  <2>4. /\ mockActive \in MockGoals \cup {0} /\ leaseOf \in MockGoals \cup {0}
        /\ mockProfile \in MockProfiles /\ mockState = "IDLE"
    BY DEF MockInit, MockProfiles
  <2> QED
    BY <2>1, <2>2, <2>3, <2>4 DEF MockTypeOK
<1>2. HeldIsEngaged /\ HeldIsRead /\ HeldIsOver /\ LeaseWasRead
  BY DEF MockInit, HeldIsEngaged, HeldIsRead, HeldIsOver, LeaseWasRead
<1>3. MockNeedsLease
  BY DEF MockInit, MockNeedsLease, Executing, InLoop
<1> QED
  BY <1>1, <1>2, <1>3 DEF MockInv

\* Every callback, every step of a goal's loop and every tick keeps the types.
LEMMA MockTypeStep == MockTypeOK /\ [MockNext]_mockVars => MockTypeOK'
<1> SUFFICES ASSUME MockTypeOK, [MockNext]_mockVars PROVE MockTypeOK'
  OBVIOUS
<1> USE MockAssumption
    DEF MockTypeOK, MockProfiles, InLoop, Late, GoalMoves, steady, mockSafety, mockManual, mockLease,
        mockGoal
<1>1. ASSUME NEW engaged \in BOOLEAN, SetMockEstop(engaged) PROVE MockTypeOK'
  BY <1>1 DEF SetMockEstop
<1>2. ASSUME NEW s \in MockSessions, MockDrives(s) PROVE MockTypeOK'
  BY <1>2 DEF MockDrives
<1>3. CASE MockDriveStops
  BY <1>3 DEF MockDriveStops
<1>4. ASSUME NEW profile \in MockProfiles, SetMockProfile(profile) PROVE MockTypeOK'
  BY <1>4 DEF SetMockProfile
<1>5. CASE SetMockPose
  BY <1>5 DEF SetMockPose
<1>6. ASSUME NEW g \in MockGoals, MockHearsLease(g) PROVE MockTypeOK'
  BY <1>6 DEF MockHearsLease
<1>7. ASSUME NEW g \in MockGoals, MockCancel(g) PROVE MockTypeOK'
  BY <1>7 DEF MockCancel
<1>8. ASSUME NEW g \in MockGoals, MockAccepts(g) PROVE MockTypeOK'
  BY <1>8 DEF MockAccepts
<1>9. ASSUME NEW g \in MockGoals, MockExecutes(g) PROVE MockTypeOK'
  BY <1>9 DEF MockExecutes
<1>10. ASSUME NEW g \in MockGoals, MockReads(g) PROVE MockTypeOK'
  BY <1>10 DEF MockReads
<1>11. ASSUME NEW g \in MockGoals, MockMoves(g) PROVE MockTypeOK'
  BY <1>11 DEF MockMoves
<1>12. ASSUME NEW g \in MockGoals, MockFinishes(g) PROVE MockTypeOK'
  <2>1. mockState' \in {"CANCELED", "LEASE_EXPIRED", "FAILED", "SUCCEEDED", mockState}
    BY <1>12 DEF MockFinishes, Verdicts
  <2> QED
    BY <1>12, <2>1 DEF MockFinishes
<1>13. CASE MockPublishes
  BY <1>13 DEF MockPublishes
<1>14. CASE MockTicks
  BY <1>14 DEF MockTicks, Capped
<1>15. CASE UNCHANGED mockVars
  BY <1>15 DEF mockVars
<1> QED
  BY <1>1, <1>2, <1>3, <1>4, <1>5, <1>6, <1>7, <1>8, <1>9, <1>10, <1>11, <1>12, <1>13, <1>14,
     <1>15 DEF MockNext

\* Where the goals can be after one tick and after two of an engaged e-stop, and
\* what the lease was when a loop last came round.
LEMMA MockStep ==
  MockInv /\ [MockNext]_mockVars =>
    HeldIsEngaged' /\ HeldIsRead' /\ HeldIsOver' /\ LeaseWasRead' /\ MockNeedsLease'
<1> SUFFICES ASSUME MockInv, [MockNext]_mockVars
             PROVE  HeldIsEngaged' /\ HeldIsRead' /\ HeldIsOver' /\ LeaseWasRead' /\ MockNeedsLease'
  OBVIOUS
<1> DEFINE Goal ==
      HeldIsEngaged' /\ HeldIsRead' /\ HeldIsOver' /\ LeaseWasRead' /\ MockNeedsLease'
<1> USE MockAssumption
    DEF MockInv, MockTypeOK, HeldIsEngaged, HeldIsRead, HeldIsOver, LeaseWasRead, MockNeedsLease,
        Executing, InLoop, Late, GoalMoves, steady, mockSafety, mockManual, mockLease, mockGoal
<1>1. ASSUME NEW engaged \in BOOLEAN, SetMockEstop(engaged) PROVE Goal
  BY <1>1 DEF SetMockEstop
<1>2. ASSUME NEW s \in MockSessions, MockDrives(s) PROVE Goal
  BY <1>2 DEF MockDrives
<1>3. CASE MockDriveStops
  BY <1>3 DEF MockDriveStops
<1>4. ASSUME NEW profile \in MockProfiles, SetMockProfile(profile) PROVE Goal
  BY <1>4 DEF SetMockProfile
<1>5. CASE SetMockPose
  BY <1>5 DEF SetMockPose
<1>6. ASSUME NEW g \in MockGoals, MockHearsLease(g) PROVE Goal
  BY <1>6 DEF MockHearsLease
<1>7. ASSUME NEW g \in MockGoals, MockCancel(g) PROVE Goal
  BY <1>7 DEF MockCancel
<1>8. ASSUME NEW g \in MockGoals, MockAccepts(g) PROVE Goal
  BY <1>8 DEF MockAccepts
<1>9. ASSUME NEW g \in MockGoals, MockExecutes(g) PROVE Goal
  BY <1>9 DEF MockExecutes
<1>10. ASSUME NEW g \in MockGoals, MockReads(g) PROVE Goal
  BY <1>10 DEF MockReads, Cancels, Unleased
<1>11. ASSUME NEW g \in MockGoals, MockMoves(g) PROVE Goal
  BY <1>11 DEF MockMoves
<1>12. ASSUME NEW g \in MockGoals, MockFinishes(g) PROVE Goal
  BY <1>12 DEF MockFinishes
<1>13. CASE MockPublishes
  BY <1>13 DEF MockPublishes
<1>14. CASE MockTicks
  BY <1>14 DEF MockTicks, Capped
<1>15. CASE UNCHANGED mockVars
  BY <1>15 DEF mockVars
<1> QED
  BY <1>1, <1>2, <1>3, <1>4, <1>5, <1>6, <1>7, <1>8, <1>9, <1>10, <1>11, <1>12, <1>13, <1>14,
     <1>15 DEF MockNext

\* THEOREM: two ticks of an engaged e-stop end every goal and every session, and
\* no goal outlives its lease by more than a tick, however the four threads of
\* the mock interleave.
THEOREM MockStopped == MockSpec => []MockStops
<1>1. MockInv /\ [MockNext]_mockVars => MockInv'
  BY MockTypeStep, MockStep DEF MockInv
<1>2. MockInv => MockStops
  BY DEF MockInv, MockStops, MockObeysEstop, HeldIsEngaged, HeldIsOver, Executing, InLoop
<1> QED
  BY MockInitially, <1>1, <1>2, PTL DEF MockSpec

-----------------------------------------------------------------------------
(* GoalProgress                                                              *)

\* The timer let the goal go on in this step of time: none of the times is up.
LetGoOn ==
  checked /\ failure = "none" =>
    now < MaxDuration /\ now - lastProgress < ProgressTimeout

\* Progress is never seen later than the feedback it was seen in.
ProgressIsHeard == lastProgress <= changedAt /\ changedAt <= now /\ lastFeedback <= now

\* The last feedback is what the monitor compares with, up to less than a step of
\* progress: the same again is none.
RepeatedIsNone ==
  heardOnce =>
    /\ report.distance + DistanceProgress > best
    /\ Between(Target, report.yaw) + YawProgress > bestYawError
    /\ Between(report.yaw, progressYaw) < YawProgress

\* The best distance was reached before the timeout began, or in a step of time
\* since then at which progress was seen or after which it was.
BestWasReached ==
  heardOnce =>
    \/ earlier <= best
    \/ \E i \in 1..ProgressTimeout :
         nearest[i] <= best /\ now + i <= lastProgress + ProgressTimeout

\* Before the first feedback there is no distance.
NothingHeard == ~heardOnce => report.distance = Beyond

\* A goal that failed for want of progress had none for the whole timeout.
FailedIsFar == failure = "progress" => now >= lastProgress + ProgressTimeout

ProgressInv ==
  /\ ProgressTypeOK
  /\ LetGoOn
  /\ ProgressIsHeard
  /\ RepeatedIsNone
  /\ BestWasReached
  /\ NothingHeard
  /\ FailedIsFar

\* What the steps below compute with, as numbers.
Numbers ==
  /\ now \in Nat /\ lastFeedback \in Nat /\ lastProgress \in Nat /\ changedAt \in Nat
  /\ best \in Nat /\ bestYawError \in Nat /\ progressYaw \in Nat /\ recoveries \in Nat
  /\ earlier \in Nat /\ earlier <= Beyond
  /\ report.distance \in Nat /\ report.yaw \in Yaws
  /\ \A i \in 1..ProgressTimeout : nearest[i] \in Nat

\* The constants, one by one.
LEMMA TimesAndSteps ==
  /\ MaxDistance \in Nat /\ Turn \in Nat /\ Turn > 0
  /\ DistanceProgress \in Nat /\ DistanceProgress > 0 /\ YawProgress \in Nat /\ YawProgress > 0
  /\ ProgressTimeout \in Nat /\ ProgressTimeout > 0
  /\ MaxDuration \in Nat /\ FeedbackTimeout \in Nat
  /\ Beyond \in Nat /\ Beyond = MaxDistance + 1 /\ Target \in Yaws
BY ProgressAssumption DEF Beyond, Target, Yaws

\* A distance, or none, is a number.
LEMMA TypedNumbers == ProgressTypeOK => Numbers
<1> SUFFICES ASSUME ProgressTypeOK PROVE Numbers
  OBVIOUS
<1>1. Distances \cup {Beyond} \subseteq Nat /\ \A d \in Distances \cup {Beyond} : d <= Beyond
  BY TimesAndSteps DEF Distances
<1>2. /\ now \in Nat /\ lastFeedback \in Nat /\ lastProgress \in Nat /\ changedAt \in Nat
      /\ best \in Nat /\ bestYawError \in Nat /\ progressYaw \in Nat /\ recoveries \in Nat
  BY TimesAndSteps DEF ProgressTypeOK
<1>3. /\ earlier \in Distances \cup {Beyond}
      /\ report.distance \in Distances \cup {Beyond} /\ report.yaw \in Yaws
      /\ \A i \in 1..ProgressTimeout : nearest[i] \in Distances \cup {Beyond}
  BY DEF ProgressTypeOK
<1> QED
  BY <1>1, <1>2, <1>3 DEF Numbers

\* Between two yaws there is an angle, and none between a yaw and itself.
LEMMA BetweenYaws ==
  \A i \in Yaws, j \in Nat : Between(i, j) \in Nat /\ Between(i, i) = 0
<1> SUFFICES ASSUME NEW i \in Yaws, NEW j \in Nat
             PROVE  Between(i, j) \in Nat /\ Between(i, i) = 0
  OBVIOUS
<1>1. Turn \in Nat /\ Turn > 0 /\ i \in 0..Turn - 1
  BY TimesAndSteps DEF Yaws
<1>2. (i + Turn - j) % Turn \in 0..Turn - 1
  BY <1>1
<1>3. Between(i, j) \in Nat
  BY <1>1, <1>2 DEF Between, Less
<1>4. (i + Turn - i) % Turn = 0
  BY <1>1
<1>5. Between(i, i) = 0
  BY <1>1, <1>4 DEF Between, Less
<1> QED
  BY <1>3, <1>5

\* A goal that was sent has had no feedback.
LEMMA ProgressInitially == ProgressInit => ProgressInv
<1> SUFFICES ASSUME ProgressInit PROVE ProgressInv
  OBVIOUS
<1>1. ProgressTypeOK
  <2>1. report \in [distance : Distances \cup {Beyond}, yaw : Yaws]
    BY TimesAndSteps DEF ProgressInit
  <2>2. nearest \in [1..ProgressTimeout -> Distances \cup {Beyond}] /\ earlier = Beyond
    BY DEF ProgressInit
  <2>3. {now, lastFeedback, lastProgress, changedAt} \subseteq 0..MaxDuration
    BY TimesAndSteps DEF ProgressInit
  <2>4. {heardOnce, checked} \subseteq BOOLEAN /\ failure = "none"
    BY DEF ProgressInit
  <2>5. {best, bestYawError, progressYaw, recoveries} \subseteq Nat
    BY DEF ProgressInit
  <2>6. earlier \in Distances \cup {Beyond}
    BY <2>2
  <2> QED
    BY <2>1, <2>2, <2>3, <2>4, <2>5, <2>6 DEF ProgressTypeOK
<1>2. LetGoOn /\ ProgressIsHeard /\ NothingHeard /\ FailedIsFar
  BY DEF ProgressInit, LetGoOn, ProgressIsHeard, NothingHeard, FailedIsFar
<1>3. RepeatedIsNone /\ BestWasReached
  BY DEF ProgressInit, RepeatedIsNone, BestWasReached
<1> QED
  BY <1>1, <1>2, <1>3 DEF ProgressInv

\* The clock stops at the longest duration, and every distance is one or none.
LEMMA ProgressTypeStep == ProgressInv /\ [ProgressNext]_progressVars => ProgressTypeOK'
<1> SUFFICES ASSUME ProgressInv, [ProgressNext]_progressVars PROVE ProgressTypeOK'
  OBVIOUS
<1>0. ProgressTypeOK /\ Numbers /\ LetGoOn
  BY TypedNumbers DEF ProgressInv
<1> USE TimesAndSteps DEF ProgressTypeOK
<1>1. ASSUME NEW distance \in Distances, NEW yaw \in Yaws, NEW count \in 0..MaxRecoveries,
             Feedback(distance, yaw, count)
      PROVE  ProgressTypeOK'
  <2>1. Between(Target, yaw) \in Nat /\ yaw \in Nat /\ distance \in Nat /\ count \in Nat
    BY BetweenYaws DEF Yaws, Distances
  <2>3. report' \in [distance : Distances \cup {Beyond}, yaw : Yaws]
    BY <1>1 DEF Feedback
  <2>4. nearest' \in [1..ProgressTimeout -> Distances \cup {Beyond}]
    BY <1>0, <1>1 DEF Feedback, Less
  <2>5. best' \in Nat /\ bestYawError' \in Nat /\ progressYaw' \in Nat /\ recoveries' \in Nat
    BY <1>0, <1>1, <2>1 DEF Feedback, BestDistance, Less, Numbers
  <2>6. {now', lastFeedback', lastProgress', changedAt'} \subseteq 0..MaxDuration
    BY <1>0, <1>1 DEF Feedback, ProgressAt
  <2>7. UNCHANGED <<failure, checked, earlier>> /\ heardOnce' = TRUE
    BY <1>1 DEF Feedback
  <2> QED
    BY <1>0, <2>3, <2>4, <2>5, <2>6, <2>7
<1>2. CASE CheckProgress
  BY <1>0, <1>2 DEF CheckProgress, monitor, told
<1>3. CASE SecondPasses
  <2>1. now' \in 0..MaxDuration
    BY <1>0, <1>3 DEF SecondPasses, LetGoOn, Numbers
  <2>2. nearest' \in [1..ProgressTimeout -> Distances \cup {Beyond}]
    <3>1. \A i \in 1..ProgressTimeout : i < ProgressTimeout => i + 1 \in 1..ProgressTimeout
      OBVIOUS
    <3> QED
      BY <1>0, <1>3, <3>1 DEF SecondPasses
  <2>3. earlier' \in Distances \cup {Beyond}
    <3>1. nearest[1] \in Distances \cup {Beyond}
      BY <1>0
    <3> QED
      BY <1>0, <1>3, <3>1 DEF SecondPasses, Less
  <2> QED
    BY <1>0, <1>3, <2>1, <2>2, <2>3 DEF SecondPasses, monitor
<1>4. CASE UNCHANGED progressVars
  BY <1>0, <1>4 DEF progressVars, monitor, told
<1> QED
  BY <1>1, <1>2, <1>3, <1>4 DEF ProgressNext

\* What the monitor remembers of the feedback is what it was told, and time only
\* moves what it was told into the past.
LEMMA ProgressStep == ProgressInv /\ [ProgressNext]_progressVars => ProgressInv'
<1> SUFFICES ASSUME ProgressInv, [ProgressNext]_progressVars PROVE ProgressInv'
  OBVIOUS
<1>0. ProgressTypeOK' /\ Numbers
  BY ProgressTypeStep, TypedNumbers DEF ProgressInv
<1> USE TimesAndSteps DEF ProgressInv
<1> DEFINE Rest ==
      LetGoOn' /\ ProgressIsHeard' /\ RepeatedIsNone' /\ BestWasReached' /\ NothingHeard'
        /\ FailedIsFar'
<1>1. ASSUME NEW distance \in Distances, NEW yaw \in Yaws, NEW count \in 0..MaxRecoveries,
             Feedback(distance, yaw, count)
      PROVE  Rest
  <2> DEFINE error == Between(Target, yaw)
             starts == ~heardOnce \/ count > recoveries
             nearer == distance + DistanceProgress <= best
             turned == error + YawProgress <= bestYawError \/ Between(yaw, progressYaw) >= YawProgress
  <2>1. /\ error \in Nat /\ Between(yaw, yaw) = 0 /\ Between(yaw, progressYaw) \in Nat
        /\ distance \in Nat
    <3>1. Target \in Yaws /\ yaw \in Yaws /\ yaw \in Nat /\ progressYaw \in Nat
      BY <1>0 DEF Yaws, Numbers
    <3>2. Between(Target, yaw) \in Nat
      BY <3>1, BetweenYaws
    <3>3. Between(yaw, yaw) = 0 /\ Between(yaw, progressYaw) \in Nat
      BY <3>1, BetweenYaws
    <3> QED
      BY <3>2, <3>3 DEF Distances
  <2>2. /\ failure = "none" /\ heardOnce' = TRUE /\ lastFeedback' = now
        /\ report' = [distance |-> distance, yaw |-> yaw]
        /\ changedAt' = IF report' # report \/ starts THEN now ELSE changedAt
        /\ now' = now /\ failure' = failure /\ checked' = checked /\ earlier' = earlier
    BY <1>1 DEF Feedback
  <2>3. starts => /\ best' = distance /\ bestYawError' = error /\ progressYaw' = yaw
                  /\ lastProgress' = now
    BY <1>1 DEF Feedback
  <2>4. ~starts => /\ best' = IF nearer THEN distance ELSE best
                   /\ bestYawError' = IF turned THEN Less(bestYawError, error) ELSE bestYawError
                   /\ progressYaw' = IF turned THEN yaw ELSE progressYaw
                   /\ lastProgress' = IF nearer \/ turned THEN now ELSE lastProgress
    BY <1>1 DEF Feedback, BestDistance, ProgressAt
  <2>5. /\ nearest'[ProgressTimeout] <= distance
        /\ \A i \in 1..ProgressTimeout : nearest'[i] <= nearest[i] /\ nearest'[i] \in Nat
    <3>1. nearest \in [1..ProgressTimeout -> Distances \cup {Beyond}]
      BY DEF ProgressTypeOK
    <3>2. nearest' = [nearest EXCEPT ![ProgressTimeout] = Less(@, distance)]
      BY <1>1 DEF Feedback
    <3>3. \A i \in 1..ProgressTimeout :
            nearest'[i] = IF i = ProgressTimeout THEN Less(nearest[i], distance) ELSE nearest[i]
      BY <3>1, <3>2
    <3> QED
      BY <1>0, <2>1, <3>3 DEF Less, Numbers
  <2>6. /\ report'.distance = distance /\ report'.yaw = yaw
        /\ report' = report => report.distance = distance /\ report.yaw = yaw
    BY <2>2
  <2> HIDE DEF error, starts, nearer, turned
  <2>7. nearer \/ turned => report' # report \/ starts
    <3> SUFFICES ASSUME report' = report, ~starts PROVE ~nearer /\ ~turned
      BY <2>6
    <3>1. heardOnce
      BY DEF starts
    <3>2. /\ distance + DistanceProgress > best /\ error + YawProgress > bestYawError
          /\ Between(yaw, progressYaw) < YawProgress
      BY <3>1, <2>6 DEF RepeatedIsNone, error
    <3> QED
      BY <3>2, <2>1, <1>0 DEF nearer, turned, Numbers
  <2>8. LetGoOn' /\ FailedIsFar' /\ NothingHeard'
    <3>1. lastProgress' = now \/ lastProgress' = lastProgress
      BY <2>3, <2>4
    <3>2. LetGoOn'
      BY <3>1, <1>0, <2>2 DEF LetGoOn, Numbers
    <3> QED
      BY <3>2, <2>2 DEF FailedIsFar, NothingHeard
  <2>9. ProgressIsHeard'
    BY <1>0, <2>2, <2>3, <2>4, <2>7 DEF ProgressIsHeard, Numbers
  <2>10. RepeatedIsNone'
    <3>2. distance + DistanceProgress > best'
      BY <1>0, <2>1, <2>3, <2>4 DEF nearer, Numbers
    <3>3. error + YawProgress > bestYawError'
      BY <1>0, <2>1, <2>3, <2>4 DEF turned, Less, Numbers
    <3>4. Between(yaw, progressYaw') < YawProgress
      <4>1. CASE starts \/ turned
        <5>1. progressYaw' = yaw
          BY <4>1, <2>3, <2>4
        <5> QED
          BY <5>1, <2>1
      <4>2. CASE ~starts /\ ~turned
        <5>1. progressYaw' = progressYaw /\ ~(Between(yaw, progressYaw) >= YawProgress)
          BY <4>2, <2>4 DEF turned
        <5> QED
          BY <5>1, <2>1
      <4> QED
        BY <4>1, <4>2
    <3> QED
      BY <2>6, <3>2, <3>3, <3>4 DEF RepeatedIsNone, error
  <2>11. BestWasReached'
    <3>1. CASE starts \/ nearer
      <4>1. best' = distance /\ lastProgress' = now
        BY <3>1, <2>3, <2>4
      <4>2. nearest'[ProgressTimeout] <= best' /\ now' + ProgressTimeout <= lastProgress' + ProgressTimeout
        BY <1>0, <4>1, <2>2, <2>5 DEF Numbers
      <4> QED
        BY <4>2 DEF BestWasReached
    <3>2. CASE ~starts /\ ~nearer
      <4>1. best' = best /\ heardOnce /\ (lastProgress' = now \/ lastProgress' = lastProgress)
        BY <3>2, <2>4 DEF starts
      <4>2. CASE earlier <= best
        BY <2>2, <4>1, <4>2 DEF BestWasReached
      <4>3. ASSUME NEW i \in 1..ProgressTimeout,
                   nearest[i] <= best, now + i <= lastProgress + ProgressTimeout
            PROVE  BestWasReached'
        <5>1. nearest'[i] <= best'
          BY <1>0, <4>1, <4>3, <2>5 DEF Numbers
        <5>2. now' + i <= lastProgress' + ProgressTimeout
          <6>1. lastProgress <= now
            BY <1>0 DEF ProgressIsHeard, Numbers
          <6> QED
            BY <1>0, <6>1, <2>2, <4>1, <4>3 DEF Numbers
        <5> QED
          BY <5>1, <5>2 DEF BestWasReached
      <4> QED
        BY <4>1, <4>2, <4>3 DEF BestWasReached
    <3> QED
      BY <3>1, <3>2
  <2> QED
    BY <2>8, <2>9, <2>10, <2>11
<1>2. CASE CheckProgress
  <2>1. /\ UNCHANGED <<now, lastFeedback, lastProgress, heardOnce, best, bestYawError, progressYaw,
                       report, changedAt, nearest, earlier>>
        /\ failure = "none" /\ checked'
    BY <1>2 DEF CheckProgress, monitor, told
  <2>2. failure' = "none" => now < MaxDuration /\ now - lastProgress < ProgressTimeout
    BY <1>0, <1>2 DEF CheckProgress, Numbers
  <2>3. failure' = "progress" => now - lastProgress >= ProgressTimeout
    BY <1>0, <1>2 DEF CheckProgress, Numbers
  <2>4. LetGoOn' /\ FailedIsFar'
    BY <1>0, <2>1, <2>2, <2>3 DEF LetGoOn, FailedIsFar, Numbers
  <2>5. ProgressIsHeard' /\ RepeatedIsNone' /\ BestWasReached' /\ NothingHeard'
    BY <2>1 DEF ProgressIsHeard, RepeatedIsNone, BestWasReached, NothingHeard
  <2> QED
    BY <1>0, <2>4, <2>5
<1>3. CASE SecondPasses
  <2>1. /\ UNCHANGED <<lastFeedback, lastProgress, heardOnce, best, bestYawError, progressYaw,
                       report, changedAt, failure>>
        /\ now' = now + 1 /\ checked' = FALSE /\ failure = "none"
        /\ earlier' = Less(earlier, nearest[1])
        /\ nearest' = [i \in 1..ProgressTimeout |->
                         IF i < ProgressTimeout THEN nearest[i + 1] ELSE Beyond]
    BY <1>3 DEF SecondPasses, monitor
  <2>2. LetGoOn' /\ ProgressIsHeard' /\ RepeatedIsNone' /\ NothingHeard' /\ FailedIsFar'
    BY <1>0, <2>1
       DEF LetGoOn, ProgressIsHeard, RepeatedIsNone, NothingHeard, FailedIsFar, Numbers
  <2>3. earlier' <= earlier /\ earlier' <= nearest[1] /\ earlier' \in Nat /\ nearest[1] \in Nat
    BY <1>0, <2>1 DEF Less, Numbers
  <2>4. BestWasReached'
    <3>1. CASE ~heardOnce \/ earlier <= best
      BY <1>0, <3>1, <2>1, <2>3 DEF BestWasReached, Numbers
    <3>2. ASSUME NEW i \in 1..ProgressTimeout,
                 nearest[i] <= best, now + i <= lastProgress + ProgressTimeout
          PROVE  BestWasReached'
      <4>1. CASE i = 1
        BY <1>0, <4>1, <3>2, <2>1, <2>3 DEF BestWasReached, Numbers
      <4>2. CASE i # 1
        <5>1. i - 1 \in 1..ProgressTimeout /\ nearest'[i - 1] = nearest[i]
          BY <4>2, <2>1
        <5>2. now' + (i - 1) <= lastProgress' + ProgressTimeout
          BY <1>0, <3>2, <2>1 DEF Numbers
        <5> QED
          BY <5>1, <5>2, <3>2, <2>1 DEF BestWasReached
      <4> QED
        BY <4>1, <4>2
    <3> QED
      BY <3>1, <3>2 DEF BestWasReached
  <2> QED
    BY <1>0, <2>2, <2>4
<1>4. CASE UNCHANGED progressVars
  BY <1>0, <1>4 DEF progressVars, monitor, told, LetGoOn, ProgressIsHeard, RepeatedIsNone, BestWasReached,
              NothingHeard, FailedIsFar
<1> QED
  BY <1>0, <1>1, <1>2, <1>3, <1>4 DEF ProgressNext

\* THEOREM: a goal the timer lets go on was told something new within the
\* progress timeout, and a goal it fails for lack of progress is no step nearer
\* than it was before the timeout began, for any distances, angles and times.
THEOREM ProgressJudged == ProgressSpec => []ProgressIsJudged
<1>1. ProgressInv => ProgressIsJudged
  <2> SUFFICES ASSUME ProgressInv PROVE StuckGoalFails /\ CreepingIsProgress
    BY DEF ProgressIsJudged
  <2>0. Numbers
    BY TypedNumbers DEF ProgressInv
  <2> USE TimesAndSteps DEF ProgressInv
  <2>1. StuckGoalFails
    BY <2>0 DEF Numbers, StuckGoalFails, LetGoOn, ProgressIsHeard
  <2>2. ASSUME failure = "progress" PROVE report.distance + DistanceProgress > earlier
    <3>1. CASE ~heardOnce
      BY <2>0, <3>1 DEF NothingHeard, Numbers
    <3>2. CASE heardOnce
      <4>1. earlier <= best
        BY <2>0, <3>2, <2>2 DEF BestWasReached, FailedIsFar, Numbers
      <4> QED
        BY <2>0, <3>2, <4>1 DEF RepeatedIsNone, Numbers
    <3> QED
      BY <3>1, <3>2
  <2> QED
    BY <2>1, <2>2 DEF CreepingIsProgress
<1> QED
  BY ProgressInitially, ProgressStep, <1>1, PTL DEF ProgressSpec

-----------------------------------------------------------------------------
(* ProfileManager                                                            *)

\* A unit is started where none runs and systemd has no job for the other.
StartsAlone ==
  /\ startJob # "none" => units = {}
  /\ manager = "starting" => units = {} /\ startJob = "none" /\ target \in Units

ProfileInv == ProfileTypeOK /\ OneUnitAtMost /\ StartsAlone

LEMMA ProfileInitially == ProfileInit => ProfileInv
<1> SUFFICES ASSUME ProfileInit PROVE ProfileInv
  OBVIOUS
<1>1. inbox \in Seq(Requests)
  BY EmptySeq DEF ProfileInit
<1>2. units \subseteq Units /\ units # Units
  BY DEF ProfileInit, Units
<1>3. published \in [profile : Profiles, transitioning : BOOLEAN]
  BY DEF ProfileInit, ActiveProfile, Profiles, Units
<1>4. asks \in 0..MaxProfileRequests /\ managerDeaths \in 0..MaxManagerDeaths
  BY ProfileAssumption DEF ProfileInit
<1>5. /\ manager = "spinning" /\ target \in Profiles /\ startJob = "none"
      /\ transitioning \in BOOLEAN /\ mapFile \in BOOLEAN /\ seen = published
  BY DEF ProfileInit, Profiles
<1> QED
  BY <1>1, <1>2, <1>3, <1>4, <1>5
     DEF ProfileInv, ProfileTypeOK, OneUnitAtMost, StartsAlone, ManagerStates

\* A status that is published is one.
LEMMA PublishedIsStatus ==
  ASSUME PublishStatus, transitioning' \in BOOLEAN
  PROVE  published' \in [profile : Profiles, transitioning : BOOLEAN]
<1>1. ActiveProfile' \in Profiles
  BY DEF ActiveProfile, Profiles, Units
<1> QED
  BY <1>1 DEF PublishStatus

\* The two ways a step of a transition ends.
LEMMA TransitionEnded ==
  ASSUME ProfileTypeOK, TransitionReturns, units' \subseteq Units,
         startJob' \in Units \cup {"none"}
  PROVE  ProfileTypeOK'
<1>1. published' \in [profile : Profiles, transitioning : BOOLEAN]
  BY PublishedIsStatus DEF TransitionReturns
<1> QED
  BY <1>1 DEF TransitionReturns, ProfileTypeOK, ManagerStates

LEMMA ManagerWent ==
  ASSUME ProfileTypeOK, NEW next \in ManagerStates, ManagerGoes(next), units' \subseteq Units,
         startJob' \in Units \cup {"none"}
  PROVE  ProfileTypeOK'
BY DEF ManagerGoes, ProfileTypeOK

LEMMA ProfileStep == ProfileInv /\ [ProfileNext]_profileVars => ProfileInv'
<1> SUFFICES ASSUME ProfileInv, [ProfileNext]_profileVars PROVE ProfileInv'
  OBVIOUS
<1> USE DEF ProfileInv, OneUnitAtMost, StartsAlone
<1>1. /\ MaxProfileRequests \in Nat /\ MaxManagerDeaths \in Nat
      /\ asks \in Nat /\ managerDeaths \in Nat
  BY ProfileAssumption DEF ProfileTypeOK
<1>2. /\ units \subseteq Units /\ startJob \in Units \cup {"none"} /\ target \in Profiles
      /\ transitioning \in BOOLEAN /\ mapFile \in BOOLEAN
  BY DEF ProfileTypeOK
<1>3. inbox # <<>> => Head(inbox) \in Requests /\ Tail(inbox) \in Seq(Requests)
  BY HeadTailProperties DEF ProfileTypeOK
<1>4. <<>> \in Seq(Requests)
  BY EmptySeq
<1>5. CASE TakesProfile
  <2>1. /\ manager' = "stopping" /\ target' \in Profiles /\ transitioning' = TRUE
        /\ inbox' \in Seq(Requests)
        /\ UNCHANGED <<units, startJob, mapFile, asks, managerDeaths, seen>>
    BY <1>3, <1>5 DEF TakesProfile, systemd
  <2>2. published' \in [profile : Profiles, transitioning : BOOLEAN]
    BY <1>5, <2>1, PublishedIsStatus DEF TakesProfile
  <2> QED
    BY <2>1, <2>2 DEF ProfileTypeOK, ManagerStates
<1>6. CASE StopsBoth
  <2>1. /\ units' \subseteq units /\ units' \subseteq Units
        /\ startJob' \in {startJob, "none"} /\ startJob' \in Units \cup {"none"}
    BY <1>2, <1>6 DEF StopsBoth, StopSucceeds, StopFails
  <2>2. CASE TransitionReturns
    <3>1. manager' = "spinning"
      BY <2>2 DEF TransitionReturns
    <3>2. units' # Units /\ (startJob' # "none" => units' = {})
      BY <1>2, <2>1
    <3>3. ProfileTypeOK'
      BY <2>1, <2>2, TransitionEnded
    <3> QED
      BY <3>1, <3>2, <3>3
  <2>3. CASE ManagerGoes("starting") /\ StopSucceeds /\ target # "IDLE"
    <3>1. ProfileTypeOK'
      BY <2>1, <2>3, ManagerWent DEF ManagerStates
    <3>2. units' = {} /\ startJob' = "none" /\ target' = target /\ manager' = "starting"
      BY <2>3 DEF ManagerGoes, StopSucceeds
    <3> QED
      BY <1>2, <2>3, <3>1, <3>2 DEF Profiles, Units
  <2> QED
    BY <1>6, <2>2, <2>3 DEF StopsBoth
<1>7. CASE StartsTarget
  <2>1. units = {} /\ startJob = "none" /\ target \in Units
    BY <1>7 DEF StartsTarget
  <2>2. CASE units' = units \cup {target} /\ UNCHANGED startJob /\ TransitionReturns
    <3>1. manager' = "spinning"
      BY <2>2 DEF TransitionReturns
    <3>2. units' = {target} /\ startJob' = "none"
      BY <2>1, <2>2
    <3>3. units' \subseteq Units /\ units' # Units
      BY <2>1, <3>2 DEF Units
    <3> QED
      BY <2>2, <3>1, <3>2, <3>3, TransitionEnded
  <2>3. CASE UNCHANGED systemd /\ ManagerGoes("undoing")
    <3>1. manager' = "undoing" /\ UNCHANGED <<units, startJob>>
      BY <2>3 DEF ManagerGoes, systemd
    <3> QED
      BY <1>2, <2>3, <3>1, ManagerWent DEF ManagerStates
  <2> QED
    BY <1>7, <2>2, <2>3 DEF StartsTarget
<1>8. CASE Undoes
  <2>1. /\ units' \subseteq units /\ units' \subseteq Units /\ TransitionReturns
        /\ startJob' \in {startJob, "none"} /\ startJob' \in Units \cup {"none"}
    BY <1>2, <1>8 DEF Undoes, StopSucceeds, StopFails
  <2>2. manager' = "spinning"
    BY <2>1 DEF TransitionReturns
  <2>3. units' # Units /\ (startJob' # "none" => units' = {})
    BY <1>2, <2>1
  <2>4. ProfileTypeOK'
    BY <2>1, TransitionEnded
  <2> QED
    BY <2>2, <2>3, <2>4
<1>9. CASE TakesSave
  <2>1. /\ inbox' \in Seq(Requests) /\ manager' \in {"saving", "spinning"}
        /\ UNCHANGED <<units, startJob, target, transitioning, mapFile, asks, managerDeaths, seen>>
        /\ published' = published \/ PublishStatus
    BY <1>3, <1>9 DEF TakesSave, systemd
  <2>2. published' \in [profile : Profiles, transitioning : BOOLEAN]
    BY <1>2, <2>1, PublishedIsStatus DEF ProfileTypeOK
  <2> QED
    BY <2>1, <2>2 DEF ProfileTypeOK, ManagerStates
<1>10. CASE SaveReturns
  <2>1. /\ mapFile' \in BOOLEAN /\ manager' = "spinning"
        /\ UNCHANGED <<units, startJob, target, transitioning, inbox, asks, managerDeaths, seen>>
    BY <1>2, <1>10 DEF SaveReturns, systemd
  <2>2. published' \in [profile : Profiles, transitioning : BOOLEAN]
    BY <1>2, <1>10, <2>1, PublishedIsStatus DEF SaveReturns
  <2> QED
    BY <2>1, <2>2 DEF ProfileTypeOK, ManagerStates
<1>11. CASE SystemctlTimesOut
  <2>1. /\ manager' = "dead" /\ managerDeaths' \in 0..MaxManagerDeaths
        /\ UNCHANGED <<target, transitioning, mapFile, inbox, asks, published, seen>>
    BY <1>1, <1>11 DEF SystemctlTimesOut
  <2>2. /\ units' \subseteq units
        /\ startJob' # "none" => units' = {}
        /\ startJob' \in Units \cup {"none"}
    BY <1>2, <1>11 DEF SystemctlTimesOut, StopFails
  <2>3. units' \subseteq Units /\ units' # Units
    BY <1>2, <2>2
  <2> QED
    BY <2>1, <2>2, <2>3 DEF ProfileTypeOK, ManagerStates
<1>12. CASE TimerPublishes
  <2>1. UNCHANGED <<units, startJob, manager, target, transitioning, mapFile, inbox, asks,
                    managerDeaths, seen>>
    BY <1>12 DEF TimerPublishes, systemd
  <2>2. published' \in [profile : Profiles, transitioning : BOOLEAN]
    BY <1>2, <1>12, <2>1, PublishedIsStatus DEF TimerPublishes
  <2> QED
    BY <2>1, <2>2 DEF ProfileTypeOK
<1>13. CASE ManagerDies
  BY <1>1, <1>13 DEF ManagerDies, systemd, ProfileTypeOK, ManagerStates
<1>14. CASE ManagerRespawns
  <2>1. /\ manager' = "spinning" /\ transitioning' = FALSE /\ inbox' = <<>>
        /\ UNCHANGED <<units, startJob, target, mapFile, asks, managerDeaths, seen>>
    BY <1>14 DEF ManagerRespawns, systemd
  <2>2. published' \in [profile : Profiles, transitioning : BOOLEAN]
    BY <1>14, <2>1, PublishedIsStatus DEF ManagerRespawns
  <2> QED
    BY <1>4, <2>1, <2>2 DEF ProfileTypeOK, ManagerStates
<1>15. CASE JobRuns
  <2>1. /\ units' \subseteq {startJob} /\ startJob \in Units /\ startJob' = "none"
        /\ manager # "starting"
        /\ UNCHANGED <<manager, target, transitioning, mapFile, inbox, asks, managerDeaths,
                       published, seen>>
    BY <1>2, <1>15 DEF JobRuns
  <2>2. units' \subseteq Units /\ units' # Units
    BY <2>1 DEF Units
  <2> QED
    BY <2>1, <2>2 DEF ProfileTypeOK
<1>16. ASSUME NEW u \in Units, UnitEnds(u) PROVE ProfileInv'
  BY <1>2, <1>16 DEF UnitEnds, ProfileTypeOK
<1>17. ASSUME NEW request \in Requests, GatewayAsks(request) PROVE ProfileInv'
  <2>1. inbox' \in Seq(Requests) /\ asks' \in 0..MaxProfileRequests
    BY <1>1, <1>17 DEF GatewayAsks, ProfileTypeOK
  <2> QED
    BY <1>17, <2>1 DEF GatewayAsks, systemd, ProfileTypeOK
<1>18. CASE GatewaySees \/ UNCHANGED profileVars
  BY <1>18 DEF GatewaySees, profileVars, systemd, ProfileTypeOK
<1> QED
  BY <1>5, <1>6, <1>7, <1>8, <1>9, <1>10, <1>11, <1>12, <1>13, <1>14, <1>15, <1>16, <1>17, <1>18
     DEF ProfileNext, ManagerWorks

\* THEOREM: the profile manager keeps its types, for any number of requests and deaths.
THEOREM ProfileTyped == ProfileSpec => []ProfileTypeOK
<1>1. ProfileInv => ProfileTypeOK
  BY DEF ProfileInv
<1> QED
  BY ProfileInitially, ProfileStep, <1>1, PTL DEF ProfileSpec

\* THEOREM: mapping and navigation never run at once, whatever systemctl does not
\* stop, answers too late or starts for a node that died of waiting.
THEOREM UnitsExclude == ProfileSpec => []OneUnitAtMost
<1>1. ProfileInv => OneUnitAtMost
  BY DEF ProfileInv
<1> QED
  BY ProfileInitially, ProfileStep, <1>1, PTL DEF ProfileSpec

-----------------------------------------------------------------------------
(* RobotHealth                                                               *)

\* The count of the recovery is of clear samples in a row.
CountIsOfClear == warned => clearRun = recovered

HealthInv == HealthTypeOK /\ CountIsOfClear

LEMMA HealthInitially == HealthInit => HealthInv
<1> SUFFICES ASSUME HealthInit PROVE HealthInv
  OBVIOUS
<1>1. source \in [Sources -> SourceFaults \cup {"fresh"}]
  BY DEF HealthInit, SourceFaults
<1>2. 0 \in 0..RecoverySamples - 1 /\ 0 \in 0..RecoverySamples
  BY HealthAssumption
<1> QED
  BY <1>1, <1>2 DEF HealthInit, HealthInv, HealthTypeOK, CountIsOfClear

LEMMA HealthStep == HealthInv /\ [HealthNext]_healthVars => HealthInv'
<1> SUFFICES ASSUME HealthInv, [HealthNext]_healthVars PROVE HealthInv'
  OBVIOUS
<1>n. RecoverySamples \in Nat /\ RecoverySamples > 0
  BY HealthAssumption
<1>s. source \in [Sources -> SourceFaults \cup {"fresh"}]
  BY DEF HealthInv, HealthTypeOK
<1>1. ASSUME NEW s \in Sources \ {"SCAN"}, NEW valid \in BOOLEAN, OnMessage(s, valid)
      PROVE  HealthInv'
  <2>1. source' \in [Sources -> SourceFaults \cup {"fresh"}]
    BY <1>s, <1>1 DEF OnMessage, Receives, SourceFaults
  <2> QED
    BY <1>1, <2>1 DEF OnMessage, gatewaySide, HealthInv, HealthTypeOK, CountIsOfClear
<1>2. ASSUME NEW closest \in {"none", "low", "between", "clear"}, OnScan(closest)
      PROVE  HealthInv'
  <2>1. source' \in [Sources -> SourceFaults \cup {"fresh"}]
    BY <1>s, <1>2 DEF OnScan, Receives, SourceFaults
  <2>2. /\ warned' \in BOOLEAN /\ recovered' \in 0..RecoverySamples - 1
        /\ clearRun' \in 0..RecoverySamples
        /\ warned' => clearRun' = recovered'
    <3>1. /\ warned \in BOOLEAN /\ recovered \in 0..RecoverySamples - 1
          /\ clearRun \in 0..RecoverySamples
          /\ warned => clearRun = recovered
      BY DEF HealthInv, HealthTypeOK, CountIsOfClear
    <3>2. CASE ~warned
      <4>1. clearRun' = 0
        BY <1>2, <3>2 DEF OnScan
      <4>2. warned' \in BOOLEAN /\ recovered' \in {0, recovered} /\ (warned' => recovered' = 0)
        BY <1>2, <3>1, <3>2 DEF OnScan, ClearanceTransition
      <4> QED
        BY <1>n, <3>1, <4>1, <4>2
    <3>3. CASE warned /\ closest = "none"
      BY <1>2, <3>1, <3>3 DEF OnScan, ClearanceTransition
    <3>4. CASE warned /\ closest = "clear"
      <4>1. clearRun' = recovered + 1
        BY <1>2, <3>1, <3>4 DEF OnScan
      <4>2. /\ warned' = (recovered + 1 < RecoverySamples)
            /\ recovered' = IF recovered + 1 < RecoverySamples THEN recovered + 1 ELSE 0
        BY <1>2, <3>4 DEF OnScan, ClearanceTransition, RecoveryCount
      <4>3. CASE recovered + 1 < RecoverySamples
        BY <1>n, <3>1, <3>4, <4>1, <4>2, <4>3
      <4>4. CASE ~(recovered + 1 < RecoverySamples)
        <5>1. recovered + 1 = RecoverySamples
          BY <1>n, <3>1, <4>4
        <5>2. ~warned'
          BY <4>2, <4>4
        <5>3. warned' \in BOOLEAN
          BY <4>2
        <5>4. recovered' = 0
          BY <4>2, <4>4
        <5>5. clearRun' \in 0..RecoverySamples /\ recovered' \in 0..RecoverySamples - 1
          BY <1>n, <4>1, <5>1, <5>4
        <5> QED
          BY <5>2, <5>3, <5>5
      <4> QED
        BY <4>3, <4>4
    <3>5. CASE warned /\ closest \notin {"none", "clear"}
      <4>1. clearRun' = 0
        BY <1>2, <3>5 DEF OnScan
      <4>2. warned' = (0 < RecoverySamples) /\ recovered' = 0
        BY <1>2, <1>n, <3>5 DEF OnScan, ClearanceTransition, RecoveryCount
      <4> QED
        BY <1>n, <4>1, <4>2
    <3> QED
      BY <3>1, <3>2, <3>3, <3>4, <3>5
  <2> QED
    BY <1>2, <2>1, <2>2 DEF OnScan, gatewaySide, HealthInv, HealthTypeOK, CountIsOfClear
<1>3. ASSUME NEW s \in Sources, TimePasses(s) PROVE HealthInv'
  <2>1. source' \in [Sources -> SourceFaults \cup {"fresh"}]
    BY <1>s, <1>3 DEF TimePasses, SourceFaults
  <2> QED
    BY <1>3, <2>1 DEF TimePasses, gatewaySide, HealthInv, HealthTypeOK, CountIsOfClear
<1>4. CASE PublishHealth
  <2>1. [error |-> IsError(FaultCodes), codes |-> FaultCodes] \in Statuses
    <3>1. FaultCodes \in SUBSET Codes
      BY <1>s DEF FaultCodes, Codes
    <3>2. IsError(FaultCodes) \in BOOLEAN
      BY DEF IsError
    <3> QED
      BY <3>1, <3>2 DEF Statuses
  <2> QED
    BY <1>4, <2>1 DEF PublishHealth, robotSide, gatewaySide, HealthInv, HealthTypeOK, CountIsOfClear
<1>5. CASE RobotAgentStarts
  BY <1>5 DEF RobotAgentStarts, gatewaySide, HealthInv, HealthTypeOK, CountIsOfClear
<1>6. CASE RobotAgentDies
  <2>1. source' \in [Sources -> SourceFaults \cup {"fresh"}]
    BY <1>6 DEF RobotAgentDies, SourceFaults
  <2>2. 0 \in 0..RecoverySamples - 1 /\ 0 \in 0..RecoverySamples
    BY <1>n
  <2> QED
    BY <1>6, <2>1, <2>2 DEF RobotAgentDies, gatewaySide, HealthInv, HealthTypeOK, CountIsOfClear
<1>7. ASSUME NEW status \in underway, StatusArrives(status) PROVE HealthInv'
  <2>1. ledger' \subseteq Rows
    BY <1>7 DEF StatusArrives, SyncFaults, HealthInv, HealthTypeOK, Statuses, Rows, Severities
  <2> QED
    BY <1>7, <2>1 DEF StatusArrives, robotSide, HealthInv, HealthTypeOK, CountIsOfClear
<1>8. ASSUME NEW status \in underway, StatusLost(status) PROVE HealthInv'
  BY <1>8 DEF StatusLost, robotSide, gatewaySide, HealthInv, HealthTypeOK, CountIsOfClear
<1>9. CASE HeartbeatAges \/ MonitorConnectivity \/ HealthGatewayRestarts
  BY <1>9 DEF HeartbeatAges, MonitorConnectivity, HealthGatewayRestarts, Judged, OutageOf,
     robotSide, HealthInv, HealthTypeOK, CountIsOfClear
<1>10. CASE UNCHANGED healthVars
  BY <1>10 DEF healthVars, robotSide, gatewaySide, HealthInv, HealthTypeOK, CountIsOfClear
<1> QED
  BY <1>1, <1>2, <1>3, <1>4, <1>5, <1>6, <1>7, <1>8, <1>9, <1>10 DEF HealthNext

\* THEOREM: robot agent and gateway keep their types, for any sources, threads
\* and recovery count.
THEOREM HealthTyped == HealthSpec => []HealthTypeOK
<1>1. HealthInv => HealthTypeOK
  BY DEF HealthInv
<1> QED
  BY HealthInitially, HealthStep, <1>1, PTL DEF HealthSpec

\* THEOREM: an obstacle is reported gone after that many clear samples in a row,
\* however invalid ones and restarts of the agent are mixed in.
THEOREM ClearedEarned == HealthSpec => ClearedIsEarned
<1> DEFINE Earned == agentUp /\ agentUp' /\ warned /\ ~warned' => clearRun' = RecoverySamples
<1>1. ASSUME HealthInv, [HealthNext]_healthVars, agentUp, agentUp', warned, ~warned'
      PROVE  clearRun' = RecoverySamples
  <2>1. PICK closest \in {"none", "low", "between", "clear"} : OnScan(closest)
    BY <1>1 DEF HealthNext, OnMessage, TimePasses, PublishHealth, RobotAgentStarts, RobotAgentDies,
       StatusArrives, StatusLost, HeartbeatAges, MonitorConnectivity, HealthGatewayRestarts,
       healthVars, robotSide
  <2>2. /\ RecoverySamples \in Nat /\ RecoverySamples > 0
        /\ recovered \in 0..RecoverySamples - 1 /\ clearRun = recovered
    BY <1>1, HealthAssumption DEF HealthInv, HealthTypeOK, CountIsOfClear
  <2>3. closest = "clear"
    BY <1>1, <2>1, <2>2 DEF OnScan, ClearanceTransition, RecoveryCount
  <2>4. clearRun' = recovered + 1
    BY <1>1, <2>1, <2>2, <2>3 DEF OnScan
  <2>5. warned' = (recovered + 1 < RecoverySamples)
    BY <1>1, <2>1, <2>3 DEF OnScan, ClearanceTransition, RecoveryCount
  <2>6. ~(recovered + 1 < RecoverySamples)
    BY <1>1, <2>5
  <2> QED
    BY <2>2, <2>4, <2>6
<1>2. HealthInv /\ [HealthNext]_healthVars => [Earned]_healthVars
  BY <1>1
<1> QED
  BY HealthInitially, HealthStep, <1>2, PTL DEF HealthSpec, ClearedIsEarned

-----------------------------------------------------------------------------
(* LogCollector                                                              *)

\* The journal's entries are in order and can be read in time, and the cursors
\* kept are enough for those of two polls.
JournalRises ==
  /\ \A d, e \in DOMAIN entries : d <= e => entries[d] <= entries[e]
  /\ \A e \in DOMAIN entries : entries[e] <= time
  /\ readable < Len(entries) => time <= entries[readable + 1] + Delay
  /\ Cardinality(NewestEntries) <= SeenLimit

\* A poll returns in time, and the next one overlaps it.
PollIsInTime ==
  /\ born <= pollStart /\ pollStart <= time
  /\ born - Overlap <= since /\ since <= pollStart - Overlap
  /\ node = "polling" => time <= pollStart + PollTime

\* The polls have come to the entry r: those up to it are stored, unless they are
\* older than the process, those after it are not and will be asked for, and the
\* cursors are the last of those up to it, with all that will be asked for again.
PolledTo(r) ==
  /\ \A i \in DOMAIN seenOrder : seenOrder[i] = r - Len(seenOrder) + i
  /\ \A e \in 1..r :
       /\ entries[e] < born - Overlap \/ kept[e] = 1
       /\ entries[e] >= since => e > r - Len(seenOrder)
  /\ \A e \in DOMAIN entries : e > r => entries[e] >= since
  /\ \A e \in Entries : e > r => kept[e] = 0

CollectorInv ==
  /\ CollectorTypeOK /\ JournalRises /\ NothingStoredTwice
  /\ node # "down" => PollIsInTime /\ \E r \in 0..readable : PolledTo(r)

\* The constants, one by one.
LEMMA CollectorBounds ==
  /\ Overlap \in Nat /\ PollTime \in Nat /\ Delay \in Nat /\ Delay <= Overlap
  /\ MaxTime \in Nat /\ MaxEntries \in Nat /\ MaxPromotions \in Nat /\ MaxCollectorDeaths \in Nat
  /\ SeenLimit \in Nat /\ SeenLimit > 0
BY CollectorAssumption

\* The new entries after r, in order.
LEMMA InOrderOfInterval ==
  ASSUME NEW a \in Nat, NEW b \in Nat, a <= b
  PROVE  /\ InOrder(a + 1..b) = [i \in 1..b - a |-> a + i]
         /\ Cardinality(a + 1..b) = b - a
<1>1. Cardinality(a + 1..b) = b - a
  <2>1. a + 1 \in Int /\ b \in Int
    OBVIOUS
  <2>2. Cardinality(a + 1..b) = IF a + 1 > b THEN 0 ELSE b - (a + 1) + 1
    BY <2>1, FS_Interval
  <2> QED
    BY <2>2
<1>2. ASSUME NEW i \in 1..b - a
      PROVE  (CHOOSE e \in a + 1..b : Cardinality({d \in a + 1..b : d < e}) = i - 1) = a + i
  <2>1. ASSUME NEW e \in a + 1..b PROVE Cardinality({d \in a + 1..b : d < e}) = e - a - 1
    <3>1. {d \in a + 1..b : d < e} = a + 1..e - 1
      OBVIOUS
    <3>2. Cardinality(a + 1..e - 1) = e - a - 1
      BY FS_Interval
    <3> QED
      BY <3>1, <3>2
  <2>2. a + i \in a + 1..b
    OBVIOUS
  <2>3. \A e \in a + 1..b : Cardinality({d \in a + 1..b : d < e}) = i - 1 <=> e = a + i
    BY <2>1
  <2> QED
    BY <2>2, <2>3
<1> QED
  BY <1>1, <1>2 DEF InOrder

\* A set of entries that is closed downwards is the first of them.
LEMMA FirstEntries ==
  ASSUME NEW n \in Nat, NEW S \in SUBSET (1..n),
         \A d, e \in 1..n : e \in S /\ d <= e => d \in S
  PROVE  \E r \in 0..n : S = 1..r
<1>1. IsFiniteSet(1..n) /\ Cardinality(1..n) = n
  BY FS_Interval
<1>2. IsFiniteSet(S) /\ Cardinality(S) <= n /\ Cardinality(S) \in Nat
  BY <1>1, FS_Subset, FS_CardinalityType
<1> DEFINE r == Cardinality(S)
<1>3. ASSUME NEW e \in S PROVE e \in 1..r
  <2>1. 1..e \in SUBSET S
    OBVIOUS
  <2>2. Cardinality(1..e) <= r
    BY <1>2, <2>1, FS_Subset
  <2>3. Cardinality(1..e) = e
    BY FS_Interval
  <2> QED
    BY <2>2, <2>3, <1>2
<1>4. IsFiniteSet(1..r) /\ Cardinality(1..r) = r
  BY <1>2, FS_Interval
<1>5. S \in SUBSET (1..r)
  BY <1>3
<1>6. S = 1..r
  BY <1>4, <1>5, FS_Subset
<1> QED
  BY <1>2, <1>6

\* The last n of a sequence.
LEMMA LastOfFacts ==
  ASSUME NEW S, NEW seq \in Seq(S), NEW n \in Nat \ {0}
  PROVE  /\ LastOf(seq, n) \in Seq(S)
         /\ Len(LastOf(seq, n)) = IF Len(seq) <= n THEN Len(seq) ELSE n
         /\ \A i \in 1..Len(LastOf(seq, n)) :
              LastOf(seq, n)[i] = seq[Len(seq) - Len(LastOf(seq, n)) + i]
<1>1. Len(seq) \in Nat /\ \A i \in 1..Len(seq) : seq[i] \in S
  OBVIOUS
<1>2. CASE Len(seq) <= n
  BY <1>1, <1>2 DEF LastOf
<1>3. CASE ~(Len(seq) <= n)
  <2> DEFINE m == Len(seq) - n + 1
  <2>1. LastOf(seq, n) = SubSeq(seq, m, Len(seq)) /\ m \in Int
    BY <1>1, <1>3 DEF LastOf
  <2>2. \A i \in m..Len(seq) : seq[i] \in S
    BY <1>1, <1>3
  <2>3. /\ SubSeq(seq, m, Len(seq)) \in Seq(S)
        /\ Len(SubSeq(seq, m, Len(seq))) = IF m <= Len(seq) THEN Len(seq) - m + 1 ELSE 0
        /\ \A i \in 1..Len(seq) - m + 1 : SubSeq(seq, m, Len(seq))[i] = seq[m + i - 1]
    BY <1>1, <2>1, <2>2, SubSeqProperties
  <2> QED
    BY <1>1, <1>3, <2>1, <2>3
<1> QED
  BY <1>2, <1>3

LEMMA CollectorInitially == CollectorInit => CollectorInv
<1> SUFFICES ASSUME CollectorInit PROVE CollectorInv
  OBVIOUS
<1>1. CollectorTypeOK
  <2>1. /\ entries \in Seq(0..MaxTime) /\ Len(entries) = 0
        /\ seenOrder \in Seq(Entries) /\ Len(seenOrder) = 0
    BY DEF CollectorInit
  <2>2. model \in [version : 0..MaxPromotions, mtime : 0..MaxPromotions]
    BY CollectorBounds DEF CollectorInit, NoModel
  <2> QED
    BY <2>1, <2>2, CollectorBounds DEF CollectorInit, CollectorTypeOK, NodeStates, NoModel
<1>2. NewestEntries = {}
  BY DEF NewestEntries, CollectorInit
<1>3. Cardinality(NewestEntries) = 0
  BY <1>2, FS_EmptySet
<1>4. JournalRises
  BY <1>3, CollectorBounds DEF JournalRises, CollectorInit
<1>5. NothingStoredTwice
  BY DEF NothingStoredTwice, CollectorInit
<1> QED
  BY <1>1, <1>4, <1>5 DEF CollectorInv, CollectorInit

\* What the polls compute with, as numbers and sequences.
LEMMA CollectorFacts ==
  ASSUME CollectorTypeOK
  PROVE  /\ readable \in Nat /\ readable <= Len(entries) /\ readable <= MaxEntries
         /\ DOMAIN entries = 1..Len(entries) /\ Len(entries) \in Nat
         /\ \A e \in 1..Len(entries) : entries[e] \in Nat /\ entries[e] <= MaxTime
         /\ seenOrder \in Seq(Entries) /\ Len(seenOrder) \in Nat
         /\ DOMAIN seenOrder = 1..Len(seenOrder)
         /\ since \in Int /\ time \in Nat /\ pollStart \in Nat /\ born \in Nat
<1>1. /\ entries \in Seq(0..MaxTime) /\ seenOrder \in Seq(Entries)
      /\ readable \in 0..Len(entries) /\ Len(entries) <= MaxEntries
  BY DEF CollectorTypeOK
<1>2. /\ Len(entries) \in Nat /\ DOMAIN entries = 1..Len(entries)
      /\ \A e \in 1..Len(entries) : entries[e] \in 0..MaxTime
      /\ Len(seenOrder) \in Nat /\ DOMAIN seenOrder = 1..Len(seenOrder)
  BY <1>1, LenProperties, ElementOfSeq
<1>3. since \in Int /\ time \in Nat /\ pollStart \in Nat /\ born \in Nat
  BY CollectorBounds DEF CollectorTypeOK
<1> QED
  BY <1>1, <1>2, <1>3, CollectorBounds

\* What a poll reads is what can be read after the entry the last one came to.
LEMMA PrintedIsNew ==
  ASSUME CollectorTypeOK, NEW r \in 0..readable, PolledTo(r)
  PROVE  /\ Printed = r + 1..readable
         /\ InOrder(Printed) = [i \in 1..readable - r |-> r + i]
<1>1. /\ readable \in Nat /\ readable <= Len(entries) /\ DOMAIN entries = 1..Len(entries)
      /\ Len(entries) \in Nat /\ Len(seenOrder) \in Nat /\ DOMAIN seenOrder = 1..Len(seenOrder)
      /\ \A e \in 1..Len(entries) : entries[e] \in Nat
      /\ since \in Int
  BY CollectorFacts
<1>2. ASSUME NEW e \in r + 1..readable PROVE e \in Printed
  BY <1>1, <1>2 DEF Printed, Cursors, PolledTo
<1>3. ASSUME NEW e \in Printed PROVE e \in r + 1..readable
  <2>1. e \in 1..readable /\ entries[e] >= since /\ e \notin Cursors
    BY DEF Printed
  <2>2. CASE e <= r
    <3> DEFINE i == e - (r - Len(seenOrder))
    <3>1. i \in 1..Len(seenOrder)
      <4>1. e > r - Len(seenOrder)
        BY <1>1, <2>1, <2>2 DEF PolledTo
      <4> QED
        BY <1>1, <2>1, <2>2, <4>1
    <3>2. seenOrder[i] = e
      <4>1. seenOrder[i] = r - Len(seenOrder) + i
        BY <1>1, <3>1 DEF PolledTo
      <4> QED
        BY <1>1, <2>1, <4>1
    <3> QED
      BY <1>1, <2>1, <3>1, <3>2 DEF Cursors
  <2> QED
    BY <1>1, <2>1, <2>2
<1>4. Printed = r + 1..readable
  BY <1>2, <1>3
<1> QED
  BY <1>1, <1>4, InOrderOfInterval

\* The cursors after a poll: the last of those up to the entry it came to.
LEMMA Remembered ==
  ASSUME CollectorTypeOK, NEW r \in 0..readable, PolledTo(r), Remember(Printed)
  PROVE  /\ seenOrder' \in Seq(Entries)
         /\ Len(seenOrder') = IF Len(seenOrder) + readable - r <= SeenLimit
                              THEN Len(seenOrder) + readable - r ELSE SeenLimit
         /\ \A i \in 1..Len(seenOrder') : seenOrder'[i] = readable - Len(seenOrder') + i
<1> DEFINE new == [i \in 1..readable - r |-> r + i]
           all == seenOrder \o new
<1>1. /\ readable \in Nat /\ readable <= MaxEntries
      /\ seenOrder \in Seq(Entries) /\ Len(seenOrder) \in Nat
      /\ \A i \in 1..Len(seenOrder) : seenOrder[i] = r - Len(seenOrder) + i
  BY CollectorFacts DEF PolledTo
<1>2. new \in Seq(Entries) /\ Len(new) = readable - r
  <2>1. readable - r \in Nat /\ \A i \in 1..readable - r : r + i \in Entries
    BY <1>1, CollectorBounds DEF Entries
  <2> QED
    BY <2>1
<1>3. /\ all \in Seq(Entries) /\ Len(all) = Len(seenOrder) + readable - r
      /\ \A i \in 1..Len(all) : all[i] = IF i <= Len(seenOrder) THEN seenOrder[i]
                                                           ELSE new[i - Len(seenOrder)]
  <2> HIDE DEF new
  <2>1. seenOrder \in Seq(Entries) /\ new \in Seq(Entries)
    BY <1>1, <1>2
  <2>2. /\ all \in Seq(Entries) /\ Len(all) = Len(seenOrder) + Len(new)
        /\ \A i \in 1..Len(seenOrder) + Len(new) : all[i] =
             IF i <= Len(seenOrder) THEN seenOrder[i] ELSE new[i - Len(seenOrder)]
    BY <2>1, ConcatProperties
  <2>3. Len(all) = Len(seenOrder) + readable - r
    BY <1>1, <1>2, <2>2
  <2> HIDE DEF all
  <2> QED
    BY <2>2, <2>3
<1>4. \A i \in 1..Len(all) : all[i] = readable - Len(all) + i
  <2> SUFFICES ASSUME NEW i \in 1..Len(all) PROVE all[i] = readable - Len(all) + i
    OBVIOUS
  <2>1. CASE i <= Len(seenOrder)
    BY <1>1, <1>3, <2>1
  <2>2. CASE ~(i <= Len(seenOrder))
    <3>1. i - Len(seenOrder) \in 1..readable - r
      BY <1>1, <1>3, <2>2
    <3>2. all[i] = r + (i - Len(seenOrder))
      BY <1>3, <2>2, <3>1
    <3> QED
      BY <1>1, <1>3, <3>2
  <2> QED
    BY <2>1, <2>2
<1>5. seenOrder' = LastOf(all, SeenLimit)
  BY PrintedIsNew DEF Remember
<1>6. SeenLimit \in Nat \ {0} /\ Len(all) \in Nat
  BY <1>1, <1>3, CollectorBounds
<1> HIDE DEF all
<1>7. /\ seenOrder' \in Seq(Entries)
      /\ Len(seenOrder') = IF Len(all) <= SeenLimit THEN Len(all) ELSE SeenLimit
      /\ \A i \in 1..Len(seenOrder') : seenOrder'[i] = all[Len(all) - Len(seenOrder') + i]
  BY <1>3, <1>5, <1>6, LastOfFacts
<1>8. ASSUME NEW i \in 1..Len(seenOrder') PROVE seenOrder'[i] = readable - Len(seenOrder') + i
  <2>1. Len(all) - Len(seenOrder') + i \in 1..Len(all)
    BY <1>6, <1>7
  <2>2. /\ seenOrder'[i] = all[Len(all) - Len(seenOrder') + i]
        /\ all[Len(all) - Len(seenOrder') + i]
             = readable - Len(all) + (Len(all) - Len(seenOrder') + i)
    BY <1>4, <1>7, <2>1
  <2> QED
    BY <1>1, <1>6, <1>7, <2>2
<1> QED
  BY <1>3, <1>7, <1>8

LEMMA CollectorTypeStep ==
  CollectorInv /\ [CollectorNext]_collectorVars => CollectorTypeOK'
<1> SUFFICES ASSUME CollectorInv, [CollectorNext]_collectorVars PROVE CollectorTypeOK'
  OBVIOUS
<1> CollectorTypeOK
  BY DEF CollectorInv
<1> USE CollectorBounds
<1>1. CASE JournalWrites
  <2>1. /\ entries' \in Seq(0..MaxTime) /\ Len(entries') = Len(entries) + 1
        /\ Len(entries) \in Nat
    BY <1>1 DEF JournalWrites, CollectorTypeOK
  <2> QED
    BY <1>1, <2>1 DEF JournalWrites, CollectorTypeOK, polling, inferring
<1>2. CASE JournalCommits
  BY <1>2 DEF JournalCommits, CollectorTypeOK, polling, inferring
<1>3. CASE JournalTicks
  BY <1>3 DEF JournalTicks, CollectorTypeOK, journal, polling, inferring
<1>4. CASE PollStarts
  BY <1>4 DEF PollStarts, CollectorTypeOK, NodeStates, journal, inferring
<1>5. CASE PollReturns
  <2>1. PICK r \in 0..readable : PolledTo(r)
    BY <1>5 DEF PollReturns, CollectorInv
  <2>2. seenOrder' \in Seq(Entries) /\ Len(seenOrder') <= SeenLimit
    <3>1. Remember(Printed)
      BY <1>5 DEF PollReturns
    <3>2. /\ seenOrder' \in Seq(Entries)
          /\ Len(seenOrder') = IF Len(seenOrder) + readable - r <= SeenLimit
                               THEN Len(seenOrder) + readable - r ELSE SeenLimit
      BY <2>1, <3>1, Remembered
    <3>3. Len(seenOrder) \in Nat /\ readable \in Nat /\ r \in Nat
      BY CollectorFacts
    <3> QED
      BY <3>2, <3>3
  <2>3. since' \in Int
    BY <1>5 DEF PollReturns, SinceAfterPoll, CollectorTypeOK
  <2>4. stored' \in [Entries -> Nat] /\ kept' \in [Entries -> Nat]
    <3>1. stored \in [Entries -> Nat] /\ kept \in [Entries -> Nat]
      BY DEF CollectorTypeOK
    <3>2. /\ stored' = [e \in Entries |-> IF e \in Printed THEN stored[e] + 1 ELSE stored[e]]
          /\ kept' = [e \in Entries |-> IF e \in Printed THEN kept[e] + 1 ELSE kept[e]]
      BY <1>5 DEF PollReturns
    <3> QED
      BY <3>1, <3>2
  <2> QED
    BY <1>5, <2>2, <2>3, <2>4 DEF PollReturns, CollectorTypeOK, NodeStates, journal, inferring
<1>6. CASE PollFails
  BY <1>6 DEF PollFails, CollectorTypeOK, NodeStates, journal, polling, inferring
<1>7. CASE Promote
  BY <1>7 DEF Promote, CollectorTypeOK, journal, polling, inferring
<1>8. CASE InferenceStarts
  BY <1>8 DEF InferenceStarts, TakesStamp, CollectorTypeOK, NodeStates, journal, polling
<1>9. CASE InferencePublished
  BY <1>9 DEF InferencePublished, TakesStamp, CollectorTypeOK, NodeStates, journal, polling
<1>10. CASE CollectorDies
  BY <1>10 DEF CollectorDies, CollectorTypeOK, NodeStates, journal, polling, inferring
<1>11. CASE CollectorStarts
  BY <1>11 DEF CollectorStarts, Begun, CollectorTypeOK, NodeStates, NoModel, journal
<1>12. CASE UNCHANGED collectorVars
  BY <1>12 DEF collectorVars, CollectorTypeOK, journal, polling, inferring
<1> QED
  BY <1>1, <1>2, <1>3, <1>4, <1>5, <1>6, <1>7, <1>8, <1>9, <1>10, <1>11, <1>12
     DEF CollectorNext, CollectorWorks

\* What cannot be read yet is no older than the delay.
LEMMA RisingEntries ==
  ASSUME CollectorTypeOK, JournalRises
  PROVE  /\ \A d, e \in 1..Len(entries) : d <= e => entries[d] <= entries[e]
         /\ readable < Len(entries) =>
              /\ time <= entries[readable + 1] + Delay
              /\ \A e \in 1..Len(entries) : e > readable => entries[readable + 1] <= entries[e]
<1>1. DOMAIN entries = 1..Len(entries) /\ Len(entries) \in Nat /\ readable \in Nat
  BY CollectorFacts
<1>2. \A d, e \in 1..Len(entries) : d <= e => entries[d] <= entries[e]
  BY <1>1 DEF JournalRises
<1>3. ASSUME readable < Len(entries), NEW e \in 1..Len(entries), e > readable
      PROVE  entries[readable + 1] <= entries[e]
  <2>1. readable + 1 \in 1..Len(entries) /\ readable + 1 <= e
    BY <1>1, <1>3
  <2> QED
    BY <1>2, <2>1
<1> QED
  BY <1>2, <1>3 DEF JournalRises

\* The journal stays in order; while a poll lasts, and until the next one begins
\* where it left off, the cursors are enough.
LEMMA JournalStep ==
  ASSUME CollectorTypeOK, CollectorTypeOK', JournalRises, [CollectorNext]_collectorVars
  PROVE  JournalRises'
<1> USE CollectorBounds
<1>1. /\ readable \in Nat /\ readable <= Len(entries) /\ DOMAIN entries = 1..Len(entries)
      /\ Len(entries) \in Nat /\ time \in Nat
      /\ \A e \in 1..Len(entries) : entries[e] \in Nat
  BY CollectorFacts
<1>2. IsFiniteSet(NewestEntries) /\ Cardinality(NewestEntries) \in Nat
  <2>1. IsFiniteSet(1..Len(entries)) /\ NewestEntries \in SUBSET (1..Len(entries))
    BY <1>1, FS_Interval DEF NewestEntries
  <2> QED
    BY <2>1, FS_Subset, FS_CardinalityType
<1>3. CASE JournalWrites
  <2>1. /\ Len(entries') = Len(entries) + 1 /\ DOMAIN entries' = 1..Len(entries) + 1
        /\ \A e \in 1..Len(entries) : entries'[e] = entries[e]
        /\ entries'[Len(entries) + 1] = time
        /\ time' = time /\ readable' = readable
    BY <1>1, <1>3 DEF JournalWrites, CollectorTypeOK
  <2>2. NewestEntries' = NewestEntries \cup {Len(entries) + 1}
    BY <1>1, <2>1 DEF NewestEntries
  <2>3. Cardinality(NewestEntries') <= SeenLimit
    <3>1. Cardinality(NewestEntries) < SeenLimit
      BY <1>3 DEF JournalWrites
    <3>2. Cardinality(NewestEntries \cup {Len(entries) + 1})
            = IF Len(entries) + 1 \in NewestEntries THEN Cardinality(NewestEntries)
              ELSE Cardinality(NewestEntries) + 1
      BY <1>2, FS_AddElement
    <3> QED
      BY <1>2, <2>2, <3>1, <3>2
  <2>4. \A d, e \in DOMAIN entries' : d <= e => entries'[d] <= entries'[e]
    BY <1>1, <2>1 DEF JournalRises
  <2>5. \A e \in DOMAIN entries' : entries'[e] <= time'
    BY <1>1, <2>1 DEF JournalRises
  <2>6. readable' < Len(entries') => time' <= entries'[readable' + 1] + Delay
    BY <1>1, <2>1 DEF JournalRises
  <2> QED
    BY <2>3, <2>4, <2>5, <2>6 DEF JournalRises
<1>4. CASE JournalCommits
  <2>1. UNCHANGED <<entries, time>> /\ readable' = readable + 1 /\ readable < Len(entries)
    BY <1>4 DEF JournalCommits
  <2>2. readable' < Len(entries) => time <= entries[readable' + 1] + Delay
    <3> SUFFICES ASSUME readable + 1 < Len(entries)
                 PROVE  time <= entries[readable + 2] + Delay
      BY <1>1, <2>1
    <3>1. entries[readable + 1] <= entries[readable + 2] /\ time <= entries[readable + 1] + Delay
      BY <1>1, <2>1, RisingEntries
    <3>2. entries[readable + 1] \in Nat /\ entries[readable + 2] \in Nat
      BY <1>1, <2>1
    <3> QED
      BY <1>1, <3>1, <3>2
  <2> QED
    BY <2>1, <2>2 DEF JournalRises, NewestEntries
<1>5. CASE JournalTicks
  <2>1. UNCHANGED <<entries, readable>> /\ time' = time + 1
    BY <1>5 DEF JournalTicks, journal
  <2>2. NewestEntries' \in SUBSET NewestEntries
    BY <1>1, <2>1 DEF NewestEntries
  <2>3. Cardinality(NewestEntries') <= Cardinality(NewestEntries)
        /\ Cardinality(NewestEntries') \in Nat
    BY <1>2, <2>2, FS_Subset, FS_CardinalityType
  <2>4. Cardinality(NewestEntries') <= SeenLimit
    BY <1>2, <2>3 DEF JournalRises
  <2>5. readable < Len(entries) => time' <= entries[readable + 1] + Delay
    BY <1>1, <1>5, <2>1 DEF JournalTicks
  <2>6. \A e \in DOMAIN entries : entries[e] <= time'
    BY <1>1, <2>1 DEF JournalRises
  <2> QED
    BY <2>1, <2>4, <2>5, <2>6 DEF JournalRises
<1>6. CASE UNCHANGED <<time, entries, readable>>
  BY <1>6 DEF JournalRises, NewestEntries
<1> QED
  BY <1>3, <1>4, <1>5, <1>6 DEF CollectorNext, CollectorWorks, PollStarts, PollReturns, PollFails,
     Promote, CollectorDies, CollectorStarts, InferenceStarts, InferencePublished, collectorVars,
     journal

\* A poll that returns comes to what can be read.  The cursors it drops are of
\* entries older than the next one asks for.
LEMMA PollReturned ==
  ASSUME CollectorTypeOK, JournalRises, NothingStoredTwice, PollIsInTime, PollReturns,
         CollectorTypeOK', NEW r \in 0..readable, PolledTo(r)
  PROVE  PolledTo(readable)' /\ NothingStoredTwice' /\ PollIsInTime'
<1> USE CollectorBounds
<1>1. /\ readable \in Nat /\ readable <= Len(entries) /\ DOMAIN entries = 1..Len(entries)
      /\ Len(entries) \in Nat /\ Len(entries) <= MaxEntries
      /\ Len(seenOrder) \in Nat
      /\ \A e \in 1..Len(entries) : entries[e] \in Nat
      /\ since \in Int /\ time \in Nat /\ pollStart \in Nat /\ born \in Nat
      /\ kept \in [Entries -> Nat]
  BY CollectorFacts DEF CollectorTypeOK
<1>2. /\ node = "polling" /\ node' = "spinning"
      /\ UNCHANGED <<time, entries, readable, pollStart, born>>
      /\ kept' = [e \in Entries |-> IF e \in Printed THEN kept[e] + 1 ELSE kept[e]]
      /\ Remember(Printed)
      /\ since' = SinceAfterPoll(time)
  BY DEF PollReturns, journal
<1>3. Printed = r + 1..readable
  BY PrintedIsNew
<1>4. since' = pollStart - Overlap
  BY <1>1, <1>2 DEF SinceAfterPoll, PollIsInTime
<1>5. /\ Len(seenOrder') = IF Len(seenOrder) + readable - r <= SeenLimit
                           THEN Len(seenOrder) + readable - r ELSE SeenLimit
      /\ \A i \in 1..Len(seenOrder') : seenOrder'[i] = readable - Len(seenOrder') + i
      /\ DOMAIN seenOrder' = 1..Len(seenOrder')
  <2>1. seenOrder' \in Seq(Entries)
    BY DEF CollectorTypeOK
  <2>2. DOMAIN seenOrder' = 1..Len(seenOrder')
    BY <2>1, LenProperties
  <2> QED
    BY <1>2, <2>2, Remembered
<1>6. ASSUME NEW e \in Entries
      PROVE  /\ e > readable => kept'[e] = 0
             /\ e \in 1..readable => entries[e] < born - Overlap \/ kept'[e] = 1
             /\ kept'[e] <= 1
  <2>1. kept[e] \in Nat /\ kept[e] <= 1 /\ e \in Nat
    BY <1>1 DEF NothingStoredTwice, Entries
  <2>2. e > r => kept[e] = 0
    BY DEF PolledTo
  <2>3. e \in 1..r => entries[e] < born - Overlap \/ kept[e] = 1
    BY DEF PolledTo
  <2>4. kept'[e] = IF e \in r + 1..readable THEN kept[e] + 1 ELSE kept[e]
    BY <1>2, <1>3
  <2> QED
    BY <1>1, <2>1, <2>2, <2>3, <2>4 DEF Entries
<1>7. ASSUME NEW e \in 1..Len(entries), e > readable PROVE entries[e] >= since'
  <2>1. time <= entries[readable + 1] + Delay /\ entries[readable + 1] <= entries[e]
    BY <1>1, <1>7, RisingEntries
  <2>2. entries[readable + 1] \in Nat /\ entries[e] \in Nat /\ pollStart <= time
    BY <1>1, <1>7 DEF PollIsInTime
  <2> QED
    BY <1>1, <1>4, <2>1, <2>2
<1>8. ASSUME NEW e \in 1..readable, entries[e] >= since' PROVE e > readable - Len(seenOrder')
  <2>1. CASE Len(seenOrder') = Len(seenOrder) + readable - r
    <3>1. since' >= since
      BY <1>1, <1>4 DEF PollIsInTime
    <3>2. e \in 1..r => e > r - Len(seenOrder)
      BY <1>1, <1>8, <3>1, <1>4 DEF PolledTo
    <3> QED
      BY <1>1, <2>1, <3>2
  <2>2. CASE Len(seenOrder') = SeenLimit
    <3>1. e..readable \in SUBSET NewestEntries
      <4> SUFFICES ASSUME NEW d \in e..readable PROVE d \in NewestEntries
        OBVIOUS
      <4>1. d \in 1..Len(entries) /\ entries[e] <= entries[d]
        BY <1>1, RisingEntries
      <4>2. time <= pollStart + PollTime
        BY <1>2 DEF PollIsInTime
      <4> QED
        BY <1>1, <1>4, <1>8, <4>1, <4>2 DEF NewestEntries
    <3>2. IsFiniteSet(NewestEntries)
      <4>1. IsFiniteSet(1..Len(entries)) /\ NewestEntries \in SUBSET (1..Len(entries))
        BY <1>1, FS_Interval DEF NewestEntries
      <4> QED
        BY <4>1, FS_Subset
    <3>3. Cardinality(e..readable) <= Cardinality(NewestEntries)
      BY <3>1, <3>2, FS_Subset
    <3>4. Cardinality(e..readable) = readable - e + 1
      BY <1>1, FS_Interval
    <3>5. Cardinality(NewestEntries) \in Nat /\ Cardinality(NewestEntries) <= SeenLimit
      BY <3>2, FS_CardinalityType DEF JournalRises
    <3> QED
      BY <1>1, <2>2, <3>3, <3>4, <3>5
  <2> QED
    BY <1>5, <2>1, <2>2
<1>9. PolledTo(readable)'
  <2>1. \A e \in 1..readable : e \in Entries
    BY <1>1 DEF Entries
  <2> QED
    BY <1>1, <1>2, <1>5, <1>6, <1>7, <1>8, <2>1 DEF PolledTo
<1>10. NothingStoredTwice'
  BY <1>6 DEF NothingStoredTwice
<1>11. PollIsInTime'
  BY <1>1, <1>2, <1>4 DEF PollIsInTime
<1> QED
  BY <1>9, <1>10, <1>11

\* A process that begins has stored nothing, and will ask for what the journal
\* can still show it of the last second.
LEMMA CollectorStarted ==
  ASSUME CollectorTypeOK, JournalRises, CollectorStarts
  PROVE  NothingStoredTwice' /\ PollIsInTime' /\ \E r \in 0..readable' : PolledTo(r)'
<1> USE CollectorBounds
<1>1. /\ readable \in Nat /\ readable <= Len(entries) /\ DOMAIN entries = 1..Len(entries)
      /\ Len(entries) \in Nat /\ Len(entries) <= MaxEntries /\ time \in Nat
      /\ \A e \in 1..Len(entries) : entries[e] \in Nat
  BY CollectorFacts DEF CollectorTypeOK
<1>2. /\ node' = "spinning" /\ UNCHANGED <<time, entries, readable>>
      /\ since' = time - Overlap /\ seenOrder' = <<>> /\ pollStart' = time /\ born' = time
      /\ kept' = [e \in Entries |-> 0]
  BY DEF CollectorStarts, Begun, journal
<1> DEFINE old == {e \in 1..readable : entries[e] < since'}
<1>3. PICK r \in 0..readable : old = 1..r
  <2>1. ASSUME NEW d \in 1..readable, NEW e \in 1..readable, e \in old, d <= e PROVE d \in old
    <3>1. entries[d] <= entries[e] /\ entries[d] \in Nat /\ entries[e] \in Nat
      BY <1>1, <2>1, RisingEntries
    <3> QED
      BY <1>1, <1>2, <2>1, <3>1
  <2>2. old \in SUBSET (1..readable)
    OBVIOUS
  <2> HIDE DEF old
  <2> QED
    BY <1>1, <2>1, <2>2, FirstEntries
<1>4. ASSUME NEW e \in 1..Len(entries), e > r PROVE entries[e] >= since'
  <2>1. CASE e <= readable
    <3>1. e \notin old
      BY <1>1, <1>3, <1>4
    <3> QED
      BY <1>1, <1>2, <2>1, <3>1
  <2>2. CASE ~(e <= readable)
    <3>1. time <= entries[readable + 1] + Delay /\ entries[readable + 1] <= entries[e]
      BY <1>1, <1>4, <2>2, RisingEntries
    <3>2. entries[readable + 1] \in Nat /\ entries[e] \in Nat
      BY <1>1, <2>2
    <3> QED
      BY <1>1, <1>2, <3>1, <3>2
  <2> QED
    BY <2>1, <2>2
<1>5. \A e \in 1..r : entries[e] < since'
  BY <1>3
<1>6. PolledTo(r)'
  <2>1. DOMAIN seenOrder' = {} /\ Len(seenOrder') = 0
    BY <1>2
  <2>2. \A e \in 1..r : entries[e] < born' - Overlap /\ ~(entries[e] >= since')
    BY <1>1, <1>2, <1>5
  <2> QED
    BY <1>1, <1>2, <1>4, <2>1, <2>2 DEF PolledTo
<1>7. NothingStoredTwice'
  BY <1>2 DEF NothingStoredTwice
<1>8. PollIsInTime'
  BY <1>1, <1>2 DEF PollIsInTime
<1> QED
  BY <1>2, <1>6, <1>7, <1>8

LEMMA CollectorStep == CollectorInv /\ [CollectorNext]_collectorVars => CollectorInv'
<1> SUFFICES ASSUME CollectorInv, [CollectorNext]_collectorVars PROVE CollectorInv'
  OBVIOUS
<1> USE CollectorBounds
<1>1. CollectorTypeOK /\ CollectorTypeOK' /\ JournalRises /\ NothingStoredTwice
  BY CollectorTypeStep DEF CollectorInv
<1>2. JournalRises'
  BY <1>1, JournalStep
<1> SUFFICES /\ NothingStoredTwice'
             /\ node' # "down" => PollIsInTime' /\ \E r \in 0..readable' : PolledTo(r)'
  BY <1>1, <1>2 DEF CollectorInv
<1>3. CASE PollReturns
  BY <1>1, <1>3, PollReturned, CollectorFacts DEF CollectorInv, PollReturns, journal
<1>4. CASE CollectorStarts
  BY <1>1, <1>4, CollectorStarted
<1>5. ASSUME node' # "down", ~PollReturns, ~CollectorStarts
      PROVE  NothingStoredTwice' /\ PollIsInTime' /\ \E r \in 0..readable' : PolledTo(r)'
  <2>1. node # "down" /\ PollIsInTime /\ UNCHANGED <<since, seenOrder, kept, born>>
    BY <1>5 DEF CollectorInv, CollectorNext, CollectorWorks, JournalWrites, JournalCommits,
       JournalTicks, PollStarts, PollFails, Promote, CollectorDies, InferenceStarts,
       InferencePublished, collectorVars, polling
  <2>2. PICK r \in 0..readable : PolledTo(r)
    BY <2>1 DEF CollectorInv
  <2>3. NothingStoredTwice'
    BY <1>1, <2>1 DEF NothingStoredTwice
  <2>4. /\ readable \in Nat /\ readable <= Len(entries) /\ Len(entries) \in Nat
        /\ DOMAIN entries = 1..Len(entries)
        /\ since \in Int /\ time \in Nat /\ pollStart \in Nat /\ born \in Nat
    BY <1>1, CollectorFacts
  <2>5. CASE JournalWrites
    <3>1. /\ DOMAIN entries' = 1..Len(entries) + 1
          /\ \A e \in 1..Len(entries) : entries'[e] = entries[e]
          /\ entries'[Len(entries) + 1] = time
          /\ UNCHANGED <<time, readable, node, pollStart>>
      BY <1>1, <2>4, <2>5 DEF JournalWrites, polling, CollectorTypeOK
    <3>2. since <= time
      BY <2>1, <2>4 DEF PollIsInTime
    <3>3. \A e \in 1..r : e \in 1..Len(entries)
      BY <2>4
    <3>4. PolledTo(r)'
      BY <2>1, <2>2, <2>4, <3>1, <3>2, <3>3 DEF PolledTo
    <3> QED
      BY <2>1, <2>3, <3>1, <3>4 DEF PollIsInTime
  <2>6. CASE JournalCommits
    <3>1. UNCHANGED <<time, entries, node, pollStart>> /\ readable' = readable + 1
      BY <2>6 DEF JournalCommits, polling
    <3>2. r \in 0..readable' /\ PolledTo(r)' /\ PollIsInTime'
      BY <2>1, <2>2, <2>4, <3>1 DEF PolledTo, PollIsInTime
    <3> QED
      BY <2>3, <3>2
  <2>7. CASE JournalTicks
    <3>1. UNCHANGED <<entries, readable, node, pollStart>> /\ time' = time + 1
      BY <2>7 DEF JournalTicks, journal, polling
    <3>2. PollIsInTime'
      BY <2>1, <2>4, <2>7, <3>1 DEF PollIsInTime, JournalTicks
    <3> QED
      BY <2>1, <2>2, <2>3, <3>1, <3>2 DEF PolledTo
  <2>8. CASE PollStarts
    <3>1. UNCHANGED <<entries, readable, time>> /\ pollStart' = time
      BY <2>8 DEF PollStarts, journal
    <3>2. PollIsInTime'
      BY <2>1, <2>4, <3>1 DEF PollIsInTime
    <3> QED
      BY <2>1, <2>2, <2>3, <3>1, <3>2 DEF PolledTo
  <2>9. CASE PollFails \/ Promote \/ InferenceStarts \/ InferencePublished \/ UNCHANGED collectorVars
    <3>1. /\ UNCHANGED <<entries, readable, time, pollStart>>
          /\ node' = "polling" => node = "polling"
      BY <2>9 DEF PollFails, Promote, InferenceStarts, InferencePublished, collectorVars, journal,
         polling
    <3> QED
      BY <2>1, <2>2, <2>3, <3>1 DEF PolledTo, PollIsInTime
  <2> QED
    BY <1>5, <2>5, <2>6, <2>7, <2>8, <2>9 DEF CollectorNext, CollectorWorks, CollectorDies
<1>6. CASE node' = "down"
  <2>1. UNCHANGED kept
    BY <1>1, <1>6 DEF CollectorInv, CollectorNext, CollectorWorks, JournalWrites, JournalCommits,
       JournalTicks, PollStarts, PollReturns, PollFails, Promote, CollectorDies, CollectorStarts,
       InferenceStarts, InferencePublished, collectorVars, polling
  <2> QED
    BY <1>1, <1>6, <2>1 DEF NothingStoredTwice
<1> QED
  BY <1>3, <1>4, <1>5, <1>6

\* THEOREM: the collector keeps its types, for any overlap, limits and deaths.
THEOREM CollectorTyped == CollectorSpec => []CollectorTypeOK
<1>1. CollectorInv => CollectorTypeOK
  BY DEF CollectorInv
<1> QED
  BY CollectorInitially, CollectorStep, <1>1, PTL DEF CollectorSpec

\* THEOREM: a process of the collector stores no entry twice and misses none the
\* next poll does not ask for, for any overlap and poll time, any delay of the
\* journal within the overlap, with polls that fail and processes that die.
THEOREM JournalIsKept == CollectorSpec => []NothingStoredTwice /\ []NothingMissed
<1>1. CollectorInv => NothingStoredTwice
  BY DEF CollectorInv
<1>2. CollectorInv => NothingMissed
  <2> SUFFICES ASSUME CollectorInv, node # "down", NEW e \in DOMAIN entries,
                      entries[e] >= born - Overlap, entries[e] < since
               PROVE  kept[e] = 1
    BY DEF NothingMissed
  <2>1. PICK r \in 0..readable : PolledTo(r)
    BY DEF CollectorInv
  <2>2. /\ DOMAIN entries = 1..Len(entries) /\ Len(entries) \in Nat /\ readable \in Nat
        /\ entries[e] \in Nat /\ since \in Int /\ born \in Nat
    BY CollectorFacts DEF CollectorInv
  <2> QED
    BY <2>1, <2>2, CollectorBounds DEF PolledTo
<1> QED
  BY CollectorInitially, CollectorStep, <1>1, <1>2, PTL DEF CollectorSpec

-----------------------------------------------------------------------------
(* MCStandalone: the worlds of the run.                                      *)

WorldsInv ==
  /\ MotionTypeOK /\ ProfileInv /\ ProgressInv /\ CollectorInv /\ AdviceInv
  /\ HealthInv /\ MockInv

\* A world is a part of its component: it takes only steps of the component's
\* own specification, and no step of another.
LEMMA WorldIsPart ==
  ASSUME [WorldNext]_worldVars
  PROVE  /\ [MotionNext]_motionVars /\ [ProfileNext]_profileVars /\ [ProgressNext]_progressVars
         /\ [CollectorNext]_collectorVars /\ [AnalyzerNext]_analyzerVars
         /\ [HealthNext]_healthVars /\ [MockNext]_mockVars
<1>1. Ledger => HealthNext
  BY DEF Ledger, HealthNext
<1>2. Clearance => HealthNext
  BY DEF Clearance, HealthNext
<1>3. Outage => HealthNext
  BY DEF Outage, HealthNext
<1>4. Journal \/ Model => CollectorNext
  BY DEF Journal, Model, CollectorNext, CollectorWorks
<1>5. CASE UNCHANGED worldVars
  BY <1>5 DEF worldVars, operation, logs
<1>6. CASE WorldNext
  BY <1>1, <1>2, <1>3, <1>4, <1>6 DEF WorldNext, operation, logs
<1> QED
  BY <1>5, <1>6

\* THEOREM: every component keeps its types in every world.
THEOREM StandaloneTyped == StandaloneSpec => []StandaloneTypeOK
<1>1. WorldInit => WorldsInv
  BY InitTyped, ProfileInitially, ProgressInitially, CollectorInitially, AdviceInit,
     HealthInitially, MockInitially DEF WorldInit, WorldsInv
<1>2. WorldsInv /\ [WorldNext]_worldVars => WorldsInv'
  <2> SUFFICES ASSUME WorldsInv, [WorldNext]_worldVars PROVE WorldsInv'
    OBVIOUS
  <2>1. AdviceInv'
    BY WorldIsPart, AnalyzerTypeStep, AdviceStep DEF WorldsInv, AdviceInv
  <2>2. MockInv'
    BY WorldIsPart, MockTypeStep, MockStep DEF WorldsInv, MockInv
  <2> QED
    BY <2>1, <2>2, WorldIsPart, TypeStep, ProfileStep, ProgressStep, CollectorStep, HealthStep
       DEF WorldsInv
<1>3. WorldsInv => StandaloneTypeOK
  BY DEF WorldsInv, ProfileInv, ProgressInv, CollectorInv, AdviceInv, HealthInv, MockInv,
     StandaloneTypeOK
<1> QED
  BY <1>1, <1>2, <1>3, PTL DEF StandaloneSpec
=============================================================================
