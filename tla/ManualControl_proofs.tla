------------------------- MODULE ManualControl_proofs -------------------------
(***************************************************************************)
(* Proofs about deadman driving, for any number of operators, any commands, *)
(* timeouts, queue depth and retry delay: types, that the adapter never     *)
(* rests in a wrong belief about the arbiter's mode, and that motion ends   *)
(* within its bound when the callbacks are on time.                         *)
(***************************************************************************)
EXTENDS ManualControl, Topic_proofs

Requests == [from : {"manual", "other"}, mode : MotionModes]

-----------------------------------------------------------------------------
(* The mode client of the adapter. *)

\* What _request_mode may have done to it, once or twice.
AskStep(client, asked) ==
  /\ asked \in Clients
  /\ asked.applied = client.applied
  /\ \/ asked.pending = client.pending
     \/ client.pending = NoMode /\ asked.pending \in MotionModes \ {client.applied}

LEMMA AskFacts ==
  ASSUME NEW client \in Clients, NEW mode \in MotionModes, NEW ready \in BOOLEAN
  PROVE  /\ AskStep(client, Ask(client, mode, ready))
         /\ (/\ ready /\ client.pending = NoMode
             /\ client.applied # mode /\ client.retryIn = 0)
              => Ask(client, mode, ready).pending = mode
<1> DEFINE asked == [client EXCEPT !.desired = mode]
<1>1. /\ asked \in Clients /\ asked.pending = client.pending
      /\ asked.applied = client.applied /\ asked.retryIn = client.retryIn
  BY DEF Clients
<1>2. /\ [asked EXCEPT !.pending = mode] \in Clients
      /\ [asked EXCEPT !.pending = mode].pending = mode
      /\ [asked EXCEPT !.pending = mode].applied = client.applied
  BY <1>1 DEF Clients
<1>3. /\ [asked EXCEPT !.retryIn = RetryDelay] \in Clients
      /\ [asked EXCEPT !.retryIn = RetryDelay].pending = client.pending
      /\ [asked EXCEPT !.retryIn = RetryDelay].applied = client.applied
  <2>1. RetryDelay \in 0..RetryDelay
    BY ManualAssumption, SMT
  <2> QED
    BY <1>1, <2>1 DEF Clients
<1>4. client.retryIn \in Nat
  BY ManualAssumption DEF Clients
<1>5. Ask(client, mode, ready) =
        IF asked.pending # NoMode \/ asked.applied = mode \/ asked.retryIn > 0 THEN asked
        ELSE IF ready THEN [asked EXCEPT !.pending = mode]
        ELSE [asked EXCEPT !.retryIn = RetryDelay]
  BY DEF Ask
<1> HIDE DEF asked
<1>6. AskStep(client, Ask(client, mode, ready))
  <2>1. CASE asked.pending # NoMode \/ asked.applied = mode \/ asked.retryIn > 0
    BY <1>1, <1>5, <2>1 DEF AskStep
  <2>2. CASE ~(asked.pending # NoMode \/ asked.applied = mode \/ asked.retryIn > 0)
    BY <1>1, <1>2, <1>3, <1>5, <2>2 DEF AskStep
  <2> QED
    BY <2>1, <2>2
<1>7. ASSUME ready, client.pending = NoMode, client.applied # mode, client.retryIn = 0
      PROVE  Ask(client, mode, ready).pending = mode
  <2>1. ~(0 > 0)
    OBVIOUS
  <2> QED
    BY <1>1, <1>2, <1>5, <1>7, <2>1
<1> QED
  BY <1>6, <1>7

\* Asking twice is asking once, as far as the pending mode goes.
LEMMA AskTwice ==
  ASSUME NEW a \in Clients, NEW b, NEW c, AskStep(a, b), AskStep(b, c)
  PROVE  AskStep(a, c)
BY DEF AskStep

\* Stopping a session asks for IDLE.
LEMMA StoppedFacts ==
  ASSUME NEW m \in Adapters, NEW ready \in BOOLEAN
  PROVE  /\ Stopped(m, ready) \in Adapters
         /\ AskStep(m.client, Stopped(m, ready).client)
         /\ Stopped(m, ready).session = NoSession
         /\ Stopped(m, ready).command = Still
<1>1. m.client \in Clients /\ "IDLE" \in MotionModes /\ NoCommand \in 0..NoCommand
  BY ManualAssumption, SMT DEF Adapters, MotionModes, NoCommand
<1>2. AskStep(m.client, m.client)
  BY <1>1 DEF AskStep
<1>3. AskStep(m.client, IF m.session # NoSession THEN Ask(m.client, "IDLE", ready) ELSE m.client)
  BY <1>1, <1>2, AskFacts
<1>4. (IF m.session # NoSession THEN Ask(m.client, "IDLE", ready) ELSE m.client) \in Clients
  BY <1>3 DEF AskStep
<1> QED
  BY <1>1, <1>3, <1>4 DEF Stopped, Adapters, Commands

\* So does an expiry; nothing else changes the adapter.
LEMMA UnexpiredFacts ==
  ASSUME manual \in Adapters, NEW ready \in BOOLEAN
  PROVE  /\ Unexpired(ready) \in Adapters
         /\ AskStep(manual.client, Unexpired(ready).client)
         /\ Unexpired(ready) = manual \/ (Overdue /\ Unexpired(ready) = Stopped(manual, ready))
<1>1. AskStep(manual.client, manual.client)
  BY DEF AskStep, Adapters
<1> QED
  BY <1>1, StoppedFacts DEF Unexpired

-----------------------------------------------------------------------------
(* The queue of the mode service. *)

\* A request that does not put the arbiter in MANUAL, and is not the adapter's.
Harmless(i) == modeRequests[i].from = "other" /\ modeRequests[i].mode # "MANUAL"

\* The adapter's request is the last that may ask for MANUAL.
OneRequest ==
  \A i \in DOMAIN modeRequests : modeRequests[i].from = "manual" =>
    /\ manualUp /\ modeReply = NoMode
    /\ modeRequests[i].mode = manual.client.pending
    /\ \A j \in DOMAIN modeRequests : j > i => Harmless(j)

\* So is the one whose reply is on its way.
ReplyIsLast ==
  modeReply # NoMode =>
    /\ manualUp /\ modeReply = manual.client.pending
    /\ \A i \in DOMAIN modeRequests : Harmless(i)
    /\ modeReply = "IDLE" => motionMode # "MANUAL"

\* Nothing outstanding, nothing queued.
NothingOutstanding ==
  (manualUp /\ manual.client.pending = NoMode) =>
    /\ modeReply = NoMode
    /\ manual.client.applied = "IDLE" =>
         /\ motionMode # "MANUAL"
         /\ \A i \in DOMAIN modeRequests : Harmless(i)

\* There is room in the queue for the adapter's request.
RoomForOne ==
  (manualUp /\ \A i \in DOMAIN modeRequests : modeRequests[i].from = "other") =>
    Len(modeRequests) < MaxRequests

QueueInv == OneRequest /\ ReplyIsLast /\ NothingOutstanding /\ RoomForOne

\* What appending a request does to the queue.
LEMMA Queued ==
  ASSUME ManualTypeOK, NEW r \in Requests, modeRequests' = Append(modeRequests, r)
  PROVE  /\ modeRequests' \in Seq(Requests)
         /\ Len(modeRequests) \in Nat /\ Len(modeRequests') = Len(modeRequests) + 1
         /\ DOMAIN modeRequests = 1..Len(modeRequests)
         /\ DOMAIN modeRequests' = 1..(Len(modeRequests) + 1)
         /\ modeRequests'[Len(modeRequests) + 1] = r
         /\ \A i \in 1..Len(modeRequests) : modeRequests'[i] = modeRequests[i]
         /\ \A i \in 1..(Len(modeRequests) + 1) :
              i = Len(modeRequests) + 1 \/ (i \in 1..Len(modeRequests) /\ Len(modeRequests) + 1 > i)
<1>1. modeRequests \in Seq(Requests) /\ Len(modeRequests) \in Nat
  BY DEF ManualTypeOK, Requests
<1>2. \A i \in 1..(Len(modeRequests) + 1) :
        i = Len(modeRequests) + 1 \/ (i \in 1..Len(modeRequests) /\ Len(modeRequests) + 1 > i)
  BY <1>1, SMT
<1> QED
  BY <1>1, <1>2, AppendFacts

\* A step of the adapter that may send a request.
Sends ==
  /\ manualUp /\ manualUp'
  /\ UNCHANGED <<arbiterUp, motionMode>>
  /\ SendModeRequest
  /\ manual'.client \in Clients
  /\ \/ modeReply' = modeReply /\ AskStep(manual.client, manual'.client)
     \/ /\ modeReply # NoMode /\ modeReply' = NoMode
        /\ manual'.client.applied = modeReply
        /\ manual'.client.pending \in {NoMode} \cup (MotionModes \ {modeReply})

LEMMA SendsKept ==
  ASSUME ManualTypeOK, QueueInv, Sends
  PROVE  /\ QueueInv'
         /\ modeRequests' \in Seq(Requests) /\ Len(modeRequests') =< MaxRequests
<1>a. /\ modeRequests \in Seq(Requests) /\ Len(modeRequests) \in Nat
      /\ MaxRequests \in Nat /\ Len(modeRequests) =< MaxRequests
      /\ manual.client.pending \in MotionModes \cup {NoMode}
      /\ NoMode \notin MotionModes
      /\ modeReply \in MotionModes \cup {NoMode}
  BY ManualAssumption DEF ManualTypeOK, Requests, Adapters, Clients, MotionModes, NoMode
<1>b. \A i \in DOMAIN modeRequests : modeRequests[i] \in Requests
  BY <1>a
<1> USE DEF Sends, AskStep
<1>1. CASE UNCHANGED modeRequests
  <2>1. \A i \in DOMAIN modeRequests : modeRequests[i].from = "manual" =>
          manual'.client.pending = manual.client.pending /\ modeReply = NoMode /\ modeReply' = NoMode
    BY <1>a, <1>b DEF QueueInv, OneRequest, ReplyIsLast, Harmless, Requests
  <2>2. OneRequest'
    BY <1>1, <2>1 DEF QueueInv, OneRequest, Harmless
  <2>3. ReplyIsLast'
    BY <1>1, <1>a, <1>b DEF QueueInv, OneRequest, ReplyIsLast, NothingOutstanding, Harmless
  <2>4. NothingOutstanding'
    BY <1>1, <1>a, <1>b DEF QueueInv, OneRequest, ReplyIsLast, NothingOutstanding, Harmless
  <2> QED
    BY <1>1, <1>a, <2>2, <2>3, <2>4 DEF QueueInv, RoomForOne
<1>2. CASE /\ manual'.client.pending \notin {NoMode, manual.client.pending}
           /\ modeRequests' = Append(modeRequests, [from |-> "manual", mode |-> manual'.client.pending])
  <2> DEFINE r == [from |-> "manual", mode |-> manual'.client.pending]
  <2>1. r \in Requests /\ r.from = "manual" /\ r.mode = manual'.client.pending
    BY <1>2, <1>a DEF Requests
  <2>2. /\ modeRequests' \in Seq(Requests)
        /\ Len(modeRequests') = Len(modeRequests) + 1
        /\ DOMAIN modeRequests = 1..Len(modeRequests)
        /\ DOMAIN modeRequests' = 1..(Len(modeRequests) + 1)
        /\ modeRequests'[Len(modeRequests) + 1] = r
        /\ \A i \in 1..Len(modeRequests) : modeRequests'[i] = modeRequests[i]
        /\ \A i \in 1..(Len(modeRequests) + 1) :
             i = Len(modeRequests) + 1 \/ (i \in 1..Len(modeRequests) /\ Len(modeRequests) + 1 > i)
    BY <1>2, <2>1, Queued
  <2> HIDE DEF r
  <2>3. /\ modeReply' = NoMode
        /\ \A i \in DOMAIN modeRequests : modeRequests[i].from = "other"
    BY <1>2, <1>a, <1>b DEF QueueInv, OneRequest, ReplyIsLast, NothingOutstanding, Harmless, Requests
  <2>4. OneRequest'
    <3> SUFFICES ASSUME NEW i \in DOMAIN modeRequests', modeRequests'[i].from = "manual"
                 PROVE  /\ modeRequests'[i].mode = manual'.client.pending
                        /\ \A j \in DOMAIN modeRequests' : ~(j > i)
      BY <2>3 DEF OneRequest
    <3>1. i = Len(modeRequests) + 1
      BY <2>2, <2>3
    <3>2. \A j \in 1..(Len(modeRequests) + 1) : ~(j > Len(modeRequests) + 1)
      BY <1>a, SMT
    <3> QED
      BY <2>1, <2>2, <3>1, <3>2
  <2>5. ReplyIsLast' /\ NothingOutstanding'
    BY <1>2, <2>3 DEF ReplyIsLast, NothingOutstanding
  <2>6. RoomForOne'
    <3>1. Len(modeRequests) + 1 \in DOMAIN modeRequests'
      BY <1>a, <2>2, SMT
    <3> QED
      BY <2>1, <2>2, <3>1 DEF RoomForOne
  <2>7. Len(modeRequests') =< MaxRequests
    BY <1>a, <2>2, <2>3 DEF QueueInv, RoomForOne
  <2> QED
    BY <2>2, <2>4, <2>5, <2>6, <2>7 DEF QueueInv
<1> QED
  BY <1>1, <1>2 DEF SendModeRequest

-----------------------------------------------------------------------------
(* The callbacks of the adapter. *)

LEMMA ManualPublishTyped ==
  ASSUME NEW q \in Seq(Commands), Len(q) =< Depth, NEW c \in Commands
  PROVE  /\ ManualPublish(q, c) \in Seq(Commands) /\ Len(ManualPublish(q, c)) =< Depth
         /\ arbiterUp => ManualPublish(q, c) # <<>> /\ Newest(ManualPublish(q, c)) = c
         /\ ~arbiterUp => ManualPublish(q, c) = <<>>
         /\ \A i \in DOMAIN ManualPublish(q, c) :
              ManualPublish(q, c)[i] = c \/ \E j \in DOMAIN q : ManualPublish(q, c)[i] = q[j]
<1>1. CASE arbiterUp
  BY <1>1, PublishFacts DEF ManualPublish
<1>2. CASE ~arbiterUp
  <2>1. <<>> \in Seq(Commands) /\ Len(<<>>) =< Depth /\ DOMAIN <<>> = {}
    BY DepthAssumption, SMT
  <2> QED
    BY <1>2, <2>1 DEF ManualPublish
<1> QED
  BY <1>1, <1>2

\* Whether the arbiter is seen is a truth value.
LEMMA SeenFacts == SeenReady \subseteq BOOLEAN /\ (arbiterUp => SeenReady = {TRUE})
BY DEF SeenReady

LEMMA StopSends ==
  ASSUME ManualTypeOK, NEW s \in Sessions, StopCalled(s)
  PROVE  /\ Sends /\ manual' \in Adapters
         /\ manualSamples' \in Seq(Commands) /\ Len(manualSamples') =< Depth
<1>a. manual \in Adapters /\ manualSamples \in Seq(Commands) /\ Len(manualSamples) =< Depth
  BY DEF ManualTypeOK
<1>1. PICK ready \in SeenReady :
        manual' = IF s = Unexpired(ready).session THEN Stopped(Unexpired(ready), ready)
                  ELSE Unexpired(ready)
  BY DEF StopCalled
<1>2. /\ Unexpired(ready) \in Adapters
      /\ AskStep(manual.client, Unexpired(ready).client)
      /\ Stopped(Unexpired(ready), ready) \in Adapters
      /\ AskStep(Unexpired(ready).client, Stopped(Unexpired(ready), ready).client)
  BY <1>a, SeenFacts, UnexpiredFacts, StoppedFacts
<1>3. manual.client \in Clients
  BY <1>a DEF Adapters
<1>4. manual' \in Adapters /\ AskStep(manual.client, manual'.client)
  BY <1>1, <1>2, <1>3, AskTwice
<1>5. Sends
  BY <1>4 DEF StopCalled, Sends, AskStep, arbiterVars
<1> QED
  BY <1>a, <1>4, <1>5, ManualPublishTyped DEF StopCalled, Commands

LEMMA CommandSends ==
  ASSUME ManualTypeOK, NEW s \in Sessions, NEW c \in Commands \cup {Malformed}, CommandCalled(s, c)
  PROVE  /\ Sends /\ manual' \in Adapters
         /\ manualSamples' \in Seq(Commands) /\ Len(manualSamples') =< Depth
<1>a. manual \in Adapters /\ manualSamples \in Seq(Commands) /\ Len(manualSamples) =< Depth
  BY DEF ManualTypeOK
<1>1. PICK ready \in SeenReady :
        manual' =
          IF Unexpired(ready).session \notin {NoSession, s} \/ c = Malformed THEN Unexpired(ready)
          ELSE [session |-> s, age |-> 0, command |-> c,
                client |-> IF Unexpired(ready).session = NoSession
                           THEN Ask(Unexpired(ready).client, "MANUAL", ready)
                           ELSE Unexpired(ready).client]
  BY DEF CommandCalled
<1>2. /\ Unexpired(ready) \in Adapters
      /\ AskStep(manual.client, Unexpired(ready).client)
  BY <1>a, SeenFacts, UnexpiredFacts
<1>3. /\ manual.client \in Clients /\ Unexpired(ready).client \in Clients
      /\ "MANUAL" \in MotionModes /\ 0 \in 0..NoCommand
  BY <1>a, <1>2, ManualAssumption, SMT DEF Adapters, MotionModes, NoCommand
<1>4. AskStep(Unexpired(ready).client, Ask(Unexpired(ready).client, "MANUAL", ready))
  BY <1>3, SeenFacts, AskFacts
<1>5. AskStep(manual.client, Ask(Unexpired(ready).client, "MANUAL", ready))
  BY <1>2, <1>3, <1>4, AskTwice
<1>6. manual' \in Adapters /\ AskStep(manual.client, manual'.client)
  <2>1. CASE Unexpired(ready).session \notin {NoSession, s} \/ c = Malformed
    BY <1>1, <1>2, <2>1
  <2>2. CASE ~(Unexpired(ready).session \notin {NoSession, s} \/ c = Malformed)
    <3> DEFINE client == IF Unexpired(ready).session = NoSession
                         THEN Ask(Unexpired(ready).client, "MANUAL", ready)
                         ELSE Unexpired(ready).client
    <3>1. client \in Clients /\ AskStep(manual.client, client)
      BY <1>2, <1>3, <1>4, <1>5 DEF AskStep
    <3>2. manual' = [session |-> s, age |-> 0, command |-> c, client |-> client]
      BY <1>1, <2>2
    <3>3. c \in Commands
      BY <2>2
    <3> HIDE DEF client
    <3> QED
      BY <1>3, <3>1, <3>2, <3>3 DEF Adapters
  <2> QED
    BY <2>1, <2>2
<1>7. Sends
  BY <1>6 DEF CommandCalled, Sends, AskStep, arbiterVars
<1> QED
  BY <1>a, <1>6, <1>7, ManualPublishTyped DEF CommandCalled, Commands

LEMMA TimerSends ==
  ASSUME ManualTypeOK, ManualTimerFires
  PROVE  /\ Sends /\ manual' \in Adapters
         /\ manualSamples' \in Seq(Commands) /\ Len(manualSamples') =< Depth
<1>a. manual \in Adapters /\ manualSamples \in Seq(Commands) /\ Len(manualSamples) =< Depth
  BY DEF ManualTypeOK
<1>1. PICK ready \in SeenReady :
        manual' = [Unexpired(ready) EXCEPT !.client = Ask(@, @.desired, ready)]
  BY DEF ManualTimerFires
<1>2. /\ Unexpired(ready) \in Adapters
      /\ AskStep(manual.client, Unexpired(ready).client)
  BY <1>a, SeenFacts, UnexpiredFacts
<1>3. /\ manual.client \in Clients /\ Unexpired(ready).client \in Clients
      /\ Unexpired(ready).client.desired \in MotionModes
  BY <1>a, <1>2 DEF Adapters, Clients
<1> DEFINE asked == Ask(Unexpired(ready).client, Unexpired(ready).client.desired, ready)
<1>4. AskStep(Unexpired(ready).client, asked)
  BY <1>3, SeenFacts, AskFacts
<1>5. AskStep(manual.client, asked) /\ asked \in Clients
  BY <1>2, <1>3, <1>4, AskTwice DEF AskStep
<1>6. manual' = [Unexpired(ready) EXCEPT !.client = asked]
  BY <1>1
<1> HIDE DEF asked
<1>7. manual' \in Adapters /\ manual'.client = asked
  BY <1>2, <1>5, <1>6 DEF Adapters
<1>8. Sends
  BY <1>5, <1>7 DEF ManualTimerFires, Sends, arbiterVars
<1>9. manual'.command \in Commands /\ Still \in Commands
  BY <1>7 DEF Adapters, Commands
<1> QED
  BY <1>a, <1>7, <1>8, <1>9, ManualPublishTyped DEF ManualTimerFires

LEMMA ReplySends ==
  ASSUME ManualTypeOK, QueueInv, ModeReplyArrives
  PROVE  Sends /\ manual' \in Adapters
<1>a. /\ manual \in Adapters /\ manual.client \in Clients /\ modeReply \in MotionModes
      /\ "manual" # NoMode
  BY DEF ModeReplyArrives, ManualTypeOK, Adapters, NoMode
<1>1. PICK ready \in SeenReady :
        manual' = [manual EXCEPT !.client =
                     IF Completed(manual.client).desired # Completed(manual.client).applied
                     THEN Ask(Completed(manual.client), Completed(manual.client).desired, ready)
                     ELSE Completed(manual.client)]
  BY DEF ModeReplyArrives
<1>2. /\ Completed(manual.client) \in Clients
      /\ Completed(manual.client).applied = modeReply
      /\ Completed(manual.client).pending = NoMode
      /\ Completed(manual.client).desired \in MotionModes
  <2>1. 0 \in 0..RetryDelay
    BY ManualAssumption, SMT
  <2> QED
    BY <1>a, <2>1 DEF Completed, Clients
<1> DEFINE done == Completed(manual.client)
           client == IF done.desired # done.applied THEN Ask(done, done.desired, ready) ELSE done
<1>3. AskStep(done, client)
  <2> HIDE DEF done
  <2>1. AskStep(done, done)
    BY <1>2 DEF AskStep, done
  <2>2. AskStep(done, Ask(done, done.desired, ready))
    BY <1>2, SeenFacts, AskFacts DEF done
  <2> QED
    BY <2>1, <2>2
<1>4. manual' = [manual EXCEPT !.client = client]
  BY <1>1
<1> HIDE DEF client
<1>5. manual' \in Adapters /\ manual'.client = client /\ client \in Clients
  BY <1>a, <1>3, <1>4 DEF Adapters, AskStep
<1>6. client.applied = modeReply /\ client.pending \in {NoMode} \cup (MotionModes \ {modeReply})
  BY <1>2, <1>3 DEF AskStep
<1>7. Sends
  BY <1>5, <1>6 DEF ModeReplyArrives, Sends, arbiterVars
<1> QED
  BY <1>5, <1>7

-----------------------------------------------------------------------------
(* The adapter comes and goes. *)

\* Its requests live on as nobody's.
LEMMA Disowned ==
  ASSUME ManualTypeOK,
         NEW kept, kept = [i \in DOMAIN modeRequests |->
                             [modeRequests[i] EXCEPT !.from = "other"]]
  PROVE  /\ kept \in Seq(Requests) /\ Len(kept) = Len(modeRequests)
         /\ \A i \in DOMAIN kept : kept[i].from = "other"
<1>1. /\ modeRequests \in Seq(Requests) /\ Len(modeRequests) \in Nat
      /\ DOMAIN modeRequests = 1..Len(modeRequests)
      /\ \A i \in 1..Len(modeRequests) : modeRequests[i] \in Requests
  <2>1. modeRequests \in Seq(Requests)
    BY DEF ManualTypeOK, Requests
  <2> QED
    BY <2>1
<1>2. \A r \in Requests : /\ [r EXCEPT !.from = "other"] \in Requests
                          /\ [r EXCEPT !.from = "other"].from = "other"
  BY DEF Requests
<1>3. kept \in [1..Len(modeRequests) -> Requests] /\ \A i \in DOMAIN kept : kept[i].from = "other"
  BY <1>1, <1>2, Zenon
<1> QED
  BY <1>1, <1>3

LEMMA LeavingKept ==
  ASSUME ManualTypeOK, QueueInv, ManualDies \/ ManualShutsDown
  PROVE  ManualTypeOK' /\ QueueInv'
<1> DEFINE kept == [i \in DOMAIN modeRequests |-> [modeRequests[i] EXCEPT !.from = "other"]]
<1>a. /\ kept \in Seq(Requests) /\ Len(kept) = Len(modeRequests)
      /\ \A i \in DOMAIN kept : kept[i].from = "other"
  <2> HIDE DEF kept
  <2> QED
    BY Disowned DEF kept
<1>b. /\ modeRequests \in Seq(Requests) /\ Len(modeRequests) \in Nat
      /\ MaxRequests \in Nat /\ Len(modeRequests) =< MaxRequests
      /\ manual \in Adapters /\ manual.client \in Clients
      /\ manualSamples \in Seq(Commands) /\ Len(manualSamples) =< Depth
  BY ManualAssumption DEF ManualTypeOK, Requests, Adapters
<1>c. \A i \in DOMAIN modeRequests : modeRequests[i] \in Requests
  BY <1>b
<1> HIDE DEF kept
<1>1. ASSUME modeRequests' \in Seq(Requests), Len(modeRequests') =< MaxRequests,
             \A i \in DOMAIN modeRequests' : modeRequests'[i].from = "other",
             manual' \in Adapters,
             manualSamples' \in Seq(Commands), Len(manualSamples') =< Depth,
             manualUp' = FALSE, modeReply' = NoMode, UNCHANGED <<arbiterVars, due, sinceMotion>>
      PROVE  ManualTypeOK' /\ QueueInv'
  <2>1. ManualTypeOK'
    BY <1>1 DEF ManualTypeOK, ArbiterTypeOK, arbiterVars, Requests
  <2>2. QueueInv'
    BY <1>1 DEF QueueInv, OneRequest, ReplyIsLast, NothingOutstanding, RoomForOne
  <2> QED
    BY <2>1, <2>2
<1>2. CASE ManualDies
  BY <1>1, <1>2, <1>a, <1>b DEF ManualDies, kept
<1>3. CASE ManualShutsDown
  <2>1. PICK ready \in SeenReady : manual' = Stopped(manual, ready)
    BY <1>3 DEF ManualShutsDown
  <2>2. manual' \in Adapters /\ AskStep(manual.client, manual'.client)
    BY <1>b, <2>1, SeenFacts, StoppedFacts
  <2>3. manualSamples' \in Seq(Commands) /\ Len(manualSamples') =< Depth
    BY <1>3, <1>b, ManualPublishTyped DEF ManualShutsDown, Commands
  <2> DEFINE r == [from |-> "other", mode |-> "IDLE"]
  <2>4. CASE modeRequests' = kept
    BY <1>1, <1>3, <1>a, <1>b, <2>2, <2>3, <2>4 DEF ManualShutsDown
  <2>5. CASE manual'.client.pending # manual.client.pending /\ modeRequests' = Append(kept, r)
    <3>1. r \in Requests /\ r.from = "other"
      BY DEF Requests, MotionModes
    <3>2. manual.client.pending = NoMode /\ manualUp
      BY <1>3, <2>2, <2>5 DEF AskStep, ManualShutsDown
    <3>3. \A i \in DOMAIN modeRequests : modeRequests[i].from = "other"
      BY <1>c, <3>2 DEF QueueInv, OneRequest, Requests, MotionModes, NoMode
    <3>4. Len(modeRequests) < MaxRequests
      BY <3>2, <3>3 DEF QueueInv, RoomForOne
    <3> HIDE DEF r
    <3>5. /\ modeRequests' \in Seq(Requests) /\ Len(modeRequests') = Len(kept) + 1
          /\ \A i \in DOMAIN modeRequests' :
               modeRequests'[i] = r \/ \E j \in DOMAIN kept : modeRequests'[i] = kept[j]
      BY <1>a, <2>5, <3>1, AppendFacts
    <3>6. Len(modeRequests') =< MaxRequests
      BY <1>a, <1>b, <3>4, <3>5, SMT
    <3>7. \A i \in DOMAIN modeRequests' : modeRequests'[i].from = "other"
      BY <1>a, <3>1, <3>5
    <3> QED
      BY <1>1, <1>3, <2>2, <2>3, <3>5, <3>6, <3>7 DEF ManualShutsDown
  <2> QED
    BY <1>3, <2>4, <2>5 DEF ManualShutsDown, kept
<1> QED
  BY <1>2, <1>3

LEMMA RespawnKept ==
  ASSUME ManualTypeOK, QueueInv, ManualRespawns
  PROVE  ManualTypeOK' /\ QueueInv'
<1>1. FreshAdapter \in Adapters /\ FreshAdapter.client.pending = NoMode
      /\ FreshAdapter.client.applied = NoMode
  <2>1. 0 \in 0..RetryDelay /\ NoCommand \in 0..NoCommand
    BY ManualAssumption, SMT DEF NoCommand
  <2> QED
    BY <2>1 DEF FreshAdapter, Adapters, Clients, Commands, MotionModes
<1>2. ManualTypeOK'
  BY <1>1 DEF ManualRespawns, ManualTypeOK, ArbiterTypeOK, arbiterVars
<1>3. NoMode # "IDLE"
  BY DEF NoMode
<1>4. modeReply = NoMode /\ \A i \in DOMAIN modeRequests : modeRequests[i].from # "manual"
  BY DEF ManualRespawns, QueueInv, OneRequest, ReplyIsLast
<1>5. QueueInv'
  BY <1>1, <1>3, <1>4 DEF ManualRespawns, QueueInv, OneRequest, ReplyIsLast, NothingOutstanding,
                          RoomForOne
<1> QED
  BY <1>2, <1>5

-----------------------------------------------------------------------------
(* The agent, the arbiter and time. *)

LEMMA AgentAsksKept ==
  ASSUME ManualTypeOK, QueueInv, NEW m \in {"IDLE", "NAVIGATION"}, AgentAsks(m)
  PROVE  ManualTypeOK' /\ QueueInv'
<1> DEFINE r == [from |-> "other", mode |-> m]
<1>1. r \in Requests /\ r.from = "other" /\ r.mode # "MANUAL"
  BY DEF Requests, MotionModes
<1>2. modeRequests' = Append(modeRequests, r)
      /\ UNCHANGED <<arbiterVars, manualUp, manual, manualSamples, modeReply, due, sinceMotion>>
      /\ Len(modeRequests) + 1 < MaxRequests
  BY DEF AgentAsks
<1> HIDE DEF r
<1>3. /\ modeRequests' \in Seq(Requests)
      /\ Len(modeRequests) \in Nat /\ Len(modeRequests') = Len(modeRequests) + 1
      /\ DOMAIN modeRequests = 1..Len(modeRequests)
      /\ DOMAIN modeRequests' = 1..(Len(modeRequests) + 1)
      /\ modeRequests'[Len(modeRequests) + 1] = r
      /\ \A i \in 1..Len(modeRequests) : modeRequests'[i] = modeRequests[i]
      /\ \A i \in 1..(Len(modeRequests) + 1) :
           i = Len(modeRequests) + 1 \/ (i \in 1..Len(modeRequests) /\ Len(modeRequests) + 1 > i)
  BY <1>1, <1>2, Queued
<1>4. Len(modeRequests') =< MaxRequests /\ Len(modeRequests') < MaxRequests
  BY <1>2, <1>3, ManualAssumption, SMT
<1>5. ManualTypeOK'
  BY <1>2, <1>3, <1>4 DEF ManualTypeOK, ArbiterTypeOK, arbiterVars, Requests
<1>6. \A i \in DOMAIN modeRequests' :
        Harmless(i)' \/ (i \in DOMAIN modeRequests /\ modeRequests'[i] = modeRequests[i])
  BY <1>1, <1>3 DEF Harmless
<1>7. OneRequest'
  BY <1>1, <1>2, <1>6 DEF QueueInv, OneRequest, Harmless
<1>8. ReplyIsLast' /\ NothingOutstanding'
  BY <1>2, <1>6 DEF QueueInv, ReplyIsLast, NothingOutstanding, Harmless, arbiterVars
<1> QED
  BY <1>4, <1>5, <1>7, <1>8 DEF QueueInv, RoomForOne

LEMMA ServesKept ==
  ASSUME ManualTypeOK, QueueInv, ArbiterServesMode
  PROVE  ManualTypeOK' /\ QueueInv'
<1>a. /\ modeRequests \in Seq(Requests) /\ modeRequests # <<>>
      /\ Len(modeRequests) \in Nat /\ Len(modeRequests) =< MaxRequests /\ MaxRequests \in Nat
      /\ DOMAIN modeRequests = 1..Len(modeRequests)
  BY ManualAssumption DEF ArbiterServesMode, ManualTypeOK, Requests
<1>1. /\ Head(modeRequests) \in Requests
      /\ 1 \in DOMAIN modeRequests /\ Head(modeRequests) = modeRequests[1]
      /\ Tail(modeRequests) \in Seq(Requests)
      /\ Len(Tail(modeRequests)) = Len(modeRequests) - 1
      /\ \A i \in DOMAIN Tail(modeRequests) :
           i + 1 \in DOMAIN modeRequests /\ Tail(modeRequests)[i] = modeRequests[i + 1]
  BY <1>a, TailFacts
<1>2. \A i, j \in DOMAIN Tail(modeRequests) : i + 1 > 1 /\ (j > i => j + 1 > i + 1)
  <2>1. DOMAIN Tail(modeRequests) = 1..(Len(modeRequests) - 1)
    BY <1>a
  <2> QED
    BY <1>a, <2>1, SMT
<1>3. /\ modeRequests' = Tail(modeRequests) /\ motionMode' = Head(modeRequests).mode
      /\ modeReply' = IF Head(modeRequests).from = "manual" THEN Head(modeRequests).mode
                      ELSE modeReply
      /\ UNCHANGED <<manualUp, manual, manualSamples, due, sinceMotion>>
  BY DEF ArbiterServesMode, OnSetMode
<1>4. ArbiterTypeOK'
  BY <1>1, ArbiterAssumption
     DEF ManualTypeOK, ArbiterTypeOK, ArbiterServesMode, OnSetMode, ForgetSources, Requests,
         Commands, NoInput, NoAuthorization
<1>5. Len(modeRequests') < MaxRequests
  BY <1>a, <1>1, <1>3, SMT
<1>6. ManualTypeOK'
  BY <1>1, <1>3, <1>4, <1>5, <1>a DEF ManualTypeOK, Requests
<1>7. CASE Head(modeRequests).from = "manual"
  <2>1. /\ manualUp /\ modeReply = NoMode
        /\ Head(modeRequests).mode = manual.client.pending
        /\ \A j \in DOMAIN modeRequests : j > 1 => Harmless(j)
    BY <1>1, <1>7 DEF QueueInv, OneRequest
  <2>2. \A i \in DOMAIN modeRequests' : Harmless(i)'
    BY <1>1, <1>2, <1>3, <2>1 DEF Harmless
  <2>3. Head(modeRequests).mode # NoMode /\ "IDLE" # "MANUAL"
    BY <1>1 DEF Requests, MotionModes, NoMode
  <2>4. OneRequest' /\ ReplyIsLast' /\ NothingOutstanding'
    BY <1>3, <1>7, <2>1, <2>2, <2>3 DEF OneRequest, ReplyIsLast, NothingOutstanding, Harmless
  <2> QED
    BY <1>5, <1>6, <2>4 DEF QueueInv, RoomForOne
<1>8. CASE Head(modeRequests).from # "manual"
  <2>1. OneRequest'
    <3> SUFFICES ASSUME NEW i \in DOMAIN modeRequests', modeRequests'[i].from = "manual"
                 PROVE  /\ manualUp' /\ modeReply' = NoMode
                        /\ modeRequests'[i].mode = manual'.client.pending
                        /\ \A j \in DOMAIN modeRequests' : j > i => Harmless(j)'
      BY DEF OneRequest
    <3>1. i + 1 \in DOMAIN modeRequests /\ modeRequests[i + 1] = modeRequests'[i]
      BY <1>1, <1>3
    <3>2. /\ manualUp /\ modeReply = NoMode
          /\ modeRequests[i + 1].mode = manual.client.pending
          /\ \A j \in DOMAIN modeRequests : j > i + 1 => Harmless(j)
      BY <3>1 DEF QueueInv, OneRequest
    <3>3. \A j \in DOMAIN modeRequests' : j > i => Harmless(j)'
      BY <1>1, <1>2, <1>3, <3>2 DEF Harmless
    <3> QED
      BY <1>3, <1>8, <3>1, <3>2, <3>3
  <2>2. ReplyIsLast' /\ NothingOutstanding'
    BY <1>1, <1>3, <1>8 DEF QueueInv, ReplyIsLast, NothingOutstanding, Harmless
  <2> QED
    BY <1>5, <1>6, <2>1, <2>2 DEF QueueInv, RoomForOne
<1> QED
  BY <1>7, <1>8

LEMMA SampleKept ==
  ASSUME ManualTypeOK, QueueInv, ArbiterHandlesSample
  PROVE  ManualTypeOK' /\ QueueInv'
<1>1. manualSamples \in Seq(Commands) /\ manualSamples # <<>> /\ Len(manualSamples) =< Depth
  BY DEF ArbiterHandlesSample, ManualTypeOK
<1>2. /\ Head(manualSamples) \in Commands /\ Tail(manualSamples) \in Seq(Commands)
      /\ Len(Tail(manualSamples)) =< Len(manualSamples)
  BY <1>1, TailFacts
<1>3. Len(Tail(manualSamples)) =< Depth
  BY <1>1, <1>2, DepthAssumption, SMT
<1>4. ManualTypeOK'
  BY <1>2, <1>3, ArbiterAssumption
     DEF ManualTypeOK, ArbiterTypeOK, ArbiterHandlesSample, OnManualCommand, NoInput
<1>5. QueueInv'
  BY DEF ArbiterHandlesSample, OnManualCommand, QueueInv, OneRequest, ReplyIsLast,
         NothingOutstanding, RoomForOne, Harmless
<1> QED
  BY <1>4, <1>5

LEMMA ArbiterKept ==
  ASSUME ManualTypeOK, QueueInv, ArbiterTimerFires \/ ArbiterDies \/ ArbiterRespawns
  PROVE  ManualTypeOK' /\ QueueInv'
<1>1. CASE ArbiterTimerFires
  <2>1. ManualTypeOK'
    BY <1>1 DEF ManualTypeOK, ArbiterTypeOK, ArbiterTimerFires, ArbiterOnTimer, ChooseCommand,
                Commands
  <2>2. QueueInv'
    BY <1>1 DEF ArbiterTimerFires, ArbiterOnTimer, QueueInv, OneRequest, ReplyIsLast,
                NothingOutstanding, RoomForOne, Harmless
  <2> QED
    BY <2>1, <2>2
<1>2. CASE ArbiterDies
  <2>1. /\ <<>> \in Seq(Commands) /\ Len(<<>>) = 0 /\ 0 =< Depth /\ 0 =< MaxRequests
        /\ 0 < MaxRequests
        /\ <<>> \in Seq(Requests) /\ DOMAIN <<>> = {}
    BY DepthAssumption, ManualAssumption, SMT
  <2>2. ManualTypeOK'
    BY <1>2, <2>1 DEF ManualTypeOK, ArbiterTypeOK, ArbiterDies, ArbiterEnd, Commands, Requests
  <2>3. QueueInv'
    BY <1>2, <2>1 DEF ArbiterDies, ArbiterEnd, QueueInv, OneRequest, ReplyIsLast,
                NothingOutstanding, RoomForOne
  <2> QED
    BY <2>2, <2>3
<1>3. CASE ArbiterRespawns
  <2>1. ManualTypeOK'
    BY <1>3, ArbiterAssumption
       DEF ManualTypeOK, ArbiterTypeOK, ArbiterRespawns, ArbiterStart, ForgetSources, Commands,
           NoInput, NoAuthorization
  <2>2. QueueInv'
    BY <1>3, ManualLaunchAssumption
       DEF ArbiterRespawns, ArbiterStart, QueueInv, OneRequest, ReplyIsLast, NothingOutstanding,
           RoomForOne, Harmless
  <2> QED
    BY <2>1, <2>2
<1> QED
  BY <1>1, <1>2, <1>3

LEMMA AgedFacts ==
  ASSUME NEW timeout \in Nat, NEW age \in 0..(timeout + 1)
  PROVE  /\ Aged(age, timeout) \in 0..(timeout + 1)
         /\ Aged(age, timeout) =< age + 1
         /\ age =< timeout => Aged(age, timeout) = age + 1
         /\ ~(age =< timeout) => Aged(age, timeout) = age
BY SMT DEF Aged

\* What time does to the adapter.
LEMMA TickFacts ==
  ASSUME ManualTypeOK, DriveTick
  PROVE  /\ manual' \in Adapters
         /\ manual'.session = manual.session /\ manual'.command = manual.command
         /\ manual'.age = Aged(manual.age, ManualTimeout)
         /\ manual'.client.pending = manual.client.pending
         /\ manual'.client.applied = manual.client.applied
         /\ manual'.client.desired = manual.client.desired
         /\ manual.client.retryIn = 0 => manual'.client.retryIn = 0
<1>1. manual \in Adapters /\ manual.age \in 0..(ManualTimeout + 1) /\ manual.client \in Clients
      /\ manual.client.retryIn \in 0..RetryDelay
  BY DEF ManualTypeOK, Adapters, NoCommand, Clients
<1>2. Aged(manual.age, ManualTimeout) \in 0..NoCommand
  BY <1>1, AgedFacts, ManualAssumption DEF NoCommand
<1> DEFINE left == IF manual.client.retryIn > 0 THEN manual.client.retryIn - 1 ELSE 0
<1>3. left \in 0..RetryDelay /\ (manual.client.retryIn = 0 => left = 0)
  BY <1>1, ManualAssumption, SMT
<1>4. manual' = [manual EXCEPT !.age = Aged(manual.age, ManualTimeout), !.client.retryIn = left]
  BY DEF DriveTick
<1> HIDE DEF left
<1> QED
  BY <1>1, <1>2, <1>3, <1>4 DEF Adapters, Clients

LEMMA TickKept ==
  ASSUME ManualTypeOK, QueueInv, DriveTick
  PROVE  ManualTypeOK' /\ QueueInv'
<1>1. /\ manual' \in Adapters
      /\ manual'.client.pending = manual.client.pending
      /\ manual'.client.applied = manual.client.applied
  BY TickFacts
<1>2. /\ manualAge' \in 0..NoInput /\ navigationAge' \in 0..NoInput
      /\ authorizationAge' \in 0..NoAuthorization
  BY AgedFacts, ArbiterAssumption
     DEF ManualTypeOK, ArbiterTypeOK, DriveTick, ArbiterTick, NoInput, NoAuthorization
<1>3. sinceMotion' \in 0..StopBound + 1
  <2>1. StopBound \in Nat
    BY ManualAssumption, ArbiterAssumption, SMT DEF StopBound
  <2> QED
    BY <2>1, AgedFacts DEF ManualTypeOK, DriveTick
<1>4. ManualTypeOK'
  BY <1>1, <1>2, <1>3 DEF ManualTypeOK, ArbiterTypeOK, DriveTick, ArbiterTick
<1>5. QueueInv'
  BY <1>1 DEF DriveTick, ArbiterTick, QueueInv, OneRequest, ReplyIsLast, NothingOutstanding,
              RoomForOne, Harmless
<1> QED
  BY <1>4, <1>5

-----------------------------------------------------------------------------
(* The belief of the adapter. *)

\* Every step keeps the types and the order of the queue.
LEMMA DriveStepKept ==
  ASSUME ManualTypeOK, QueueInv, [DriveNext]_driveVars
  PROVE  ManualTypeOK' /\ QueueInv'
<1>a. ASSUME Sends, manual' \in Adapters,
             manualSamples' \in Seq(Commands), Len(manualSamples') =< Depth,
             UNCHANGED arbiterVars, manualUp' \in BOOLEAN,
             modeReply' \in {modeReply, NoMode}, due' \subseteq due,
             sinceMotion' \in {0, sinceMotion}
      PROVE  ManualTypeOK' /\ QueueInv'
  <2>1. QueueInv' /\ modeRequests' \in Seq(Requests) /\ Len(modeRequests') =< MaxRequests
    BY <1>a, SendsKept
  <2>2. 0 \in 0..StopBound + 1
    BY ManualAssumption, ArbiterAssumption, SMT DEF StopBound
  <2> QED
    BY <1>a, <2>1, <2>2 DEF ManualTypeOK, ArbiterTypeOK, arbiterVars, Requests
<1>b. manualUp \in BOOLEAN
  BY DEF ManualTypeOK
<1>1. ASSUME NEW s \in Sessions, StopCalled(s) PROVE ManualTypeOK' /\ QueueInv'
  BY <1>1, <1>a, <1>b, StopSends DEF StopCalled
<1>2. ASSUME NEW s \in Sessions, NEW c \in Commands \cup {Malformed}, CommandCalled(s, c)
      PROVE  ManualTypeOK' /\ QueueInv'
  BY <1>2, <1>a, <1>b, CommandSends DEF CommandCalled, Recent
<1>3. CASE ManualTimerFires
  BY <1>3, <1>a, <1>b, TimerSends DEF ManualTimerFires
<1>4. CASE ModeReplyArrives
  BY <1>4, <1>a, <1>b, ReplySends DEF ModeReplyArrives, ManualTypeOK
<1>5. CASE UNCHANGED driveVars
  BY <1>5 DEF driveVars, arbiterVars, ManualTypeOK, ArbiterTypeOK, QueueInv, OneRequest, ReplyIsLast,
              NothingOutstanding, RoomForOne, Harmless
<1> QED
  BY <1>1, <1>2, <1>3, <1>4, <1>5, LeavingKept, RespawnKept, AgentAsksKept, ServesKept, SampleKept,
     ArbiterKept, TickKept DEF DriveNext

LEMMA DriveInitKept == DriveInit => ManualTypeOK /\ QueueInv
<1> SUFFICES ASSUME DriveInit PROVE ManualTypeOK /\ QueueInv
  OBVIOUS
<1>1. /\ <<>> \in Seq(Commands) /\ Len(<<>>) = 0 /\ 0 =< Depth /\ 0 =< MaxRequests
      /\ 0 < MaxRequests
      /\ <<>> \in Seq(Requests) /\ DOMAIN <<>> = {}
  BY DepthAssumption, ManualAssumption, SMT
<1>2. FreshAdapter \in Adapters /\ FreshAdapter.client.pending = NoMode
      /\ FreshAdapter.client.applied = NoMode
  <2>1. 0 \in 0..RetryDelay /\ NoCommand \in 0..NoCommand
    BY ManualAssumption, SMT DEF NoCommand
  <2> QED
    BY <2>1 DEF FreshAdapter, Adapters, Clients, Commands, MotionModes
<1>3. ArbiterTypeOK
  BY ArbiterAssumption DEF DriveInit, ArbiterInit, ArbiterTypeOK, Commands, NoInput, NoAuthorization
<1>4. StopBound + 1 \in 0..StopBound + 1
  BY ManualAssumption, ArbiterAssumption, SMT DEF StopBound
<1>5. ManualTypeOK
  BY <1>1, <1>2, <1>3, <1>4 DEF DriveInit, ManualTypeOK, Requests
<1>6. QueueInv
  BY <1>1, <1>2 DEF DriveInit, QueueInv, OneRequest, ReplyIsLast, NothingOutstanding, RoomForOne,
                    NoMode
<1> QED
  BY <1>5, <1>6

\* THEOREM: every state of the drive is typed, with the queues bounded
\* (manual_control_node.py, arbiter_node.py).
THEOREM ManualTyped == DriveSpec => []ManualTypeOK
<1>1. (ManualTypeOK /\ QueueInv) /\ [DriveNext]_driveVars => (ManualTypeOK /\ QueueInv)'
  BY DriveStepKept
<1> QED
  BY <1>1, DriveInitKept, PTL DEF DriveSpec

\* THEOREM: an adapter that believes the arbiter in IDLE, and so asks for
\* nothing more, is right: no lost reply, restart or other client of the mode
\* service leaves MANUAL behind (_request_mode, complete()).
THEOREM IdleBelief == DriveSpec => []IdleBeliefIsTrue
<1>1. (ManualTypeOK /\ QueueInv) /\ [DriveNext]_driveVars => (ManualTypeOK /\ QueueInv)'
  BY DriveStepKept
<1>2. QueueInv => IdleBeliefIsTrue
  BY DEF QueueInv, NothingOutstanding, Harmless, IdleBeliefIsTrue
<1> QED
  BY <1>1, <1>2, DriveInitKept, PTL DEF DriveSpec

-----------------------------------------------------------------------------
(* The deadman: how old motion can be, from the adapter to the output. *)

\* The adapter repeats a command only in its session, and an overdue session
\* ends with the next timer.
CommandIsRecent ==
  manualUp => /\ manual.command # Still =>
                   manual.session # NoSession /\ sinceMotion =< manual.age
              /\ Overdue => "manual" \in due

SamplesAreRecent ==
  /\ \A i \in DOMAIN manualSamples : manualSamples[i] # Still => sinceMotion =< ManualTimeout
  /\ ~arbiterUp => manualSamples = <<>>

InputIsRecent ==
  /\ manualCommand # Still /\ manualAge =< InputTimeout => sinceMotion =< ManualTimeout + manualAge
  /\ navigationCommand = Still

OutputIsRecent ==
  (arbiterUp /\ arbiterOut # Still) =>
    /\ sinceMotion =< StopBound
    /\ "arbiter" \in due \/ sinceMotion < StopBound

\* Once the adapter's timer has fired and its samples were handled, so is the input.
HandledIsRecent ==
  (arbiterUp /\ "manual" \notin due /\ manualSamples = <<>> /\ manualCommand # Still) =>
    sinceMotion =< ManualTimeout

\* An adapter that has just been started.
Fresh == manual.session = NoSession /\ manual.client = FreshAdapter.client

Moving == manualCommand # Still \/ (arbiterOut # Still /\ "arbiter" \notin due)

\* What a dead adapter left moving is stopped by the change to IDLE its
\* successor asks for at its first timer.
LateIsAnswered ==
  (arbiterUp /\ Moving /\ ~(sinceMotion =< ManualTimeout + 1)) =>
    modeRequests # <<>> \/ ("manual" \in due /\ (manualUp => Fresh))

DeadmanInv ==
  /\ CommandIsRecent /\ SamplesAreRecent /\ InputIsRecent /\ OutputIsRecent
  /\ HandledIsRecent /\ LateIsAnswered

\* A callback of the adapter.
Callback ==
  /\ manualUp /\ UNCHANGED <<arbiterVars, manualUp>>
  /\ due' \subseteq due /\ ("arbiter" \in due => "arbiter" \in due')
  /\ sinceMotion' \in {0, sinceMotion}
  /\ modeRequests' = <<>> => modeRequests = <<>>
  /\ arbiterUp /\ Fresh => modeRequests' # <<>> \/ (Fresh' /\ due' = due)
  /\ CommandIsRecent'
  /\ \A i \in DOMAIN manualSamples' :
       \/ manualSamples'[i] = Still
       \/ sinceMotion' =< ManualTimeout
       \/ \E j \in DOMAIN manualSamples : manualSamples'[i] = manualSamples[j]
  /\ IF arbiterUp THEN manualSamples' = <<>> => manualSamples = <<>> /\ due' = due
     ELSE manualSamples = <<>> => manualSamples' = <<>>

\* The timeouts, for the arithmetic below.
LEMMA Numbers ==
  ASSUME ManualTypeOK
  PROVE  /\ ManualTimeout \in Nat /\ InputTimeout \in Nat /\ StopBound \in Nat
         /\ StopBound = ManualTimeout + InputTimeout + 1
         /\ sinceMotion \in Nat /\ manualAge \in Nat /\ manual.age \in Nat
BY ManualAssumption, ArbiterAssumption
   DEF ManualTypeOK, ArbiterTypeOK, StopBound, NoInput, NoCommand, Adapters

LEMMA CallbackKept ==
  ASSUME ManualTypeOK, DeadmanInv, Callback
  PROVE  DeadmanInv'
<1>1. /\ sinceMotion \in Nat /\ sinceMotion' \in Nat /\ sinceMotion' =< sinceMotion
      /\ ManualTimeout \in Nat /\ InputTimeout \in Nat /\ StopBound \in Nat /\ manualAge \in Nat
  BY Numbers DEF Callback
<1>2. \A n \in Nat : sinceMotion =< n => sinceMotion' =< n
  BY <1>1, SMT
<1>3. SamplesAreRecent'
  BY <1>1, <1>2 DEF DeadmanInv, SamplesAreRecent, Callback, arbiterVars
<1>4. InputIsRecent'
  BY <1>1 DEF DeadmanInv, InputIsRecent, Callback, arbiterVars
<1>5. OutputIsRecent'
  BY <1>1 DEF DeadmanInv, OutputIsRecent, Callback, arbiterVars
<1>6. HandledIsRecent'
  BY <1>1, <1>2 DEF DeadmanInv, HandledIsRecent, Callback, arbiterVars
<1>7. LateIsAnswered'
  <2> SUFFICES ASSUME arbiterUp, Moving', ~(sinceMotion' =< ManualTimeout + 1),
                      modeRequests' = <<>>
               PROVE  "manual" \in due' /\ (manualUp' => Fresh')
    BY DEF LateIsAnswered, Callback, arbiterVars
  <2>1. ~(sinceMotion =< ManualTimeout + 1)
    BY <1>1, SMT
  <2>2. Moving
    BY DEF Moving, Callback, arbiterVars
  <2> QED
    BY <2>1, <2>2 DEF DeadmanInv, LateIsAnswered, Callback
<1> QED
  BY <1>3, <1>4, <1>5, <1>6, <1>7 DEF DeadmanInv, Callback

\* A request that is sent is in the queue.
LEMMA SendFills ==
  ASSUME ManualTypeOK, manual' \in Adapters, SendModeRequest
  PROVE  /\ modeRequests' = <<>> => modeRequests = <<>>
         /\ arbiterUp /\ manual'.client.pending \notin {NoMode, manual.client.pending}
              => modeRequests' # <<>>
<1> DEFINE r == [from |-> "manual", mode |-> manual'.client.pending]
<1>1. manual'.client.pending # NoMode => r \in Requests
  BY DEF Requests, Adapters, Clients
<1>2. \/ /\ UNCHANGED modeRequests
         /\ ~(arbiterUp /\ manual'.client.pending \notin {NoMode, manual.client.pending})
      \/ modeRequests' = Append(modeRequests, r) /\ manual'.client.pending # NoMode
  BY DEF SendModeRequest
<1>3. modeRequests \in Seq(Requests)
  BY DEF ManualTypeOK, Requests
<1> HIDE DEF r
<1>4. manual'.client.pending # NoMode => Append(modeRequests, r) # <<>>
  BY <1>1, <1>3, AppendFacts
<1> QED
  BY <1>2, <1>4

\* A fresh adapter that asks a living arbiter sends its request.
LEMMA FreshAsks ==
  ASSUME ManualTypeOK, Fresh, manual' \in Adapters, SendModeRequest, arbiterUp,
         NEW mode \in MotionModes,
         manual'.client = Ask(manual.client, mode, TRUE)
  PROVE  modeRequests' # <<>>
<1>1. /\ manual.client \in Clients /\ manual.client.pending = NoMode
      /\ manual.client.applied = NoMode /\ manual.client.retryIn = 0
  BY DEF ManualTypeOK, Adapters, Fresh, FreshAdapter
<1>2. NoMode \notin MotionModes
  BY DEF NoMode, MotionModes
<1>3. manual'.client.pending = mode
  BY <1>1, <1>2, AskFacts
<1> QED
  BY <1>1, <1>2, <1>3, SendFills

\* A lease check leaves the adapter alone or without a session.
LEMMA UnexpiredIsRecent ==
  ASSUME ManualTypeOK, NEW ready \in BOOLEAN
  PROVE  /\ Unexpired(ready) \in Adapters
         /\ Overdue => /\ Unexpired(ready).session = NoSession
                       /\ Unexpired(ready).command = Still
         /\ ~Overdue => Unexpired(ready) = manual
<1>1. manual \in Adapters
  BY DEF ManualTypeOK
<1> QED
  BY <1>1, UnexpiredFacts, StoppedFacts DEF Unexpired

LEMMA StopCallback ==
  ASSUME ManualTypeOK, DeadmanInv, NEW s \in Sessions, StopCalled(s)
  PROVE  Callback
<1>a. manualSamples \in Seq(Commands) /\ Len(manualSamples) =< Depth /\ Still \in Commands
  BY DEF ManualTypeOK, Commands
<1>1. PICK ready \in SeenReady :
        manual' = IF s = Unexpired(ready).session THEN Stopped(Unexpired(ready), ready)
                  ELSE Unexpired(ready)
  BY DEF StopCalled
<1>2. ready \in BOOLEAN /\ s # NoSession
  BY SeenFacts, ManualAssumption
<1>3. manual' = manual \/ (manual'.session = NoSession /\ manual'.command = Still)
  BY <1>1, <1>2, UnexpiredIsRecent, StoppedFacts
<1>4. Fresh => manual' = manual
  BY <1>1, <1>2, UnexpiredIsRecent DEF Fresh, Overdue
<1>5. CommandIsRecent'
  BY <1>3 DEF StopCalled, DeadmanInv, CommandIsRecent, Overdue
<1>6. modeRequests' = <<>> => modeRequests = <<>>
  BY StopSends, SendFills DEF Sends
<1> QED
  BY <1>a, <1>4, <1>5, <1>6, ManualPublishTyped DEF StopCalled, Callback, Fresh

LEMMA CommandCallback ==
  ASSUME ManualTypeOK, DeadmanInv, NEW s \in Sessions, NEW c \in Commands \cup {Malformed},
         CommandCalled(s, c)
  PROVE  Callback
<1>a. manualSamples \in Seq(Commands) /\ Len(manualSamples) =< Depth /\ Still \in Commands
      /\ ManualTimeout \in Nat
  BY ManualAssumption DEF ManualTypeOK, Commands
<1> DEFINE refused(ready) == Unexpired(ready).session \notin {NoSession, s} \/ c = Malformed
<1>1. PICK ready \in SeenReady :
        /\ manual' =
             IF refused(ready) THEN Unexpired(ready)
             ELSE [session |-> s, age |-> 0, command |-> c,
                   client |-> IF Unexpired(ready).session = NoSession
                              THEN Ask(Unexpired(ready).client, "MANUAL", ready)
                              ELSE Unexpired(ready).client]
        /\ IF refused(ready) THEN UNCHANGED sinceMotion ELSE Recent(c)
  BY DEF CommandCalled
<1>2. ready \in BOOLEAN /\ s # NoSession /\ (arbiterUp => ready = TRUE)
  BY SeenFacts, ManualAssumption
<1>3. manual' \in Adapters /\ SendModeRequest
  BY CommandSends DEF Sends
<1>4. sinceMotion' \in {0, sinceMotion}
  BY <1>1 DEF Recent
<1>5. CommandIsRecent'
  <2>1. CASE refused(ready)
    BY <1>1, <1>2, <2>1, UnexpiredIsRecent
       DEF CommandCalled, DeadmanInv, CommandIsRecent, Overdue
  <2>2. CASE ~refused(ready)
    <3>1. manual'.session = s /\ manual'.age = 0 /\ manual'.command = c
      BY <1>1, <2>2
    <3>2. c # Still => sinceMotion' = 0
      BY <1>1, <2>2 DEF Recent, Commands
    <3>3. 0 =< 0 /\ ~(0 > ManualTimeout)
      BY <1>a, SMT
    <3> QED
      BY <1>2, <3>1, <3>2, <3>3 DEF CommandIsRecent, Overdue
  <2> QED
    BY <2>1, <2>2
<1>6. arbiterUp /\ Fresh => modeRequests' # <<>> \/ Fresh'
  <2> SUFFICES ASSUME arbiterUp, Fresh PROVE modeRequests' # <<>> \/ Fresh'
    OBVIOUS
  <2>1. Unexpired(ready) = manual /\ manual.session = NoSession
    BY <1>2, UnexpiredIsRecent DEF Fresh, Overdue
  <2>2. CASE refused(ready)
    BY <1>1, <2>1, <2>2 DEF Fresh
  <2>3. CASE ~refused(ready)
    <3>1. manual'.client = Ask(manual.client, "MANUAL", TRUE)
      BY <1>1, <1>2, <2>1, <2>3
    <3> QED
      BY <1>3, <3>1, FreshAsks DEF MotionModes
  <2> QED
    BY <2>2, <2>3
<1>7. modeRequests' = <<>> => modeRequests = <<>>
  BY <1>3, SendFills
<1> HIDE DEF refused
<1> QED
  BY <1>a, <1>4, <1>5, <1>6, <1>7, ManualPublishTyped DEF CommandCalled, Callback

LEMMA TimerCallback ==
  ASSUME ManualTypeOK, DeadmanInv, ManualTimerFires
  PROVE  Callback
<1>a. /\ manualSamples \in Seq(Commands) /\ Len(manualSamples) =< Depth /\ Still \in Commands
      /\ ManualTimeout \in Nat /\ sinceMotion \in Nat /\ manual.age \in Nat
  BY Numbers DEF ManualTypeOK, Commands
<1>1. PICK ready \in SeenReady :
        manual' = [Unexpired(ready) EXCEPT !.client = Ask(@, @.desired, ready)]
  BY DEF ManualTimerFires
<1>2. ready \in BOOLEAN /\ (arbiterUp => ready = TRUE)
  BY SeenFacts
<1>3. /\ manual' \in Adapters /\ SendModeRequest
      /\ manual'.client = Ask(Unexpired(ready).client, Unexpired(ready).client.desired, ready)
      /\ manual'.session = Unexpired(ready).session
      /\ manual'.command = Unexpired(ready).command
      /\ manual'.age = Unexpired(ready).age
  BY <1>1, <1>2, TimerSends, UnexpiredIsRecent DEF Sends, Adapters
<1>4. /\ manualUp /\ UNCHANGED <<arbiterVars, manualUp, sinceMotion>>
      /\ due' = due \ {"manual"}
  BY DEF ManualTimerFires
<1>5. CommandIsRecent'
  BY <1>2, <1>3, <1>4, UnexpiredIsRecent DEF DeadmanInv, CommandIsRecent, Overdue
<1>6. manual'.command # Still => sinceMotion =< ManualTimeout
  <2>1. manual'.command # Still => ~Overdue /\ manual.command # Still
    BY <1>2, <1>3, UnexpiredIsRecent
  <2>2. manual'.command # Still => sinceMotion =< manual.age /\ ~(manual.age > ManualTimeout)
    BY <1>4, <2>1 DEF DeadmanInv, CommandIsRecent, Overdue
  <2> QED
    BY <1>a, <2>2, SMT
<1> DEFINE base == IF Overdue THEN ManualPublish(manualSamples, Still) ELSE manualSamples
<1>7. /\ base \in Seq(Commands) /\ Len(base) =< Depth
      /\ \A i \in DOMAIN base :
           base[i] = Still \/ \E j \in DOMAIN manualSamples : base[i] = manualSamples[j]
  BY <1>a, ManualPublishTyped
<1>8. manualSamples' = ManualPublish(base, manual'.command)
  BY DEF ManualTimerFires
<1>9. manual'.command \in Commands
  BY <1>3 DEF Adapters
<1> HIDE DEF base
<1>10. /\ arbiterUp => manualSamples' # <<>>
       /\ ~arbiterUp => manualSamples' = <<>>
       /\ \A i \in DOMAIN manualSamples' :
            manualSamples'[i] = manual'.command \/ \E j \in DOMAIN base : manualSamples'[i] = base[j]
  BY <1>7, <1>8, <1>9, ManualPublishTyped
<1>11. \A i \in DOMAIN manualSamples' :
         \/ manualSamples'[i] = Still
         \/ sinceMotion' =< ManualTimeout
         \/ \E j \in DOMAIN manualSamples : manualSamples'[i] = manualSamples[j]
  BY <1>4, <1>6, <1>7, <1>10
<1>12. arbiterUp /\ Fresh => modeRequests' # <<>>
  <2> SUFFICES ASSUME arbiterUp, Fresh PROVE modeRequests' # <<>>
    OBVIOUS
  <2>1. Unexpired(ready) = manual /\ manual.client.desired \in MotionModes
    BY <1>2, UnexpiredIsRecent DEF Fresh, Overdue, ManualTypeOK, Adapters, Clients
  <2> QED
    BY <1>2, <1>3, <2>1, FreshAsks
<1>13. modeRequests' = <<>> => modeRequests = <<>>
  BY <1>3, SendFills
<1> QED
  BY <1>4, <1>5, <1>10, <1>11, <1>12, <1>13 DEF Callback

LEMMA ReplyCallback ==
  ASSUME ManualTypeOK, QueueInv, DeadmanInv, ModeReplyArrives
  PROVE  Callback
<1>1. /\ manual'.session = manual.session /\ manual'.command = manual.command
      /\ manual'.age = manual.age
  BY DEF ModeReplyArrives, ManualTypeOK, Adapters
<1>2. ~Fresh
  BY DEF ModeReplyArrives, QueueInv, ReplyIsLast, Fresh, FreshAdapter
<1>3. modeRequests' = <<>> => modeRequests = <<>>
  BY ReplySends, SendFills DEF Sends
<1>4. CommandIsRecent'
  BY <1>1 DEF ModeReplyArrives, DeadmanInv, CommandIsRecent, Overdue
<1> QED
  BY <1>2, <1>3, <1>4 DEF ModeReplyArrives, Callback

\* What the others do to the age of motion.
LEMMA OthersDeadman ==
  ASSUME ManualTypeOK, DeadmanInv,
         \/ ManualDies \/ ManualShutsDown \/ ManualRespawns
         \/ \E m \in {"IDLE", "NAVIGATION"} : AgentAsks(m)
  PROVE  DeadmanInv'
<1>a. /\ UNCHANGED <<arbiterVars, due, sinceMotion>>
      /\ manualSamples \in Seq(Commands) /\ Len(manualSamples) =< Depth /\ Still \in Commands
  BY DEF ManualDies, ManualShutsDown, ManualRespawns, AgentAsks, ManualTypeOK, Commands
<1>1. \/ UNCHANGED manualSamples
      \/ ManualShutsDown /\ manualSamples' = ManualPublish(manualSamples, Still)
  BY DEF ManualDies, ManualShutsDown, ManualRespawns, AgentAsks
<1>2. /\ arbiterUp /\ manualSamples' = <<>> => manualSamples = <<>>
      /\ ~arbiterUp /\ manualSamples = <<>> => manualSamples' = <<>>
      /\ \A i \in DOMAIN manualSamples' :
           manualSamples'[i] = Still \/ \E j \in DOMAIN manualSamples : manualSamples'[i] = manualSamples[j]
  BY <1>a, <1>1, ManualPublishTyped
<1>3. SamplesAreRecent' /\ InputIsRecent' /\ OutputIsRecent' /\ HandledIsRecent'
  BY <1>a, <1>2 DEF DeadmanInv, SamplesAreRecent, InputIsRecent, OutputIsRecent, HandledIsRecent,
                    arbiterVars
<1>b. manualUp' => (manualUp /\ manual' = manual) \/ manual' = FreshAdapter
  BY DEF ManualDies, ManualShutsDown, ManualRespawns, AgentAsks
<1>4. CommandIsRecent'
  BY <1>a, <1>b DEF DeadmanInv, CommandIsRecent, FreshAdapter, Overdue
<1>5. modeRequests' = <<>> => modeRequests = <<>>
  <2>1. modeRequests \in Seq(Requests)
    BY DEF ManualTypeOK, Requests
  <2> DEFINE kept == [i \in DOMAIN modeRequests |-> [modeRequests[i] EXCEPT !.from = "other"]]
  <2>2. kept \in Seq(Requests) /\ Len(kept) = Len(modeRequests)
    <3> HIDE DEF kept
    <3> QED
      BY Disowned DEF kept
  <2>3. kept = <<>> => modeRequests = <<>>
    <3>1. Len(<<>>) = 0
      BY SMT
    <3> HIDE DEF kept
    <3> QED
      BY <2>1, <2>2, <3>1, SMT
  <2>4. CASE ManualDies
    BY <2>3, <2>4 DEF ManualDies
  <2>5. CASE ManualShutsDown
    <3> DEFINE r == [from |-> "other", mode |-> "IDLE"]
    <3>1. r \in Requests
      BY DEF Requests, MotionModes
    <3>2. modeRequests' = kept \/ modeRequests' = Append(kept, r)
      BY <2>5 DEF ManualShutsDown
    <3> HIDE DEF kept, r
    <3>3. Append(kept, r) # <<>>
      BY <2>2, <3>1, AppendFacts
    <3> QED
      BY <2>3, <3>2, <3>3
  <2>6. CASE ManualRespawns
    BY <2>6 DEF ManualRespawns
  <2>7. ASSUME NEW m \in {"IDLE", "NAVIGATION"}, AgentAsks(m)
        PROVE  modeRequests' = <<>> => modeRequests = <<>>
    <3> DEFINE r == [from |-> "other", mode |-> m]
    <3>1. modeRequests' = Append(modeRequests, r)
      BY <2>7 DEF AgentAsks
    <3>2. r \in Requests
      BY <2>7 DEF Requests, MotionModes
    <3> HIDE DEF r
    <3>3. Append(modeRequests, r) # <<>>
      BY <2>1, <3>2, AppendFacts
    <3> QED
      BY <3>1, <3>3
  <2> QED
    BY <2>4, <2>5, <2>6, <2>7
<1>6. manualUp' => (manualUp /\ UNCHANGED manual) \/ Fresh'
  BY <1>b DEF Fresh, FreshAdapter
<1>7. LateIsAnswered'
  BY <1>a, <1>5, <1>6 DEF DeadmanInv, LateIsAnswered, Moving, arbiterVars, Fresh
<1> QED
  BY <1>3, <1>4, <1>7 DEF DeadmanInv

LEMMA ArbiterDeadman ==
  ASSUME ManualTypeOK, DeadmanInv,
         ArbiterServesMode \/ ArbiterHandlesSample \/ ArbiterTimerFires \/ ArbiterDies
           \/ ArbiterRespawns
  PROVE  DeadmanInv'
<1>a. /\ ManualTimeout \in Nat /\ InputTimeout \in Nat /\ StopBound \in Nat
      /\ StopBound = ManualTimeout + InputTimeout + 1
      /\ sinceMotion \in Nat /\ manualAge \in Nat
      /\ manualSamples \in Seq(Commands)
  BY Numbers DEF ManualTypeOK
<1>b. UNCHANGED <<manualUp, manual, sinceMotion>>
  BY DEF ArbiterServesMode, ArbiterHandlesSample, ArbiterTimerFires, ArbiterDies, ArbiterRespawns
<1>1. CASE ArbiterServesMode \/ ArbiterRespawns
  <2>1. /\ manualCommand' = Still /\ navigationCommand' = Still /\ arbiterOut' = Still /\ arbiterUp'
        /\ UNCHANGED <<manualSamples, due>>
    BY <1>1 DEF ArbiterServesMode, ArbiterRespawns, OnSetMode, ArbiterStart, ForgetSources
  <2> QED
    BY <1>b, <2>1
       DEF DeadmanInv, CommandIsRecent, SamplesAreRecent, InputIsRecent, OutputIsRecent,
           HandledIsRecent, LateIsAnswered, Moving, Overdue
<1>2. CASE ArbiterHandlesSample
  <2>1. /\ manualSamples # <<>> /\ manualCommand' = Head(manualSamples) /\ manualAge' = 0
        /\ manualSamples' = Tail(manualSamples)
        /\ UNCHANGED <<arbiterUp, navigationCommand, arbiterOut, due, modeRequests>>
        /\ arbiterUp
    BY <1>2 DEF ArbiterHandlesSample, OnManualCommand
  <2>2. /\ 1 \in DOMAIN manualSamples /\ Head(manualSamples) = manualSamples[1]
        /\ \A i \in DOMAIN Tail(manualSamples) :
             i + 1 \in DOMAIN manualSamples /\ Tail(manualSamples)[i] = manualSamples[i + 1]
    BY <1>a, <2>1, TailFacts
  <2>3. manualCommand' # Still => sinceMotion =< ManualTimeout
    BY <2>1, <2>2 DEF DeadmanInv, SamplesAreRecent
  <2>4. sinceMotion =< ManualTimeout =>
          sinceMotion =< ManualTimeout + 0 /\ sinceMotion =< ManualTimeout + 1
    BY <1>a, SMT
  <2>5. SamplesAreRecent'
    BY <1>b, <2>1, <2>2 DEF DeadmanInv, SamplesAreRecent
  <2>6. InputIsRecent' /\ HandledIsRecent'
    BY <1>b, <2>1, <2>3, <2>4 DEF DeadmanInv, InputIsRecent, HandledIsRecent
  <2>7. OutputIsRecent' /\ CommandIsRecent'
    BY <1>b, <2>1 DEF DeadmanInv, OutputIsRecent, CommandIsRecent, Overdue
  <2>8. LateIsAnswered'
    BY <1>b, <2>1, <2>3, <2>4 DEF DeadmanInv, LateIsAnswered, Moving, Fresh
  <2> QED
    BY <2>5, <2>6, <2>7, <2>8 DEF DeadmanInv
<1>3. CASE ArbiterTimerFires
  <2>1. /\ arbiterOut' = ChooseCommand /\ due' = due \ {"arbiter"}
        /\ UNCHANGED <<arbiterUp, manualCommand, manualAge, navigationCommand, manualSamples,
                       modeRequests>>
    BY <1>3 DEF ArbiterTimerFires, ArbiterOnTimer
  <2>2. arbiterOut' # Still => manualCommand # Still /\ manualAge =< InputTimeout
    BY <2>1 DEF ChooseCommand, DeadmanInv, InputIsRecent
  <2>3. arbiterOut' # Still => sinceMotion =< StopBound /\ sinceMotion < StopBound
    BY <1>a, <2>2, SMT DEF DeadmanInv, InputIsRecent
  <2>4. OutputIsRecent'
    BY <1>b, <2>3 DEF OutputIsRecent
  <2>5. SamplesAreRecent' /\ InputIsRecent' /\ HandledIsRecent' /\ CommandIsRecent'
    BY <1>b, <2>1 DEF DeadmanInv, SamplesAreRecent, InputIsRecent, HandledIsRecent, CommandIsRecent,
                      Overdue
  <2>6. LateIsAnswered'
    BY <1>b, <2>1, <2>2 DEF DeadmanInv, LateIsAnswered, Moving, Fresh
  <2> QED
    BY <2>4, <2>5, <2>6 DEF DeadmanInv
<1>4. CASE ArbiterDies
  <2>1. DOMAIN <<>> = {}
    BY SMT
  <2>2. /\ ~arbiterUp' /\ manualSamples' = <<>>
        /\ UNCHANGED <<manualCommand, manualAge, navigationCommand, due>>
    BY <1>4 DEF ArbiterDies, ArbiterEnd
  <2> QED
    BY <1>b, <2>1, <2>2
       DEF DeadmanInv, CommandIsRecent, SamplesAreRecent, InputIsRecent, OutputIsRecent,
           HandledIsRecent, LateIsAnswered, Overdue
<1> QED
  BY <1>1, <1>2, <1>3, <1>4

LEMMA TickDeadman ==
  ASSUME Punctual, ManualTypeOK, DeadmanInv, DriveTick
  PROVE  DeadmanInv'
<1>a. /\ ManualTimeout \in Nat /\ InputTimeout \in Nat /\ StopBound \in Nat
      /\ StopBound = ManualTimeout + InputTimeout + 1
      /\ sinceMotion \in Nat /\ manualAge \in 0..InputTimeout + 1
      /\ manual.age \in 0..ManualTimeout + 1 /\ sinceMotion \in 0..StopBound + 1
  BY Numbers DEF ManualTypeOK, ArbiterTypeOK, NoInput, Adapters, NoCommand
<1>1. /\ arbiterUp => manualSamples = <<>> /\ modeRequests = <<>> /\ "arbiter" \notin due
      /\ manualUp => "manual" \notin due
      /\ due' = {"arbiter", "manual"} /\ sinceMotion' = Aged(sinceMotion, StopBound)
      /\ manualAge' = Aged(manualAge, InputTimeout)
      /\ UNCHANGED <<manualUp, manualSamples, modeRequests, arbiterUp, manualCommand,
                     navigationCommand, arbiterOut>>
  BY DEF DriveTick, DriveSettled, ArbiterTick
<1>2. sinceMotion' =< sinceMotion + 1 /\ sinceMotion' \in Nat
  BY <1>a, <1>1, AgedFacts
<1>3. /\ manual'.session = manual.session /\ manual'.command = manual.command
      /\ manual'.age = Aged(manual.age, ManualTimeout)
  BY TickFacts
<1>4. CommandIsRecent'
  <2> SUFFICES ASSUME manualUp, manual.command # Still
               PROVE  manual.session # NoSession /\ sinceMotion' =< manual'.age
    BY <1>1, <1>3 DEF CommandIsRecent
  <2>1. manual.session # NoSession /\ sinceMotion =< manual.age /\ ~(manual.age > ManualTimeout)
    BY <1>1 DEF DeadmanInv, CommandIsRecent, Overdue
  <2>2. manual'.age = manual.age + 1
    BY <1>a, <1>3, <2>1, SMT DEF Aged
  <2> QED
    BY <1>a, <1>2, <2>1, <2>2, SMT
<1>5. SamplesAreRecent'
  <2>1. DOMAIN <<>> = {}
    BY SMT
  <2> QED
    BY <1>1, <2>1 DEF DeadmanInv, SamplesAreRecent
<1>6. InputIsRecent'
  <2>1. manualAge' =< InputTimeout => manualAge =< InputTimeout /\ manualAge' = manualAge + 1
    BY <1>a, <1>1, SMT DEF Aged
  <2>2. manualCommand # Still /\ manualAge' =< InputTimeout =>
          sinceMotion =< ManualTimeout + manualAge
    BY <2>1 DEF DeadmanInv, InputIsRecent
  <2>3. manualCommand # Still /\ manualAge' =< InputTimeout =>
          sinceMotion' =< ManualTimeout + manualAge'
    BY <1>a, <1>2, <2>1, <2>2, SMT
  <2> QED
    BY <1>1, <2>3 DEF DeadmanInv, InputIsRecent
<1>7. OutputIsRecent'
  <2>1. arbiterUp /\ arbiterOut # Still => sinceMotion < StopBound
    BY <1>1 DEF DeadmanInv, OutputIsRecent
  <2>2. sinceMotion < StopBound => sinceMotion' =< StopBound
    BY <1>a, <1>2, SMT
  <2> QED
    BY <1>1, <2>1, <2>2 DEF OutputIsRecent
<1>8. HandledIsRecent'
  BY <1>1 DEF HandledIsRecent
<1>9. LateIsAnswered'
  <2> SUFFICES ASSUME arbiterUp, manualCommand # Still, manualUp
               PROVE  sinceMotion' =< ManualTimeout + 1
    BY <1>1 DEF LateIsAnswered, Moving
  <2>1. sinceMotion =< ManualTimeout
    BY <1>1 DEF DeadmanInv, HandledIsRecent
  <2> QED
    BY <1>a, <1>2, <2>1, SMT
<1> QED
  BY <1>4, <1>5, <1>6, <1>7, <1>8, <1>9 DEF DeadmanInv

LEMMA DeadmanStep ==
  ASSUME Punctual, ManualTypeOK, QueueInv, DeadmanInv, [DriveNext]_driveVars
  PROVE  DeadmanInv'
<1>1. CASE UNCHANGED driveVars
  BY <1>1 DEF driveVars, arbiterVars, DeadmanInv, CommandIsRecent, SamplesAreRecent, InputIsRecent,
              OutputIsRecent, HandledIsRecent, LateIsAnswered, Moving, Fresh, Overdue
<1>2. CASE DriveNext
  BY <1>2, StopCallback, CommandCallback, TimerCallback, ReplyCallback, CallbackKept, OthersDeadman,
     ArbiterDeadman, TickDeadman DEF DriveNext
<1> QED
  BY <1>1, <1>2

\* THEOREM: motion an operator no longer asks for ends within one timer period
\* of the command timeout, and within both timeouts if the adapter died, for
\* every value of the timeouts (_expire_locked, _publish, the arbiter's timer).
THEOREM Deadman == DriveSpec => []DeadmanStops
<1> DEFINE Inv == ManualTypeOK /\ QueueInv /\ (Punctual => DeadmanInv)
<1>1. DriveInit => Inv
  <2>1. DriveInit => DeadmanInv
    <3>1. DOMAIN <<>> = {}
      BY SMT
    <3> QED
      BY <3>1 DEF DriveInit, ArbiterInit, FreshAdapter, DeadmanInv, CommandIsRecent,
                  SamplesAreRecent, InputIsRecent, OutputIsRecent, HandledIsRecent,
                  LateIsAnswered, Moving, Overdue
  <2> QED
    BY <2>1, DriveInitKept
<1>2. Inv /\ [DriveNext]_driveVars => Inv'
  BY DriveStepKept, DeadmanStep
<1>3. Inv => DeadmanStops
  <2> SUFFICES ASSUME Inv, Punctual, arbiterUp, arbiterOut # Still
               PROVE  /\ sinceMotion =< StopBound
                      /\ (manualUp /\ DriveSettled) => sinceMotion =< ManualTimeout + 1
    BY DEF DeadmanStops
  <2>1. sinceMotion =< StopBound
    BY DEF DeadmanInv, OutputIsRecent
  <2>2. (manualUp /\ DriveSettled) => sinceMotion =< ManualTimeout + 1
    BY DEF DeadmanInv, LateIsAnswered, Moving, DriveSettled
  <2> QED
    BY <2>1, <2>2
<1> QED
  BY <1>1, <1>2, <1>3, PTL DEF DriveSpec
=============================================================================
