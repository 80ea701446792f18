---------------------------- MODULE Topic_proofs ----------------------------
(***************************************************************************)
(* What publishing to a KEEP_LAST queue and taking from it do, for every   *)
(* depth: the lemmas the proofs about composed nodes rest on.              *)
(***************************************************************************)
EXTENDS Topic, SequenceTheorems, TLAPS

\* Publishing keeps a queue bounded, puts the sample last, and the rest of the
\* queue was there before.
LEMMA PublishFacts ==
  ASSUME NEW S, NEW q \in Seq(S), Len(q) =< Depth, NEW x \in S
  PROVE  /\ Publish(q, x) \in Seq(S)
         /\ Len(Publish(q, x)) =< Depth
         /\ Publish(q, x) # <<>>
         /\ Newest(Publish(q, x)) = x
         /\ \A i \in DOMAIN Publish(q, x) :
              Publish(q, x)[i] = x \/ \E j \in DOMAIN q : Publish(q, x)[i] = q[j]
<1> DEFINE base == IF Len(q) < Depth THEN q ELSE Tail(q)
<1>1. base \in Seq(S) /\ Len(base) + 1 =< Depth
  <2>1. CASE Len(q) < Depth
    BY <2>1, DepthAssumption, SMT
  <2>2. CASE ~(Len(q) < Depth)
    <3>1. q # <<>> /\ Len(q) = Depth
      BY <2>2, DepthAssumption, SMT
    <3> QED  BY <2>2, <3>1, DepthAssumption, SMT
  <2> QED  BY <2>1, <2>2
<1>2. \A i \in 1..Len(base) : \E j \in DOMAIN q : base[i] = q[j]
  <2>1. CASE Len(q) < Depth
    BY <2>1, SMT
  <2>2. CASE ~(Len(q) < Depth)
    <3>1. q # <<>> /\ Len(q) = Depth
      BY <2>2, DepthAssumption, SMT
    <3>2. base = Tail(q) /\ Len(base) = Len(q) - 1
      BY <2>2, <3>1, SMT
    <3> SUFFICES ASSUME NEW i \in 1..Len(base)
                 PROVE  base[i] = q[i + 1] /\ i + 1 \in DOMAIN q
      OBVIOUS
    <3> QED  BY <3>1, <3>2, SMT
  <2> QED  BY <2>1, <2>2
<1>3. Publish(q, x) = Append(base, x)  BY DEF Publish
<1>4. /\ Append(base, x) \in Seq(S)
      /\ Len(Append(base, x)) = Len(base) + 1
      /\ Append(base, x)[Len(base) + 1] = x
      /\ \A i \in 1..Len(base) : Append(base, x)[i] = base[i]
      /\ DOMAIN Append(base, x) = 1..(Len(base) + 1)
      /\ Len(base) \in Nat
  BY <1>1, SMT
<1> HIDE DEF base
<1>5. Append(base, x) # <<>>  BY <1>4, SMT
<1>6. \A i \in 1..(Len(base) + 1) : i = Len(base) + 1 \/ i \in 1..Len(base)
  BY <1>4, SMT
<1> QED
  BY <1>1, <1>2, <1>3, <1>4, <1>5, <1>6 DEF Newest

\* A queue without a bound keeps all it had.
LEMMA AppendFacts ==
  ASSUME NEW S, NEW q \in Seq(S), NEW x \in S
  PROVE  /\ Append(q, x) \in Seq(S)
         /\ Append(q, x) # <<>>
         /\ Newest(Append(q, x)) = x
         /\ \A i \in DOMAIN Append(q, x) :
              Append(q, x)[i] = x \/ \E j \in DOMAIN q : Append(q, x)[i] = q[j]
         /\ DOMAIN q = 1..Len(q) /\ DOMAIN Append(q, x) = 1..(Len(q) + 1)
         /\ Append(q, x)[Len(q) + 1] = x /\ Len(Append(q, x)) = Len(q) + 1
         /\ \A i \in 1..Len(q) : Append(q, x)[i] = q[i]
<1>1. /\ Append(q, x) \in Seq(S) /\ Len(q) \in Nat
      /\ Len(Append(q, x)) = Len(q) + 1
      /\ Append(q, x)[Len(q) + 1] = x
      /\ DOMAIN q = 1..Len(q) /\ DOMAIN Append(q, x) = 1..(Len(q) + 1)
      /\ \A i \in 1..Len(q) : Append(q, x)[i] = q[i]
  BY SMT
<1>2. Append(q, x) # <<>>
  BY <1>1, SMT
<1>3. \A i \in 1..(Len(q) + 1) : i = Len(q) + 1 \/ i \in 1..Len(q)
  BY <1>1, SMT
<1> QED
  BY <1>1, <1>2, <1>3 DEF Newest

\* Taking the oldest sample leaves the newest one last.
LEMMA TailFacts ==
  ASSUME NEW S, NEW q \in Seq(S), q # <<>>
  PROVE  /\ Head(q) \in S
         /\ 1 \in DOMAIN q /\ Head(q) = q[1]
         /\ Tail(q) \in Seq(S)
         /\ Len(Tail(q)) =< Len(q)
         /\ IF Tail(q) = <<>> THEN Newest(q) = Head(q)
                              ELSE Newest(Tail(q)) = Newest(q)
         /\ \A i \in DOMAIN Tail(q) : i + 1 \in DOMAIN q /\ Tail(q)[i] = q[i + 1]
<1>1. /\ Head(q) \in S /\ Head(q) = q[1] /\ Len(q) \in Nat \ {0}
      /\ Tail(q) \in Seq(S) /\ Len(Tail(q)) = Len(q) - 1
      /\ \A i \in 1..(Len(q) - 1) : Tail(q)[i] = q[i + 1]
      /\ DOMAIN q = 1..Len(q) /\ DOMAIN Tail(q) = 1..(Len(q) - 1)
  BY SMT
<1>2. ASSUME Tail(q) = <<>> PROVE Newest(q) = Head(q)
  <2>0. Len(<<>>) = 0  BY SMT
  <2>a. Len(Tail(q)) = 0  BY <1>2, <2>0, Zenon
  <2>b. \A n \in Nat : n - 1 = 0 => n = 1  BY SMT
  <2>1. Len(q) = 1  BY <1>1, <2>a, <2>b, Zenon
  <2> QED  BY <1>1, <2>1 DEF Newest
<1>3. ASSUME Tail(q) # <<>> PROVE Newest(Tail(q)) = Newest(q)
  <2>1. Len(q) - 1 \in 1..(Len(q) - 1)  BY <1>1, <1>3, SMT
  <2> QED  BY <1>1, <2>1, SMT DEF Newest
<1>4. \A i \in 1..(Len(q) - 1) : i + 1 \in 1..Len(q)  BY <1>1, SMT
<1>5. Len(Tail(q)) =< Len(q) /\ 1 \in DOMAIN q  BY <1>1, SMT
<1> QED  BY <1>1, <1>2, <1>3, <1>4, <1>5

\* The elements of a part of a queue.
LEMMA PartFacts ==
  ASSUME NEW S, NEW q, NEW m \in Int, NEW n \in Int, \A k \in m..n : q[k] \in S
  PROVE  \A j \in 1..(n - m + 1) : SubSeq(q, m, n)[j] = q[m + j - 1]
BY SubSeqProperties

\* A queue without its i-th element.
Without(q, i) == SubSeq(q, 1, i - 1) \o SubSeq(q, i + 1, Len(q))

\* What remains was in the queue before.
LEMMA RemoveFacts ==
  ASSUME NEW S, NEW q \in Seq(S), NEW i \in DOMAIN q
  PROVE  \A j \in DOMAIN Without(q, i) : \E k \in DOMAIN q : Without(q, i)[j] = q[k]
<1> DEFINE rest == Without(q, i)
           before == SubSeq(q, 1, i - 1)
           after == SubSeq(q, i + 1, Len(q))
<1>1. /\ Len(q) \in Nat /\ DOMAIN q = 1..Len(q) /\ i \in 1..Len(q)
      /\ \A k \in 1..Len(q) : q[k] \in S
  OBVIOUS
<1>2. /\ before \in Seq(S) /\ Len(before) = i - 1
      /\ \A j \in 1..(i - 1) : before[j] = q[j]
  BY <1>1
<1>3. after \in Seq(S) /\ Len(after) = Len(q) - i
  BY <1>1
<1>4. i + 1 \in Int /\ Len(q) \in Int /\ \A k \in (i + 1)..Len(q) : q[k] \in S
  BY ONLY <1>1, SMT
<1>5. \A j \in 1..(Len(q) - i) : after[j] = q[j + i]
  <2>1. \A j \in 1..(Len(q) - (i + 1) + 1) : after[j] = q[i + 1 + j - 1]
    BY <1>4, PartFacts
  <2>2. \A j \in 1..(Len(q) - i) : j \in 1..(Len(q) - (i + 1) + 1) /\ i + 1 + j - 1 = j + i
    BY ONLY <1>1, SMT
  <2> HIDE DEF after
  <2> QED
    BY <2>1, <2>2, Zenon
<1>6. rest = before \o after
  BY DEF Without
<1> HIDE DEF rest, before, after
<1>7. /\ DOMAIN rest = 1..(Len(before) + Len(after))
      /\ \A j \in 1..(Len(before) + Len(after)) :
           rest[j] = IF j =< Len(before) THEN before[j] ELSE after[j - Len(before)]
  BY ONLY <1>2, <1>3, <1>6, SMT
<1>8. ASSUME NEW j \in DOMAIN rest PROVE \E k \in DOMAIN q : rest[j] = q[k]
  <2>1. /\ j \in 1..(Len(q) - 1)
        /\ rest[j] = IF j =< i - 1 THEN before[j] ELSE after[j - (i - 1)]
    BY ONLY <1>1, <1>2, <1>3, <1>7, <1>8, SMT
  <2>2. CASE j =< i - 1
    <3>1. j \in 1..(i - 1) /\ j \in 1..Len(q)
      BY ONLY <1>1, <2>1, <2>2, SMT
    <3> QED
      BY <1>1, <1>2, <2>1, <2>2, <3>1, Zenon
  <2>3. CASE ~(j =< i - 1)
    <3>1. j - (i - 1) \in 1..(Len(q) - i) /\ j - (i - 1) + i \in 1..Len(q)
      BY ONLY <1>1, <2>1, <2>3, SMT
    <3> QED
      BY <1>1, <1>5, <2>1, <2>3, <3>1, Zenon
  <2> QED
    BY <2>2, <2>3
<1> QED
  BY <1>8 DEF rest
=============================================================================
