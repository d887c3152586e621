----------------------------- MODULE QueueLemmas -----------------------------
(***************************************************************************)
(* Facts about the queues of waiting calls, cited by the proofs.           *)
(***************************************************************************)
EXTENDS SequencesExt, SequenceTheorems, TLAPS

\* Taking the element at position `at` out of a sequence leaves the others,
\* in their order.
LEMMA RemoveAtProperties ==
  ASSUME NEW S, NEW s \in Seq(S), NEW at \in DOMAIN s
  PROVE  /\ RemoveAt(s, at) \in Seq(S)
         /\ Len(RemoveAt(s, at)) = Len(s) - 1
         /\ \A i \in 1 .. Len(s) - 1 :
              RemoveAt(s, at)[i] = IF i < at THEN s[i] ELSE s[i + 1]
  <1> DEFINE front == SubSeq(s, 1, at - 1)
             back == SubSeq(s, at + 1, Len(s))
  <1>1. at \in 1 .. Len(s) /\ Len(s) \in Nat
    OBVIOUS
  <1>2. /\ front \in Seq(S) /\ Len(front) = at - 1
        /\ \A i \in 1 .. at - 1 : front[i] = s[i]
    BY <1>1, SubSeqProperties
  <1>3. /\ back \in Seq(S) /\ Len(back) = Len(s) - at
        /\ \A i \in 1 .. Len(s) - at : back[i] = s[at + i]
    BY <1>1, SubSeqProperties
  <1>4. /\ front \o back \in Seq(S)
        /\ Len(front \o back) = Len(front) + Len(back)
        /\ \A i \in 1 .. Len(front) + Len(back) :
             (front \o back)[i] = IF i <= Len(front) THEN front[i] ELSE back[i - Len(front)]
    <2> HIDE DEF front, back
    <2>1. QED
      BY <1>2, <1>3, ConcatProperties
  <1>5. RemoveAt(s, at) = front \o back
    BY DEF RemoveAt
  <1> HIDE DEF front, back
  <1>6. Len(front) + Len(back) = Len(s) - 1
    BY <1>1, <1>2, <1>3
  <1>7. ASSUME NEW i \in 1 .. Len(s) - 1
        PROVE  RemoveAt(s, at)[i] = IF i < at THEN s[i] ELSE s[i + 1]
    <2>1. RemoveAt(s, at)[i] = IF i <= at - 1 THEN front[i] ELSE back[i - (at - 1)]
      BY <1>2, <1>4, <1>5, <1>6
    <2>2. CASE i < at
      BY <1>1, <1>2, <2>1, <2>2
    <2>3. CASE ~(i < at)
      <3>1. i - (at - 1) \in 1 .. Len(s) - at /\ at + (i - (at - 1)) = i + 1
        BY <1>1, <2>3
      <3>2. back[i - (at - 1)] = s[i + 1]
        BY <1>3, <3>1
      <3>3. QED
        BY <1>1, <2>1, <2>3, <3>2
    <2>4. QED
      BY <2>2, <2>3
  <1>8. QED
    BY <1>4, <1>5, <1>6, <1>7

\* In a queue without repetitions, the element taken out is gone, the others
\* are there still, and none of them twice.
LEMMA RemoveAtDistinct ==
  ASSUME NEW S, NEW s \in Seq(S), NEW at \in DOMAIN s,
         \A i, j \in DOMAIN s : s[i] = s[j] => i = j
  PROVE  LET r == RemoveAt(s, at) IN
         /\ \A i \in DOMAIN r : r[i] # s[at] /\ \E j \in DOMAIN s : r[i] = s[j]
         /\ \A i, j \in DOMAIN r : r[i] = r[j] => i = j
  <1> DEFINE r == RemoveAt(s, at)
             old(i) == IF i < at THEN i ELSE i + 1
  <1>1. /\ r \in Seq(S) /\ Len(r) = Len(s) - 1
        /\ \A i \in 1 .. Len(s) - 1 : r[i] = IF i < at THEN s[i] ELSE s[i + 1]
    BY RemoveAtProperties
  <1>2. at \in 1 .. Len(s) /\ Len(s) \in Nat /\ DOMAIN s = 1 .. Len(s)
    OBVIOUS
  <1> HIDE DEF r
  <1>0. DOMAIN r = 1 .. Len(s) - 1
    BY <1>1
  <1>3. ASSUME NEW i \in DOMAIN r
        PROVE  old(i) \in DOMAIN s /\ old(i) # at /\ r[i] = s[old(i)]
    BY <1>0, <1>1, <1>2
  <1>4. ASSUME NEW i \in DOMAIN r, NEW j \in DOMAIN r, old(i) = old(j) PROVE i = j
    BY <1>0, <1>2, <1>4
  <1> HIDE DEF old
  <1>5. /\ \A i \in DOMAIN r : r[i] # s[at] /\ \E j \in DOMAIN s : r[i] = s[j]
        /\ \A i, j \in DOMAIN r : r[i] = r[j] => i = j
    BY <1>3, <1>4
  <1>6. QED
    BY <1>5 DEF r

\* The tail of a queue without repetitions is without its head.
LEMMA TailDistinct ==
  ASSUME NEW S, NEW s \in Seq(S), s # <<>>,
         \A i, j \in DOMAIN s : s[i] = s[j] => i = j
  PROVE  /\ Head(s) = s[1] /\ 1 \in DOMAIN s /\ Head(s) \in S
         /\ Tail(s) \in Seq(S)
         /\ \A i \in DOMAIN Tail(s) :
              Tail(s)[i] # Head(s) /\ \E j \in DOMAIN s : Tail(s)[i] = s[j]
         /\ \A i, j \in DOMAIN Tail(s) : Tail(s)[i] = Tail(s)[j] => i = j
  <1>1. /\ Head(s) = s[1] /\ 1 \in DOMAIN s /\ Head(s) \in S
        /\ Tail(s) \in Seq(S) /\ DOMAIN Tail(s) = 1 .. Len(s) - 1
        /\ \A i \in 1 .. Len(s) - 1 : Tail(s)[i] = s[i + 1] /\ i + 1 \in DOMAIN s
    OBVIOUS
  <1>2. QED
    BY <1>1
=============================================================================
