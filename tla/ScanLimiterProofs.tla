-------------------------- MODULE ScanLimiterProofs --------------------------
(***************************************************************************)
(* For every finite set of calls and every cap: the semaphore's counter is *)
(* the number of slots held, it never exceeds the cap, nobody waits while  *)
(* a slot is free, and the queue is served first come, first served.       *)
(***************************************************************************)
EXTENDS ScanLimiter, QueueLemmas, FiniteSetTheorems

\* The inductive invariant: a hand-over keeps the counter right only because
\* a waiter never holds a slot already (QueueExact), and leaves no queue
\* behind a free slot only because the counter is right.
IInv ==
  /\ TypeOK
  /\ SlotsAccounted
  /\ active <= Limit
  /\ NoIdleSlot
  /\ QueueExact

LEMMA HoldersFinite == IsFiniteSet(Holders)
  BY CallsAssumption, FS_Subset DEF Holders, In

\* Holders moves with the one call that changes state.
LEMMA HoldersStep ==
  ASSUME TypeOK, NEW c \in Calls, NEW st \in CallStates,
         call' = [call EXCEPT ![c] = st]
  PROVE  Holders' = IF st \in {"granted", "running"} THEN Holders \cup {c} ELSE Holders \ {c}
  BY DEF TypeOK, Holders, In

LEMMA InitIInv == Init => IInv
  <1> SUFFICES ASSUME Init PROVE IInv
    OBVIOUS
  <1>1. Holders = {}
    BY DEF Init, Holders, In
  <1>2. Cardinality({}) = 0
    BY FS_EmptySet
  <1>3. QED
    BY <1>1, <1>2, LimitAssumption DEF Init, IInv, TypeOK, CallStates, SlotsAccounted, NoIdleSlot, QueueExact

LEMMA AcquireIInv == ASSUME IInv, NEW c \in Calls, Acquire(c) PROVE IInv'
  <1> USE DEF IInv, CallStates
  <1>1. CASE c \in aborted
    <2>1. call' = [call EXCEPT ![c] = "rejected"] /\ UNCHANGED <<active, waiting, aborted>>
      BY <1>1 DEF Acquire
    <2>2. Holders' = Holders
      BY <2>1, HoldersStep DEF Acquire, Holders, In
    <2>3. QED
      BY <2>1, <2>2 DEF TypeOK, SlotsAccounted, NoIdleSlot, QueueExact, Acquire
  <1>2. CASE c \notin aborted /\ active < Limit
    <2>1. /\ call[c] = "new" /\ active' = active + 1
          /\ call' = [call EXCEPT ![c] = "granted"] /\ UNCHANGED <<waiting, aborted>>
      BY <1>2 DEF Acquire
    <2>2. Holders' = Holders \cup {c} /\ c \notin Holders
      BY <2>1, HoldersStep DEF Holders, In
    <2>3. Cardinality(Holders') = Cardinality(Holders) + 1
      BY <2>2, HoldersFinite, FS_AddElement
    <2>4. QED
      BY <1>2, <2>1, <2>3, LimitAssumption DEF TypeOK, SlotsAccounted, NoIdleSlot, QueueExact
  <1>3. CASE c \notin aborted /\ ~(active < Limit)
    <2>1. /\ call[c] = "new" /\ waiting' = Append(waiting, c)
          /\ call' = [call EXCEPT ![c] = "queued"] /\ UNCHANGED <<active, aborted>>
      BY <1>3 DEF Acquire
    <2>2. Holders' = Holders
      BY <2>1, HoldersStep DEF Holders, In
    <2>3. TypeOK'
      BY <2>1 DEF TypeOK
    <2>4. QueueExact'
      BY <2>1 DEF TypeOK, QueueExact
    <2>5. QED
      BY <1>3, <2>1, <2>2, <2>3, <2>4, LimitAssumption DEF TypeOK, SlotsAccounted, NoIdleSlot
  <1>4. QED
    BY <1>1, <1>2, <1>3

LEMMA ResumeIInv == ASSUME IInv, NEW c \in Calls, Resume(c) PROVE IInv'
  <1> USE DEF IInv, CallStates
  <1>1. Holders' = Holders
    BY HoldersStep DEF Resume, Holders, In
  <1>2. QED
    BY <1>1 DEF Resume, TypeOK, SlotsAccounted, NoIdleSlot, QueueExact

LEMMA AbortIInv == ASSUME IInv, NEW c \in Calls, Abort(c) PROVE IInv'
  <1> USE DEF IInv, CallStates
  <1>1. CASE call[c] = "queued"
    <2>1. PICK at \in DOMAIN waiting : waiting[at] = c /\ waiting' = RemoveAt(waiting, at)
      BY <1>1 DEF Abort
    <2>2. /\ call' = [call EXCEPT ![c] = "rejected"] /\ UNCHANGED active
          /\ aborted' = aborted \cup {c}
      BY <1>1 DEF Abort
    <2>3. Holders' = Holders
      BY <1>1, <2>2, HoldersStep DEF Holders, In
    <2>4. /\ waiting \in Seq(Calls)
          /\ waiting' \in Seq(Calls)
          /\ Len(waiting') = Len(waiting) - 1
          /\ \A i \in 1 .. Len(waiting) - 1 :
               waiting'[i] = IF i < at THEN waiting[i] ELSE waiting[i + 1]
      BY <2>1, RemoveAtProperties DEF TypeOK
    <2>5. TypeOK'
      BY <2>2, <2>4 DEF TypeOK
    <2>6. QueueExact'
      <3>1. \A i, j \in DOMAIN waiting' : waiting'[i] = waiting'[j] => i = j
        BY <2>1, <2>4 DEF QueueExact
      <3>2. \A i \in DOMAIN waiting' : waiting'[i] # c /\ call[waiting'[i]] = "queued"
        BY <2>1, <2>4 DEF QueueExact
      <3>3. ASSUME NEW d \in Calls, d # c, call[d] = "queued"
            PROVE  \E i \in DOMAIN waiting' : waiting'[i] = d
        <4>1. PICK k \in DOMAIN waiting : waiting[k] = d
          BY <3>3 DEF QueueExact
        <4>2. CASE k < at
          BY <2>1, <2>4, <4>1, <4>2
        <4>3. CASE k > at
          <5>1. k - 1 \in DOMAIN waiting' /\ waiting'[k - 1] = waiting[k]
            BY <2>1, <2>4, <4>3
          <5>2. QED
            BY <4>1, <5>1
        <4>4. k # at
          BY <2>1, <3>3, <4>1
        <4>5. QED
          BY <2>4, <4>2, <4>3, <4>4
      <3>4. QED
        BY <2>2, <2>4, <3>1, <3>2, <3>3 DEF QueueExact, TypeOK
    <2>7. QED
      BY <2>1, <2>2, <2>3, <2>4, <2>5, <2>6 DEF TypeOK, SlotsAccounted, NoIdleSlot
  <1>2. CASE call[c] # "queued"
    BY <1>2 DEF Abort, TypeOK, SlotsAccounted, NoIdleSlot, QueueExact, Holders, In
  <1>3. QED
    BY <1>1, <1>2

LEMMA ReleaseIInv == ASSUME IInv, NEW c \in Calls, Release(c) PROVE IInv'
  <1> USE DEF IInv, CallStates
  <1>0. call[c] = "running" /\ c \in Holders
    BY DEF Release, Holders, In
  <1>1. CASE waiting # <<>>
    <2> DEFINE h == Head(waiting)
    <2>1. /\ waiting' = Tail(waiting) /\ UNCHANGED <<active, aborted>>
          /\ call' = [call EXCEPT ![c] = "released", ![h] = "granted"]
      BY <1>1 DEF Release
    <2>2. h \in Calls /\ call[h] = "queued" /\ h = waiting[1]
      BY <1>1 DEF TypeOK, QueueExact
    <2>3. h # c /\ h \notin Holders
      BY <1>0, <2>2 DEF Holders, In
    <2>4. Holders' = (Holders \ {c}) \cup {h}
      BY <1>0, <2>1, <2>2, <2>3 DEF TypeOK, Holders, In
    <2>5. Cardinality(Holders') = Cardinality(Holders)
      <3>1. IsFiniteSet(Holders \ {c}) /\ Cardinality(Holders \ {c}) = Cardinality(Holders) - 1
        BY <1>0, HoldersFinite, FS_RemoveElement
      <3>2. Cardinality((Holders \ {c}) \cup {h}) = Cardinality(Holders \ {c}) + 1
        BY <2>3, <3>1, FS_AddElement
      <3>3. Cardinality(Holders) \in Nat
        BY HoldersFinite, FS_CardinalityType
      <3>4. QED
        BY <2>4, <3>1, <3>2, <3>3
    <2>6. TypeOK'
      <3>1. waiting' \in Seq(Calls)
        BY <1>1, <2>1, HeadTailProperties DEF TypeOK
      <3>2. call' \in [Calls -> CallStates]
        BY <2>1 DEF TypeOK
      <3>3. QED
        BY <2>1, <3>1, <3>2 DEF TypeOK
    <2>7. QueueExact'
      <3>1. /\ Len(waiting') = Len(waiting) - 1
            /\ \A i \in 1 .. Len(waiting) - 1 : waiting'[i] = waiting[i + 1]
        BY <1>1, <2>1 DEF TypeOK
      <3>2. \A i, j \in DOMAIN waiting' : waiting'[i] = waiting'[j] => i = j
        BY <2>1, <2>6, <3>1 DEF QueueExact, TypeOK
      <3>3. ASSUME NEW d \in Calls
            PROVE  call'[d] = "queued" <=> \E i \in DOMAIN waiting' : waiting'[i] = d
        <4>1. CASE d = h
          <5>1. call'[d] # "queued"
            BY <2>1, <2>2, <2>3, <4>1 DEF TypeOK
          <5>2. \A i \in DOMAIN waiting' : waiting'[i] # d
            BY <2>2, <2>6, <3>1, <4>1 DEF QueueExact, TypeOK
          <5>3. QED
            BY <5>1, <5>2
        <4>2. CASE d # h
          <5>1. call'[d] = "queued" <=> call[d] = "queued"
            BY <1>0, <2>1, <2>2, <4>2 DEF TypeOK
          <5>2. (\E i \in DOMAIN waiting : waiting[i] = d)
                  <=> \E i \in DOMAIN waiting' : waiting'[i] = d
            <6>1. ASSUME NEW i \in DOMAIN waiting, waiting[i] = d
                  PROVE  \E j \in DOMAIN waiting' : waiting'[j] = d
              <7>1. i # 1
                BY <2>2, <4>2, <6>1
              <7>2. i - 1 \in DOMAIN waiting' /\ waiting'[i - 1] = d
                BY <2>6, <3>1, <6>1, <7>1 DEF TypeOK
              <7>3. QED
                BY <7>2
            <6>2. ASSUME NEW j \in DOMAIN waiting', waiting'[j] = d
                  PROVE  \E i \in DOMAIN waiting : waiting[i] = d
              <7>1. j + 1 \in DOMAIN waiting /\ waiting[j + 1] = d
                BY <2>6, <3>1, <6>2 DEF TypeOK
              <7>2. QED
                BY <7>1
            <6>3. QED
              BY <6>1, <6>2
          <5>3. QED
            BY <5>1, <5>2 DEF QueueExact
        <4>3. QED
          BY <4>1, <4>2
      <3>4. QED
        BY <3>2, <3>3 DEF QueueExact
    <2>8. QED
      BY <1>1, <2>1, <2>5, <2>6, <2>7 DEF TypeOK, SlotsAccounted, NoIdleSlot
  <1>2. CASE waiting = <<>>
    <2>1. /\ active' = active - 1 /\ UNCHANGED <<waiting, aborted>>
          /\ call' = [call EXCEPT ![c] = "released"]
      BY <1>2 DEF Release
    <2>2. Holders' = Holders \ {c}
      BY <2>1, HoldersStep
    <2>3. Cardinality(Holders') = Cardinality(Holders) - 1 /\ Cardinality(Holders') \in Nat
      BY <1>0, <2>2, HoldersFinite, FS_RemoveElement, FS_CardinalityType
    <2>4. active' \in Nat /\ active' <= Limit
      BY <2>1, <2>3, LimitAssumption DEF TypeOK, SlotsAccounted
    <2>5. QED
      BY <1>0, <1>2, <2>1, <2>3, <2>4 DEF TypeOK, SlotsAccounted, NoIdleSlot, QueueExact
  <1>3. QED
    BY <1>1, <1>2

\* IInv is inductive: one lemma per operation of the semaphore.
THEOREM Invariance == Spec => []IInv
  <1>1. IInv /\ [Next]_vars => IInv'
    <2> SUFFICES ASSUME IInv, [Next]_vars PROVE IInv'
      OBVIOUS
    <2>1. CASE Next
      BY <2>1, AcquireIInv, ResumeIInv, AbortIInv, ReleaseIInv DEF Next
    <2>2. CASE UNCHANGED vars
      BY <2>2 DEF vars, IInv, TypeOK, SlotsAccounted, NoIdleSlot, QueueExact, Holders, In
    <2>3. QED
      BY <2>1, <2>2
  <1>2. QED
    BY InitIInv, <1>1, PTL DEF Spec

\* The counter tells how many scans hold a slot (Semaphore.inFlight), and it
\* never exceeds the cap of GUARDIAN_MAX_CONCURRENT_SCANS.
THEOREM LimitHolds == Spec => [](SlotsAccounted /\ WithinLimit)
  <1>1. IInv => SlotsAccounted /\ WithinLimit
    BY DEF IInv, SlotsAccounted, WithinLimit
  <1>2. QED
    BY Invariance, <1>1, PTL

\* No scan waits in the queue while a slot is free, so a cancelled waiter or
\* a hand-over never loses one.
THEOREM NoSlotIsLost == Spec => []NoIdleSlot
  <1>1. IInv => NoIdleSlot
    BY DEF IInv
  <1>2. QED
    BY Invariance, <1>1, PTL

\* The queue holds the calls that wait, each once: a cancelled one is out of
\* it before a slot comes by (acquire's abort handler).
THEOREM QueueIsExact == Spec => []QueueExact
  <1>1. IInv => QueueExact
    BY DEF IInv
  <1>2. QED
    BY Invariance, <1>1, PTL

\* A slot is granted to the head of the queue, or to a new call when nobody
\* waits: no acquire slips in between a release and the woken waiter.
THEOREM FirstComeFirstServed == Spec => NoOvertaking
  <1> DEFINE Fair == \A c \in Calls : call[c] # "granted" /\ call'[c] = "granted" =>
                       IF waiting = <<>> THEN call[c] = "new" ELSE c = Head(waiting)
  <1>1. IInv /\ [Next]_vars => [Fair]_vars
    <2> SUFFICES ASSUME IInv, NEW d \in Calls,
                        Acquire(d) \/ Resume(d) \/ Abort(d) \/ Release(d),
                        NEW c \in Calls, call[c] # "granted", call'[c] = "granted"
                 PROVE  IF waiting = <<>> THEN call[c] = "new" ELSE c = Head(waiting)
      BY DEF Next
    <2> USE DEF IInv, TypeOK
    <2>1. CASE Acquire(d)
      BY <2>1, LimitAssumption DEF Acquire, NoIdleSlot
    <2>2. CASE Resume(d)
      BY <2>2 DEF Resume
    <2>3. CASE Abort(d)
      BY <2>3 DEF Abort
    <2>4. CASE Release(d)
      BY <2>4 DEF Release
    <2>5. QED
      BY <2>1, <2>2, <2>3, <2>4
  <1>2. QED
    BY Invariance, <1>1, PTL DEF Spec, NoOvertaking
=============================================================================
