----------------------------- MODULE ScanLimiter -----------------------------
(***************************************************************************)
(* The in-process semaphore that caps how many scans run their scanners at *)
(* once: the class Semaphore of runners/concurrencyLimiter.ts.  A release  *)
(* HANDS its slot to the first waiter; the waiter's own code resumes only  *)
(* in a later microtask, so between the two the slot is "granted" and a    *)
(* new acquire, another release or an abort can run first.                 *)
(***************************************************************************)
EXTENDS Naturals, FiniteSets, SequencesExt

CONSTANTS
  Calls,   \* the calls of scan tools that want a slot, each one once
  Limit    \* the cap: GUARDIAN_MAX_CONCURRENT_SCANS, 2 by default

ASSUME CallsAssumption == IsFiniteSet(Calls)
ASSUME LimitAssumption == Limit \in Nat \ {0}

VARIABLES
  active,    \* Semaphore.active
  waiting,   \* Semaphore.waiting, the queue of takers
  call,      \* where each call is
  aborted    \* calls whose AbortSignal has fired

vars == <<active, waiting, call, aborted>>

CallStates ==
  {"new",        \* has not called acquire
   "queued",     \* awaits its turn in waiting
   "granted",    \* has the slot; its continuation has not run yet
   "running",    \* runs its scanner
   "rejected",   \* acquire threw the AbortError
   "released"}   \* gave its slot back

TypeOK ==
  /\ active \in Nat
  /\ waiting \in Seq(Calls)
  /\ call \in [Calls -> CallStates]
  /\ aborted \subseteq Calls

In(states) == {c \in Calls : call[c] \in states}

Holders == In({"granted", "running"})

-----------------------------------------------------------------------------
Init ==
  /\ active = 0
  /\ waiting = <<>>
  /\ call = [c \in Calls |-> "new"]
  /\ aborted = {}

\* acquire: an aborted signal throws, a free slot is taken, else queue up.
Acquire(c) ==
  /\ call[c] = "new"
  /\ \/ /\ c \in aborted
        /\ call' = [call EXCEPT ![c] = "rejected"]
        /\ UNCHANGED <<active, waiting>>
     \/ /\ c \notin aborted
        /\ active < Limit
        /\ active' = active + 1
        /\ call' = [call EXCEPT ![c] = "granted"]
        /\ UNCHANGED waiting
     \/ /\ c \notin aborted
        /\ ~(active < Limit)
        /\ waiting' = Append(waiting, c)
        /\ call' = [call EXCEPT ![c] = "queued"]
        /\ UNCHANGED active
  /\ UNCHANGED aborted

\* The continuation of a resolved acquire runs.
Resume(c) ==
  /\ call[c] = "granted"
  /\ call' = [call EXCEPT ![c] = "running"]
  /\ UNCHANGED <<active, waiting, aborted>>

\* MUTANT of Abort: the rejected waiter stays in the queue.
AbortStaysQueued(c) ==
  /\ c \notin aborted
  /\ call[c] \notin {"rejected", "released"}
  /\ aborted' = aborted \cup {c}
  /\ call' = IF call[c] = "queued" THEN [call EXCEPT ![c] = "rejected"] ELSE call
  /\ UNCHANGED <<active, waiting>>

\* The host cancels the call.  Only a queued call still listens: its taker is
\* spliced out of the queue (leave).
Abort(c) ==
  /\ c \notin aborted
  /\ call[c] \notin {"rejected", "released"}
  /\ aborted' = aborted \cup {c}
  /\ IF call[c] = "queued"
     THEN /\ \E at \in DOMAIN waiting :
               waiting[at] = c /\ waiting' = RemoveAt(waiting, at)
          /\ call' = [call EXCEPT ![c] = "rejected"]
     ELSE UNCHANGED <<waiting, call>>
  /\ UNCHANGED active

\* MUTANT of Release: the slot is given back as well as handed over.
ReleaseCountsTwice(c) ==
  /\ call[c] = "running"
  /\ active' = active - 1
  /\ IF waiting # <<>>
     THEN /\ waiting' = Tail(waiting)
          /\ call' = [call EXCEPT ![c] = "released", ![Head(waiting)] = "granted"]
     ELSE /\ call' = [call EXCEPT ![c] = "released"]
          /\ UNCHANGED waiting
  /\ UNCHANGED aborted

\* MUTANT of Release: the slot is given back and nobody is woken.
ReleaseWakesNobody(c) ==
  /\ call[c] = "running"
  /\ active' = active - 1
  /\ call' = [call EXCEPT ![c] = "released"]
  /\ UNCHANGED <<waiting, aborted>>

\* MUTANT of Release: the last waiter is woken first.
ReleaseWakesLast(c) ==
  /\ call[c] = "running"
  /\ IF waiting # <<>>
     THEN /\ waiting' = Front(waiting)
          /\ call' = [call EXCEPT ![c] = "released", ![Last(waiting)] = "granted"]
          /\ UNCHANGED active
     ELSE /\ active' = active - 1
          /\ call' = [call EXCEPT ![c] = "released"]
          /\ UNCHANGED waiting
  /\ UNCHANGED aborted

\* release: the slot goes to the first waiter, or back to the pool.
Release(c) ==
  /\ call[c] = "running"
  /\ IF waiting # <<>>
     THEN /\ waiting' = Tail(waiting)
          /\ call' = [call EXCEPT ![c] = "released", ![Head(waiting)] = "granted"]
          /\ UNCHANGED active
     ELSE /\ active' = active - 1
          /\ call' = [call EXCEPT ![c] = "released"]
          /\ UNCHANGED waiting
  /\ UNCHANGED aborted

Next == \E c \in Calls : Acquire(c) \/ Resume(c) \/ Abort(c) \/ Release(c)

\* A resolved promise's continuation runs, and every scanner run is capped
\* by a timeout, so a running scan reaches its release; nobody must call
\* acquire and no host must cancel.
Fairness == \A c \in Calls : WF_vars(Resume(c)) /\ WF_vars(Release(c))

Spec == Init /\ [][Next]_vars /\ Fairness

-----------------------------------------------------------------------------
\* The counter is the number of calls that hold a slot: a waiter that leaves
\* the queue takes none with it, and a hand-over neither mints nor loses one.
SlotsAccounted == active = Cardinality(Holders)

\* No more scans hold a slot than the cap, in particular not in the gap
\* between a release and the woken waiter's continuation.
WithinLimit == Cardinality(Holders) <= Limit

\* Nobody waits while a slot is free: a slot lost in a cancel or a hand-over
\* would leave a queue behind a limiter that has room.
NoIdleSlot == waiting # <<>> => active >= Limit

\* The queue is exactly the queued calls, each once: no call is left waiting
\* outside the queue, and none that was cancelled is still in it.
QueueExact ==
  /\ \A c \in Calls : call[c] = "queued" <=> \E i \in DOMAIN waiting : waiting[i] = c
  /\ \A i, j \in DOMAIN waiting : waiting[i] = waiting[j] => i = j

\* First come, first served: a step that grants a slot grants it to the head
\* of the queue, or to a new call when nobody waits.
NoOvertaking ==
  [][\A c \in Calls : call[c] # "granted" /\ call'[c] = "granted" =>
       IF waiting = <<>> THEN call[c] = "new" ELSE c = Head(waiting)]_vars
=============================================================================
