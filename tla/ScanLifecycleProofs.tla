------------------------- MODULE ScanLifecycleProofs -------------------------
(***************************************************************************)
(* For every number of servers, hosts, pids and scans: a completed row is  *)
(* whole, a finished one stays as it is, a start-up fails no scan of a     *)
(* live server, and the cache serves whole scans only.                     *)
(***************************************************************************)
EXTENDS ScanLifecycle, QueueLemmas, FiniteSetTheorems

\* A call has a server exactly while it runs there, or after it threw there;
\* that server is up, and the row carries its host and pid.  A row exists
\* once the call ran, is finished exactly by its owner or by a reaper, and is
\* whole when it says completed.
ScanOK(s) ==
  /\ IF call[s].phase \in Live \cup {"threw"}
     THEN /\ call[s].by \in Servers
          /\ Serving(call[s].by)
          /\ row[s].owner = Me(call[s].by)
     ELSE call[s].by = None
  /\ call[s].phase = "recording" => call[s].outcome \in Outcomes
  /\ row[s].status = "absent" <=> call[s].phase \in {"new", "served"}
  /\ row[s].status \in {"completed", "cancelled"} => call[s].phase = "over"
  /\ call[s].phase = "over" => row[s].status \in Outcomes
  /\ row[s].status = "completed" => row[s].stored = call[s].owed

\* A call answered from the cache was answered with a whole scan.
ServedOK(s) ==
  call[s].phase = "served" =>
    LET h == call[s].from IN
    /\ h \in Scans
    /\ row[h].status = "completed" /\ row[h].full /\ row[h].stored = call[h].owed

\* A server's queue holds calls that wait there, each once.
QueueOK(p) ==
  /\ \A i \in DOMAIN queue[p] :
       /\ queue[p][i] \in Scans
       /\ call[queue[p][i]].phase = "queued" /\ call[queue[p][i]].by = p
  /\ \A i, j \in DOMAIN queue[p] : queue[p][i] = queue[p][j] => i = j

\* A running process has a pid, and no other server of its host has it.
PidsDistinct ==
  \A p \in Servers : server[p] # "down" =>
    /\ pid[p] \in Pids
    /\ \A q \in Servers : server[q] # "down" /\ Me(p) = Me(q) => p = q

\* A listed row was in the table, and has only grown older since.
ListedOK(p) ==
  \A s \in Scans, age \in 0 .. MaxAge : <<s, age>> \in listed[p] =>
    /\ row[s].status # "absent"
    /\ row[s].status = "running" => age <= row[s].age

\* While a start-up reaps, a running row under its own pid that is not of its
\* own calls is still on its list; and afterwards there is none.
OwnOK(p) ==
  \A s \in Scans :
    /\ server[p] \in {"booting", "up"}
    /\ row[s].status = "running" /\ row[s].owner = Me(p) /\ call[s].by # p
    => server[p] = "booting" /\ \E age \in 0 .. MaxAge : <<s, age>> \in listed[p]

IInv ==
  /\ TypeOK
  /\ PidsDistinct
  /\ \A s \in Scans : ScanOK(s) /\ ServedOK(s)
  /\ \A p \in Servers : QueueOK(p) /\ ListedOK(p) /\ OwnOK(p)

-----------------------------------------------------------------------------
\* A step of the call s, and at most the slot handed to the head of a queue.
CallStep(s) ==
  /\ UNCHANGED <<server, pid, listed>>
  /\ \A t \in Scans \ {s} :
       /\ row'[t] = row[t]
       /\ \/ call'[t] = call[t]
          \/ /\ call[t].phase = "queued"
             /\ call'[t] = [call[t] EXCEPT !.phase = "invoking"]
  /\ row[s].status # "completed"
  /\ row[s].status # "absent" =>
       /\ row'[s].status # "absent" /\ row'[s].age = row[s].age
       /\ row'[s].status = "running" => row[s].status = "running"
  /\ call'[s].phase # "lost"

LEMMA CallStepIInv ==
  ASSUME IInv, NEW s \in Scans, CallStep(s), TypeOK', ScanOK(s)', ServedOK(s)',
         \A p \in Servers : QueueOK(p)'
  PROVE  IInv'
  <1>1. ASSUME NEW t \in Scans \ {s}
        PROVE  /\ row'[t] = row[t]
               /\ call'[t].by = call[t].by /\ call'[t].from = call[t].from
               /\ call'[t].owed = call[t].owed /\ call'[t].outcome = call[t].outcome
               /\ \/ call'[t].phase = call[t].phase
                  \/ call[t].phase = "queued" /\ call'[t].phase = "invoking"
    <2>1. call[t] \in Call
      BY DEF IInv, TypeOK
    <2>2. /\ row'[t] = row[t]
          /\ \/ call'[t] = call[t]
             \/ call[t].phase = "queued" /\ call'[t] = [call[t] EXCEPT !.phase = "invoking"]
      BY DEF CallStep
    <2>3. QED
      BY <2>1, <2>2 DEF Call
  <1>2. UNCHANGED <<server, pid, listed>>
    BY DEF CallStep
  <1>3. \A p \in Servers : (Me(p)' = Me(p)) /\ (Serving(p)' = Serving(p))
    BY <1>2 DEF Me, Serving
  <1>4. PidsDistinct'
    BY <1>2, <1>3 DEF IInv, PidsDistinct
  <1>5. ASSUME NEW t \in Scans \ {s} PROVE ScanOK(t)'
    <2>1. ScanOK(t)
      BY DEF IInv
    <2>2. QED
      BY <1>1, <1>3, <2>1 DEF ScanOK, Live
  <1>6. ASSUME NEW t \in Scans \ {s} PROVE ServedOK(t)'
    <2>1. SUFFICES ASSUME call[t].phase = "served"
                   PROVE  LET h == call[t].from IN
                          /\ h \in Scans
                          /\ row'[h].status = "completed" /\ row'[h].full
                          /\ row'[h].stored = call'[h].owed
      BY <1>1 DEF ServedOK
    <2>2. ServedOK(t) /\ call[t].from # s
      BY <2>1 DEF IInv, ServedOK, CallStep
    <2>3. QED
      BY <1>1, <2>1, <2>2 DEF ServedOK
  <1>7. ASSUME NEW p \in Servers PROVE ListedOK(p)'
    <2>1. ListedOK(p)
      BY DEF IInv
    <2>2. QED
      BY <1>1, <1>2, <2>1 DEF ListedOK, CallStep
  <1>8. ASSUME NEW p \in Servers PROVE OwnOK(p)'
    <2>1. SUFFICES ASSUME NEW t \in Scans, server[p] \in {"booting", "up"},
                          row'[t].status = "running", row'[t].owner = Me(p), call'[t].by # p
                   PROVE  server[p] = "booting" /\ \E age \in 0 .. MaxAge : <<t, age>> \in listed[p]
      BY <1>2, <1>3 DEF OwnOK
    <2>2. ScanOK(t)'
      BY <1>5
    <2>3. CASE t = s
      <3>1. call'[s].phase \in Live \cup {"threw"}
        <4>1. call'[s].phase \in Phases
          BY DEF TypeOK, Call
        <4>2. QED
          BY <2>1, <2>2, <2>3, <4>1 DEF ScanOK, CallStep, Phases, Outcomes
      <3>2. Me(p) = Me(call'[s].by) /\ call'[s].by \in Servers /\ Serving(call'[s].by)
        <4>1. /\ call'[s].by \in Servers /\ server'[call'[s].by] \in {"up", "unreaped"}
              /\ row'[s].owner = <<HostOf[call'[s].by], pid'[call'[s].by]>>
          BY <2>2, <2>3, <3>1 DEF ScanOK, Serving, Me
        <4>2. QED
          BY <1>2, <2>1, <2>3, <4>1 DEF Me, Serving
      <3>3. QED
        BY <2>1, <2>3, <3>2 DEF IInv, PidsDistinct, Serving
    <2>4. CASE t # s
      BY <1>1, <2>1, <2>4 DEF IInv, OwnOK
    <2>5. QED
      BY <2>3, <2>4
  <1>9. QED
    BY <1>4, <1>5, <1>6, <1>7, <1>8 DEF IInv

\* Queues that do not change, and whose calls wait on.
LEMMA SameQueues ==
  ASSUME IInv, NEW s \in Scans, UNCHANGED queue, call[s].phase # "queued",
         \A t \in Scans \ {s} : call'[t] = call[t]
  PROVE  \A p \in Servers : QueueOK(p)'
  BY DEF IInv, QueueOK

LEMMA NewCallType ==
  /\ NewCall \in Call
  /\ NewCall.phase = "new" /\ NewCall.by = None
  BY BoundsAssumption DEF Call, NewCall, Phases

LEMMA NoRowType == NoRow \in Row
  BY BoundsAssumption DEF Row, NoRow, MaxAge

\* One call, or one row, changes.
LEMMA CallWrite ==
  ASSUME TypeOK, NEW s \in Scans, NEW c \in Call, call' = [call EXCEPT ![s] = c]
  PROVE  call' \in [Scans -> Call] /\ call'[s] = c /\ \A t \in Scans \ {s} : call'[t] = call[t]
  BY DEF TypeOK

LEMMA RowWrite ==
  ASSUME TypeOK, NEW s \in Scans, NEW r \in Row, row' = [row EXCEPT ![s] = r]
  PROVE  row' \in [Scans -> Row] /\ row'[s] = r /\ \A t \in Scans \ {s} : row'[t] = row[t]
  BY DEF TypeOK

LEMMA ServeFromCacheIInv ==
  ASSUME IInv, NEW p \in Servers, NEW s \in Scans, ServeFromCache(p, s) PROVE IInv'
  <1>1. PICK h \in Scans :
          /\ Servable(h)
          /\ call' = [call EXCEPT ![s] = [NewCall EXCEPT !.phase = "served", !.from = h]]
    BY DEF ServeFromCache
  <1>2. call[s].phase = "new" /\ UNCHANGED <<row, queue, server, pid, listed, foreign, tree>>
    BY DEF ServeFromCache, servers
  <1>3. /\ call' \in [Scans -> Call] /\ \A t \in Scans \ {s} : call'[t] = call[t]
        /\ call'[s].phase = "served" /\ call'[s].by = None /\ call'[s].from = h
    <2> DEFINE c == [NewCall EXCEPT !.phase = "served", !.from = h]
    <2>1. c \in Call /\ c.phase = "served" /\ c.by = None /\ c.from = h
      BY <1>1, NewCallType DEF Call, Phases
    <2>2. call' = [call EXCEPT ![s] = c]
      BY <1>1
    <2>3. QED
      BY <2>1, <2>2, CallWrite DEF IInv
  <1>4. ScanOK(h) /\ ScanOK(s) /\ row[h].status = "completed" /\ row[h].full
    BY <1>1 DEF IInv, Servable, CacheHits
  <1>5. TypeOK'
    BY <1>2, <1>3 DEF IInv, TypeOK
  <1>6. ScanOK(s)'
    BY <1>2, <1>3, <1>4 DEF ScanOK, Live
  <1>7. ServedOK(s)'
    BY <1>2, <1>3, <1>4 DEF ScanOK, ServedOK
  <1>8. CallStep(s)
    BY <1>2, <1>3, <1>4 DEF CallStep, ScanOK
  <1>9. QED
    BY <1>2, <1>3, <1>5, <1>6, <1>7, <1>8, SameQueues, CallStepIInv

LEMMA StartScanIInv ==
  ASSUME IInv, NEW p \in Servers, NEW s \in Scans, StartScan(p, s) PROVE IInv'
  <1>1. PICK phase \in {"leaving", "invoking", "queued", "threw"} :
          /\ call' = [call EXCEPT ![s] = [NewCall EXCEPT !.phase = phase, !.by = p,
                                                         !.aborted = (phase = "leaving")]]
          /\ queue' = IF phase = "queued" THEN [queue EXCEPT ![p] = Append(@, s)] ELSE queue
    BY DEF StartScan
  <1>2. /\ Serving(p) /\ call[s].phase = "new"
        /\ UNCHANGED <<server, pid, listed, foreign, tree>>
    BY DEF StartScan, servers
  <1>3. ScanOK(s) /\ row[s].status = "absent"
    BY <1>2 DEF IInv, ScanOK
  <1>4. /\ call' \in [Scans -> Call] /\ \A t \in Scans \ {s} : call'[t] = call[t]
        /\ call'[s].phase = phase /\ call'[s].by = p
    <2> DEFINE c == [NewCall EXCEPT !.phase = phase, !.by = p, !.aborted = (phase = "leaving")]
    <2>1. c \in Call /\ c.phase = phase /\ c.by = p
      BY <1>1, NewCallType DEF Call, Phases, Live
    <2>2. call' = [call EXCEPT ![s] = c]
      BY <1>1
    <2>3. QED
      BY <2>1, <2>2, CallWrite DEF IInv
  <1>5. /\ Me(p) \in Hosts \X Pids
    BY <1>2 DEF IInv, PidsDistinct, Me, Hosts, Serving
  <1>6. /\ row' \in [Scans -> Row] /\ \A t \in Scans \ {s} : row'[t] = row[t]
        /\ row'[s].status = "running" /\ row'[s].owner = Me(p)
    <2>1. row' = [row EXCEPT ![s] = [NoRow EXCEPT !.status = "running", !.owner = Me(p), !.key = tree]]
      BY DEF StartScan
    <2> DEFINE r == [NoRow EXCEPT !.status = "running", !.owner = Me(p), !.key = tree]
    <2>2. r \in Row /\ r.status = "running" /\ r.owner = Me(p)
      BY <1>5, NoRowType DEF IInv, TypeOK, Row
    <2>3. QED
      BY <2>1, <2>2, RowWrite DEF IInv
  <1>7. TypeOK'
    BY <1>1, <1>2, <1>4, <1>6 DEF IInv, TypeOK
  <1>8. ScanOK(s)'
    BY <1>1, <1>2, <1>4, <1>6 DEF ScanOK, Live, Serving, Me
  <1>9. ServedOK(s)' /\ CallStep(s)
    BY <1>1, <1>2, <1>3, <1>4, <1>6 DEF ServedOK, CallStep
  <1>10. ASSUME NEW q \in Servers PROVE QueueOK(q)'
    <2>1. QueueOK(q) /\ queue[q] \in Seq(Scans) /\ queue \in [Servers -> Seq(Scans)]
      BY DEF IInv, TypeOK
    <2>2. \A i \in DOMAIN queue[q] : queue[q][i] # s
      BY <1>2, <2>1 DEF QueueOK
    <2>3. CASE queue'[q] = queue[q]
      BY <1>4, <2>1, <2>2, <2>3 DEF QueueOK
    <2>4. CASE queue'[q] # queue[q]
      <3>1. queue'[q] = Append(queue[q], s) /\ q = p /\ phase = "queued"
        BY <1>1, <2>1, <2>4
      <3>2. \A i \in DOMAIN queue'[q] :
              \/ i = Len(queue[q]) + 1 /\ queue'[q][i] = s
              \/ i \in DOMAIN queue[q] /\ queue'[q][i] = queue[q][i]
        BY <2>1, <3>1
      <3>3. QED
        BY <1>4, <2>1, <2>2, <3>1, <3>2 DEF QueueOK
    <2>5. QED
      BY <2>3, <2>4
  <1>11. QED
    BY <1>7, <1>8, <1>9, <1>10, CallStepIInv

LEMMA AbortQueuedIInv ==
  ASSUME IInv, NEW s \in Scans, AbortQueued(s) PROVE IInv'
  <1> DEFINE p == call[s].by
  <1>1. PICK at \in DOMAIN queue[p] :
          queue[p][at] = s /\ queue' = [queue EXCEPT ![p] = RemoveAt(@, at)]
    BY DEF AbortQueued
  <1>2. /\ call[s].phase = "queued" /\ Serving(p)
        /\ UNCHANGED <<row, server, pid, listed, foreign, tree>>
    BY DEF AbortQueued, CanStep, servers
  <1>3. ScanOK(s) /\ p \in Servers
    BY <1>2 DEF IInv, ScanOK, Live
  <1>4. /\ call' \in [Scans -> Call] /\ \A t \in Scans \ {s} : call'[t] = call[t]
        /\ call'[s].phase = "leaving" /\ call'[s].by = p
    <2> DEFINE c == [call[s] EXCEPT !.phase = "leaving", !.aborted = TRUE]
    <2>1. c \in Call /\ c.phase = "leaving" /\ c.by = p
      BY DEF IInv, TypeOK, Call, Phases, Live
    <2>2. call' = [call EXCEPT ![s] = c]
      BY DEF AbortQueued, IInv, TypeOK
    <2>3. QED
      BY <2>1, <2>2, CallWrite DEF IInv
  <1>5. queue[p] \in Seq(Scans) /\ queue \in [Servers -> Seq(Scans)] /\ QueueOK(p)
    BY <1>3 DEF IInv, TypeOK
  <1> HIDE DEF p
  <1> DEFINE r == RemoveAt(queue[p], at)
  <1>51. /\ \A i \in DOMAIN r : r[i] # s /\ \E j \in DOMAIN queue[p] : r[i] = queue[p][j]
         /\ \A i, j \in DOMAIN r : r[i] = r[j] => i = j
         /\ r \in Seq(Scans)
    <2>1. \A i, j \in DOMAIN queue[p] : queue[p][i] = queue[p][j] => i = j
      BY <1>5 DEF QueueOK
    <2>2. QED
      BY <1>1, <1>5, <2>1, RemoveAtDistinct, RemoveAtProperties
  <1> HIDE DEF r
  <1>52. queue' = [queue EXCEPT ![p] = r]
    BY <1>1 DEF r
  <1>6. TypeOK'
    <2>1. queue' \in [Servers -> Seq(Scans)]
      BY <1>5, <1>51, <1>52
    <2>2. QED
      BY <1>2, <1>4, <2>1 DEF IInv, TypeOK
  <1>7. ScanOK(s)'
    BY <1>2, <1>3, <1>4 DEF ScanOK, Live, Serving, Me, p
  <1>8. ServedOK(s)' /\ CallStep(s)
    BY <1>2, <1>3, <1>4 DEF ServedOK, CallStep, ScanOK
  <1>9. ASSUME NEW q \in Servers PROVE QueueOK(q)'
    <2>1. QueueOK(q)
      BY DEF IInv
    <2>2. CASE q = p
      <3>1. queue'[q] = r
        BY <1>3, <1>5, <1>52, <2>2
      <3>2. QED
        BY <1>4, <1>51, <2>1, <2>2, <3>1 DEF QueueOK
    <2>3. CASE q # p
      <3>1. queue'[q] = queue[q]
        BY <1>5, <1>52, <2>3
      <3>2. \A i \in DOMAIN queue[q] : queue[q][i] # s
        BY <2>1, <2>3 DEF QueueOK, p
      <3>3. QED
        BY <1>4, <2>1, <3>1, <3>2 DEF QueueOK
    <2>4. QED
      BY <2>2, <2>3
  <1>10. QED
    BY <1>6, <1>7, <1>8, <1>9, CallStepIInv

LEMMA AbortInvokingIInv ==
  ASSUME IInv, NEW s \in Scans, AbortInvoking(s) PROVE IInv'
  <1>1. /\ call[s].phase = "invoking" /\ Serving(call[s].by)
        /\ UNCHANGED <<row, queue, server, pid, listed, foreign, tree>>
    BY DEF AbortInvoking, CanStep, servers
  <1>2. /\ call' \in [Scans -> Call] /\ \A t \in Scans \ {s} : call'[t] = call[t]
        /\ call'[s].phase = "invoking" /\ call'[s].by = call[s].by
    <2> DEFINE c == [call[s] EXCEPT !.aborted = TRUE]
    <2>1. c \in Call /\ c.phase = call[s].phase /\ c.by = call[s].by
      BY DEF IInv, TypeOK, Call
    <2>2. call' = [call EXCEPT ![s] = c]
      BY DEF AbortInvoking, IInv, TypeOK
    <2>3. QED
      BY <1>1, <2>1, <2>2, CallWrite DEF IInv
  <1>3. ScanOK(s)
    BY DEF IInv
  <1>4. TypeOK'
    BY <1>1, <1>2 DEF IInv, TypeOK
  <1>5. ScanOK(s)' /\ ServedOK(s)' /\ CallStep(s)
    BY <1>1, <1>2, <1>3 DEF ScanOK, ServedOK, CallStep, Live, Serving, Me
  <1>6. QED
    BY <1>1, <1>2, <1>4, <1>5, SameQueues, CallStepIInv

LEMMA LeaveIInv ==
  ASSUME IInv, NEW s \in Scans, Leave(s) PROVE IInv'
  <1>1. /\ call[s].phase = "leaving" /\ Serving(call[s].by)
        /\ UNCHANGED <<queue, server, pid, listed, foreign, tree>>
    BY DEF Leave, CanStep, servers
  <1>2. /\ call' \in [Scans -> Call] /\ \A t \in Scans \ {s} : call'[t] = call[t]
        /\ call'[s].phase = "over" /\ call'[s].by = None
    <2> DEFINE c == [NewCall EXCEPT !.phase = "over"]
    <2>1. c \in Call /\ c.phase = "over" /\ c.by = None
      BY NewCallType DEF Call, Phases
    <2>2. QED
      BY <2>1, CallWrite DEF IInv, Leave
  <1>3. /\ row' \in [Scans -> Row] /\ \A t \in Scans \ {s} : row'[t] = row[t]
        /\ row'[s].status = "cancelled" /\ row'[s].age = row[s].age
    <2> DEFINE r == [row[s] EXCEPT !.status = "cancelled", !.full = FALSE]
    <2>1. r \in Row /\ r.status = "cancelled" /\ r.age = row[s].age
      BY DEF IInv, TypeOK, Row, Outcomes
    <2>2. row' = [row EXCEPT ![s] = r]
      BY DEF Leave, SetStatus, IInv, TypeOK
    <2>3. QED
      BY <2>1, <2>2, RowWrite DEF IInv
  <1>4. ScanOK(s)
    BY DEF IInv
  <1>5. TypeOK'
    BY <1>1, <1>2, <1>3 DEF IInv, TypeOK
  <1>6. ScanOK(s)' /\ ServedOK(s)' /\ CallStep(s)
    BY <1>1, <1>2, <1>3, <1>4 DEF ScanOK, ServedOK, CallStep, Live, Outcomes
  <1>7. QED
    BY <1>1, <1>2, <1>5, <1>6, SameQueues, CallStepIInv

LEMMA RecordChunkIInv ==
  ASSUME IInv, NEW s \in Scans, RecordChunk(s) PROVE IInv'
  <1>1. /\ call[s].phase = "recording" /\ row[s].stored < call[s].owed
        /\ UNCHANGED <<call, queue, server, pid, listed, foreign, tree>>
    BY DEF RecordChunk, servers
  <1>2. /\ row' \in [Scans -> Row] /\ \A t \in Scans \ {s} : row'[t] = row[t]
        /\ row'[s].status = row[s].status /\ row'[s].age = row[s].age
        /\ row'[s].owner = row[s].owner
    <2> DEFINE r == [row[s] EXCEPT !.stored = @ + 1]
    <2>1. row[s] \in Row /\ call[s] \in Call
      BY DEF IInv, TypeOK
    <2>2. row[s].stored + 1 \in 0 .. MaxChunks
      BY <1>1, <2>1, BoundsAssumption DEF Row, Call
    <2>3. r \in Row /\ r.status = row[s].status /\ r.age = row[s].age /\ r.owner = row[s].owner
      BY <2>1, <2>2 DEF Row
    <2>4. row' = [row EXCEPT ![s] = r]
      BY DEF RecordChunk, IInv, TypeOK
    <2>5. QED
      BY <2>3, <2>4, RowWrite DEF IInv
  <1>3. ScanOK(s)
    BY DEF IInv
  <1>4. TypeOK'
    BY <1>1, <1>2 DEF IInv, TypeOK
  <1>5. ScanOK(s)' /\ ServedOK(s)' /\ CallStep(s)
    BY <1>1, <1>2, <1>3 DEF ScanOK, ServedOK, CallStep, Live, Serving, Me
  <1>6. QED
    BY <1>1, <1>2, <1>4, <1>5, SameQueues, CallStepIInv

LEMMA FinalizeIInv ==
  ASSUME IInv, NEW s \in Scans, Finalize(s) PROVE IInv'
  <1>1. /\ call[s].phase = "recording" /\ Serving(call[s].by)
        /\ UNCHANGED <<queue, server, pid, listed, foreign, tree>>
    BY DEF Finalize, CanStep, servers
  <1>2. ScanOK(s) /\ call[s] \in Call /\ row[s] \in Row
    BY DEF IInv, TypeOK
  <1>3. row[s].stored = call[s].owed
    BY <1>1, <1>2 DEF Finalize, CanStep, Free, ScanOK, Live
  <1>4. /\ call' \in [Scans -> Call] /\ \A t \in Scans \ {s} : call'[t] = call[t]
        /\ call'[s].phase = "over" /\ call'[s].by = None /\ call'[s].owed = call[s].owed
    <2> DEFINE c == [NewCall EXCEPT !.phase = "over", !.owed = call[s].owed, !.saw = call[s].saw]
    <2>1. c \in Call /\ c.phase = "over" /\ c.by = None /\ c.owed = call[s].owed
      BY <1>2, NewCallType DEF Call, Phases
    <2>2. QED
      BY <2>1, CallWrite DEF IInv, Finalize
  <1>5. /\ row' \in [Scans -> Row] /\ \A t \in Scans \ {s} : row'[t] = row[t]
        /\ row'[s].status = call[s].outcome /\ row'[s].age = row[s].age
        /\ row'[s].stored = row[s].stored
    <2> DEFINE r == [row[s] EXCEPT !.status = call[s].outcome, !.full = call[s].full]
    <2>1. call[s].outcome \in Outcomes
      BY <1>1, <1>2 DEF ScanOK
    <2>2. r \in Row /\ r.status = call[s].outcome /\ r.age = row[s].age /\ r.stored = row[s].stored
      BY <1>2, <2>1 DEF Row, Call
    <2>3. row' = [row EXCEPT ![s] = r]
      BY DEF Finalize, SetStatus, IInv, TypeOK
    <2>4. QED
      BY <2>2, <2>3, RowWrite DEF IInv
  <1>6. TypeOK'
    BY <1>1, <1>4, <1>5 DEF IInv, TypeOK
  <1>7. ScanOK(s)' /\ ServedOK(s)' /\ CallStep(s)
    BY <1>1, <1>2, <1>3, <1>4, <1>5 DEF ScanOK, ServedOK, CallStep, Live, Outcomes
  <1>8. QED
    BY <1>1, <1>4, <1>6, <1>7, SameQueues, CallStepIInv

LEMMA WriteThrowsIInv ==
  ASSUME IInv, NEW s \in Scans, WriteThrows(s) PROVE IInv'
  <1>1. /\ call[s].phase \in {"leaving", "recording"} /\ Serving(call[s].by)
        /\ UNCHANGED <<row, queue, server, pid, listed, foreign, tree>>
    BY DEF WriteThrows, servers
  <1>2. ScanOK(s) /\ call[s] \in Call
    BY DEF IInv, TypeOK
  <1>3. /\ call' \in [Scans -> Call] /\ \A t \in Scans \ {s} : call'[t] = call[t]
        /\ call'[s].phase = "threw" /\ call'[s].by = call[s].by
    <2> DEFINE c == [NewCall EXCEPT !.phase = "threw", !.by = call[s].by]
    <2>1. c \in Call /\ c.phase = "threw" /\ c.by = call[s].by
      BY <1>2, NewCallType DEF Call, Phases
    <2>2. QED
      BY <2>1, CallWrite DEF IInv, WriteThrows
  <1>4. TypeOK'
    BY <1>1, <1>3 DEF IInv, TypeOK
  <1>5. ScanOK(s)' /\ ServedOK(s)' /\ CallStep(s)
    BY <1>1, <1>2, <1>3 DEF ScanOK, ServedOK, CallStep, Live, Serving, Me
  <1>6. QED
    BY <1>1, <1>3, <1>4, <1>5, SameQueues, CallStepIInv

\* Releasing a slot hands it to the head of the queue, which waits no longer.
LEMMA ReleaseSlotEffect ==
  ASSUME IInv, NEW s \in Scans, call[s].phase = "invoking",
         NEW next \in Call, ReleaseSlot(s, next)
  PROVE  /\ call' \in [Scans -> Call] /\ queue' \in [Servers -> Seq(Scans)]
         /\ call'[s] = next
         /\ \A t \in Scans \ {s} :
              \/ call'[t] = call[t]
              \/ /\ call[t].phase = "queued"
                 /\ call'[t] = [call[t] EXCEPT !.phase = "invoking"]
         /\ \A q \in Servers : QueueOK(q)'
  <1> DEFINE p == call[s].by
  <1>1. p \in Servers
    BY DEF IInv, ScanOK, Live
  <1>2. /\ queue \in [Servers -> Seq(Scans)] /\ queue[p] \in Seq(Scans) /\ QueueOK(p)
        /\ call \in [Scans -> Call]
    BY <1>1 DEF IInv, TypeOK
  <1>3. CASE queue[p] = <<>>
    <2>1. call' = [call EXCEPT ![s] = next] /\ UNCHANGED queue
      BY <1>3 DEF ReleaseSlot
    <2>2. /\ call' \in [Scans -> Call] /\ call'[s] = next
          /\ \A t \in Scans \ {s} : call'[t] = call[t]
      BY <2>1, CallWrite DEF IInv
    <2>3. \A q \in Servers : QueueOK(q)'
      BY <2>1, <2>2, SameQueues
    <2>4. QED
      BY <1>2, <2>1, <2>2, <2>3
  <1>4. CASE queue[p] # <<>>
    <2> DEFINE h == Head(queue[p])
               r == Tail(queue[p])
    <2>1. /\ call' = [call EXCEPT ![s] = next, ![h].phase = "invoking"]
          /\ queue' = [queue EXCEPT ![p] = r]
      BY <1>4 DEF ReleaseSlot
    <2> HIDE DEF p
    <2>2. /\ h \in Scans /\ h = queue[p][1] /\ 1 \in DOMAIN queue[p]
          /\ r \in Seq(Scans)
          /\ \A i \in DOMAIN r : r[i] # h /\ \E j \in DOMAIN queue[p] : r[i] = queue[p][j]
          /\ \A i, j \in DOMAIN r : r[i] = r[j] => i = j
      <3>1. \A i, j \in DOMAIN queue[p] : queue[p][i] = queue[p][j] => i = j
        BY <1>2 DEF QueueOK
      <3>2. QED
        BY <1>2, <1>4, <3>1, TailDistinct
    <2>3. call[h].phase = "queued" /\ call[h].by = p /\ h # s
      BY <1>2, <2>2 DEF QueueOK
    <2> HIDE DEF h, r
    <2>4. /\ call' \in [Scans -> Call] /\ call'[s] = next
          /\ call'[h] = [call[h] EXCEPT !.phase = "invoking"]
          /\ \A t \in Scans \ {s, h} : call'[t] = call[t]
      <3>1. [call[h] EXCEPT !.phase = "invoking"] \in Call
        BY <1>2, <2>2 DEF Call, Phases, Live
      <3>2. QED
        BY <1>2, <2>1, <2>2, <2>3, <3>1
    <2>5. queue' \in [Servers -> Seq(Scans)]
      BY <1>2, <2>1, <2>2
    <2>6. ASSUME NEW q \in Servers PROVE QueueOK(q)'
      <3>1. QueueOK(q)
        BY DEF IInv
      <3>2. CASE q = p
        <4>1. queue'[q] = r
          BY <1>1, <1>2, <2>1, <3>2 DEF p
        <4>2. \A i \in DOMAIN r : r[i] # s /\ r[i] \in Scans
          BY <1>2, <2>2 DEF QueueOK
        <4>3. \A i \in DOMAIN r : call'[r[i]] = call[r[i]]
          BY <2>2, <2>4, <4>2
        <4>4. QED
          BY <1>2, <2>2, <3>2, <4>1, <4>2, <4>3 DEF QueueOK
      <3>3. CASE q # p
        <4>1. queue'[q] = queue[q]
          BY <1>2, <2>1, <3>3
        <4>2. \A i \in DOMAIN queue[q] : queue[q][i] \in Scans \ {s, h}
          BY <2>3, <3>1, <3>3 DEF QueueOK
        <4>3. QED
          BY <2>4, <3>1, <4>1, <4>2 DEF QueueOK
      <3>4. QED
        BY <3>2, <3>3
    <2>7. QED
      BY <2>2, <2>3, <2>4, <2>5, <2>6
  <1>5. QED
    BY <1>3, <1>4

LEMMA InvokeThrowsIInv ==
  ASSUME IInv, NEW s \in Scans, InvokeThrows(s) PROVE IInv'
  <1>1. /\ call[s].phase = "invoking" /\ Serving(call[s].by)
        /\ UNCHANGED <<server, pid, listed, foreign, tree>>
    BY DEF InvokeThrows, CanStep, servers
  <1>2. ScanOK(s) /\ call[s] \in Call /\ row[s] \in Row
    BY DEF IInv, TypeOK
  <1>3. CASE /\ SetStatus(s, "failed", FALSE)
             /\ ReleaseSlot(s, [NewCall EXCEPT !.phase = "over"])
    <2> DEFINE c == [NewCall EXCEPT !.phase = "over"]
               r == [row[s] EXCEPT !.status = "failed", !.full = FALSE]
    <2>1. c \in Call /\ c.phase = "over" /\ c.by = None
      BY NewCallType DEF Call, Phases
    <2>2. r \in Row /\ r.status = "failed" /\ r.age = row[s].age
      BY <1>2 DEF Row, Outcomes
    <2>3. row' = [row EXCEPT ![s] = r]
      BY <1>3 DEF SetStatus, IInv, TypeOK
    <2>4. row' \in [Scans -> Row] /\ row'[s] = r /\ \A t \in Scans \ {s} : row'[t] = row[t]
      BY <2>2, <2>3, RowWrite DEF IInv
    <2>5. ReleaseSlot(s, c)
      BY <1>3
    <2> HIDE DEF c, r
    <2>6. /\ call' \in [Scans -> Call] /\ queue' \in [Servers -> Seq(Scans)] /\ call'[s] = c
          /\ \A t \in Scans \ {s} :
               \/ call'[t] = call[t]
               \/ call[t].phase = "queued" /\ call'[t] = [call[t] EXCEPT !.phase = "invoking"]
          /\ \A q \in Servers : QueueOK(q)'
      BY <1>1, <2>1, <2>5, ReleaseSlotEffect
    <2>7. TypeOK'
      BY <1>1, <2>4, <2>6 DEF IInv, TypeOK
    <2>8. ScanOK(s)' /\ ServedOK(s)' /\ CallStep(s)
      BY <1>1, <1>2, <2>1, <2>2, <2>4, <2>6 DEF ScanOK, ServedOK, CallStep, Live, Outcomes
    <2>9. QED
      BY <2>6, <2>7, <2>8, CallStepIInv
  <1>4. CASE UNCHANGED row /\ ReleaseSlot(s, [NewCall EXCEPT !.phase = "threw", !.by = call[s].by])
    <2> DEFINE c == [NewCall EXCEPT !.phase = "threw", !.by = call[s].by]
    <2>1. c \in Call /\ c.phase = "threw" /\ c.by = call[s].by
      BY <1>2, NewCallType DEF Call, Phases
    <2>2. ReleaseSlot(s, c)
      BY <1>4
    <2> HIDE DEF c
    <2>3. /\ call' \in [Scans -> Call] /\ queue' \in [Servers -> Seq(Scans)] /\ call'[s] = c
          /\ \A t \in Scans \ {s} :
               \/ call'[t] = call[t]
               \/ call[t].phase = "queued" /\ call'[t] = [call[t] EXCEPT !.phase = "invoking"]
          /\ \A q \in Servers : QueueOK(q)'
      BY <1>1, <2>1, <2>2, ReleaseSlotEffect
    <2>4. TypeOK'
      BY <1>1, <1>4, <2>3 DEF IInv, TypeOK
    <2>5. ScanOK(s)' /\ ServedOK(s)' /\ CallStep(s)
      BY <1>1, <1>2, <1>4, <2>1, <2>3 DEF ScanOK, ServedOK, CallStep, Live, Serving, Me
    <2>6. QED
      BY <2>3, <2>4, <2>5, CallStepIInv
  <1>5. QED
    BY <1>3, <1>4 DEF InvokeThrows

LEMMA InvokeEndsIInv ==
  ASSUME IInv, NEW s \in Scans, InvokeEnds(s) PROVE IInv'
  <1>1. /\ call[s].phase = "invoking" /\ Serving(call[s].by)
        /\ UNCHANGED <<row, server, pid, listed, foreign, tree>>
    BY DEF InvokeEnds, CanStep, servers
  <1>2. ScanOK(s) /\ call[s] \in Call /\ tree \in Trees
    BY DEF IInv, TypeOK
  <1>3. PICK o \in Outcomes, n \in 0 .. MaxChunks, f \in BOOLEAN :
          ReleaseSlot(s, [NewCall EXCEPT !.phase = "recording", !.by = call[s].by,
                            !.outcome = o, !.owed = n, !.full = f, !.saw = tree])
    BY DEF InvokeEnds
  <1> DEFINE c == [NewCall EXCEPT !.phase = "recording", !.by = call[s].by,
                     !.outcome = o, !.owed = n, !.full = f, !.saw = tree]
  <1>4. c \in Call /\ c.phase = "recording" /\ c.by = call[s].by /\ c.outcome = o
    BY <1>2, <1>3, NewCallType DEF Call, Phases, Live
  <1>5. ReleaseSlot(s, c)
    BY <1>3
  <1> HIDE DEF c
  <1>6. /\ call' \in [Scans -> Call] /\ queue' \in [Servers -> Seq(Scans)] /\ call'[s] = c
        /\ \A t \in Scans \ {s} :
             \/ call'[t] = call[t]
             \/ call[t].phase = "queued" /\ call'[t] = [call[t] EXCEPT !.phase = "invoking"]
        /\ \A q \in Servers : QueueOK(q)'
    BY <1>1, <1>4, <1>5, ReleaseSlotEffect
  <1>7. TypeOK'
    BY <1>1, <1>6 DEF IInv, TypeOK
  <1>8. ScanOK(s)' /\ ServedOK(s)' /\ CallStep(s)
    BY <1>1, <1>2, <1>3, <1>4, <1>6 DEF ScanOK, ServedOK, CallStep, Live, Serving, Me
  <1>9. QED
    BY <1>6, <1>7, <1>8, CallStepIInv

-----------------------------------------------------------------------------
LEMMA ExitIInv ==
  ASSUME IInv, NEW p \in Servers, Exit(p) PROVE IInv'
  <1>1. /\ server' = [server EXCEPT ![p] = "down"]
        /\ pid' = [pid EXCEPT ![p] = None]
        /\ listed' = [listed EXCEPT ![p] = {}]
        /\ queue' = [queue EXCEPT ![p] = <<>>]
        /\ UNCHANGED <<row, foreign, tree>>
        /\ server[p] # "down"
    BY DEF Exit
  <1>2. ASSUME NEW s \in Scans
        PROVE  /\ call[s].by = p => /\ call'[s].phase = "lost" /\ call'[s].by = None
                                    /\ call'[s] \in Call
               /\ call[s].by # p => call'[s] = call[s]
    <2> DEFINE c == [NewCall EXCEPT !.phase = "lost"]
    <2>1. c \in Call /\ c.phase = "lost" /\ c.by = None
      BY NewCallType DEF Call, Phases
    <2>2. call'[s] = IF call[s].by = p THEN c ELSE call[s]
      BY DEF Exit
    <2>3. QED
      BY <2>1, <2>2
  <1>3. \A q \in Servers \ {p} : /\ server'[q] = server[q] /\ pid'[q] = pid[q]
                                 /\ listed'[q] = listed[q] /\ queue'[q] = queue[q]
    BY <1>1 DEF IInv, TypeOK
  <1>4. server'[p] = "down" /\ listed'[p] = {} /\ queue'[p] = <<>>
    BY <1>1 DEF IInv, TypeOK
  <1>5. TypeOK'
    <2>1. call' \in [Scans -> Call]
      <3>1. call' = [s \in Scans |-> call'[s]]
        BY DEF Exit
      <3>2. \A s \in Scans : call'[s] \in Call
        BY <1>2 DEF IInv, TypeOK
      <3>3. QED
        BY <3>1, <3>2
    <2>2. queue' \in [Servers -> Seq(Scans)]
      BY <1>1 DEF IInv, TypeOK
    <2>3. QED
      BY <1>1, <2>1, <2>2 DEF IInv, TypeOK
  <1>6. PidsDistinct'
    BY <1>3, <1>4 DEF IInv, PidsDistinct, Me
  <1>7. ASSUME NEW s \in Scans PROVE ScanOK(s)'
    <2>1. ScanOK(s)
      BY DEF IInv
    <2>2. CASE call[s].by = p
      <3>1. call[s].phase \in Live \cup {"threw"}
        BY <2>1, <2>2, NoneAssumption DEF ScanOK
      <3>2. QED
        BY <1>1, <1>2, <2>1, <2>2, <3>1 DEF ScanOK, Live
    <2>3. CASE call[s].by # p
      <3>1. call'[s] = call[s] /\ row' = row
        BY <1>1, <1>2, <2>3
      <3>2. call[s].by \in Servers => (Serving(call[s].by)' <=> Serving(call[s].by))
                                       /\ Me(call[s].by)' = Me(call[s].by)
        BY <1>3, <2>3, <3>1 DEF Serving, Me
      <3>3. QED
        BY <2>1, <3>1, <3>2 DEF ScanOK, Serving, Me
    <2>4. QED
      BY <2>2, <2>3
  <1>8. ASSUME NEW s \in Scans PROVE ServedOK(s)'
    <2>1. SUFFICES ASSUME call'[s].phase = "served"
                   PROVE  LET h == call'[s].from IN
                          /\ h \in Scans
                          /\ row[h].status = "completed" /\ row[h].full
                          /\ row[h].stored = call'[h].owed
      BY <1>1 DEF ServedOK
    <2>2. call'[s] = call[s] /\ ServedOK(s)
      BY <1>2, <2>1 DEF IInv
    <2> DEFINE h == call[s].from
    <2>3. h \in Scans /\ row[h].status = "completed" /\ row[h].full /\ row[h].stored = call[h].owed
      BY <2>1, <2>2 DEF ServedOK
    <2> HIDE DEF h
    <2>4. call[h].by # p
      <3>1. ScanOK(h)
        BY <2>3 DEF IInv
      <3>2. call[h].by = None
        BY <2>3, <3>1 DEF ScanOK, Live
      <3>3. QED
        BY <3>2, NoneAssumption
    <2>5. QED
      BY <1>2, <2>2, <2>3, <2>4 DEF h
  <1>9. ASSUME NEW q \in Servers PROVE QueueOK(q)' /\ ListedOK(q)' /\ OwnOK(q)'
    <2>1. QueueOK(q) /\ ListedOK(q) /\ OwnOK(q)
      BY DEF IInv
    <2>2. CASE q = p
      BY <1>4, <2>2 DEF QueueOK, ListedOK, OwnOK
    <2>3. CASE q # p
      <3>1. QueueOK(q)'
        BY <1>2, <1>3, <2>1, <2>3 DEF QueueOK
      <3>2. ListedOK(q)'
        BY <1>1, <1>3, <2>1, <2>3 DEF ListedOK
      <3>3. ASSUME NEW s \in Scans, server[q] \in {"booting", "up"}, row[s].status = "running",
                   row[s].owner = Me(q), call'[s].by # q
            PROVE  call[s].by # q
        BY <1>2, <2>3, <3>3
      <3>4. OwnOK(q)'
        BY <1>1, <1>3, <2>1, <2>3, <3>3 DEF OwnOK, Me
      <3>5. QED
        BY <3>1, <3>2, <3>4
    <2>4. QED
      BY <2>2, <2>3
  <1>10. QED
    BY <1>5, <1>6, <1>7, <1>8, <1>9 DEF IInv

LEMMA BootIInv ==
  ASSUME IInv, NEW p \in Servers, Boot(p) PROVE IInv'
  <1>1. /\ server[p] = "down"
        /\ server' = [server EXCEPT ![p] = "booting"]
        /\ listed' = [listed EXCEPT ![p] =
             {<<s, row[s].age>> : s \in {t \in Scans : row[t].status = "running"}}]
        /\ UNCHANGED <<row, call, queue, foreign, tree>>
    BY DEF Boot
  <1>2. PICK id \in Pids : ~PidAlive(<<HostOf[p], id>>) /\ pid' = [pid EXCEPT ![p] = id]
    BY DEF Boot
  <1>3. \A q \in Servers \ {p} : /\ server'[q] = server[q] /\ pid'[q] = pid[q]
                                 /\ listed'[q] = listed[q]
    BY <1>1, <1>2 DEF IInv, TypeOK
  <1>4. /\ server'[p] = "booting" /\ pid'[p] = id
        /\ \A s \in Scans : row[s].status = "running" =>
             row[s].age \in 0 .. MaxAge /\ <<s, row[s].age>> \in listed'[p]
        /\ \A s \in Scans, age \in 0 .. MaxAge : <<s, age>> \in listed'[p] =>
             row[s].status = "running" /\ age = row[s].age
    <2>1. listed'[p] = {<<s, row[s].age>> : s \in {t \in Scans : row[t].status = "running"}}
      BY <1>1 DEF IInv, TypeOK
    <2>2. \A s \in Scans : row[s].age \in 0 .. MaxAge
      BY DEF IInv, TypeOK, Row
    <2>3. server'[p] = "booting" /\ pid'[p] = id
      BY <1>1, <1>2 DEF IInv, TypeOK
    <2>4. QED
      BY <2>1, <2>2, <2>3
  <1>5. TypeOK'
    <2>1. listed'[p] \subseteq Scans \X (0 .. MaxAge)
      BY <1>1 DEF IInv, TypeOK, Row
    <2>2. listed' \in [Servers -> SUBSET (Scans \X (0 .. MaxAge))]
      BY <1>1, <2>1 DEF IInv, TypeOK
    <2>3. QED
      BY <1>1, <1>2, <2>2 DEF IInv, TypeOK
  <1>6. PidsDistinct'
    <2>1. \A q \in Servers \ {p} : server[q] # "down" => Me(q) # <<HostOf[p], id>>
      BY <1>2 DEF PidAlive
    <2>2. \A q \in Servers \ {p} : (Me(q)' = Me(q)) /\ Me(p)' = <<HostOf[p], id>>
      BY <1>3, <1>4 DEF Me
    <2>3. ASSUME NEW q \in Servers, server'[q] # "down"
          PROVE  /\ pid'[q] \in Pids
                 /\ \A r \in Servers : server'[r] # "down" /\ (Me(q) = Me(r))' => q = r
      BY <1>2, <1>3, <1>4, <2>1, <2>2, <2>3 DEF IInv, PidsDistinct
    <2>4. QED
      BY <2>3 DEF PidsDistinct
  <1>7. ASSUME NEW s \in Scans PROVE ScanOK(s)' /\ ServedOK(s)'
    <2>1. ScanOK(s) /\ ServedOK(s)
      BY DEF IInv
    <2>2. call[s].by # p \/ call[s].phase \notin Live \cup {"threw"}
      BY <1>1, <2>1 DEF ScanOK, Serving
    <2>3. call[s].by \in Servers /\ call[s].by # p =>
            /\ server'[call[s].by] = server[call[s].by]
            /\ pid'[call[s].by] = pid[call[s].by]
      BY <1>3
    <2>4. QED
      BY <1>1, <2>1, <2>2, <2>3 DEF ScanOK, ServedOK, Serving, Me
  <1>8. ASSUME NEW q \in Servers PROVE QueueOK(q)' /\ ListedOK(q)' /\ OwnOK(q)'
    <2>1. QueueOK(q) /\ ListedOK(q) /\ OwnOK(q)
      BY DEF IInv
    <2>2. QueueOK(q)'
      BY <1>1, <2>1 DEF QueueOK
    <2>3. CASE q = p
      <3>1. \A s \in Scans, age \in 0 .. MaxAge : <<s, age>> \in listed'[p] => age <= row[s].age
        BY <1>4 DEF IInv, TypeOK, Row, MaxAge
      <3>2. ListedOK(q)'
        BY <1>1, <1>4, <2>3, <3>1 DEF ListedOK
      <3>3. OwnOK(q)'
        BY <1>1, <1>4, <2>3 DEF OwnOK
      <3>4. QED
        BY <2>2, <3>2, <3>3
    <2>4. CASE q # p
      BY <1>1, <1>3, <2>1, <2>2, <2>4 DEF ListedOK, OwnOK, Me
    <2>5. QED
      BY <2>3, <2>4
  <1>9. QED
    BY <1>5, <1>6, <1>7, <1>8 DEF IInv

LEMMA JudgeRowIInv ==
  ASSUME IInv, NEW p \in Servers, NEW s \in Scans, JudgeRow(p, s) PROVE IInv'
  <1>1. PICK age \in 0 .. MaxAge :
          /\ listed' = [listed EXCEPT ![p] = @ \ {<<s, age>>}]
          /\ IF ReapReason(p, row[s].owner, age) /\ row[s].status = "running"
             THEN row' = [row EXCEPT ![s].status = "failed"]
             ELSE UNCHANGED row
    BY DEF JudgeRow
  <1>2. server[p] = "booting" /\ UNCHANGED <<call, queue, server, pid, foreign, tree>>
    BY DEF JudgeRow
  <1>3. /\ row' \in [Scans -> Row] /\ \A t \in Scans \ {s} : row'[t] = row[t]
        /\ row'[s].owner = row[s].owner /\ row'[s].age = row[s].age
        /\ row'[s].stored = row[s].stored /\ row'[s].full = row[s].full
        /\ \/ row'[s].status = row[s].status
           \/ row[s].status = "running" /\ row'[s].status = "failed"
        /\ row'[s].status = "running" => ~ReapReason(p, row[s].owner, age)
    <2>1. row[s] \in Row
      BY DEF IInv, TypeOK
    <2>2. CASE ReapReason(p, row[s].owner, age) /\ row[s].status = "running"
      <3> DEFINE r == [row[s] EXCEPT !.status = "failed"]
      <3>1. /\ r \in Row /\ r.status = "failed" /\ r.owner = row[s].owner /\ r.age = row[s].age
            /\ r.stored = row[s].stored /\ r.full = row[s].full
        BY <2>1 DEF Row, Outcomes
      <3>2. row' = [row EXCEPT ![s] = r]
        BY <1>1, <2>2 DEF IInv, TypeOK
      <3> HIDE DEF r
      <3>3. row' \in [Scans -> Row] /\ row'[s] = r /\ \A t \in Scans \ {s} : row'[t] = row[t]
        BY <3>1, <3>2, RowWrite DEF IInv
      <3>4. QED
        BY <2>2, <3>1, <3>3
    <2>3. CASE ~(ReapReason(p, row[s].owner, age) /\ row[s].status = "running")
      BY <1>1, <2>3 DEF IInv, TypeOK
    <2>4. QED
      BY <2>2, <2>3
  <1>4. /\ \A q \in Servers \ {p} : listed'[q] = listed[q]
        /\ listed'[p] = listed[p] \ {<<s, age>>}
        /\ listed' \in [Servers -> SUBSET (Scans \X (0 .. MaxAge))]
    BY <1>1 DEF IInv, TypeOK
  <1>5. TypeOK'
    BY <1>2, <1>3, <1>4 DEF IInv, TypeOK
  <1>6. PidsDistinct'
    BY <1>2 DEF IInv, PidsDistinct, Me
  <1>7. ASSUME NEW t \in Scans PROVE ScanOK(t)'
    <2>1. ScanOK(t)
      BY DEF IInv
    <2>2. QED
      BY <1>2, <1>3, <2>1 DEF ScanOK, Serving, Me, Outcomes
  <1>8. ASSUME NEW t \in Scans PROVE ServedOK(t)'
    <2>1. ServedOK(t)
      BY DEF IInv
    <2>2. QED
      BY <1>2, <1>3, <2>1 DEF ServedOK
  <1>9. ASSUME NEW q \in Servers PROVE QueueOK(q)' /\ ListedOK(q)'
    <2>1. QueueOK(q) /\ ListedOK(q)
      BY DEF IInv
    <2>2. \A t \in Scans, a \in 0 .. MaxAge : <<t, a>> \in listed'[q] => <<t, a>> \in listed[q]
      BY <1>4
    <2>3. QED
      BY <1>2, <1>3, <2>1, <2>2 DEF QueueOK, ListedOK
  <1>10. ASSUME NEW q \in Servers PROVE OwnOK(q)'
    <2>1. SUFFICES ASSUME NEW t \in Scans, server[q] \in {"booting", "up"},
                          row'[t].status = "running", row[t].owner = Me(q), call[t].by # q
                   PROVE  server[q] = "booting" /\ \E a \in 0 .. MaxAge : <<t, a>> \in listed'[q]
      BY <1>2, <1>3 DEF OwnOK, Me
    <2>2. row[t].status = "running"
      BY <1>3, <2>1
    <2>3. server[q] = "booting" /\ \E a \in 0 .. MaxAge : <<t, a>> \in listed[q]
      BY <2>1, <2>2 DEF IInv, OwnOK
    <2>4. ~(q = p /\ t = s)
      <3>1. ~ReapReason(p, row[s].owner, age) => row[s].owner # Me(p)
        BY DEF ReapReason, Me
      <3>2. QED
        BY <1>3, <2>1, <3>1
    <2>5. QED
      BY <1>4, <2>3, <2>4
  <1>11. QED
    BY <1>5, <1>6, <1>7, <1>8, <1>9, <1>10 DEF IInv

LEMMA BootDoneIInv ==
  ASSUME IInv, NEW p \in Servers, BootDone(p) \/ ReaperThrows(p) PROVE IInv'
  <1>1. /\ server[p] = "booting"
        /\ UNCHANGED <<row, call, queue, pid, foreign, tree>>
        /\ \A q \in Servers \ {p} : server'[q] = server[q] /\ listed'[q] = listed[q]
        /\ listed'[p] = {}
        /\ \/ server'[p] = "unreaped"
           \/ server'[p] = "up" /\ listed[p] = {}
    BY DEF BootDone, ReaperThrows, IInv, TypeOK
  <1>2. TypeOK'
    BY DEF BootDone, ReaperThrows, IInv, TypeOK
  <1>3. PidsDistinct'
    BY <1>1 DEF IInv, PidsDistinct, Me
  <1>4. ASSUME NEW s \in Scans PROVE ScanOK(s)' /\ ServedOK(s)'
    <2>1. ScanOK(s) /\ ServedOK(s)
      BY DEF IInv
    <2>2. call[s].by \in Servers => (Serving(call[s].by) => server'[call[s].by] \in {"up", "unreaped"})
      BY <1>1 DEF Serving
    <2>3. QED
      BY <1>1, <2>1, <2>2 DEF ScanOK, ServedOK, Serving, Me
  <1>5. ASSUME NEW q \in Servers PROVE QueueOK(q)' /\ ListedOK(q)' /\ OwnOK(q)'
    <2>1. QueueOK(q) /\ ListedOK(q) /\ OwnOK(q)
      BY DEF IInv
    <2>2. CASE q = p
      BY <1>1, <2>1, <2>2 DEF QueueOK, ListedOK, OwnOK, Me
    <2>3. CASE q # p
      BY <1>1, <2>1, <2>3 DEF QueueOK, ListedOK, OwnOK, Me
    <2>4. QED
      BY <2>2, <2>3
  <1>6. QED
    BY <1>2, <1>3, <1>4, <1>5 DEF IInv

LEMMA TickIInv ==
  ASSUME IInv, Tick PROVE IInv'
  <1>1. UNCHANGED <<call, queue, server, pid, listed, foreign, tree>>
    BY DEF Tick, servers
  <1>2. ASSUME NEW s \in Scans
        PROVE  /\ row'[s] \in Row /\ row'[s].status = row[s].status /\ row'[s].owner = row[s].owner
               /\ row'[s].stored = row[s].stored /\ row'[s].full = row[s].full
               /\ row'[s].age >= row[s].age
    <2>1. row[s] \in Row /\ row'[s] = Older(row[s])
      BY DEF Tick, IInv, TypeOK
    <2>2. AgeCap(row[s].status) \in 0 .. MaxAge
      BY BoundsAssumption DEF AgeCap, MaxAge
    <2>3. CASE row[s].age < AgeCap(row[s].status)
      <3>1. row'[s] = [row[s] EXCEPT !.age = row[s].age + 1]
        BY <2>1, <2>3 DEF Older
      <3>2. row[s].age + 1 \in 0 .. MaxAge
        BY <2>1, <2>2, <2>3, BoundsAssumption DEF Row, MaxAge
      <3>3. QED
        BY <2>1, <3>1, <3>2 DEF Row
    <2>4. CASE ~(row[s].age < AgeCap(row[s].status))
      <3>1. row'[s] = row[s]
        BY <2>1, <2>4 DEF Older
      <3>2. QED
        BY <2>1, <3>1, BoundsAssumption DEF Row, MaxAge
    <2>5. QED
      BY <2>3, <2>4
  <1>3. row' \in [Scans -> Row]
    <2>1. row' = [s \in Scans |-> row'[s]]
      BY DEF Tick
    <2>2. QED
      BY <1>2, <2>1
  <1>4. TypeOK'
    BY <1>1, <1>3 DEF IInv, TypeOK
  <1>5. PidsDistinct'
    BY <1>1 DEF IInv, PidsDistinct, Me
  <1>6. ASSUME NEW s \in Scans PROVE ScanOK(s)' /\ ServedOK(s)'
    <2>1. ScanOK(s) /\ ServedOK(s)
      BY DEF IInv
    <2>2. QED
      BY <1>1, <1>2, <2>1 DEF ScanOK, ServedOK, Serving, Me
  <1>7. ASSUME NEW p \in Servers PROVE QueueOK(p)' /\ OwnOK(p)'
    <2>1. QueueOK(p) /\ OwnOK(p)
      BY DEF IInv
    <2>2. QED
      BY <1>1, <1>2, <2>1 DEF QueueOK, OwnOK, Me
  <1>8. ASSUME NEW p \in Servers PROVE ListedOK(p)'
    <2>1. ListedOK(p)
      BY DEF IInv
    <2>2. ASSUME NEW s \in Scans, NEW age \in 0 .. MaxAge, age <= row[s].age
          PROVE  age <= row'[s].age
      <3>1. row[s].age \in Nat /\ row'[s].age \in Nat /\ age \in Nat
        BY <1>2, BoundsAssumption DEF IInv, TypeOK, Row, MaxAge
      <3>2. QED
        BY <1>2, <2>2, <3>1
    <2>3. QED
      BY <1>1, <1>2, <2>1, <2>2 DEF ListedOK
  <1>9. QED
    BY <1>4, <1>5, <1>6, <1>7, <1>8 DEF IInv

\* Nothing the invariant speaks of changes when a program that is no server
\* comes or goes, or the tree is edited.
LEMMA ElsewhereIInv ==
  ASSUME IInv, TypeOK', UNCHANGED <<row, call, queue, server, pid, listed>> PROVE IInv'
  BY DEF IInv, PidsDistinct, ScanOK, ServedOK, QueueOK, ListedOK, OwnOK, Serving, Me

LEMMA InitIInv == Init => IInv
  <1> SUFFICES ASSUME Init PROVE IInv
    OBVIOUS
  <1>1. TypeOK
    <2>1. row \in [Scans -> Row] /\ call \in [Scans -> Call]
      BY NewCallType, NoRowType DEF Init
    <2>2. QED
      BY <2>1 DEF Init, TypeOK
  <1>2. PidsDistinct
    BY DEF Init, PidsDistinct
  <1>3. ASSUME NEW s \in Scans PROVE ScanOK(s) /\ ServedOK(s)
    <2>1. call[s] = NewCall /\ row[s] = NoRow
      BY DEF Init
    <2>2. NoRow.status = "absent"
      BY DEF NoRow
    <2>3. QED
      BY <2>1, <2>2, NewCallType DEF ScanOK, ServedOK, Live
  <1>4. ASSUME NEW p \in Servers PROVE QueueOK(p) /\ ListedOK(p) /\ OwnOK(p)
    BY DEF Init, QueueOK, ListedOK, OwnOK
  <1>5. QED
    BY <1>1, <1>2, <1>3, <1>4 DEF IInv

LEMMA NextIInv == IInv /\ [Next]_vars => IInv'
  <1> SUFFICES ASSUME IInv, [Next]_vars PROVE IInv'
    OBVIOUS
  <1>1. ASSUME NEW p \in Servers, NEW s \in Scans,
               ServeFromCache(p, s) \/ StartScan(p, s) \/ JudgeRow(p, s)
        PROVE  IInv'
    BY <1>1, ServeFromCacheIInv, StartScanIInv, JudgeRowIInv
  <1>2. ASSUME NEW s \in Scans, AbortQueued(s) \/ AbortInvoking(s) \/ ScanStep(s) PROVE IInv'
    BY <1>2, AbortQueuedIInv, AbortInvokingIInv, LeaveIInv, InvokeThrowsIInv, InvokeEndsIInv,
       RecordChunkIInv, FinalizeIInv, WriteThrowsIInv DEF ScanStep
  <1>3. ASSUME NEW p \in Servers, Exit(p) \/ Boot(p) \/ BootDone(p) \/ ReaperThrows(p) PROVE IInv'
    BY <1>3, ExitIInv, BootIInv, BootDoneIInv
  <1>4. ASSUME NEW id \in Hosts \X Pids, ForeignTakes(id) \/ ForeignLeaves(id) PROVE IInv'
    <2>1. TypeOK'
      BY <1>4 DEF ForeignTakes, ForeignLeaves, servers, IInv, TypeOK
    <2>2. QED
      BY <1>4, <2>1, ElsewhereIInv DEF ForeignTakes, ForeignLeaves, servers
  <1>5. CASE Edit
    <2>1. TypeOK'
      BY <1>5 DEF Edit, servers, IInv, TypeOK
    <2>2. QED
      BY <1>5, <2>1, ElsewhereIInv DEF Edit, servers
  <1>6. CASE UNCHANGED vars
    <2>1. TypeOK'
      BY <1>6 DEF vars, servers, IInv, TypeOK
    <2>2. QED
      BY <1>6, <2>1, ElsewhereIInv DEF vars, servers
  <1>7. QED
    BY <1>1, <1>2, <1>3, <1>4, <1>5, <1>6, TickIInv DEF Next

\* For any number of servers, hosts, pids and scans, every reachable state of
\* the scan rows, calls, queues and reapers (scansRepo, scanToolFactory) has
\* the inductive invariant.
THEOREM Invariance == Spec => []IInv
  BY InitIInv, NextIInv, PTL DEF Spec

\* Types of every reachable state of the rows, calls, queues and servers
\* (scansRepo, scanToolFactory, scanLimiter).
THEOREM TypeCorrect == Spec => []TypeOK
  <1>1. IInv => TypeOK
    BY DEF IInv
  <1>2. QED
    BY Invariance, <1>1, PTL

\* A row that says completed holds every chunk its scanners produced:
\* bulkInsert comes before finalize, in every order of crashes and reapers.
THEOREM CompletedWhole == Spec => []CompletedIsWhole
  <1>1. IInv => CompletedIsWhole
    BY DEF IInv, ScanOK, CompletedIsWhole
  <1>2. QED
    BY Invariance, <1>1, PTL

\* A call is answered from the cache only with such a row, all of whose
\* scanners ran, and the row stays so (findCacheHit, reapOne).
THEOREM CachedIsWhole == Spec => []CacheServesWhole
  <1>1. IInv => CacheServesWhole
    BY DEF IInv, ServedOK, CacheServesWhole
  <1>2. QED
    BY Invariance, <1>1, PTL

\* Once a start-up has reaped (reapRunning), a running row under the server's
\* own host and pid is of one of its own calls.
THEOREM OwnRows == Spec => []OwnRowsAreOwn
  <1>1. IInv => OwnRowsAreOwn
    BY DEF IInv, OwnOK, OwnRowsAreOwn
  <1>2. QED
    BY Invariance, <1>1, PTL

-----------------------------------------------------------------------------
\* Where the status of a row comes from: its own call's steps, or a reaper
\* that finds it still running.
LEMMA StatusStep ==
  ASSUME IInv, [Next]_vars, NEW s \in Scans, row'[s].status # row[s].status
  PROVE  \/ row[s].status = "absent" \/ Leave(s) \/ InvokeThrows(s) \/ Finalize(s)
         \/ row[s].status = "running" /\ \E p \in Servers : JudgeRow(p, s)
  <1>0. row \in [Scans -> Row] /\ row[s] \in Row
    BY DEF IInv, TypeOK
  <1>1. ASSUME NEW p \in Servers, NEW t \in Scans, StartScan(p, t)
        PROVE  row[s].status = "absent"
    <2>1. t = s
      BY <1>0, <1>1 DEF StartScan
    <2>2. QED
      BY <1>1, <2>1 DEF StartScan, IInv, ScanOK
  <1>2. ASSUME NEW p \in Servers, NEW t \in Scans, JudgeRow(p, t)
        PROVE  row[s].status = "running" /\ JudgeRow(p, s)
    <2>1. row[t].status = "running" /\ row' = [row EXCEPT ![t].status = "failed"]
      BY <1>2 DEF JudgeRow
    <2>2. t = s
      BY <1>0, <2>1
    <2>3. QED
      BY <1>2, <2>1, <2>2
  <1>3. ASSUME NEW t \in Scans, Leave(t) \/ InvokeThrows(t) \/ Finalize(t)
        PROVE  t = s
    <2>1. row' = row \/ \E st, f : row' = [row EXCEPT ![t].status = st, ![t].full = f]
      BY <1>3 DEF Leave, InvokeThrows, Finalize, SetStatus
    <2>2. QED
      BY <1>0, <2>1
  <1>4. ASSUME NEW t \in Scans PROVE ~RecordChunk(t)
    <2>1. SUFFICES ASSUME row' = [row EXCEPT ![t].stored = @ + 1] PROVE FALSE
      BY DEF RecordChunk
    <2>2. row'[s].status = row[s].status
      BY <1>0, <2>1 DEF Row
    <2>3. QED
      BY <2>2
  <1>5. ~Tick
    <2>1. SUFFICES ASSUME row'[s] = Older(row[s]) PROVE FALSE
      BY DEF Tick
    <2>2. row'[s].status = row[s].status
      BY <1>0, <2>1 DEF Older, Row
    <2>3. QED
      BY <2>2
  <1>6. row' # row
    OBVIOUS
  <1>7. QED
    BY <1>1, <1>2, <1>3, <1>4, <1>5, <1>6 DEF Next, ScanStep, ServeFromCache, AbortQueued,
       AbortInvoking, InvokeEnds, WriteThrows, Exit, Boot, BootDone, ReaperThrows,
       ForeignTakes, ForeignLeaves, Edit, vars

\* "A finished scan is never overwritten" (scansRepo.ts, reapOne).
THEOREM FinishedIsFinal == Spec => FinishedStays
  <1> DEFINE Stays == \A s \in Scans : row[s].status \in {"completed", "cancelled"} =>
                        row'[s].status = row[s].status
  <1>1. IInv /\ [Next]_vars => [Stays]_vars
    <2> SUFFICES ASSUME IInv, [Next]_vars, NEW s \in Scans,
                        row[s].status \in {"completed", "cancelled"},
                        row'[s].status # row[s].status
                 PROVE  FALSE
      OBVIOUS
    <2>1. call[s].phase = "over"
      BY DEF IInv, ScanOK
    <2>2. Leave(s) \/ InvokeThrows(s) \/ Finalize(s)
      BY StatusStep
    <2>3. QED
      BY <2>1, <2>2 DEF Leave, InvokeThrows, Finalize, CanStep
  <1>2. QED
    BY Invariance, <1>1, PTL DEF Spec, FinishedStays

\* A reaper that judges by host, pid and age fails a row whose call is alive
\* only past the age at which it gives every row up.
THEOREM LivingAreSpared == Spec => ReaperSparesTheLiving
  <1> DEFINE Old(s) == \E p \in Servers :
                /\ server[p] = "booting"
                /\ row[s].age > (IF HostOf[p] = HostOf[call[s].by]
                                 THEN LiveReapAfter ELSE UnknownReapAfter)
             Spares == \A s \in Scans :
               /\ row[s].status = "running" /\ row'[s].status = "failed"
               /\ call[s].phase \in Live /\ call'[s] = call[s]
               => Old(s)
  <1>1. IInv /\ [Next]_vars => [Spares]_vars
    <2> SUFFICES ASSUME IInv, [Next]_vars, NEW s \in Scans,
                        row[s].status = "running", row'[s].status = "failed",
                        call[s].phase \in Live, call'[s] = call[s]
                 PROVE  Old(s)
      OBVIOUS
    <2> DEFINE q == call[s].by
    <2>1. ~Leave(s) /\ ~InvokeThrows(s) /\ ~Finalize(s)
      <3>1. call \in [Scans -> Call] /\ call[s] \in Call
        BY DEF IInv, TypeOK
      <3>2. ASSUME Leave(s) \/ Finalize(s) PROVE call'[s].phase = "over" /\ call[s].phase # "over"
        <4>1. call[s].phase # "over"
          BY <3>2 DEF Leave, Finalize, CanStep
        <4>2. PICK c : c.phase = "over" /\ call' = [call EXCEPT ![s] = c]
          BY <3>2, NewCallType DEF Leave, Finalize, Call
        <4>3. QED
          BY <3>1, <4>1, <4>2
      <3>3. ASSUME InvokeThrows(s) PROVE call'[s].phase # "invoking" /\ call[s].phase = "invoking"
        <4>1. call[s].phase = "invoking"
          BY <3>3 DEF InvokeThrows, CanStep
        <4>2. PICK c \in Call : c.phase \in {"over", "threw"} /\ ReleaseSlot(s, c)
          BY <3>1, <3>3, NewCallType DEF InvokeThrows, Call, Phases
        <4>3. QED
          BY <4>1, <4>2, ReleaseSlotEffect
      <3>4. QED
        BY <3>2, <3>3
    <2>2. PICK p \in Servers : JudgeRow(p, s)
      BY <2>1, StatusStep
    <2>3. PICK age \in 0 .. MaxAge : <<s, age>> \in listed[p] /\ ReapReason(p, row[s].owner, age)
      BY <2>2 DEF JudgeRow
    <2>4. server[p] = "booting"
      BY <2>2 DEF JudgeRow
    <2>5. age <= row[s].age /\ age \in Nat /\ row[s].age \in Nat
      BY <2>3, BoundsAssumption DEF IInv, ListedOK, TypeOK, Row, MaxAge
    <2>6. q \in Servers /\ Serving(q) /\ row[s].owner = Me(q)
      BY DEF IInv, ScanOK
    <2> HIDE DEF q
    <2>7. p # q /\ Me(p) # Me(q)
      BY <2>4, <2>6 DEF IInv, PidsDistinct, Serving
    <2>8. PidAlive(Me(q))
      BY <2>6 DEF PidAlive, Serving
    <2>9. age > (IF HostOf[p] = HostOf[q] THEN LiveReapAfter ELSE UnknownReapAfter)
      BY <2>3, <2>6, <2>7, <2>8 DEF ReapReason, Me
    <2>10. QED
      BY <2>4, <2>5, <2>9, BoundsAssumption DEF q
  <1>2. QED
    BY Invariance, <1>1, PTL DEF Spec, ReaperSparesTheLiving

-----------------------------------------------------------------------------
\* The slots of one server, by count.
SlotsOK(p) ==
  /\ Cardinality(Holding(p)) <= Limit
  /\ queue[p] # <<>> => Cardinality(Holding(p)) = Limit

LEMMA HoldingFinite == \A p : IsFiniteSet(Holding(p)) /\ Cardinality(Holding(p)) \in Nat
  BY ScansAssumption, FS_Subset, FS_CardinalityType DEF Holding

\* Slots stay as they are when only a call without a slot moves on.
LEMMA SameSlots ==
  ASSUME NEW p \in Servers, SlotsOK(p), Holding(p)' = Holding(p),
         queue'[p] # <<>> => queue[p] # <<>>
  PROVE  SlotsOK(p)'
  BY DEF SlotsOK

LEMMA StartScanSlots ==
  ASSUME IInv, \A p \in Servers : SlotsOK(p),
         NEW p \in Servers, NEW s \in Scans, StartScan(p, s), NEW q \in Servers
  PROVE  SlotsOK(q)'
  <1>1. PICK phase \in {"leaving", "invoking", "queued", "threw"} :
          /\ phase = "invoking" => Cardinality(Holding(p)) < Limit
          /\ phase = "queued" => ~(Cardinality(Holding(p)) < Limit)
          /\ call' = [call EXCEPT ![s] = [NewCall EXCEPT !.phase = phase, !.by = p,
                                                         !.aborted = (phase = "leaving")]]
          /\ queue' = IF phase = "queued" THEN [queue EXCEPT ![p] = Append(@, s)] ELSE queue
    BY DEF StartScan
  <1>2. call[s].phase = "new" /\ call[s] \in Call /\ SlotsOK(q) /\ queue \in [Servers -> Seq(Scans)]
    BY DEF StartScan, IInv, TypeOK
  <1>3. call'[s].phase = phase /\ call'[s].by = p /\ \A t \in Scans \ {s} : call'[t] = call[t]
    <2> DEFINE c == [NewCall EXCEPT !.phase = phase, !.by = p, !.aborted = (phase = "leaving")]
    <2>1. c \in Call /\ c.phase = phase /\ c.by = p
      BY <1>1, NewCallType DEF Call, Phases, Live
    <2>2. call' = [call EXCEPT ![s] = c]
      BY <1>1
    <2>3. QED
      BY <2>1, <2>2, CallWrite DEF IInv
  <1>4. CASE q # p \/ phase \in {"leaving", "threw"}
    <2>1. Holding(q)' = Holding(q)
      BY <1>2, <1>3, <1>4 DEF Holding
    <2>2. queue'[q] = queue[q]
      BY <1>1, <1>2, <1>4
    <2>3. QED
      BY <1>2, <2>1, <2>2, SameSlots
  <1>5. CASE q = p /\ phase = "invoking"
    <2>1. Holding(p)' = Holding(p) \cup {s} /\ s \notin Holding(p)
      BY <1>2, <1>3, <1>5 DEF Holding
    <2>2. Cardinality(Holding(p)') = Cardinality(Holding(p)) + 1
      BY <2>1, HoldingFinite, FS_AddElement
    <2>3. queue'[p] = queue[p] /\ queue[p] = <<>>
      BY <1>1, <1>2, <1>5, LimitAssumption, HoldingFinite DEF SlotsOK
    <2>4. QED
      BY <1>1, <1>5, <2>2, <2>3, LimitAssumption, HoldingFinite DEF SlotsOK
  <1>6. CASE q = p /\ phase = "queued"
    <2>1. Holding(p)' = Holding(p)
      BY <1>2, <1>3, <1>6 DEF Holding
    <2>2. Cardinality(Holding(p)) = Limit
      BY <1>1, <1>2, <1>6, LimitAssumption, HoldingFinite DEF SlotsOK
    <2>3. QED
      BY <1>6, <2>1, <2>2, LimitAssumption DEF SlotsOK
  <1>7. QED
    BY <1>1, <1>4, <1>5, <1>6

LEMMA ReleaseSlotSlots ==
  ASSUME IInv, \A p \in Servers : SlotsOK(p),
         NEW s \in Scans, call[s].phase = "invoking",
         NEW next \in Call, next.phase # "invoking", ReleaseSlot(s, next),
         NEW q \in Servers
  PROVE  SlotsOK(q)'
  <1>0. call[s].by \in Servers
    BY DEF IInv, ScanOK, Live
  <1> PICK p \in Servers : p = call[s].by
    BY <1>0
  <1>1. QueueOK(p) /\ queue \in [Servers -> Seq(Scans)] /\ call \in [Scans -> Call]
        /\ queue[p] \in Seq(Scans) /\ SlotsOK(q)
    BY DEF IInv, TypeOK
  <1>2. s \in Holding(p)
    BY DEF Holding
  <1>3. CASE queue[p] = <<>>
    <2>1. call' = [call EXCEPT ![s] = next] /\ queue' = queue
      BY <1>3 DEF ReleaseSlot
    <2>2. call'[s].phase # "invoking" /\ \A t \in Scans \ {s} : call'[t] = call[t]
      BY <2>1, <1>1
    <2>3. CASE q = p
      <3>1. Holding(p)' = Holding(p) \ {s}
        BY <2>2 DEF Holding
      <3>2. Cardinality(Holding(p)') = Cardinality(Holding(p)) - 1
        BY <1>2, <3>1, HoldingFinite, FS_RemoveElement
      <3>3. QED
        BY <1>1, <1>3, <2>1, <2>3, <3>2, HoldingFinite, LimitAssumption DEF SlotsOK
    <2>4. CASE q # p
      <3>1. Holding(q)' = Holding(q)
        BY <2>2, <2>4 DEF Holding
      <3>2. QED
        BY <1>1, <2>1, <3>1, SameSlots
    <2>5. QED
      BY <2>3, <2>4
  <1>4. CASE queue[p] # <<>>
    <2> DEFINE h == Head(queue[p])
    <2>1. /\ call' = [call EXCEPT ![s] = next, ![h].phase = "invoking"]
          /\ queue' = [queue EXCEPT ![p] = Tail(@)]
      BY <1>4 DEF ReleaseSlot
    <2>2. h \in Scans /\ call[h].phase = "queued" /\ call[h].by = p
      <3>1. 1 \in DOMAIN queue[p] /\ h = queue[p][1]
        BY <1>1, <1>4
      <3>2. QED
        BY <1>1, <3>1 DEF QueueOK
    <2> HIDE DEF h
    <2>3. h # s /\ h \notin Holding(p)
      BY <2>2 DEF Holding
    <2>4. /\ call'[s].phase # "invoking" /\ call'[h].phase = "invoking" /\ call'[h].by = p
          /\ \A t \in Scans \ {s, h} : call'[t] = call[t]
      <3>1. call[h] \in Call
        BY <1>1, <2>2
      <3>2. call'[h] = [call[h] EXCEPT !.phase = "invoking"]
        BY <1>1, <2>1, <2>2, <2>3
      <3>3. call'[h].phase = "invoking" /\ call'[h].by = call[h].by
        BY <3>1, <3>2 DEF Call
      <3>4. QED
        BY <1>1, <2>1, <2>2, <2>3, <3>3
    <2>5. CASE q = p
      <3>1. Holding(p)' = (Holding(p) \ {s}) \cup {h}
        BY <2>2, <2>3, <2>4 DEF Holding
      <3>2. /\ IsFiniteSet(Holding(p) \ {s})
            /\ Cardinality(Holding(p) \ {s}) = Cardinality(Holding(p)) - 1
        BY <1>2, HoldingFinite, FS_RemoveElement
      <3>3. Cardinality((Holding(p) \ {s}) \cup {h}) = Cardinality(Holding(p) \ {s}) + 1
        BY <2>3, <3>2, FS_AddElement
      <3>4. Cardinality(Holding(p)') = Cardinality(Holding(p))
        BY <3>1, <3>2, <3>3, HoldingFinite
      <3>5. QED
        BY <1>1, <1>4, <2>5, <3>4 DEF SlotsOK
    <2>6. CASE q # p
      <3>1. Holding(q)' = Holding(q)
        BY <2>2, <2>4, <2>6 DEF Holding
      <3>2. queue'[q] = queue[q]
        BY <1>1, <2>1, <2>6
      <3>3. QED
        BY <1>1, <3>1, <3>2, SameSlots
    <2>7. QED
      BY <2>5, <2>6
  <1>5. QED
    BY <1>3, <1>4

LEMMA CallSlots ==
  ASSUME IInv, \A p \in Servers : SlotsOK(p),
         NEW s \in Scans, AbortQueued(s) \/ AbortInvoking(s) \/ ScanStep(s), NEW q \in Servers
  PROVE  SlotsOK(q)'
  <1>1. SlotsOK(q) /\ call \in [Scans -> Call] /\ call[s] \in Call /\ queue \in [Servers -> Seq(Scans)]
    BY DEF IInv, TypeOK
  <1>0. call[s].by \in Servers \cup {None}
    BY <1>1 DEF Call
  <1>2. CASE AbortQueued(s)
    <2>1. /\ call[s].phase = "queued"
          /\ call' = [call EXCEPT ![s].phase = "leaving", ![s].aborted = TRUE]
      BY <1>2 DEF AbortQueued, CanStep
    <2>2. call'[s].phase # "invoking" /\ \A t \in Scans \ {s} : call'[t] = call[t]
      BY <1>1, <2>1 DEF Call
    <2>3. Holding(q)' = Holding(q)
      BY <2>1, <2>2 DEF Holding
    <2>4. queue'[q] # <<>> => queue[q] # <<>>
      BY <1>1, <1>2 DEF AbortQueued
    <2>5. QED
      BY <1>1, <2>3, <2>4, SameSlots
  <1>3. CASE AbortInvoking(s)
    <2>1. call' = [call EXCEPT ![s].aborted = TRUE] /\ queue' = queue
      BY <1>3 DEF AbortInvoking
    <2>2. /\ call'[s].phase = call[s].phase /\ call'[s].by = call[s].by
          /\ \A t \in Scans \ {s} : call'[t] = call[t]
      BY <1>1, <2>1 DEF Call
    <2>3. Holding(q)' = Holding(q)
      BY <2>2 DEF Holding
    <2>4. QED
      BY <1>1, <2>1, <2>3, SameSlots
  <1>4. CASE Leave(s) \/ RecordChunk(s) \/ Finalize(s) \/ WriteThrows(s)
    <2>1. call[s].phase # "invoking" /\ queue' = queue
      BY <1>4 DEF Leave, RecordChunk, Finalize, WriteThrows, CanStep
    <2>2. \/ call' = call
          \/ \E c \in Call : c.phase # "invoking" /\ call' = [call EXCEPT ![s] = c]
      <3>1. CASE Leave(s)
        BY <3>1, NewCallType DEF Leave, Call, Phases
      <3>2. CASE RecordChunk(s)
        BY <3>2 DEF RecordChunk
      <3>3. CASE Finalize(s)
        BY <1>1, <3>3, NewCallType DEF Finalize, Call, Phases
      <3>4. CASE WriteThrows(s)
        BY <1>0, <3>4, NewCallType DEF WriteThrows, Call, Phases
      <3>5. QED
        BY <1>4, <3>1, <3>2, <3>3, <3>4
    <2>3. Holding(q)' = Holding(q)
      BY <1>1, <2>1, <2>2 DEF Holding
    <2>4. QED
      BY <1>1, <2>1, <2>3, SameSlots
  <1>5. CASE InvokeThrows(s) \/ InvokeEnds(s)
    <2>1. call[s].phase = "invoking"
      BY <1>5 DEF InvokeThrows, InvokeEnds, CanStep
    <2>2. CASE InvokeThrows(s)
      <3>1. PICK c \in Call : c.phase # "invoking" /\ ReleaseSlot(s, c)
        <4> DEFINE failed == [NewCall EXCEPT !.phase = "over"]
                   threw == [NewCall EXCEPT !.phase = "threw", !.by = call[s].by]
        <4>1. failed \in Call /\ failed.phase = "over" /\ threw \in Call /\ threw.phase = "threw"
          BY <1>0, NewCallType DEF Call, Phases
        <4>2. ReleaseSlot(s, failed) \/ ReleaseSlot(s, threw)
          BY <2>2 DEF InvokeThrows
        <4> HIDE DEF failed, threw
        <4>3. QED
          BY <4>1, <4>2
      <3>2. QED
        BY <2>1, <3>1, ReleaseSlotSlots
    <2>3. CASE InvokeEnds(s)
      <3>1. PICK o \in Outcomes, n \in 0 .. MaxChunks, f \in BOOLEAN :
              ReleaseSlot(s, [NewCall EXCEPT !.phase = "recording", !.by = call[s].by,
                                !.outcome = o, !.owed = n, !.full = f, !.saw = tree])
        BY <2>3 DEF InvokeEnds
      <3> DEFINE c == [NewCall EXCEPT !.phase = "recording", !.by = call[s].by,
                         !.outcome = o, !.owed = n, !.full = f, !.saw = tree]
      <3>2. tree \in Trees
        BY DEF IInv, TypeOK
      <3>3. c \in Call /\ c.phase # "invoking"
        BY <1>0, <3>1, <3>2, NewCallType DEF Call, Phases, Live
      <3>4. ReleaseSlot(s, c)
        BY <3>1
      <3> HIDE DEF c
      <3>5. QED
        BY <2>1, <3>3, <3>4, ReleaseSlotSlots
    <2>4. QED
      BY <1>5, <2>2, <2>3
  <1>6. QED
    BY <1>2, <1>3, <1>4, <1>5 DEF ScanStep

LEMMA ExitSlots ==
  ASSUME IInv, \A p \in Servers : SlotsOK(p), NEW p \in Servers, Exit(p), NEW q \in Servers
  PROVE  SlotsOK(q)'
  <1>1. /\ queue' = [queue EXCEPT ![p] = <<>>] /\ queue \in [Servers -> Seq(Scans)] /\ SlotsOK(q)
        /\ call' = [s \in Scans |-> IF call[s].by = p THEN [NewCall EXCEPT !.phase = "lost"]
                                                      ELSE call[s]]
    BY DEF Exit, IInv, TypeOK
  <1>2. [NewCall EXCEPT !.phase = "lost"].phase = "lost"
    BY NewCallType DEF Call
  <1>3. CASE q = p
    <2>1. Holding(p)' = {}
      BY <1>1, <1>2 DEF Holding
    <2>2. Cardinality(Holding(p)') = 0
      BY <2>1, FS_EmptySet
    <2>3. QED
      BY <1>1, <1>3, <2>2, LimitAssumption DEF SlotsOK
  <1>4. CASE q # p
    <2>1. Holding(q)' = Holding(q)
      <3>1. ASSUME NEW s \in Scans
            PROVE  (call'[s].by = q /\ call'[s].phase = "invoking")
                     <=> (call[s].by = q /\ call[s].phase = "invoking")
        BY <1>1, <1>2, <1>4
      <3>2. QED
        BY <3>1 DEF Holding
    <2>2. QED
      BY <1>1, <1>4, <2>1, SameSlots
  <1>5. QED
    BY <1>3, <1>4

\* The slots of a server are never exceeded, and no call waits while one is
\* free, whatever is cancelled, throws, dies or is handed over.
THEOREM SlotsHold == Spec => [](WithinLimit /\ NoIdleSlot)
  <1> DEFINE Slots == \A p \in Servers : SlotsOK(p)
  <1>1. Init => Slots
    <2> SUFFICES ASSUME Init, NEW p \in Servers PROVE SlotsOK(p)
      OBVIOUS
    <2>1. Holding(p) = {}
      BY DEF Init, Holding, NewCall
    <2>2. Cardinality({}) = 0
      BY FS_EmptySet
    <2>3. QED
      BY <2>1, <2>2, LimitAssumption DEF Init, SlotsOK
  <1>2. IInv /\ Slots /\ [Next]_vars => Slots'
    <2> SUFFICES ASSUME IInv, Slots, [Next]_vars, NEW q \in Servers PROVE SlotsOK(q)'
      OBVIOUS
    <2>1. CASE UNCHANGED <<call, queue>>
      BY <2>1 DEF SlotsOK, Holding
    <2>2. ASSUME NEW p \in Servers, NEW s \in Scans, ServeFromCache(p, s) PROVE SlotsOK(q)'
      <3>1. PICK c \in Call : c.phase = "served" /\ call' = [call EXCEPT ![s] = c]
        BY <2>2, NewCallType DEF ServeFromCache, Call, Phases
      <3>2. call[s].phase = "new" /\ queue' = queue /\ call \in [Scans -> Call]
        BY <2>2 DEF ServeFromCache, IInv, TypeOK
      <3>3. Holding(q)' = Holding(q)
        BY <3>1, <3>2 DEF Holding
      <3>4. QED
        BY <3>2, <3>3, SameSlots
    <2>3. QED
      BY <2>1, <2>2, StartScanSlots, CallSlots, ExitSlots
         DEF Next, JudgeRow, Boot, BootDone, ReaperThrows, ForeignTakes, ForeignLeaves,
             Tick, Edit, vars
  <1>3. Slots => WithinLimit /\ NoIdleSlot
    BY DEF SlotsOK, WithinLimit, NoIdleSlot
  <1> HIDE DEF Slots
  <1>4. QED
    BY InitIInv, NextIInv, <1>1, <1>2, <1>3, PTL DEF Spec
=============================================================================
