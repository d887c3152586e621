---------------------------- MODULE ScanLifecycle ----------------------------
(***************************************************************************)
(* The life of a scan row.  Several MCP servers, on one or more hosts,     *)
(* share one SQLite database.  A server answers a scan call from the cache *)
(* or inserts a `running` row, waits for a scanner slot, runs its          *)
(* scanners, stores the findings chunk by chunk while the row still says   *)
(* `running`, and finalizes the row (tools/scanToolFactory.ts,             *)
(* storage/scansRepo.ts, storage/findingsRepo.ts).  A server may die at    *)
(* any moment; the next server to start reaps the rows of dead owners,     *)
(* which it can only recognise by host name, pid and age.                  *)
(*                                                                         *)
(* One action is one stretch of code that no other server can interleave   *)
(* with: a statement or a transaction.  Within a server the event loop     *)
(* runs the stretches of one synchronous block without a gap (Free).       *)
(***************************************************************************)
EXTENDS Naturals, FiniteSets, SequencesExt

CONSTANTS
  Servers,            \* server processes (slots: each may die and start again)
  HostOf,             \* the host each server slot runs on
  Pids,               \* process ids
  Scans,              \* scan calls; the id of the call is the id of its row
  Trees,              \* contents the project's working tree can have
  Limit,              \* scanner slots of one server
  MaxChunks,          \* bound: chunks of findings one scan stores
  FreshFor,           \* age up to which a completed scan is served again
  UnknownReapAfter,   \* age past which a row of an unknown owner is reaped
  LiveReapAfter       \* age past which a row of a live pid is reaped

ASSUME LimitAssumption == Limit \in Nat \ {0}
ASSUME ScansAssumption == IsFiniteSet(Scans)
ASSUME HostOfAssumption == DOMAIN HostOf = Servers
ASSUME BoundsAssumption ==
  /\ MaxChunks \in Nat
  /\ FreshFor \in Nat
  /\ UnknownReapAfter \in Nat
  /\ LiveReapAfter \in Nat
  /\ FreshFor < UnknownReapAfter
  /\ UnknownReapAfter < LiveReapAfter

VARIABLES
  row,       \* the scans table, and how many chunks of findings are stored
  call,      \* each call, in the memory of its server
  queue,     \* the limiter's queue, per server
  server,    \* the state of each server process
  pid,       \* its process id
  listed,    \* the running rows its reaper has yet to judge, with their age
  foreign,   \* pids in use by programs that are no server
  tree       \* the project's working tree

servers == <<server, pid, listed>>
vars == <<row, call, queue, server, pid, listed, foreign, tree>>

Hosts == {HostOf[p] : p \in Servers}

\* Not the pid, owner, server, scan, outcome or tree of anyone.
None == "none"

ASSUME NoneAssumption ==
  None \notin Servers /\ None \notin Pids /\ None \notin Trees /\ None \notin Scans

\* Ages saturate one past the largest threshold.
MaxAge == LiveReapAfter + 1

Outcomes == {"completed", "failed", "cancelled"}

\* `full`: every scanner ran, by the row's own bookkeeping (computeCoverage).
Row == [status : {"absent", "running"} \cup Outcomes,
        owner : (Hosts \X Pids) \cup {None},
        age : 0 .. MaxAge,
        key : Trees \cup {None},
        stored : 0 .. MaxChunks,
        full : BOOLEAN]

NoRow == [status |-> "absent", owner |-> None, age |-> 0, key |-> None,
          stored |-> 0, full |-> FALSE]

\* A call is running in its server ...
Live == {"leaving", "queued", "invoking", "recording"}

\* ... or not: it ended; it ended in an error its row does not show; its
\* server died under it; it was answered from the cache.
Phases == {"new", "over", "threw", "lost", "served"} \cup Live

\* `owed`, `outcome`, `full` and `saw` are what its scanners ended with: the
\* chunks of findings to store, their outcome, whether all ran, the tree they
\* read.  `from` is the scan that answered a call served from the cache.
Call == [phase : Phases, by : Servers \cup {None}, aborted : BOOLEAN,
         owed : 0 .. MaxChunks, outcome : Outcomes \cup {None}, full : BOOLEAN,
         saw : Trees \cup {None}, from : Scans \cup {None}]

NewCall == [phase |-> "new", by |-> None, aborted |-> FALSE, owed |-> 0,
            outcome |-> None, full |-> FALSE, saw |-> None, from |-> None]

TypeOK ==
  /\ row \in [Scans -> Row]
  /\ call \in [Scans -> Call]
  /\ queue \in [Servers -> Seq(Scans)]
  /\ server \in [Servers -> {"down", "booting", "up", "unreaped"}]
  /\ pid \in [Servers -> Pids \cup {None}]
  /\ listed \in [Servers -> SUBSET (Scans \X (0 .. MaxAge))]
  /\ foreign \subseteq Hosts \X Pids
  /\ tree \in Trees

-----------------------------------------------------------------------------
\* A server that answers tool calls, whether or not its reaper threw.
Serving(p) == server[p] \in {"up", "unreaped"}

Me(p) == <<HostOf[p], pid[p]>>

\* process.kill(pid, 0) on that host finds a process.
PidAlive(id) ==
  \/ id \in foreign
  \/ \E p \in Servers : server[p] # "down" /\ Me(p) = id

\* The scans of server p that hold one of its slots.
Holding(p) == {s \in Scans : call[s].by = p /\ call[s].phase = "invoking"}

\* No synchronous block of p is half way through its writes.
Free(p) == \A s \in Scans :
  call[s].by = p /\ call[s].phase = "recording" => row[s].stored = call[s].owed

-----------------------------------------------------------------------------
Init ==
  /\ row = [s \in Scans |-> NoRow]
  /\ call = [s \in Scans |-> NewCall]
  /\ queue = [p \in Servers |-> <<>>]
  /\ server = [p \in Servers |-> "down"]
  /\ pid = [p \in Servers |-> None]
  /\ listed = [p \in Servers |-> {}]
  /\ foreign = {}
  /\ tree \in Trees

(***************************************************************************)
(* A scan call.                                                            *)
(***************************************************************************)

\* findCacheHit: the newest completed scan of the tree that is fresh.  Two
\* rows of one age are ordered by rowid; either may be the later one.
CacheHits ==
  LET fresh == {h \in Scans : /\ row[h].status = "completed"
                              /\ row[h].key = tree
                              /\ row[h].age <= FreshFor}
  IN  {h \in fresh : \A g \in fresh : row[h].age <= row[g].age}

\* MUTANT of Servable: any completed run is served again.
ServableAny(h) == h \in CacheHits

\* Only a run whose every scanner ran is served again.
Servable(h) == h \in CacheHits /\ row[h].full

ServeFromCache(p, s) ==
  /\ Serving(p)
  /\ Free(p)
  /\ call[s].phase = "new"
  /\ \E h \in Scans :
       /\ Servable(h)
       /\ call' = [call EXCEPT ![s] = [NewCall EXCEPT !.phase = "served", !.from = h]]
  /\ UNCHANGED <<row, queue, servers, foreign, tree>>

\* Insert the running row, then acquire: throw if the host has cancelled
\* already, take a slot, or queue up.  A throw in between (the tree cache's
\* write) leaves the row behind.  The cache may have missed, held only a gappy
\* run, or not been asked (force, auto_fix).
StartScan(p, s) ==
  /\ Serving(p)
  /\ Free(p)
  /\ call[s].phase = "new"
  /\ row' = [row EXCEPT ![s] = [NoRow EXCEPT !.status = "running", !.owner = Me(p),
                                             !.key = tree]]
  /\ \E phase \in {"leaving", "invoking", "queued", "threw"} :
       /\ phase = "invoking" => Cardinality(Holding(p)) < Limit
       /\ phase = "queued" => ~(Cardinality(Holding(p)) < Limit)
       /\ call' = [call EXCEPT ![s] = [NewCall EXCEPT !.phase = phase, !.by = p,
                                                      !.aborted = (phase = "leaving")]]
       /\ queue' = IF phase = "queued" THEN [queue EXCEPT ![p] = Append(@, s)] ELSE queue
  /\ UNCHANGED <<servers, foreign, tree>>

\* The call s runs in a server that is up and free to take its next step.
CanStep(s, phase) ==
  call[s].phase = phase /\ Serving(call[s].by) /\ Free(call[s].by)

\* The host cancels a call that waits for a slot: it leaves the queue.
AbortQueued(s) ==
  /\ CanStep(s, "queued")
  /\ call' = [call EXCEPT ![s].phase = "leaving", ![s].aborted = TRUE]
  /\ \E at \in DOMAIN queue[call[s].by] :
       /\ queue[call[s].by][at] = s
       /\ queue' = [queue EXCEPT ![call[s].by] = RemoveAt(@, at)]
  /\ UNCHANGED <<row, servers, foreign, tree>>

\* The host cancels a call whose scanners run: they are told to stop.
AbortInvoking(s) ==
  /\ CanStep(s, "invoking")
  /\ ~call[s].aborted
  /\ call' = [call EXCEPT ![s].aborted = TRUE]
  /\ UNCHANGED <<row, queue, servers, foreign, tree>>

\* finalize: an UPDATE by id, whatever the row's status is by now.
SetStatus(s, status, full) ==
  row' = [row EXCEPT ![s].status = status, ![s].full = full]

\* A call cancelled before it had a slot finalizes its row.
Leave(s) ==
  /\ CanStep(s, "leaving")
  /\ SetStatus(s, "cancelled", FALSE)
  /\ call' = [call EXCEPT ![s] = [NewCall EXCEPT !.phase = "over"]]
  /\ UNCHANGED <<queue, servers, foreign, tree>>

\* MUTANT of ReleaseSlot: the slot goes back to the pool, nobody is woken.
ReleaseWakesNobody(s, next) ==
  /\ call' = [call EXCEPT ![s] = next]
  /\ UNCHANGED queue

\* s releases its slot to the first waiter, and goes on as `next`.
ReleaseSlot(s, next) ==
  LET p == call[s].by IN
  IF queue[p] # <<>>
  THEN /\ call' = [call EXCEPT ![s] = next, ![Head(queue[p])].phase = "invoking"]
       /\ queue' = [queue EXCEPT ![p] = Tail(@)]
  ELSE /\ call' = [call EXCEPT ![s] = next]
       /\ UNCHANGED queue

\* The scanners throw: the row is finalized, the slot released.
InvokeThrows(s) ==
  /\ CanStep(s, "invoking")
  /\ \/ /\ SetStatus(s, "failed", FALSE)
        /\ ReleaseSlot(s, [NewCall EXCEPT !.phase = "over"])
     \/ /\ UNCHANGED row          \* finalize throws too: the slot is released
        /\ ReleaseSlot(s, [NewCall EXCEPT !.phase = "threw", !.by = call[s].by])
  /\ UNCHANGED <<servers, foreign, tree>>

\* The scanners end: the slot is released, then the results are recorded.
InvokeEnds(s) ==
  /\ CanStep(s, "invoking")
  /\ \E o \in Outcomes, n \in 0 .. MaxChunks, f \in BOOLEAN :
       /\ o = "cancelled" => call[s].aborted
       /\ ReleaseSlot(s, [NewCall EXCEPT !.phase = "recording", !.by = call[s].by,
                            !.outcome = o, !.owed = n, !.full = f, !.saw = tree])
  /\ UNCHANGED <<row, servers, foreign, tree>>

\* MUTANT of RecordChunk: one chunk too many.
RecordOneMore(s) ==
  /\ call[s].phase = "recording"
  /\ Serving(call[s].by)
  /\ row[s].stored <= call[s].owed
  /\ row' = [row EXCEPT ![s].stored = @ + 1]
  /\ UNCHANGED <<call, queue, servers, foreign, tree>>

\* bulkInsert: one chunk of findings, a transaction of its own.
RecordChunk(s) ==
  /\ call[s].phase = "recording"
  /\ Serving(call[s].by)
  /\ row[s].stored < call[s].owed
  /\ row' = [row EXCEPT ![s].stored = @ + 1]
  /\ UNCHANGED <<call, queue, servers, foreign, tree>>

\* MUTANT of Finalize: the row is finalized before its findings are stored.
FinalizeEarly(s) ==
  /\ call[s].phase = "recording"
  /\ Serving(call[s].by)
  /\ SetStatus(s, call[s].outcome, call[s].full)
  /\ call' = [call EXCEPT ![s] = [NewCall EXCEPT !.phase = "over", !.owed = call[s].owed,
                                                 !.saw = call[s].saw]]
  /\ UNCHANGED <<queue, servers, foreign, tree>>

\* All findings stored: the row gets the status of the outcome.
Finalize(s) ==
  /\ CanStep(s, "recording")
  /\ SetStatus(s, call[s].outcome, call[s].full)
  /\ call' = [call EXCEPT ![s] = [NewCall EXCEPT !.phase = "over", !.owed = call[s].owed,
                                                 !.saw = call[s].saw]]
  /\ UNCHANGED <<queue, servers, foreign, tree>>

\* A parser or a write throws (the database is busy past its timeout, or
\* full): the call ends with an error and the row stays as it is.
WriteThrows(s) ==
  /\ call[s].phase \in {"leaving", "recording"}
  /\ Serving(call[s].by)
  /\ call' = [call EXCEPT ![s] = [NewCall EXCEPT !.phase = "threw", !.by = call[s].by]]
  /\ UNCHANGED <<row, queue, servers, foreign, tree>>

(***************************************************************************)
(* Server processes.                                                       *)
(***************************************************************************)

\* A server dies, or shuts down and closes the database under its calls.
Exit(p) ==
  /\ server[p] # "down"
  /\ server' = [server EXCEPT ![p] = "down"]
  /\ pid' = [pid EXCEPT ![p] = None]
  /\ listed' = [listed EXCEPT ![p] = {}]
  /\ call' = [s \in Scans |-> IF call[s].by = p THEN [NewCall EXCEPT !.phase = "lost"]
                                                ELSE call[s]]
  /\ queue' = [queue EXCEPT ![p] = <<>>]
  /\ UNCHANGED <<row, foreign, tree>>

\* A server starts under a pid nobody has; its reaper lists the running rows.
Boot(p) ==
  /\ server[p] = "down"
  /\ \E id \in Pids :
       /\ ~PidAlive(<<HostOf[p], id>>)
       /\ pid' = [pid EXCEPT ![p] = id]
  /\ server' = [server EXCEPT ![p] = "booting"]
  /\ listed' = [listed EXCEPT ![p] =
       {<<s, row[s].age>> : s \in {t \in Scans : row[t].status = "running"}}]
  /\ UNCHANGED <<row, call, queue, foreign, tree>>

\* MUTANT of ReapReason: a pid is looked up whatever host it was recorded on.
ReapAnyHost(p, owner, age) ==
  owner[2] = pid[p] \/ ~PidAlive(<<HostOf[p], owner[2]>>) \/ age > LiveReapAfter

\* MUTANT of ReapReason: a row under the reaper's own pid counts as alive.
ReapSparesOwnPid(p, owner, age) ==
  IF owner[1] = HostOf[p]
  THEN ~PidAlive(owner) \/ age > LiveReapAfter
  ELSE age > UnknownReapAfter

\* MUTANT of ReapReason: a pid that exists is its owner, however old the row.
ReapNeverLive(p, owner, age) ==
  IF owner[1] = HostOf[p]
  THEN owner = Me(p) \/ ~PidAlive(owner)
  ELSE age > UnknownReapAfter

\* reapReason, for the reaper of p: whether a row of this owner and age is dead.
ReapReason(p, owner, age) ==
  IF owner[1] = HostOf[p]
  THEN owner = Me(p) \/ ~PidAlive(owner) \/ age > LiveReapAfter
  ELSE age > UnknownReapAfter

\* MUTANT of JudgeRow: the UPDATE does not ask whether the row still runs.
JudgeUnguarded(p, s) ==
  /\ server[p] = "booting"
  /\ \E age \in 0 .. MaxAge :
       /\ <<s, age>> \in listed[p]
       /\ listed' = [listed EXCEPT ![p] = @ \ {<<s, age>>}]
       /\ IF ReapReason(p, row[s].owner, age)
          THEN row' = [row EXCEPT ![s].status = "failed"]
          ELSE UNCHANGED row
  /\ UNCHANGED <<call, queue, server, pid, foreign, tree>>

\* Judge one listed row; the UPDATE takes effect only if it still runs.
JudgeRow(p, s) ==
  /\ server[p] = "booting"
  /\ \E age \in 0 .. MaxAge :
       /\ <<s, age>> \in listed[p]
       /\ listed' = [listed EXCEPT ![p] = @ \ {<<s, age>>}]
       /\ IF ReapReason(p, row[s].owner, age) /\ row[s].status = "running"
          THEN row' = [row EXCEPT ![s].status = "failed"]
          ELSE UNCHANGED row
  /\ UNCHANGED <<call, queue, server, pid, foreign, tree>>

\* Nothing is left to judge: the server connects.
BootDone(p) ==
  /\ server[p] = "booting"
  /\ listed[p] = {}
  /\ server' = [server EXCEPT ![p] = "up"]
  /\ UNCHANGED <<row, call, queue, pid, listed, foreign, tree>>

\* The reaper throws half way; that is logged, and the server connects.
ReaperThrows(p) ==
  /\ server[p] = "booting"
  /\ listed[p] # {}
  /\ server' = [server EXCEPT ![p] = "unreaped"]
  /\ listed' = [listed EXCEPT ![p] = {}]
  /\ UNCHANGED <<row, call, queue, pid, foreign, tree>>

(***************************************************************************)
(* The environment.                                                        *)
(***************************************************************************)

\* A program that is no server takes or leaves a pid; a host never runs out.
ForeignTakes(id) ==
  /\ ~PidAlive(id)
  /\ \E k \in Pids \ {id[2]} : ~PidAlive(<<id[1], k>>)
  /\ foreign' = foreign \cup {id}
  /\ UNCHANGED <<row, call, queue, servers, tree>>

ForeignLeaves(id) ==
  /\ id \in foreign
  /\ foreign' = foreign \ {id}
  /\ UNCHANGED <<row, call, queue, servers, tree>>

\* How far the age of a row still makes a difference to anyone.
AgeCap(status) ==
  CASE status = "running" -> MaxAge
    [] status = "completed" -> FreshFor + 1
    [] OTHER -> 0

Older(r) == IF r.age < AgeCap(r.status) THEN [r EXCEPT !.age = @ + 1] ELSE r

\* Time passes: every stored row is older.
Tick ==
  /\ row' = [s \in Scans |-> Older(row[s])]
  /\ UNCHANGED <<call, queue, servers, foreign, tree>>

\* The user, or an agent, changes the working tree.
Edit ==
  /\ \E t \in Trees \ {tree} : tree' = t
  /\ UNCHANGED <<row, call, queue, servers, foreign>>

ScanStep(s) == Leave(s) \/ InvokeThrows(s) \/ InvokeEnds(s) \/ RecordChunk(s)
               \/ Finalize(s) \/ WriteThrows(s)

Next ==
  \/ \E p \in Servers, s \in Scans :
       ServeFromCache(p, s) \/ StartScan(p, s) \/ JudgeRow(p, s)
  \/ \E s \in Scans : AbortQueued(s) \/ AbortInvoking(s) \/ ScanStep(s)
  \/ \E p \in Servers : Exit(p) \/ Boot(p) \/ BootDone(p) \/ ReaperThrows(p)
  \/ \E id \in Hosts \X Pids : ForeignTakes(id) \/ ForeignLeaves(id)
  \/ Tick
  \/ Edit

Spec == Init /\ [][Next]_vars

\* A call of a running server moves on: promises settle, every scanner run is
\* capped by a timeout, and what is recorded is written without waiting for
\* anyone but the database's lock, whose wait is capped as well.
CallFairness == \A s \in Scans : WF_vars(ScanStep(s))

\* A session of the host application ends, and a later one starts a server
\* again; time passes.  A start-up judges any given row again and again, and
\* neither a crash nor a busy database stops it every time.
ServerFairness ==
  /\ \A p \in Servers : WF_vars(Exit(p)) /\ WF_vars(Boot(p)) /\ WF_vars(BootDone(p))
  /\ \A p \in Servers, s \in Scans : SF_vars(JudgeRow(p, s))
  /\ WF_vars(Tick)

\* Servers may run for ever.
CallSpec == Spec /\ CallFairness

-----------------------------------------------------------------------------
\* A scan that says completed holds every chunk of findings its scanners
\* produced, whatever crashed, threw, was reaped or ran between two chunks:
\* readers take a completed scan with no findings for a clean project.
CompletedIsWhole ==
  \A s \in Scans : row[s].status = "completed" =>
    call[s].phase = "over" /\ row[s].stored = call[s].owed

\* "A finished scan is never overwritten": the reaper lists first and updates
\* later, and the owner may finalize in between.
FinishedStays ==
  [][\A s \in Scans : row[s].status \in {"completed", "cancelled"} =>
       row'[s].status = row[s].status]_vars

\* No start-up fails a scan another live server is running, unless the row is
\* older than the 24 hours (6 for another host) after which it is given up.
ReaperSparesTheLiving ==
  [][\A s \in Scans :
       /\ row[s].status = "running" /\ row'[s].status = "failed"
       /\ call[s].phase \in Live /\ call'[s] = call[s]
       => \E p \in Servers :
            /\ server[p] = "booting"
            /\ row[s].age > (IF HostOf[p] = HostOf[call[s].by]
                             THEN LiveReapAfter ELSE UnknownReapAfter)]_vars

\* Once its reaper is through, a server's own pid stands for its own calls: a
\* row left running by an earlier process of that pid would look alive to
\* every other server for 24 hours.
OwnRowsAreOwn ==
  \A p \in Servers, s \in Scans :
    server[p] = "up" /\ row[s].status = "running" /\ row[s].owner = Me(p) =>
      call[s].by = p

\* At most Limit scans of a server run their scanners, across hand-overs,
\* cancelled waiters and scanners that throw ...
WithinLimit == \A p \in Servers : Cardinality(Holding(p)) <= Limit

\* ... and nobody waits in a server that has a slot free.
NoIdleSlot ==
  \A p \in Servers : queue[p] # <<>> => Cardinality(Holding(p)) = Limit

\* A call answered from the cache is answered with a completed scan, all of
\* whose scanners ran and all of whose findings are stored - and stay so.
CacheServesWhole ==
  \A s \in Scans : call[s].phase = "served" =>
    LET h == call[s].from IN
    row[h].status = "completed" /\ row[h].full /\ row[h].stored = call[h].owed

\* "A cached result may be served only when a fresh run would have produced
\* the same thing": the scanners of the cached scan read the tree asked for.
CachedReadTheTree ==
  \A s \in Scans : call[s].phase = "served" =>
    call[call[s].from].saw = row[call[s].from].key

\* A scan call is answered, or its server dies; it never waits for ever for a
\* slot, in a server that runs on.
CallEnds == \A s \in Scans : call[s].phase \in Live ~> call[s].phase \notin Live

\* Where servers come and go, a row left running by a server that died, or by
\* a call that threw, does not stay running for ever, even if its pid is in
\* use again for good.
OrphanIsReaped ==
  ServerFairness => \A s \in Scans : row[s].status = "running" ~> row[s].status # "running"
=============================================================================
