------------------------------ MODULE Retention ------------------------------
(***************************************************************************)
(* Retention (storage/maintenance.ts) beside the scans, baselines and      *)
(* suppressions that other processes write meanwhile, and the open set     *)
(* (history/openSet.ts) that is read from what is left: one project.       *)
(* Deleted scans stay in `scans` as history, listed in `deleted`.          *)
(***************************************************************************)
EXTENDS Bookkeeping, Sequences, FiniteSetsExt

CONSTANTS
  Cleaners,  \* server processes that share the database
  Slots,     \* scan types that source the open set
  Full,      \* the orchestrated parent's type (security_full)
  Scopes,    \* whether scans are scoped (meta.scope)
  ResultsOf, \* what a scan of each type can end with: [status, book, reports]
  Keep,      \* GUARDIAN_RETENTION_SCANS
  MaxScans,  \* bound on scans
  MaxRunning,\* bound on scans that run at the same time
  MaxMarks   \* bound on baselines and suppressed findings

KeepAssumption == Keep \in Nat \ {0} /\ Scopes \subseteq BOOLEAN

VARIABLES
  scans,      \* every scan ever, in start order
  deleted,    \* the ones retention deleted
  baselines,  \* scans that are a baseline
  suppressed, \* findings an active suppression hides
  marked,     \* findings that were ever suppressed (history)
  cleaner     \* the retention of each server

retentionVars == <<scans, deleted, baselines, suppressed, marked, cleaner>>

Ids == 1 .. Len(scans)
Kept == Ids \ deleted
NoParent == 0
Idle == [phase |-> "idle", pending |-> {}, protect |-> {}]

AllFindings == UNION {r.reports : r \in UNION {ResultsOf[t] : t \in Slots}}

----------------------------------------------------------------------------
(* The open set of the scans in `view`.                                    *)

(* USABLE_SQL, and `search` in openSet.ts.                                 *)
IsUsable(i) == scans[i].status = "completed" /\ Coverage(scans[i].book) # "none"

SlotScans(view, slot) ==
  {i \in view : scans[i].type = slot /\ ~scans[i].scoped /\ IsUsable(i)}

(* The scan of a slot that a finding is read from: the newest that reports *)
(* it, while all newer ones leave it open.                                 *)
Holders(view, slot, f) ==
  {i \in SlotScans(view, slot) :
     /\ f \in scans[i].reports
     /\ \A j \in SlotScans(view, slot) : j > i => LeavesOpen(scans[i].book, scans[j].book, f)}

OpenIn(view) == {f \in AllFindings : \E slot \in Slots : Holders(view, slot, f) # {}}

OpenSet == OpenIn(Kept) \ suppressed

(* Sources come first, then what is carried, newest scan first: a carried  *)
(* scan is listed only for a finding that nothing before it shows.         *)
Newest(slot) == IF SlotScans(Kept, slot) = {} THEN {} ELSE {Max(SlotScans(Kept, slot))}

ShownBy(f) ==
  LET all     == UNION {{Max(h) : h \in {Holders(Kept, s, f)} \ {{}}} : s \in Slots}
      sources == {i \in all : i \in Newest(scans[i].type)}
  IN  IF f \in suppressed \/ all = {} THEN {}
      ELSE IF sources # {} THEN {Max(sources)} ELSE {Max(all)}

\* MUTANT of OpenSetSources: what the open set carries forward is not read.
NewestSources == UNION {Newest(slot) : slot \in Slots}
OpenSetSources ==
  (UNION {Newest(slot) : slot \in Slots}) \cup (UNION {ShownBy(f) : f \in AllFindings})

----------------------------------------------------------------------------
Partition(i) == <<scans[i].type, scans[i].scoped, IsUsable(i)>>

Rank(i) == Cardinality({j \in Kept : j >= i /\ Partition(j) = Partition(i)})

(* PROTECTED_SQL with BASELINED_RUN_MEMBERS_SQL.                           *)
Protected(i) ==
  \/ scans[i].status = "running"
  \/ i \in baselines
  \/ scans[i].parent \in baselines
  \/ \E b \in baselines : scans[b].parent = i

\* MUTANT of Prunable: scoped and unusable scans are ranked with the others.
PrunableOfType ==
  {i \in Kept : /\ ~Protected(i)
                /\ Cardinality({j \in Kept : j >= i /\ scans[j].type = scans[i].type}) > Keep}
Prunable == {i \in Kept : Rank(i) > Keep /\ ~Protected(i)}

----------------------------------------------------------------------------
RetentionInit ==
  /\ scans = <<>> /\ deleted = {} /\ baselines = {} /\ suppressed = {} /\ marked = {}
  /\ cleaner = [s \in Cleaners |-> Idle]

Running == {i \in Ids : scans[i].status = "running"}

Insert(type, scoped, parent) ==
  /\ Len(scans) < MaxScans /\ Cardinality(Running) < MaxRunning
  /\ scans' = Append(scans, [type |-> type, scoped |-> scoped, parent |-> parent, status |-> "running",
                             book |-> [runs |-> {}, missing |-> {}], reports |-> {}])
  /\ UNCHANGED <<deleted, baselines, suppressed, marked, cleaner>>

(* A scan of its own, or the child of an orchestrated run.                 *)
InsertScan == \E slot \in Slots, scoped \in Scopes : Insert(slot, scoped, NoParent)
InsertRun == Insert(Full, FALSE, NoParent)
InsertChild == \E p \in Running, slot \in Slots : scans[p].type = Full /\ Insert(slot, FALSE, p)

Finish(i, result) ==
  /\ i \in Running
  /\ \A j \in Running : scans[j].parent # i
  /\ scans' = [scans EXCEPT ![i].status = result.status, ![i].book = result.book,
                            ![i].reports = result.reports]
  /\ UNCHANGED <<deleted, baselines, suppressed, marked, cleaner>>

MarksLeft == Cardinality(baselines) + Cardinality(marked) < MaxMarks

(* BaselinesRepo.set: the foreign key rejects a scan that is gone.         *)
SetBaseline(i) ==
  /\ i \in Kept \ Running /\ MarksLeft
  /\ baselines' = baselines \cup {i}
  /\ UNCHANGED <<scans, deleted, suppressed, marked, cleaner>>

Suppress(f) ==
  /\ f \notin suppressed /\ (f \in marked \/ MarksLeft)
  /\ suppressed' = suppressed \cup {f} /\ marked' = marked \cup {f}
  /\ UNCHANGED <<scans, deleted, baselines, cleaner>>

(* The suppression is deleted, or expires.                                 *)
Lift(f) ==
  /\ f \in suppressed /\ suppressed' = suppressed \ {f}
  /\ UNCHANGED <<scans, deleted, baselines, marked, cleaner>>

(* scheduleRetention, first tick: the prunable scans, then what the open   *)
(* set reads from and the orchestrated parent of each.                     *)
List(s) ==
  /\ cleaner[s].phase = "idle" /\ Prunable # {}
  /\ cleaner' = [cleaner EXCEPT ![s] = [phase |-> "listed", pending |-> Prunable, protect |-> {}]]
  /\ UNCHANGED <<scans, deleted, baselines, suppressed, marked>>

Protect(s) ==
  LET protect == OpenSetSources \cup {scans[i].parent : i \in OpenSetSources}
  IN  /\ cleaner[s].phase = "listed"
      /\ cleaner' = [cleaner EXCEPT ![s] = [phase |-> "deleting", protect |-> protect,
                                            pending |-> cleaner[s].pending \ protect]]
      /\ UNCHANGED <<scans, deleted, baselines, suppressed, marked>>

\* MUTANT of Eligible: what was listed is deleted without a second look.
EligibleAsListed(s, batch) == batch \ deleted
(* The rule again, under the write lock.                                   *)
Eligible(s, batch) == (batch \cap Prunable) \ cleaner[s].protect

(* The oldest of what is pending, as many as fit a transaction.            *)
DeleteBatch(s) ==
  /\ cleaner[s].phase = "deleting" /\ cleaner[s].pending # {}
  /\ \E last \in cleaner[s].pending :
       LET batch == {i \in cleaner[s].pending : i <= last}
       IN  /\ deleted' = deleted \cup Eligible(s, batch)
           /\ cleaner' = [cleaner EXCEPT ![s].pending = @ \ batch]
  /\ UNCHANGED <<scans, baselines, suppressed, marked>>

(* Nothing left, the budget spent, an error, or the server shut down. It   *)
(* starts over with the next start of the server.                          *)
Finished(s) ==
  /\ cleaner[s].phase # "idle"
  /\ cleaner' = [cleaner EXCEPT ![s] = Idle]
  /\ UNCHANGED <<scans, deleted, baselines, suppressed, marked>>

RetentionNext ==
  \/ InsertScan \/ InsertRun \/ InsertChild
  \/ \E i \in Ids : \E result \in ResultsOf[scans[i].type] : Finish(i, result)
  \/ \E i \in Ids : SetBaseline(i)
  \/ \E f \in AllFindings : Suppress(f) \/ Lift(f)
  \/ \E s \in Cleaners : List(s) \/ Protect(s) \/ DeleteBatch(s) \/ Finished(s)

RetentionSpec == RetentionInit /\ [][RetentionNext]_retentionVars

----------------------------------------------------------------------------
RetentionTypeOK ==
  /\ deleted \subseteq Ids /\ baselines \subseteq Ids /\ suppressed \subseteq AllFindings
  /\ \A i \in Ids : scans[i].parent \in {NoParent} \cup Ids
  /\ \A s \in Cleaners : cleaner[s].pending \subseteq Ids
  /\ \A s \in Cleaners : cleaner[s].protect \subseteq Ids \cup {NoParent}

(* Retention takes no open finding away (openSetSourceIds): what the whole *)
(* history holds open is still open in what is left of it, unless it was   *)
(* hidden for a while, when nothing protects the scan it is read from.     *)
NothingLost == OpenIn(Ids) \ marked \subseteq OpenSet

(* Retention never takes the newest usable scans of a kind: each one it    *)
(* deleted has Keep newer ones of its kind that are still there, however   *)
(* scans of other kinds and late finishes are interleaved.                 *)
NewestKept ==
  \A i \in deleted : IsUsable(i) =>
    Cardinality({j \in Kept : j > i /\ Partition(j) = Partition(i)}) >= Keep

(* A scan that runs, is a baseline or belongs to a baselined run is not    *)
(* deleted, though it became so after it was listed (deletePrunableScans). *)
DeletesUnneeded ==
  \A i \in deleted' \ deleted :
    /\ scans[i].status # "running" /\ i \notin baselines
    /\ \A b \in baselines : scans[i].parent # b /\ scans[b].parent # i
BaselinedRunStays == [][DeletesUnneeded]_retentionVars
=============================================================================
