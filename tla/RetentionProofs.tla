--------------------------- MODULE RetentionProofs ----------------------------
(***************************************************************************)
(* For any number of servers, scans and marks: retention leaves the newest *)
(* usable scans of each kind, what became a baseline since it was listed,  *)
(* and what the open findings are read from.                               *)
(***************************************************************************)
EXTENDS Retention, FiniteSetTheorems, TLAPS

Above(S, i) == {j \in S : j > i}
From(S, i) == {j \in S : j >= i}

\* Parts of finitely many scans are finite.
LEMMA FiniteParts ==
  ASSUME NEW n \in Nat, NEW S \in SUBSET (1 .. n), NEW i \in Nat
  PROVE  /\ IsFiniteSet(S) /\ IsFiniteSet(Above(S, i)) /\ IsFiniteSet(From(S, i))
         /\ Cardinality(Above(S, i)) \in Nat /\ Cardinality(From(S, i)) \in Nat
  <1>1. IsFiniteSet(1 .. n)
    BY FS_Interval
  <1>2. IsFiniteSet(S)
    BY <1>1, FS_Subset
  <1>3. Above(S, i) \in SUBSET S /\ From(S, i) \in SUBSET S
    BY DEF Above, From
  <1>4. IsFiniteSet(Above(S, i)) /\ IsFiniteSet(From(S, i))
    BY <1>2, <1>3, FS_Subset
  <1>5. QED
    BY <1>2, <1>4, FS_CardinalityType

\* Some scans that are not none have a newest.
LEMMA Largest ==
  ASSUME NEW n \in Nat, NEW S \in SUBSET (1 .. n), S # {}
  PROVE  \E m \in S : \A j \in S : j <= m
  <1> DEFINE T == {From(S, d) : d \in S}
             R == StrictSubsetOrdering(1 .. n)
  <1>1. IsWellFoundedOn(R, FiniteSubsetsOf(1 .. n))
    BY FS_StrictSubsetOrderingWellFounded
  <1>2. T \subseteq FiniteSubsetsOf(1 .. n) /\ T # {}
    BY FiniteParts DEF From, FiniteSubsetsOf
  <1>3. \E x \in T : \A y \in T : <<y, x>> \notin R
    <2> HIDE DEF T, R
    <2>1. QED
      BY <1>1, <1>2, WFMin
  <1>4. PICK m \in S : \A d \in S : <<From(S, d), From(S, m)>> \notin R
    BY <1>3
  <1>5. ASSUME NEW d \in S, d > m PROVE FALSE
    <2>0. \A j \in S : j \in Nat
      OBVIOUS
    <2>1. From(S, d) \subseteq From(S, m) /\ m \in From(S, m) /\ m \notin From(S, d)
      <3>1. m >= m /\ ~(m >= d) /\ \A j \in S : j >= d => j >= m
        BY <1>5, <2>0
      <3>2. QED
        BY <3>1, Zenon DEF From
    <2>2. From(S, d) \in SUBSET (1 .. n) /\ From(S, m) \in SUBSET (1 .. n)
      BY DEF From
    <2>3. <<From(S, d), From(S, m)>> \in R
      BY <2>1, <2>2 DEF StrictSubsetOrdering
    <2>4. QED
      BY <2>3, <1>4
  <1>6. QED
    BY <1>5

\* From a scan on there is at most one more than above it.
LEMMA OneFewer ==
  ASSUME NEW n \in Nat, NEW S \in SUBSET (1 .. n), NEW d \in S
  PROVE  Cardinality(From(S, d)) <= Cardinality(Above(S, d)) + 1
  <1>0. d \in Nat /\ \A j \in S : j \in Nat
    OBVIOUS
  <1>1. From(S, d) = Above(S, d) \cup {d}
    <2>1. \A j \in S : j >= d <=> j > d \/ j = d
      BY <1>0
    <2>2. QED
      BY <2>1, Zenon DEF From, Above
  <1>2. IsFiniteSet(Above(S, d)) /\ Cardinality(Above(S, d)) \in Nat
    BY <1>0, FiniteParts
  <1>3. Cardinality(Above(S, d) \cup {d}) = IF d \in Above(S, d) THEN Cardinality(Above(S, d))
                                              ELSE Cardinality(Above(S, d)) + 1
    BY <1>2, FS_AddElement
  <1>4. QED
    BY <1>1, <1>2, <1>3

\* Taking away only members that have K others from them on and above leaves
\* K above everything that had K above it: those above the largest one taken.
LEMMA KeepsK ==
  ASSUME NEW n \in Nat, NEW G \in SUBSET (1 .. n), NEW D \in SUBSET G, NEW K \in Nat,
         \A d \in D : Cardinality(From(G, d)) > K,
         NEW i \in Nat, Cardinality(Above(G, i)) >= K
  PROVE  Cardinality(Above(G \ D, i)) >= K
  <1>0. G \ D \in SUBSET (1 .. n) /\ \A j \in G : j \in Nat
    OBVIOUS
  <1>1. CASE Above(D, i) = {}
    <2>1. Above(G \ D, i) = Above(G, i)
      BY <1>1 DEF Above
    <2>2. QED
      BY <2>1
  <1>2. CASE Above(D, i) # {}
    <2>1. PICK m \in Above(D, i) : \A j \in Above(D, i) : j <= m
      BY <1>2, Largest DEF Above
    <2>2. m \in Nat /\ m \in G /\ m \in D /\ m > i
      BY <1>0, <2>1 DEF Above
    <2>3. Cardinality(Above(G, m)) >= K
      <3>1. Cardinality(Above(G, m)) \in Nat /\ Cardinality(From(G, m)) \in Nat
        BY <2>2, FiniteParts
      <3>2. Cardinality(From(G, m)) <= Cardinality(Above(G, m)) + 1 /\ Cardinality(From(G, m)) > K
        BY <2>2, OneFewer
      <3>3. QED
        BY <3>1, <3>2
    <2>4. Above(G, m) \in SUBSET Above(G \ D, i)
      <3>1. \A j \in G : j > m => j > i /\ ~(j <= m)
        BY <1>0, <2>2
      <3>2. QED
        BY <2>1, <3>1, Zenon DEF Above
    <2>5. IsFiniteSet(Above(G \ D, i)) /\ Cardinality(Above(G \ D, i)) \in Nat
      BY <1>0, FiniteParts
    <2>6. Cardinality(Above(G, m)) <= Cardinality(Above(G \ D, i)) /\ Cardinality(Above(G, m)) \in Nat
      BY <2>2, <2>4, <2>5, FS_Subset, FiniteParts
    <2>7. QED
      BY <2>3, <2>5, <2>6
  <1>3. QED
    BY <1>1, <1>2
-----------------------------------------------------------------------------
\* What a row of `scans` holds.
EndResults == UNION {ResultsOf[t] : t \in Slots \cup {Full}}

ScanRow == [type : Slots \cup {Full}, scoped : BOOLEAN, parent : Nat,
            status : {"running"} \cup {r.status : r \in EndResults},
            book : {[runs |-> {}, missing |-> {}]} \cup {r.book : r \in EndResults},
            reports : {{}} \cup {r.reports : r \in EndResults}]

\* A deleted scan was finished, so nothing changes it any more; a running one
\* is not usable, so that it can only add to the usable ones of a kind.
IInv ==
  /\ scans \in Seq(ScanRow) /\ deleted \subseteq Ids
  /\ \A i \in deleted : scans[i].status # "running"
  /\ NewestKept

\* The usable scans of a kind that are kept.
KindOf(i) == {j \in Kept : Partition(j) = Partition(i)}

\* Ranks count the usable kept scans of one kind, of which there are finitely many.
LEMMA KindIsFinite ==
  ASSUME IInv, NEW i \in Ids
  PROVE  /\ Len(scans) \in Nat /\ Ids \subseteq Nat /\ KindOf(i) \in SUBSET (1 .. Len(scans))
         /\ Rank(i) = Cardinality(From(KindOf(i), i))
         /\ {j \in Kept : j > i /\ Partition(j) = Partition(i)} = Above(KindOf(i), i)
  <1>1. Len(scans) \in Nat
    BY DEF IInv
  <1>2. KindOf(i) \in SUBSET (1 .. Len(scans))
    BY DEF KindOf, Kept, Ids
  <1>3. From(KindOf(i), i) = {j \in Kept : j >= i /\ Partition(j) = Partition(i)}
    BY Zenon DEF From, KindOf
  <1>4. {j \in Kept : j > i /\ Partition(j) = Partition(i)} = Above(KindOf(i), i)
    BY Zenon DEF Above, KindOf
  <1>5. Ids \subseteq Nat
    BY <1>1 DEF Ids
  <1>6. QED
    BY <1>1, <1>2, <1>3, <1>4, <1>5 DEF Rank

\* When nothing is deleted, and the kept scans of a usable kind stay so, what
\* was enough is enough.
LEMMA Grows ==
  ASSUME KeepAssumption, IInv, scans' \in Seq(ScanRow), deleted' = deleted, Len(scans) <= Len(scans'),
         \A i \in deleted : scans'[i] = scans[i],
         \A i \in deleted, j \in Kept : IsUsable(i) /\ Partition(j) = Partition(i) =>
                                          scans'[j] = scans[j]
  PROVE  IInv'
  <1>1. Ids \subseteq Ids' /\ Kept \subseteq Kept' /\ Len(scans') \in Nat
    BY DEF IInv, Ids, Kept
  <1>2. \A i \in Ids : scans'[i] = scans[i] => (Partition(i)' = Partition(i) /\ IsUsable(i)' = IsUsable(i))
    BY DEF Partition, IsUsable
  <1>3. ASSUME NEW i \in deleted, IsUsable(i)'
        PROVE  Cardinality({j \in Kept' : j > i /\ Partition(j)' = Partition(i)'}) >= Keep
    <2> DEFINE Old == {j \in Kept : j > i /\ Partition(j) = Partition(i)}
               New == {j \in Kept' : j > i /\ Partition(j)' = Partition(i)'}
    <2>1. i \in Ids /\ Partition(i)' = Partition(i) /\ IsUsable(i)
      BY <1>2, <1>3 DEF IInv
    <2>2. Cardinality(Old) >= Keep
      BY <2>1 DEF IInv, NewestKept
    <2>3. \A j \in Old : j \in Kept' /\ Partition(j)' = Partition(i)'
      BY <1>1, <1>2, <2>1 DEF Kept
    <2>4. Old \in SUBSET New
      BY <2>3
    <2>5. New \in SUBSET (1 .. Len(scans'))
      BY DEF Kept, Ids
    <2>6. IsFiniteSet(New) /\ Cardinality(New) \in Nat
      <3>1. IsFiniteSet(1 .. Len(scans'))
        BY <1>1, FS_Interval
      <3>2. QED
        BY <2>5, <3>1, FS_Subset, FS_CardinalityType
    <2>7. Cardinality(Old) <= Cardinality(New) /\ Cardinality(Old) \in Nat
      BY <2>4, <2>6, FS_Subset, FS_CardinalityType
    <2>8. QED
      BY <2>2, <2>6, <2>7 DEF KeepAssumption
  <1>4. QED
    BY <1>1, <1>3 DEF IInv, NewestKept

\* A new scan is running, and so of no usable kind.
LEMMA InsertIInv ==
  ASSUME KeepAssumption, IInv, InsertScan \/ InsertRun \/ InsertChild
  PROVE  IInv'
  <1>1. PICK type \in Slots \cup {Full}, scoped \in BOOLEAN, parent \in Nat : Insert(type, scoped, parent)
    <2>1. CASE InsertScan
      BY <2>1 DEF InsertScan, KeepAssumption, NoParent
    <2>2. CASE InsertRun
      BY <2>2 DEF InsertRun, NoParent
    <2>3. CASE InsertChild
      <3>1. Running \subseteq Nat
        BY DEF Running, Ids, IInv
      <3>2. QED
        BY <2>3, <3>1 DEF InsertChild
    <2>4. QED
      BY <2>1, <2>2, <2>3
  <1> DEFINE row == [type |-> type, scoped |-> scoped, parent |-> parent, status |-> "running",
                     book |-> [runs |-> {}, missing |-> {}], reports |-> {}]
  <1>2. row \in ScanRow
    BY DEF ScanRow
  <1>3. scans' = Append(scans, row) /\ deleted' = deleted
    BY <1>1 DEF Insert
  <1>4. /\ scans' \in Seq(ScanRow) /\ Len(scans') = Len(scans) + 1
        /\ \A i \in Ids : scans'[i] = scans[i]
    <2> HIDE DEF row
    <2>1. QED
      BY <1>2, <1>3 DEF IInv, Ids
  <1>5. /\ Len(scans) <= Len(scans') /\ deleted \subseteq Ids
        /\ \A i \in deleted : scans'[i] = scans[i]
        /\ \A j \in Kept : scans'[j] = scans[j]
    BY <1>4 DEF IInv, Kept
  <1>6. QED
    BY <1>3, <1>4, <1>5, Grows

\* A late finish adds to a usable kind, and changes no deleted scan.
LEMMA FinishIInv ==
  ASSUME KeepAssumption, IInv, NEW i \in Ids, NEW result \in ResultsOf[scans[i].type], Finish(i, result)
  PROVE  IInv'
  <1>1. scans[i] \in ScanRow /\ scans[i].status = "running"
    BY DEF Finish, Running, IInv, Ids
  <1>2. result \in EndResults
    BY <1>1 DEF ScanRow, EndResults
  <1> DEFINE row == [scans[i] EXCEPT !.status = result.status, !.book = result.book,
                                     !.reports = result.reports]
  <1>3. row \in ScanRow
    BY <1>1, <1>2 DEF ScanRow
  <1>4. scans' = [scans EXCEPT ![i] = row] /\ deleted' = deleted
    BY DEF Finish
  <1>5. /\ scans' \in Seq(ScanRow) /\ Len(scans') = Len(scans)
        /\ \A j \in Ids : j # i => scans'[j] = scans[j]
    <2> HIDE DEF row
    <2>1. QED
      BY <1>3, <1>4 DEF IInv, Ids
  <1>6. i \notin deleted /\ ~IsUsable(i)
    BY <1>1 DEF IInv, IsUsable
  <1>7. \A k \in deleted, j \in Kept : IsUsable(k) /\ Partition(j) = Partition(k) => j # i
    BY <1>6 DEF Partition
  <1>8. QED
    BY <1>4, <1>5, <1>6, <1>7, Grows DEF IInv, Kept

\* Every scan of a batch is ranked past Keep under the write lock.
LEMMA DeleteIInv ==
  ASSUME KeepAssumption, IInv, NEW s \in Cleaners, DeleteBatch(s)
  PROVE  IInv'
  <1>1. PICK batch : deleted' = deleted \cup Eligible(s, batch) /\ scans' = scans
    BY DEF DeleteBatch
  <1> DEFINE E == Eligible(s, batch)
  <1>2. /\ E \subseteq Kept
        /\ \A d \in E : Rank(d) > Keep /\ scans[d].status # "running"
    BY DEF Eligible, Prunable, Protected
  <1>3. Ids' = Ids /\ Kept' = Kept \ E /\ \A j : Partition(j)' = Partition(j) /\ IsUsable(j)' = IsUsable(j)
    BY <1>1 DEF Ids, Kept, Partition, IsUsable
  <1> HIDE DEF E
  <1>4. ASSUME NEW i \in deleted \cup E, IsUsable(i)
        PROVE  Cardinality({j \in Kept' : j > i /\ Partition(j) = Partition(i)}) >= Keep
    <2> DEFINE G == KindOf(i)
               D == E \cap KindOf(i)
    <2>1. i \in Ids
      BY <1>2 DEF IInv, Kept
    <2>2. /\ Len(scans) \in Nat /\ i \in Nat /\ G \in SUBSET (1 .. Len(scans)) /\ D \in SUBSET G
          /\ Keep \in Nat
      BY <2>1, KindIsFinite DEF KeepAssumption
    <2>3. \A d \in D : d \in Ids /\ Rank(d) > Keep /\ KindOf(d) = G
      BY <1>2 DEF KindOf, Kept
    <2>4. \A d \in D : Cardinality(From(G, d)) > Keep
      BY <2>3, KindIsFinite
    <2>5. Cardinality(Above(G, i)) >= Keep
      <3>1. CASE i \in deleted
        BY <3>1, <2>1, <1>4, KindIsFinite DEF IInv, NewestKept
      <3>2. CASE i \in E
        <4>1. i \in G /\ i \in D
          BY <1>2, <3>2 DEF KindOf
        <4>2. Cardinality(From(G, i)) > Keep /\ Cardinality(From(G, i)) <= Cardinality(Above(G, i)) + 1
          BY <2>2, <2>4, <4>1, OneFewer
        <4>3. Cardinality(From(G, i)) \in Nat /\ Cardinality(Above(G, i)) \in Nat
          BY <2>2, FiniteParts
        <4>4. QED
          BY <2>2, <4>2, <4>3
      <3>3. QED
        BY <3>1, <3>2
    <2>6. Cardinality(Above(G \ D, i)) >= Keep
      <3> HIDE DEF G, D
      <3>1. QED
        BY <2>2, <2>4, <2>5, KeepsK
    <2>7. Above(G \ D, i) = {j \in Kept' : j > i /\ Partition(j) = Partition(i)}
      BY <1>3, Zenon DEF Above, KindOf
    <2>8. QED
      BY <2>6, <2>7
  <1>5. NewestKept'
    BY <1>1, <1>3, <1>4 DEF NewestKept, E
  <1>6. QED
    BY <1>1, <1>2, <1>3, <1>5 DEF IInv, Kept, E

\* Every step.
LEMMA NextIInv == ASSUME KeepAssumption PROVE IInv /\ [RetentionNext]_retentionVars => IInv'
  <1> SUFFICES ASSUME IInv, [RetentionNext]_retentionVars PROVE IInv'
    OBVIOUS
  <1>1. CASE UNCHANGED <<scans, deleted>>
    BY <1>1 DEF IInv, NewestKept, Ids, Kept, Partition, IsUsable
  <1>2. CASE InsertScan \/ InsertRun \/ InsertChild
    BY <1>2, InsertIInv
  <1>3. CASE \E i \in Ids : \E result \in ResultsOf[scans[i].type] : Finish(i, result)
    BY <1>3, FinishIInv
  <1>4. CASE \E s \in Cleaners : DeleteBatch(s)
    BY <1>4, DeleteIInv
  <1>5. QED
    BY <1>1, <1>2, <1>3, <1>4
       DEF RetentionNext, retentionVars, SetBaseline, Suppress, Lift, List, Protect, Finished

\* Every reachable state of the rows has the inductive invariant.
THEOREM Invariance == ASSUME KeepAssumption PROVE RetentionSpec => []IInv
  <1>1. RetentionInit => IInv
    BY DEF RetentionInit, IInv, NewestKept, Ids
  <1>2. QED
    BY <1>1, NextIInv, PTL DEF RetentionSpec

\* Over any history of inserts, late finishes and batches of any number of
\* servers, each usable scan that was deleted has Keep newer ones of its kind
\* left (deletePrunableScans).
THEOREM NewestStay == ASSUME KeepAssumption PROVE RetentionSpec => []NewestKept
  <1>1. IInv => NewestKept
    BY DEF IInv
  <1>2. QED
    BY Invariance, <1>1, PTL

\* No batch deletes a scan that runs, or a scan or a run that is a baseline by
\* then, whatever it was when it was listed (deletePrunableScans).
THEOREM BaselinesStay == RetentionSpec => BaselinedRunStays
  <1>1. [RetentionNext]_retentionVars => [DeletesUnneeded]_retentionVars
    <2> SUFFICES ASSUME RetentionNext PROVE DeletesUnneeded
      BY DEF DeletesUnneeded, retentionVars
    <2>1. CASE deleted' = deleted
      BY <2>1 DEF DeletesUnneeded
    <2>2. CASE \E s \in Cleaners : DeleteBatch(s)
      <3>1. deleted' \ deleted \subseteq Prunable
        BY <2>2 DEF DeleteBatch, Eligible
      <3>2. QED
        BY <3>1 DEF DeletesUnneeded, Prunable, Protected
    <2>3. QED
      BY <2>1, <2>2 DEF RetentionNext, InsertScan, InsertRun, InsertChild, Insert, Finish, SetBaseline, Suppress,
                        Lift, List, Protect, Finished
  <1>2. QED
    BY <1>1, PTL DEF RetentionSpec, BaselinedRunStays
-----------------------------------------------------------------------------
(***************************************************************************)
(* Nothing open is lost. An open finding is read from the latest report of *)
(* it. A scan is that if no newer one closed the finding or reports it, so *)
(* that whatever finishes late can only end it: a scan that is the latest  *)
(* report when its turn to be deleted comes was so, and was protected, when*)
(* the cleaner read the open set.                                          *)
(***************************************************************************)

\* The scans of a slot do not report a finding of another slot.
OwnFindings ==
  \A s, t \in Slots : \A q \in ResultsOf[s], r \in ResultsOf[t] :
    s # t => q.reports \cap r.reports = {}

\* All their passes look at the project's files, and in every run. (Of a finding
\* that an image and the project's files both have, the newer report is what is
\* protected; once the files are clean, the older one, of the image, is gone.)
FilesOnly ==
  \A t \in Slots : \A r \in ResultsOf[t] : \A run \in r.book.runs :
    run.name \notin OwnTarget \cup OnRequest

-----------------------------------------------------------------------------
\* The scan is the latest that reports the finding, and no newer one closed it.
IsLatest(i, slot, f) ==
  /\ i \in Holders(Ids, slot, f)
  /\ \A j \in SlotScans(Ids, slot) : j > i => f \notin scans[j].reports

\* None is deleted, or among what a cleaner goes on to delete.
LatestStay ==
  \A slot \in Slots, f \in AllFindings \ marked, i \in Ids : IsLatest(i, slot, f) =>
    /\ i \notin deleted
    /\ \A s \in Cleaners : cleaner[s].phase = "deleting" => i \notin cleaner[s].pending

\* A scan that is over is as one of its type ends.
EndedAsItsType ==
  \A i \in Ids : scans[i].status # "running" =>
    \E r \in ResultsOf[scans[i].type] : scans[i].book = r.book /\ scans[i].reports = r.reports

\* What a cleaner has listed is over.
CleanerRecords ==
  /\ cleaner = [s \in Cleaners |-> [phase |-> cleaner[s].phase, pending |-> cleaner[s].pending,
                                    protect |-> cleaner[s].protect]]
  /\ \A s \in Cleaners : \A i \in cleaner[s].pending : i \in Ids /\ scans[i].status # "running"

LostIInv ==
  IInv /\ EndedAsItsType /\ suppressed \subseteq marked /\ CleanerRecords /\ LatestStay

-----------------------------------------------------------------------------
\* Whatever the passes that all look at the project's files: what leaves a
\* finding of one scan open leaves it open whichever scan reports it.
LEMMA LeavesOpenOfAny ==
  ASSUME NEW a, NEW b, NEW asked, NEW f,
         \A run \in a.runs \cup b.runs \cup asked.runs : run.name \notin OwnTarget \cup OnRequest,
         LeavesOpen(a, asked, f)
  PROVE  LeavesOpen(b, asked, f)
  <1>1. ~AskedFor(a, f.key)
    BY DEF AskedFor
  <1>2. ASSUME Verdict(asked, f) = "measured" PROVE ~TargetNotRun(a, asked, f.key)
    <2> SUFFICES ASSUME ~Empty(asked), NEW run \in a.runs, MeasuresOk(run, f.key)
                 PROVE  \E r \in asked.runs : MeasuresOk(r, f.key) /\ SameTarget(TargetOf(r), TargetOf(run))
      BY DEF TargetNotRun
    <2>1. KeyVerdict(asked, f.key) = "measured"
      BY <1>2 DEF Verdict
    <2>2. f.key \in KnownKeys
      <3>1. run.name \in Names /\ f.key \in Measures[run.name]
        BY DEF MeasuresOk, SpeaksFor, KeysOfRun
      <3>2. QED
        BY <3>1, TableAssumption DEF KnownKeys
    <2>3. PICK r \in asked.runs : SpeaksFor(r, f.key) /\ r.status = "ok"
      BY <2>1, <2>2 DEF KeyVerdict
    <2>4. SameTarget(TargetOf(r), TargetOf(run))
      BY DEF SameTarget, TargetOf
    <2>5. QED
      BY <2>3, <2>4 DEF MeasuresOk
  <1>3. Verdict(asked, f) = "unmeasured"
    BY <1>1, <1>2 DEF LeavesOpen
  <1>4. QED
    BY <1>3 DEF LeavesOpen

\* A usable scan of a slot is over.
LEMMA SlotScansAreOver ==
  ASSUME NEW view, NEW slot, NEW i \in SlotScans(view, slot)
  PROVE  i \in view /\ scans[i].type = slot /\ scans[i].status # "running"
  BY DEF SlotScans, IsUsable

\* A finding that is open in the whole history has a latest report.
LEMMA OpenHasLatest ==
  ASSUME FilesOnly, LostIInv, NEW slot \in Slots, NEW f, Holders(Ids, slot, f) # {}
  PROVE  \E i \in Ids : IsLatest(i, slot, f)
  <1> DEFINE H == Holders(Ids, slot, f)
  <1>1. Len(scans) \in Nat /\ H \in SUBSET (1 .. Len(scans))
    BY DEF LostIInv, IInv, Holders, SlotScans, Ids
  <1> HIDE DEF H
  <1>2. PICK i \in H : \A j \in H : j <= i
    BY <1>1, Largest DEF H
  <1>3. i \in Ids /\ i \in Nat
    BY <1>1, <1>2 DEF Ids
  <1>4. ASSUME NEW j \in SlotScans(Ids, slot), j > i, f \in scans[j].reports
        PROVE  FALSE
    <2>1. j \in Nat
      BY <1>1, SlotScansAreOver DEF Ids
    <2>2. j \in H
      <3> SUFFICES ASSUME NEW k \in SlotScans(Ids, slot), k > j
                   PROVE  LeavesOpen(scans[j].book, scans[k].book, f)
        BY <1>4 DEF H, Holders
      <3>1. k \in Nat
        BY <1>1, SlotScansAreOver DEF Ids
      <3>2. k > i
        BY <1>3, <1>4, <2>1, <3>1
      <3>3. i \in SlotScans(Ids, slot) /\ LeavesOpen(scans[i].book, scans[k].book, f)
        BY <1>2, <3>2 DEF H, Holders
      <3>4. \A l \in SlotScans(Ids, slot) : \A run \in scans[l].book.runs : run.name \notin OwnTarget \cup OnRequest
        BY SlotScansAreOver DEF LostIInv, EndedAsItsType, FilesOnly
      <3>5. QED
        BY <1>4, <3>3, <3>4, LeavesOpenOfAny
    <2>3. j <= i
      BY <1>2, <2>2
    <2>4. QED
      BY <1>3, <1>4, <2>1, <2>3
  <1>5. QED
    BY <1>2, <1>3, <1>4 DEF IsLatest, H

\* The open set loses nothing as long as the latest reports stay.
LEMMA LatestStayNothingLost == ASSUME FilesOnly, LostIInv PROVE NothingLost
  <1> SUFFICES ASSUME NEW f \in AllFindings, f \notin marked, NEW slot \in Slots, Holders(Ids, slot, f) # {}
               PROVE  Holders(Kept, slot, f) # {} /\ f \notin suppressed
    BY DEF NothingLost, OpenSet, OpenIn
  <1>1. PICK i \in Ids : IsLatest(i, slot, f)
    BY OpenHasLatest
  <1>2. i \notin deleted
    BY <1>1 DEF LostIInv, LatestStay
  <1>3. i \in Holders(Kept, slot, f)
    BY <1>1, <1>2 DEF IsLatest, Holders, SlotScans, Kept
  <1>4. QED
    BY <1>3 DEF LostIInv

\* Max is the greatest.
LEMMA MaxIs ==
  ASSUME NEW S \in SUBSET Nat, NEW m \in S, \A x \in S : x <= m
  PROVE  Max(S) = m
  <1>1. \A x \in S : (\A y \in S : x >= y) <=> x = m
    OBVIOUS
  <1>2. QED
    BY <1>1 DEF Max

\* The latest report of a finding is what the open set shows it by.
LEMMA LatestIsShown ==
  ASSUME OwnFindings, LostIInv, NEW slot \in Slots, NEW f \in AllFindings, f \notin marked,
         NEW i \in Ids, IsLatest(i, slot, f)
  PROVE  i \in OpenSetSources
  <1> DEFINE H == Holders(Kept, slot, f)
  <1>1. i \notin deleted /\ f \notin suppressed /\ Len(scans) \in Nat
    BY DEF LostIInv, LatestStay, IInv
  <1>2. i \in H /\ i \in Kept
    BY <1>1 DEF IsLatest, Holders, SlotScans, Kept
  <1>3. H \in SUBSET Nat /\ i \in Nat
    BY <1>1, <1>2 DEF Holders, SlotScans, Kept, Ids
  <1>4. \A j \in H : j <= i
    <2>1. \A j \in H : j \in SlotScans(Ids, slot) /\ f \in scans[j].reports
      BY DEF Holders, SlotScans, Kept
    <2>2. QED
      BY <1>3, <2>1 DEF IsLatest
  <1>5. Max(H) = i
    <2> HIDE DEF H
    <2>1. QED
      BY <1>2, <1>3, <1>4, MaxIs
  <1>6. \A s \in Slots : s # slot => Holders(Kept, s, f) = {}
    <2> SUFFICES ASSUME NEW s \in Slots, s # slot, NEW j \in Holders(Kept, s, f) PROVE FALSE
      OBVIOUS
    <2>1. j \in SlotScans(Kept, s) /\ f \in scans[j].reports /\ i \in SlotScans(Kept, slot) /\ f \in scans[i].reports
      BY <1>2 DEF Holders
    <2>2. j \in Ids /\ scans[j].type = s /\ scans[j].status # "running"
      BY <2>1, SlotScansAreOver DEF Kept
    <2>3. scans[i].type = slot /\ scans[i].status # "running"
      BY <2>1, SlotScansAreOver
    <2>4. PICK q \in ResultsOf[s] : scans[j].reports = q.reports
      BY <2>2 DEF LostIInv, EndedAsItsType
    <2>5. PICK r \in ResultsOf[slot] : scans[i].reports = r.reports
      BY <2>3 DEF LostIInv, EndedAsItsType
    <2>6. QED
      BY <2>1, <2>4, <2>5 DEF OwnFindings
  <1>7. UNION {{Max(h) : h \in {Holders(Kept, s, f)} \ {{}}} : s \in Slots} = {i}
    <2>1. {Max(h) : h \in {H} \ {{}}} = {i}
      <3> HIDE DEF H
      <3>1. QED
        BY <1>2, <1>5
    <2>2. \A s \in Slots : s # slot => {Max(h) : h \in {Holders(Kept, s, f)} \ {{}}} = {}
      BY <1>6
    <2>3. QED
      BY <2>1, <2>2
  <1>8. Max({i}) = i
    BY <1>3, MaxIs
  <1>9. ShownBy(f) = {i}
    BY <1>1, <1>7, <1>8 DEF ShownBy
  <1>10. QED
    BY <1>9 DEF OpenSetSources
-----------------------------------------------------------------------------
\* A step of no cleaner keeps it all if it leaves the scans that are over as
\* they are, takes no mark back, and lets a scan end only as its type does.
LEMMA OthersLostIInv ==
  ASSUME LostIInv, IInv', EndedAsItsType', UNCHANGED <<deleted, cleaner>>,
         suppressed' \subseteq marked', marked \subseteq marked', Len(scans) <= Len(scans'),
         \A i \in Ids : scans[i].status # "running" => scans'[i] = scans[i],
         \A i \in Ids' \ Ids : scans'[i].status = "running"
  PROVE  LostIInv'
  <1>1. Ids \subseteq Ids' /\ Len(scans) \in Nat /\ Len(scans') \in Nat
    BY DEF LostIInv, IInv, Ids
  <1>2. CleanerRecords'
    BY <1>1 DEF LostIInv, CleanerRecords
  <1>3. ASSUME NEW slot, NEW i \in SlotScans(Ids, slot) PROVE i \in SlotScans(Ids, slot)' /\ scans'[i] = scans[i]
    <2>1. i \in Ids /\ scans[i].status # "running"
      BY SlotScansAreOver
    <2>2. scans'[i] = scans[i] /\ i \in Ids'
      BY <1>1, <2>1
    <2>3. QED
      BY <2>2 DEF SlotScans, IsUsable
  <1>4. ASSUME NEW slot, NEW f, NEW i \in Ids, scans[i].status # "running", IsLatest(i, slot, f)'
        PROVE  IsLatest(i, slot, f)
    <2>1. scans'[i] = scans[i]
      BY <1>4
    <2>2. i \in SlotScans(Ids, slot) /\ f \in scans[i].reports
      BY <1>4, <2>1 DEF IsLatest, Holders, SlotScans, IsUsable
    <2>3. \A j \in SlotScans(Ids, slot) : j > i =>
            LeavesOpen(scans[i].book, scans[j].book, f) /\ f \notin scans[j].reports
      BY <1>3, <1>4, <2>1 DEF IsLatest, Holders
    <2>4. QED
      BY <2>2, <2>3 DEF IsLatest, Holders
  <1>5. LatestStay'
    <2> SUFFICES ASSUME NEW slot \in Slots, NEW f \in AllFindings, f \notin marked', NEW i \in Ids',
                        IsLatest(i, slot, f)'
                 PROVE  /\ i \notin deleted
                        /\ \A s \in Cleaners : cleaner[s].phase = "deleting" => i \notin cleaner[s].pending
      BY DEF LatestStay
    <2>1. CASE i \in Ids /\ scans[i].status # "running"
      <3>1. f \notin marked /\ IsLatest(i, slot, f)
        BY <1>4, <2>1
      <3>2. QED
        BY <2>1, <3>1 DEF LostIInv, LatestStay
    <2>2. CASE ~(i \in Ids /\ scans[i].status # "running")
      BY <2>2 DEF LostIInv, IInv, CleanerRecords
    <2>3. QED
      BY <2>1, <2>2
  <1>6. QED
    BY <1>2, <1>5 DEF LostIInv

\* A step of a cleaner keeps it if no latest report is among what it deletes,
\* or goes on to delete.
LEMMA CleanerLostIInv ==
  ASSUME LostIInv, IInv', UNCHANGED <<scans, suppressed, marked>>, NEW s \in Cleaners,
         NEW phase, NEW pending, NEW protect,
         cleaner' = [cleaner EXCEPT ![s] = [phase |-> phase, pending |-> pending, protect |-> protect]],
         \A i \in pending : i \in Ids /\ scans[i].status # "running",
         \A slot \in Slots, f \in AllFindings \ marked, i \in Ids : IsLatest(i, slot, f) =>
           i \notin deleted' /\ (phase = "deleting" => i \notin pending)
  PROVE  LostIInv'
  <1>1. /\ cleaner'[s] = [phase |-> phase, pending |-> pending, protect |-> protect]
        /\ \A t \in Cleaners : t # s => cleaner'[t] = cleaner[t]
        /\ cleaner' = [t \in Cleaners |-> cleaner'[t]]
    BY DEF LostIInv, CleanerRecords
  <1>2. \A t \in Cleaners : cleaner'[t] = [phase |-> cleaner'[t].phase, pending |-> cleaner'[t].pending,
                                           protect |-> cleaner'[t].protect]
    <2>1. \A t \in Cleaners : cleaner[t] = [phase |-> cleaner[t].phase, pending |-> cleaner[t].pending,
                                            protect |-> cleaner[t].protect]
      BY DEF LostIInv, CleanerRecords
    <2>2. QED
      BY <1>1, <2>1
  <1>3. Ids' = Ids
    BY DEF Ids
  <1>4. CleanerRecords'
    <2>1. \A t \in Cleaners : \A i \in cleaner'[t].pending : i \in Ids /\ scans[i].status # "running"
      BY <1>1 DEF LostIInv, CleanerRecords
    <2>2. cleaner' = [t \in Cleaners |-> [phase |-> cleaner'[t].phase, pending |-> cleaner'[t].pending,
                                          protect |-> cleaner'[t].protect]]
      BY <1>1, <1>2
    <2>3. QED
      BY <1>3, <2>1, <2>2 DEF CleanerRecords
  <1>5. \A slot, f, i : IsLatest(i, slot, f)' <=> IsLatest(i, slot, f)
    BY <1>3 DEF IsLatest, Holders, SlotScans, IsUsable
  <1>6. LatestStay'
    <2> SUFFICES ASSUME NEW slot \in Slots, NEW f \in AllFindings \ marked, NEW i \in Ids, IsLatest(i, slot, f),
                        NEW t \in Cleaners, cleaner'[t].phase = "deleting"
                 PROVE  i \notin cleaner'[t].pending
      BY <1>3, <1>5 DEF LatestStay
    <2>1. QED
      BY <1>1 DEF LostIInv, LatestStay
  <1>7. EndedAsItsType' /\ suppressed' \subseteq marked'
    BY <1>3 DEF LostIInv, EndedAsItsType
  <1>8. QED
    BY <1>4, <1>6, <1>7 DEF LostIInv

\* Scans, baselines and suppressions come and go.
LEMMA WritersLostIInv ==
  ASSUME KeepAssumption, LostIInv,
         \/ InsertScan \/ InsertRun \/ InsertChild
         \/ \E i \in Ids : \E result \in ResultsOf[scans[i].type] : Finish(i, result)
         \/ \E i \in Ids : SetBaseline(i)
         \/ \E f \in AllFindings : Suppress(f) \/ Lift(f)
  PROVE  LostIInv'
  <1>1. IInv /\ IInv' /\ EndedAsItsType /\ suppressed \subseteq marked /\ Len(scans) \in Nat
    <2>1. RetentionNext
      BY DEF RetentionNext
    <2>2. QED
      BY <2>1, NextIInv DEF LostIInv, IInv
  <1>2. CASE InsertScan \/ InsertRun \/ InsertChild
    <2>1. PICK type, scoped, parent : Insert(type, scoped, parent)
      BY <1>2 DEF InsertScan, InsertRun, InsertChild
    <2> DEFINE row == [type |-> type, scoped |-> scoped, parent |-> parent, status |-> "running",
                       book |-> [runs |-> {}, missing |-> {}], reports |-> {}]
    <2>2. scans' = Append(scans, row) /\ UNCHANGED <<deleted, suppressed, marked, cleaner>> /\ row.status = "running"
      BY <2>1 DEF Insert
    <2> HIDE DEF row
    <2>3. /\ Len(scans') = Len(scans) + 1 /\ scans'[Len(scans) + 1] = row
          /\ \A i \in Ids : scans'[i] = scans[i]
      BY <1>1, <2>2 DEF IInv, Ids
    <2>4. Ids' = Ids \cup {Len(scans) + 1}
      BY <1>1, <2>3 DEF Ids
    <2>5. EndedAsItsType'
      <3> SUFFICES ASSUME NEW i \in Ids', scans'[i].status # "running"
                   PROVE  \E r \in ResultsOf[scans'[i].type] : scans'[i].book = r.book /\ scans'[i].reports = r.reports
        BY DEF EndedAsItsType
      <3>1. i \in Ids /\ scans'[i] = scans[i]
        BY <2>2, <2>3, <2>4
      <3>2. QED
        BY <1>1, <3>1 DEF EndedAsItsType
    <2>6. \A i \in Ids' \ Ids : scans'[i].status = "running"
      BY <2>2, <2>3, <2>4
    <2>7. Len(scans) <= Len(scans') /\ suppressed' \subseteq marked' /\ marked \subseteq marked'
      BY <1>1, <2>2, <2>3
    <2>8. deleted' = deleted /\ cleaner' = cleaner
      BY <2>2
    <2>9. QED
      BY <1>1, <2>3, <2>5, <2>6, <2>7, <2>8, OthersLostIInv
  <1>3. CASE \E i \in Ids : \E result \in ResultsOf[scans[i].type] : Finish(i, result)
    <2>0. PICK i \in Ids : \E result \in ResultsOf[scans[i].type] : Finish(i, result)
      BY <1>3
    <2>1. PICK result \in ResultsOf[scans[i].type] : Finish(i, result)
      BY <2>0
    <2> DEFINE row == [scans[i] EXCEPT !.status = result.status, !.book = result.book,
                                       !.reports = result.reports]
    <2>2. /\ scans' = [scans EXCEPT ![i] = row] /\ UNCHANGED <<deleted, suppressed, marked, cleaner>>
          /\ scans[i].status = "running" /\ scans[i] \in ScanRow
      <3>1. scans' = [scans EXCEPT ![i] = row] /\ UNCHANGED <<deleted, suppressed, marked, cleaner>>
        BY <2>1 DEF Finish
      <3>2. scans[i].status = "running"
        BY <2>1 DEF Finish, Running
      <3>3. scans[i] \in ScanRow
        BY <1>1 DEF IInv, Ids
      <3>4. QED
        BY <3>1, <3>2, <3>3
    <2>3. row.type = scans[i].type /\ row.book = result.book /\ row.reports = result.reports
      BY <2>2 DEF ScanRow
    <2> HIDE DEF row
    <2>4. /\ Ids' = Ids /\ Len(scans') = Len(scans) /\ scans'[i] = row
          /\ \A j \in Ids : j # i => scans'[j] = scans[j]
      BY <1>1, <2>2 DEF IInv, Ids
    <2>5. EndedAsItsType'
      BY <1>1, <2>1, <2>3, <2>4 DEF EndedAsItsType
    <2>6. QED
      BY <1>1, <2>2, <2>4, <2>5, OthersLostIInv
  <1>4. CASE \E i \in Ids : SetBaseline(i)
    <2>1. UNCHANGED <<scans, deleted, suppressed, marked, cleaner>>
      BY <1>4 DEF SetBaseline
    <2>2. QED
      BY <1>1, <2>1, OthersLostIInv DEF EndedAsItsType, Ids
  <1>5. CASE \E f \in AllFindings : Suppress(f) \/ Lift(f)
    <2>1. UNCHANGED <<scans, deleted, cleaner>> /\ marked \subseteq marked' /\ suppressed' \subseteq marked'
      BY <1>1, <1>5 DEF Suppress, Lift
    <2>2. QED
      BY <1>1, <2>1, OthersLostIInv DEF EndedAsItsType, Ids
  <1>6. QED
    BY <1>2, <1>3, <1>4, <1>5

\* What a cleaner is to protect has the latest reports.
LEMMA RetentionLostIInv ==
  ASSUME KeepAssumption, OwnFindings, LostIInv, NEW s \in Cleaners,
         List(s) \/ Protect(s) \/ DeleteBatch(s) \/ Finished(s)
  PROVE  LostIInv'
  <1>1. IInv /\ IInv' /\ LatestStay /\ CleanerRecords
    <2>1. RetentionNext
      BY DEF RetentionNext
    <2>2. QED
      BY <2>1, NextIInv DEF LostIInv
  <1>2. CASE List(s)
    <2>1. /\ cleaner' = [cleaner EXCEPT ![s] = [phase |-> "listed", pending |-> Prunable, protect |-> {}]]
          /\ UNCHANGED <<scans, deleted, suppressed, marked>>
      BY <1>2 DEF List
    <2>2. \A i \in Prunable : i \in Ids /\ scans[i].status # "running"
      BY DEF Prunable, Protected, Kept
    <2>3. \A slot \in Slots, f \in AllFindings \ marked, i \in Ids : IsLatest(i, slot, f) => i \notin deleted'
      BY <1>1, <2>1 DEF LatestStay
    <2> DEFINE phase == "listed"
               protect == {}
    <2>4. cleaner' = [cleaner EXCEPT ![s] = [phase |-> phase, pending |-> Prunable, protect |-> protect]]
      BY <2>1
    <2>5. phase # "deleting"
      OBVIOUS
    <2> HIDE DEF phase, protect
    <2>6. QED
      BY <1>1, <2>1, <2>2, <2>3, <2>4, <2>5, CleanerLostIInv
  <1>3. CASE Protect(s)
    <2> DEFINE protect == OpenSetSources \cup {scans[i].parent : i \in OpenSetSources}
               pending == cleaner[s].pending \ protect
    <2>1. /\ cleaner' = [cleaner EXCEPT ![s] = [phase |-> "deleting", pending |-> pending, protect |-> protect]]
          /\ UNCHANGED <<scans, deleted, suppressed, marked>>
      BY <1>3 DEF Protect
    <2>2. \A i \in pending : i \in Ids /\ scans[i].status # "running"
      BY <1>1 DEF CleanerRecords
    <2>3. \A slot \in Slots, f \in AllFindings \ marked, i \in Ids : IsLatest(i, slot, f) =>
            i \notin deleted' /\ i \notin pending
      BY <1>1, <2>1, LatestIsShown DEF LatestStay
    <2> HIDE DEF protect, pending
    <2>4. QED
      BY <1>1, <2>1, <2>2, <2>3, CleanerLostIInv
  <1>4. CASE DeleteBatch(s)
    <2>1. PICK batch \in SUBSET cleaner[s].pending :
            /\ deleted' = deleted \cup Eligible(s, batch)
            /\ cleaner' = [cleaner EXCEPT ![s].pending = @ \ batch]
      BY <1>4 DEF DeleteBatch
    <2> DEFINE pending == cleaner[s].pending \ batch
    <2>2. /\ cleaner' = [cleaner EXCEPT ![s] = [phase |-> "deleting", pending |-> pending,
                                                protect |-> cleaner[s].protect]]
          /\ UNCHANGED <<scans, suppressed, marked>> /\ cleaner[s].phase = "deleting"
      <3>1. cleaner[s] = [phase |-> "deleting", pending |-> cleaner[s].pending, protect |-> cleaner[s].protect]
        BY <1>1, <1>4 DEF DeleteBatch, CleanerRecords
      <3>2. [cleaner[s] EXCEPT !.pending = @ \ batch] =
              [phase |-> "deleting", pending |-> pending, protect |-> cleaner[s].protect]
        BY <3>1
      <3>3. QED
        BY <1>4, <2>1, <3>2 DEF DeleteBatch
    <2>3. \A i \in pending : i \in Ids /\ scans[i].status # "running"
      BY <1>1 DEF CleanerRecords
    <2>4. \A slot \in Slots, f \in AllFindings \ marked, i \in Ids : IsLatest(i, slot, f) =>
            i \notin deleted' /\ i \notin pending
      BY <1>1, <2>1, <2>2 DEF LatestStay, Eligible
    <2> HIDE DEF pending
    <2>5. QED
      BY <1>1, <2>2, <2>3, <2>4, CleanerLostIInv
  <1>5. CASE Finished(s)
    <2>1. /\ cleaner' = [cleaner EXCEPT ![s] = [phase |-> "idle", pending |-> {}, protect |-> {}]]
          /\ UNCHANGED <<scans, deleted, suppressed, marked>>
      BY <1>5 DEF Finished, Idle
    <2>2. \A slot \in Slots, f \in AllFindings \ marked, i \in Ids : IsLatest(i, slot, f) => i \notin deleted'
      BY <1>1, <2>1 DEF LatestStay
    <2> DEFINE phase == "idle"
               none == {}
    <2>3. cleaner' = [cleaner EXCEPT ![s] = [phase |-> phase, pending |-> none, protect |-> none]]
      BY <2>1
    <2>4. phase # "deleting" /\ \A i \in none : i \in Ids /\ scans[i].status # "running"
      OBVIOUS
    <2> HIDE DEF phase, none
    <2>5. QED
      BY <1>1, <2>1, <2>2, <2>3, <2>4, CleanerLostIInv
  <1>6. QED
    BY <1>2, <1>3, <1>4, <1>5

\* Every step.
LEMMA NextLostIInv ==
  ASSUME KeepAssumption, OwnFindings PROVE LostIInv /\ [RetentionNext]_retentionVars => LostIInv'
  <1> SUFFICES ASSUME LostIInv, [RetentionNext]_retentionVars PROVE LostIInv'
    OBVIOUS
  <1>1. CASE UNCHANGED retentionVars
    <2>1. UNCHANGED <<scans, deleted, baselines, suppressed, marked, cleaner>>
      BY <1>1 DEF retentionVars
    <2>2. IInv'
      BY <2>1 DEF LostIInv, IInv, NewestKept, Ids, Kept, Partition, IsUsable
    <2>3. EndedAsItsType' /\ suppressed' \subseteq marked' /\ Len(scans) <= Len(scans')
      BY <2>1 DEF LostIInv, EndedAsItsType, Ids, IInv
    <2>4. QED
      BY <2>1, <2>2, <2>3, OthersLostIInv DEF Ids
  <1>2. QED
    BY <1>1, WritersLostIInv, RetentionLostIInv DEF RetentionNext

\* For slots that look at the project's files and have findings of their own:
\* the latest report of each open finding is not deleted, nor about to be.
THEOREM LostInvariance == ASSUME KeepAssumption, OwnFindings PROVE RetentionSpec => []LostIInv
  <1>1. RetentionInit => LostIInv
    BY DEF RetentionInit, LostIInv, IInv, NewestKept, Ids, EndedAsItsType, CleanerRecords, LatestStay, Idle
  <1>2. QED
    BY <1>1, NextLostIInv, PTL DEF RetentionSpec

\* Retention takes no open finding away (openSetSourceIds), whatever finishes
\* late, whichever servers clean up, and however often.
THEOREM NothingOpenIsLost ==
  ASSUME KeepAssumption, OwnFindings, FilesOnly PROVE RetentionSpec => []NothingLost
  <1>1. LostIInv => NothingLost
    BY LatestStayNothingLost
  <1>2. QED
    BY LostInvariance, <1>1, PTL
=============================================================================
