----------------------------- MODULE MCScanRows ------------------------------
(* The scan rows of the database: servers that write them and crash, and   *)
(* the retention that deletes them. The two share no state here, so that   *)
(* one run checks them side by side: `part` is the one that runs.          *)
EXTENDS MCScanLifecycle, Retention

CONSTANTS semgrep, bandit, kSemgrep, kBandit, file, rule

VARIABLE part

(* Two scanners of static analysis; results in which both ran, one failed  *)
(* or both did; one finding, of Semgrep. The open set does not read the   *)
(* orchestrated run itself: all that counts of it is whether it is usable. *)
TableMeasures == [n \in Names |-> IF n = semgrep THEN {kSemgrep} ELSE {kBandit}]

Completed(runs, reports) ==
  [status |-> "completed", book |-> [runs |-> runs, missing |-> {}], reports |-> reports]

BothRan == Completed({Ok(semgrep), Ok(bandit)}, {})
BothFailed == Completed({Failed(semgrep), Failed(bandit)}, {})

TwoScanners ==
  [t \in Slots \cup {Full} |->
     {BothRan, BothFailed} \cup
       IF t = Full THEN {}
       ELSE {[BothRan EXCEPT !.reports = {[key |-> kSemgrep, file |-> file, rule |-> rule]}],
             Completed({Failed(semgrep), Ok(bandit)}, {})}]

ASSUME RowsAssumption == KeepAssumption

RowsInit == part \in {"rows", "retention"} /\ Init /\ RetentionInit

RowsNext ==
  /\ UNCHANGED part
  /\ \/ part = "rows" /\ Next /\ UNCHANGED retentionVars
     \/ part = "retention" /\ RetentionNext /\ UNCHANGED vars

RowsSpec == RowsInit /\ [][RowsNext]_<<part, vars, retentionVars>>
=============================================================================
