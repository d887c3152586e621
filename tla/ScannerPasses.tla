---------------------------- MODULE ScannerPasses ----------------------------
(***************************************************************************)
(* One scan's scanner passes, side by side (runners/scannerPasses.ts): at  *)
(* most MaxParallel at once, some after earlier ones, each gathering into  *)
(* its own part; the parts are merged in the passes' order.                *)
(***************************************************************************)
EXTENDS Naturals, FiniteSets, SequencesExt

CONSTANTS
  N,           \* passes, in order
  After,       \* [pass -> earlier passes it waits for]
  MaxParallel, \* maxParallelScanners
  MaxEntries,  \* bound on entries a pass makes
  NoResult

Passes == 1 .. N

PassesAssumption ==
  /\ N \in Nat /\ MaxParallel \in Nat \ {0}
  /\ After \in [Passes -> SUBSET Passes]
  /\ \A p \in Passes : \A q \in After[p] : q < p

VARIABLES
  phase,   \* [Passes -> "waiting", "queued", "granted", "running", "released", "done"]
  slots,   \* `active`: slots taken
  queue,   \* `waiting`: passes without a slot
  parts,   \* [Passes -> entries gathered]
  merged   \* what runScannerPasses returned

passVars == <<phase, slots, queue, parts, merged>>

PassesInit ==
  /\ phase = [p \in Passes |-> "waiting"]
  /\ slots = 0 /\ queue = <<>>
  /\ parts = [p \in Passes |-> <<>>]
  /\ merged = NoResult

AfterDone(p) == \A q \in After[p] : phase[q] = "done"

\* MUTANT of AcquireSlot: the slot is taken before the earlier passes are done.
AcquireFirst(p) ==
  /\ phase[p] = "waiting"
  /\ IF slots < MaxParallel
     THEN slots' = slots + 1 /\ phase' = [phase EXCEPT ![p] = "granted"] /\ UNCHANGED queue
     ELSE queue' = Append(queue, p) /\ phase' = [phase EXCEPT ![p] = "queued"] /\ UNCHANGED slots
  /\ UNCHANGED <<parts, merged>>
(* The passes waited for are done: a slot, or a place in the queue.        *)
AcquireSlot(p) ==
  /\ phase[p] = "waiting" /\ AfterDone(p)
  /\ IF slots < MaxParallel
     THEN slots' = slots + 1 /\ phase' = [phase EXCEPT ![p] = "granted"] /\ UNCHANGED queue
     ELSE queue' = Append(queue, p) /\ phase' = [phase EXCEPT ![p] = "queued"] /\ UNCHANGED slots
  /\ UNCHANGED <<parts, merged>>

RunPass(p) ==
  /\ phase[p] = "granted"
  /\ phase' = [phase EXCEPT ![p] = "running"]
  /\ UNCHANGED <<slots, queue, parts, merged>>

Gather(p) ==
  /\ phase[p] = "running" /\ Len(parts[p]) < MaxEntries
  /\ parts' = [parts EXCEPT ![p] = Append(@, <<p, "ok">>)]
  /\ UNCHANGED <<phase, slots, queue, merged>>

(* The pass returns, or throws and leaves its own failed entry.            *)
ReturnPass(p) ==
  /\ phase[p] = "running"
  /\ phase' = [phase EXCEPT ![p] = "released"]
  /\ \/ UNCHANGED parts
     \/ parts' = [parts EXCEPT ![p] = Append(@, <<p, "failed">>)]
  /\ UNCHANGED <<slots, queue, merged>>

\* MUTANT of ReleaseSlot: the slot is handed over to a pass that is not told.
ReleaseUntold(p) ==
  /\ phase[p] = "released"
  /\ phase' = [phase EXCEPT ![p] = "done"]
  /\ IF queue = <<>> THEN slots' = slots - 1 /\ UNCHANGED queue
     ELSE queue' = Tail(queue) /\ UNCHANGED slots
  /\ UNCHANGED <<parts, merged>>
(* release: the slot goes to the first of the queue, `active` unchanged.   *)
ReleaseSlot(p) ==
  /\ phase[p] = "released"
  /\ IF queue = <<>>
     THEN slots' = slots - 1 /\ phase' = [phase EXCEPT ![p] = "done"] /\ UNCHANGED queue
     ELSE queue' = Tail(queue) /\ phase' = [phase EXCEPT ![p] = "done", ![Head(queue)] = "granted"]
                               /\ UNCHANGED slots
  /\ UNCHANGED <<parts, merged>>

Merge ==
  /\ merged = NoResult /\ \A p \in Passes : phase[p] = "done"
  /\ merged' = FlattenSeq(parts)
  /\ UNCHANGED <<phase, slots, queue, parts>>

PassesNext ==
  \/ \E p \in Passes : AcquireSlot(p) \/ RunPass(p) \/ Gather(p) \/ ReturnPass(p) \/ ReleaseSlot(p)
  \/ Merge

(* A scanner ends: its process has a timeout (ProcessRun).                 *)
PassesFairness ==
  /\ \A p \in Passes :
       /\ WF_passVars(AcquireSlot(p)) /\ WF_passVars(RunPass(p))
       /\ WF_passVars(ReturnPass(p)) /\ WF_passVars(ReleaseSlot(p))
  /\ WF_passVars(Merge)

PassesSpec == PassesInit /\ [][PassesNext]_passVars /\ PassesFairness

----------------------------------------------------------------------------
(* A pass that writes where another reads does not run beside it (after).  *)
AfterRespected ==
  \A p \in Passes : phase[p] \in {"running", "released"} =>
    \A q \in After[p] : phase[q] \notin {"granted", "running", "released"}

(* The scan gets a result, whatever waits for what, and it reads the same  *)
(* whichever pass finished first: in the order of the passes               *)
(* (runScannerPasses).                                                     *)
InOrder == \A i, j \in 1 .. Len(merged) : i < j => merged[i][1] <= merged[j][1]
AllMerged == <>(merged # NoResult /\ InOrder)
=============================================================================
