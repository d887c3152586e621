------------------------------ MODULE ScanClock ------------------------------
(***************************************************************************)
(* The start stamps of one process's scans over a wall clock that is set   *)
(* back and forth (storage/scanClock.ts).                                  *)
(***************************************************************************)
EXTENDS Integers, Sequences

CONSTANTS
  Hold,      \* MONOTONIC_HOLD_MS
  Skew,      \* FUTURE_SKEW_MINUTES, in the same unit
  MaxTime,   \* bound on the wall clock
  MaxStamps  \* bound on stamps

ClockAssumption ==
  Hold \in Nat \ {0} /\ Skew \in Nat /\ Hold <= Skew /\ MaxTime \in Nat

VARIABLES
  now,        \* the wall clock
  stamps,     \* started_at of the scans, in the order they started
  corrections \* the scans whose stamp trusted a clock that stepped back

clockVars == <<now, stamps, corrections>>

ClockInit == now \in 0 .. MaxTime /\ stamps = <<>> /\ corrections = {}

(* The wall clock goes on, or is set to another time.                      *)
ClockMoves ==
  /\ now' \in 0 .. MaxTime /\ now' # now
  /\ UNCHANGED <<stamps, corrections>>

LastStamp == stamps[Len(stamps)]
Behind == IF stamps = <<>> THEN 0 ELSE LastStamp - now

\* MUTANT of Stamp: the wall clock is always trusted.
StampTrusted == now
\* MUTANT of Stamp: held one step too far.
StampHeldAtLimit == IF Behind > 0 /\ Behind <= Hold THEN LastStamp + 1 ELSE now
(* A wall clock slightly behind the last stamp is held at it.              *)
Stamp == IF Behind > 0 /\ Behind < Hold THEN LastStamp + 1 ELSE now

(* scanStartedAt.                                                          *)
StartScan ==
  /\ Len(stamps) < MaxStamps
  /\ stamps' = Append(stamps, Stamp)
  /\ corrections' = IF Behind >= Hold THEN corrections \cup {Len(stamps) + 1} ELSE corrections
  /\ UNCHANGED now

ClockNext == ClockMoves \/ StartScan

ClockSpec == ClockInit /\ [][ClockNext]_clockVars

----------------------------------------------------------------------------
(* Scans sort in the order they started (started_at, then rowid), however  *)
(* many small steps back the clock took: only a correction comes between.  *)
SortsAsStarted ==
  \A i, j \in 1 .. Len(stamps) :
    i < j /\ stamps[j] < stamps[i] => \E k \in i + 1 .. j : k \in corrections

(* A stamp is never more than the hold ahead of the wall clock, however    *)
(* many small steps back follow one another, so that no reader takes the   *)
(* scan for one dated in the future (datedInFutureSql: more than Skew).    *)
WithinHold ==
  [][\A i \in DOMAIN stamps' \ DOMAIN stamps :
       stamps'[i] - now <= Hold /\ ~(stamps'[i] > now + Skew)]_clockVars
=============================================================================
