---------------------------- MODULE CarryForward -----------------------------
(***************************************************************************)
(* history/openSet.ts, carryForward: the open findings of one slot. The    *)
(* newest usable scan is the source, and the walk goes back over the older *)
(* ones, taking from each the findings that all newer ones left open, and  *)
(* stops when nothing older could be open (StillCarry). With no history,   *)
(* the index alone, over any newer scans (chainScope).                     *)
(***************************************************************************)
EXTENDS ChainIndex

VARIABLES
  history,  \* the usable scans of the slot, newest first
  known,    \* KnownFindings
  carried,  \* what was carried forward, with the scan it is from
  walking

vars == <<indexVars, history, known, carried, walking>>

(* Usable scans, with none or all of the findings their passes can have.   *)
Usable ==
  UNION {{[book |-> b, reports |-> {}], [book |-> b, reports |-> Producible(b)]} :
           b \in {c \in BooksOf[slot] : Coverage(c) # "none"}}

(* The widest holder the slot's history allows for.                        *)
Widest ==
  Widening(UNION {{r.name : r \in history[i].book.runs} : i \in 1 .. Len(history)})

WidestKeys ==
  (IF Empty(Widest) THEN {} ELSE ProducedKeys(Widest))
    \cup (IF \E i \in 1 .. Len(history) : Empty(history[i].book) THEN Keys ELSE {})

\* MUTANT of StillCarry: a holder like the scan at hand stands for all older ones.
StillCarrySameBook ==
  ~sawEmpty /\ \E k \in WidestKeys : ~Never(k, ClassOf(chain[Len(chain)], k))
StillCarry == ~sawEmpty /\ \E k \in WidestKeys : ~Never(k, ClassOf(Widest, k))

Init ==
  /\ IndexInit
  /\ history \in UNION {[1 .. n -> Usable] : n \in 0 .. MaxScans}
  /\ known = {} /\ carried = {} /\ walking = TRUE

(* The source: its own findings are open.                                  *)
ReadSource ==
  /\ walking /\ chain = <<>> /\ history # <<>>
  /\ Push(history[1].book)
  /\ known' = history[1].reports
  /\ UNCHANGED <<history, carried, walking>>

\* MUTANT of CarriedFrom: compared with the newest scan only.
CarriedPastNewest(scan) == {f \in scan.reports \ known : LeavesOpen(scan.book, chain[1], f)}
CarriedFrom(scan) ==
  {f \in scan.reports \ known :
     /\ f.key \in ProducedKeys(scan.book)
     /\ ScopeAdmits(ClassOf(scan.book, f.key), f)
     /\ LeavesOpen(scan.book, chain[1], f)}

Examine ==
  LET i == Len(chain) + 1
  IN  /\ walking /\ chain # <<>> /\ StillCarry /\ i <= Len(history)
      /\ carried' = carried \cup {<<i, f>> : f \in CarriedFrom(history[i])}
      /\ known' = known \cup CarriedFrom(history[i])
      /\ Push(history[i].book)
      /\ UNCHANGED <<history, walking>>

Stop ==
  /\ walking /\ chain # <<>>
  /\ ~StillCarry \/ Len(chain) = Len(history)
  /\ walking' = FALSE
  /\ UNCHANGED <<indexVars, history, known, carried>>

(* chainScope: any newer scans, without a walk.                            *)
PushAny ==
  /\ history = <<>> /\ Len(chain) < MaxChain
  /\ \E book \in BooksOf[slot] : Push(book)
  /\ UNCHANGED <<history, known, carried, walking>>

Next == ReadSource \/ Examine \/ Stop \/ PushAny

Spec == Init /\ [][Next]_vars

----------------------------------------------------------------------------
(* The index by itself, over every chain of newer scans (ChainIndex): it   *)
(* says of any finding what asking each scan of the chain says.            *)
IndexAlone == history = <<>> => IndexExact

(* Reference: a finding is open while no newer scan closed it.             *)
HeldOpen(i, f) ==
  /\ f \in history[i].reports
  /\ \A j \in 1 .. i - 1 : LeavesOpen(history[i].book, history[j].book, f)

(* A resolved finding stays resolved (openSet.ts, the walk): the findings  *)
(* held are the open ones of the scans looked at so far, each known from   *)
(* the newest scan that holds it open - unless a meet was given up on.     *)
CarriesTheOpen ==
  history # <<>> =>
    /\ {f \in Findings : \E i \in 1 .. Len(chain) : HeldOpen(i, f)} \subseteq known
    /\ \A c \in carried :
         \/ fold[<<c[2].key, ClassOf(history[c[1]].book, c[2].key)>>].wide
         \/ HeldOpen(c[1], c[2]) /\ \A j \in 1 .. c[1] - 1 : ~HeldOpen(j, c[2])

(* Stopping early loses nothing (StillCarry): when the walk ends, it holds *)
(* every open finding of the whole history.                                *)
StopLosesNothing ==
  ~walking =>
    \A i \in 1 .. Len(history) : \A f \in Findings : HeldOpen(i, f) => f \in known
=============================================================================
