----------------------------- MODULE ChainIndex ------------------------------
(***************************************************************************)
(* history/runCompare.ts, class ChainIndex: the chain of newer scans that  *)
(* the open set's carry-forward walks back past, folded scan by scan so    *)
(* that one look tells which findings of an older scan they all left open. *)
(* `LeavesOpen` of Bookkeeping asks the same of one pair of scans.         *)
(***************************************************************************)
EXTENDS Bookkeeping, Sequences

CONSTANTS
  Files, Rules, \* what findings are in, and of
  Keys,         \* their keys
  AnyTarget,    \* a target that no scan recorded
  Slots,        \* scan types
  BooksOf,      \* [Slots -> bookkeepings of such scans]
  MaxScans,     \* bound: scans in a history
  MaxChain,     \* bound: newer scans that the index alone is asked about
  MaxPairs      \* MAX_ADMIT_PAIRS

ASSUME BoundAssumption == MaxPairs \in Nat /\ MaxScans \in Nat /\ MaxChain \in Nat

AllBooks == UNION {BooksOf[s] : s \in Slots}

ASSUME BooksAssumption ==
  /\ \A book \in AllBooks : \A r \in book.runs :
       /\ r.name \in Names \cup Unlisted
       /\ r.files \subseteq Files /\ r.pack \subseteq Files /\ r.rules \subseteq Rules
       /\ r.target # AnyTarget
  /\ AnyTarget # NoTarget
  /\ Keys \subseteq KnownKeys \cup {UnknownKey}

VARIABLES
  slot,     \* the scan type of the history
  chain,    \* books pushed so far, newest scan first
  sawEmpty, \* a scan without bookkeeping was pushed (firstEmpty)
  notRun,   \* keys that some scan of the chain did not run (firstNotRun)
  fold      \* per key and class: what is admitted, gaps met, closed, and
            \* whether a meet was given up on (history)

indexVars == <<slot, chain, sawEmpty, notRun, fold>>

Findings == [key : Keys, file : Files, rule : Rules]

(* A holder as the chain sees it for one key.                              *)
ClassOf(holder, key) ==
  [onRequest |-> AskedFor(holder, key),
   targets   |-> {TargetOf(r) : r \in {q \in holder.runs : MeasuresOk(q, key)}}]

(* A holder that ran these passes, each over a target no scan recorded.    *)
Widening(names) ==
  [runs |-> {Run(n, "ok", AnyTarget, {}, {}, {}) : n \in names}, missing |-> {}]

(* The classes of holders that are asked about.                            *)
Classes ==
  {<<k, ClassOf(h, k)>> :
     h \in AllBooks \cup {Widening(names) : names \in SUBSET (Names \cup Unlisted)}, k \in Keys}

----------------------------------------------------------------------------
(* Sets of findings of one key, as files (any rule), rules (any file) and  *)
(* pairs of both.                                                          *)

Admits(a, f) ==
  a.all \/ f.file \in a.files \/ f.rule \in a.rules \/ <<f.file, f.rule>> \in a.pairs

AdmitAll == [all |-> TRUE, files |-> {}, rules |-> {}, pairs |-> {}]

Constraint(book, key) ==
  LET ran   == {r \in book.runs : MeasuresOk(r, key)}
      files == UNION {r.files : r \in ran}
  IN  [all   |-> FALSE, files |-> files, rules |-> UNION {r.rules : r \in ran},
       pairs |-> {p \in Files \X Rules : /\ p[2] \in PackRules /\ p[1] \notin files
                                         /\ \E r \in ran : p[1] \in r.pack}]

NoNarrowGap(c) == c.files = {} /\ c.rules = {} /\ c.pairs = {}

(* How many pairs the meet could make: past MaxPairs it is not built.      *)
PairBound(s, c) ==
  Cardinality(s.pairs)
    + Cardinality((s.files \ c.files) \X c.rules)
    + Cardinality({p \in c.pairs : p[1] \in s.files \ c.files})
    + Cardinality((s.rules \ c.rules) \X c.files)
    + (IF s.rules \subseteq c.rules THEN 0 ELSE Cardinality(c.pairs))

ExactMeet(s, c) ==
  LET files == s.files \cap c.files
      rules == s.rules \cap c.rules
      inC(p) == p[1] \in c.files \/ p[2] \in c.rules \/ p \in c.pairs
  IN  [all |-> FALSE, files |-> files, rules |-> rules,
       pairs |-> {p \in Files \X Rules :
                    /\ p[1] \notin files /\ p[2] \notin rules
                    /\ \/ p \in s.pairs /\ inC(p)
                       \/ p[1] \in s.files \ c.files /\ (p[2] \in c.rules \/ p \in c.pairs)
                       \/ p[2] \in s.rules \ c.rules /\ (p[1] \in c.files \/ p \in c.pairs)}]

\* MUTANT of MeetAdmit: a file that is no longer partly parsed takes its pairs with it.
MeetWithoutPairs(s, c) ==
  IF s.all THEN c
  ELSE [all |-> FALSE, files |-> s.files \cap c.files, rules |-> s.rules \cap c.rules, pairs |-> {}]
MeetAdmit(s, c) == IF s.all \/ PairBound(s, c) > MaxPairs THEN c ELSE ExactMeet(s, c)

GivenUp(s, c) == ~s.all /\ PairBound(s, c) > MaxPairs

AdmitsNothing(a) == ~a.all /\ a.files = {} /\ a.rules = {} /\ a.pairs = {}

----------------------------------------------------------------------------
(* Does the scan look at a target of the class, or at all of them?         *)
CoversTarget(book, key, t) ==
  \E r \in book.runs : MeasuresOk(r, key) /\ SameTarget(TargetOf(r), t)

(* The scans a class is folded over are found through one of its targets:  *)
(* an image, else an image pass, else the project's files.                 *)
InDriver(cls, book, key) ==
  LET images == {t \in cls.targets : t.pass # ProjectFiles /\ t.ref # NoTarget}
      passes == {t \in cls.targets : t.pass # ProjectFiles}
      driver == IF images # {} THEN images ELSE IF passes # {} THEN passes ELSE cls.targets
  IN  cls.targets = {} \/ CoversTarget(book, key, CHOOSE t \in driver : TRUE)

LooksAtAll(cls, book, key) == \A t \in cls.targets : CoversTarget(book, key, t)

(* The index holds the scan for this key, and the class looks at it.       *)
Looks(cls, book, key) ==
  /\ ~Empty(book) /\ KeyVerdict(book, key) = "measured"
  /\ InDriver(cls, book, key) /\ LooksAtAll(cls, book, key)

Narrow(st, c) ==
  LET admit == MeetAdmit(st.admit, c)
  IN  IF NoNarrowGap(c) THEN [st EXCEPT !.closed = TRUE]
      ELSE IF c \in st.met THEN st
      ELSE [admit |-> admit, met |-> st.met \cup {c}, closed |-> AdmitsNothing(admit),
            wide |-> st.wide \/ GivenUp(st.admit, c)]

Advance(st, cls, book, key) ==
  IF ~st.closed /\ Looks(cls, book, key) THEN Narrow(st, Constraint(book, key)) ELSE st

NewState == [admit |-> AdmitAll, met |-> {}, closed |-> FALSE, wide |-> FALSE]

IndexInit ==
  /\ slot \in Slots
  /\ chain = <<>>
  /\ sawEmpty = FALSE
  /\ notRun = {}
  /\ fold = [x \in Classes |-> NewState]

(* push(book), and what the next look at each class makes of it.           *)
Push(book) ==
  /\ chain' = Append(chain, book)
  /\ sawEmpty' = (sawEmpty \/ Empty(book))
  /\ notRun' = notRun \cup {k \in Keys : ~Empty(book) /\ KeyVerdict(book, k) = "not_run"}
  /\ fold' = [x \in Classes |-> Advance(fold[x], x[2], book, x[1])]
  /\ UNCHANGED slot

(* scopeOfClass: nothing any more, or the findings admitted.               *)
Never(key, cls) ==
  \/ sawEmpty
  \/ key \in notRun /\ ~cls.onRequest
  \/ fold[<<key, cls>>].closed

ScopeAdmits(cls, f) == ~Never(f.key, cls) /\ Admits(fold[<<f.key, cls>>].admit, f)

(* Findings a scan with this bookkeeping can have: a pass produces what it *)
(* measures, also when it fails later on.                                  *)
Producible(book) ==
  {f \in Findings :
     \/ Empty(book)
     \/ \E r \in book.runs : /\ r.status # "skipped"
                              /\ IF r.name \in Names THEN f.key \in Measures[r.name]
                                                     ELSE f.key = UnknownKey}

----------------------------------------------------------------------------
(* The folded index says of a finding what asking each newer scan says     *)
(* (ChainIndex): none that all left open is dropped; none that one closed  *)
(* is kept, unless a meet was given up on, which may only widen the scope. *)
IndexExact ==
  \A holder \in BooksOf[slot] : \A f \in Producible(holder) :
    LET cls  == ClassOf(holder, f.key)
        open == \A i \in 1 .. Len(chain) : LeavesOpen(holder, chain[i], f)
    IN  /\ open => ScopeAdmits(cls, f)
        /\ ScopeAdmits(cls, f) => open \/ fold[<<f.key, cls>>].wide
=============================================================================
