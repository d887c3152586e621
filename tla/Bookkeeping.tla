----------------------------- MODULE Bookkeeping -----------------------------
(***************************************************************************)
(* What the bookkeeping of a scan (`tools_run`, `missing_tools`) says of a *)
(* finding: history/runCompare.ts over the table of history/runNames.ts.   *)
(* A scan of the same kind that is newer than the finding's either looked  *)
(* for it again, and not to report it is to close it, or left it open.     *)
(***************************************************************************)
EXTENDS FiniteSets, Integers

CONSTANTS
  Names,      \* names of scanner passes in the table RUN_NAMES
  Measures,   \* [Names -> sets of keys] a pass that ran ok speaks for
  WhenNotOk,  \* [Names -> sets of keys] it speaks for when it did not
  OwnTarget,  \* passes with a target of their own (an image)
  OnRequest,  \* passes that run only when a caller asks for them
  Unlisted,   \* pass names the table does not know
  UnknownKey, \* the key of a finding whose tool the table does not know
  NoTarget,   \* the run did not record its target
  PackRules   \* rules of the plugin's own pack

ASSUME TableAssumption ==
  /\ Names \cap Unlisted = {}
  /\ OnRequest \subseteq Names /\ OwnTarget \subseteq Names
  /\ DOMAIN Measures = Names /\ DOMAIN WhenNotOk = Names
  /\ \A n \in Names : Measures[n] \subseteq WhenNotOk[n] /\ UnknownKey \notin WhenNotOk[n]

KnownKeys == UNION {WhenNotOk[n] : n \in Names}

(* An entry of tools_run: `files` only partly parsed, `pack` only partly   *)
(* measured by the plugin's pack, `rules` that did not load.               *)
Run(name, status, target, files, pack, rules) ==
  [name |-> name, status |-> status, target |-> target,
   files |-> files, pack |-> pack, rules |-> rules]

Ok(name) == Run(name, "ok", NoTarget, {}, {}, {})
Failed(name) == Run(name, "failed", NoTarget, {}, {}, {})
Skipped(name) == Run(name, "skipped", NoTarget, {}, {}, {})

Empty(book) == book.runs = {} /\ book.missing = {}

OkNames(book) == {r.name : r \in {q \in book.runs : q.status = "ok"}}

Coverage(book) ==
  IF book.missing = {} /\ (\A r \in book.runs : r.status # "failed") THEN "full"
  ELSE IF OkNames(book) # {} THEN "partial" ELSE "none"

KeysOfRun(name, ok) ==
  IF name \in Names THEN (IF ok THEN Measures[name] ELSE WhenNotOk[name]) ELSE {}

SpeaksFor(run, key) == key \in KeysOfRun(run.name, run.status = "ok")

MeasuresOk(run, key) == run.status = "ok" /\ SpeaksFor(run, key)

(* Did the scan look for findings of this key? A name that is listed       *)
(* missing and also ran ok did run, with a narrower gap inside it.         *)
KeyVerdict(book, key) ==
  LET speaking == {r \in book.runs : SpeaksFor(r, key)}
      missing  == {n \in book.missing : key \in KeysOfRun(n, FALSE)}
      ran      == {r.name : r \in {q \in speaking : q.status = "ok"}}
      gap      == (\E r \in speaking : r.status = "failed") \/ ~(missing \subseteq ran)
  IN  IF speaking # {} \/ missing # {}
      THEN (IF gap THEN "unmeasured" ELSE IF ran # {} THEN "measured" ELSE "not_run")
      ELSE IF key \in KnownKeys THEN "not_run"
      ELSE IF Coverage(book) = "full" THEN "measured" ELSE "unmeasured"

(* The finding is in a file, or of a rule, that the run left out.          *)
LeftOut(run, f) ==
  \/ f.file \in run.files
  \/ f.file \in run.pack /\ f.rule \in PackRules
  \/ f.rule \in run.rules

NarrowGap(book, f) == \E r \in book.runs : MeasuresOk(r, f.key) /\ LeftOut(r, f)

Verdict(book, f) ==
  IF Empty(book) THEN "measured"
  ELSE IF KeyVerdict(book, f.key) = "measured" /\ NarrowGap(book, f) THEN "unmeasured"
  ELSE KeyVerdict(book, f.key)

ProjectFiles == "project files"

TargetOf(run) ==
  IF run.name \notin OwnTarget THEN [pass |-> ProjectFiles, ref |-> NoTarget]
  ELSE [pass |-> run.name, ref |-> run.target]

SameTarget(a, b) ==
  a.pass = b.pass /\ (a.ref = NoTarget \/ b.ref = NoTarget \/ a.ref = b.ref)

(* Each pass of the holder that may have produced the finding must have    *)
(* looked at its target again.                                             *)
TargetNotRun(holder, asked, key) ==
  /\ ~Empty(asked)
  /\ \E run \in holder.runs :
       /\ MeasuresOk(run, key)
       /\ \A r \in asked.runs :
            ~(MeasuresOk(r, key) /\ SameTarget(TargetOf(r), TargetOf(run)))

AskedFor(holder, key) == \E run \in holder.runs : MeasuresOk(run, key) /\ run.name \in OnRequest

(* The open set's question: does the newer scan `asked` leave open a       *)
(* finding f of the scan `holder`?                                         *)
LeavesOpen(holder, asked, f) ==
  LET v == Verdict(asked, f)
  IN  \/ v = "unmeasured"
      \/ v = "not_run" /\ AskedFor(holder, f.key)
      \/ v = "measured" /\ TargetNotRun(holder, asked, f.key)

(* The keys a finding of the run, or of the scan, can have.                *)
KeysProduced(run) ==
  IF run.name \in Names THEN KeysOfRun(run.name, run.status = "ok") ELSE {UnknownKey}

ProducedKeys(book) ==
  IF Empty(book) THEN KnownKeys \cup {UnknownKey}
  ELSE UNION {KeysProduced(r) : r \in {q \in book.runs : q.status # "skipped"}}
=============================================================================
