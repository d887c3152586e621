------------------------------- MODULE ToolPins -------------------------------
(***************************************************************************)
(* audit_mcp_tools pins the definitions that one MCP server serves, and    *)
(* reports what changed since (tools/auditMcpTools.ts, mcpaudit/pins.ts,   *)
(* storage/mcpToolPinsRepo.ts). An item is a tool, a prompt or a resource; *)
(* its definition stands for its hash, of the one scheme there is.         *)
(***************************************************************************)
EXTENDS Naturals

CONSTANTS
  Auditors,   \* processes that audit the server
  Items,      \* what it may serve
  Resources,  \* those that are data: never tombstoned
  Defs,       \* definitions of an item
  Gone,       \* an item that is not served, or has no pin
  MaxChanges, \* bound on changes of the server
  MaxAudits   \* bound on audits

VARIABLES
  served,  \* [Items -> Defs or Gone]
  pins,    \* mcp_tool_pins: [def, live]
  audited, \* mcp_server_pins: was the server audited before
  audit,   \* the audit of each process
  seen,    \* what the last stored audit that listed an item saw, unless an
           \* audit that overlapped another forgot it (history)
  changes, audits

pinVars == <<served, pins, audited, audit, seen, changes, audits>>

NoPin == [def |-> Gone, live |-> FALSE]
Live(d) == [def |-> d, live |-> TRUE]
Tombstone(pin) == [pin EXCEPT !.live = FALSE]

(* `raced` is history: another audit stored its pins after the comparison. *)
NoAudit ==
  [phase |-> "idle", listing |-> [i \in Items |-> Gone], complete |-> FALSE, changed |-> {},
   pins |-> [i \in Items |-> NoPin], raced |-> FALSE]

PinsInit ==
  /\ served \in [Items -> Defs \cup {Gone}]
  /\ pins = [i \in Items |-> NoPin] /\ audited = FALSE
  /\ audit = [a \in Auditors |-> NoAudit]
  /\ seen = [i \in Items |-> Gone] /\ changes = 0 /\ audits = 0

(* The server serves something else from now on.                           *)
Serve(i, d) ==
  /\ changes < MaxChanges /\ changes' = changes + 1
  /\ served[i] # d /\ served' = [served EXCEPT ![i] = d]
  /\ UNCHANGED <<pins, audited, audit, seen, audits>>

----------------------------------------------------------------------------
(* comparePins.                                                            *)
FirstAudit == ~audited /\ \A i \in Items : pins[i] = NoPin

\* MUTANT of Changed: a tombstone is no pin to compare with.
ChangedLive(listing) ==
  {i \in Items : listing[i] # Gone /\ pins[i].live /\ pins[i].def # listing[i]}
Changed(listing) ==
  {i \in Items : listing[i] # Gone /\ pins[i].def \notin {Gone, listing[i]}}

(* What an audit that saw all is to leave: its items, and a tombstone for  *)
(* each other one; a resource is forgotten.                                *)
NewPins(listing, complete) ==
  [i \in Items |->
     IF listing[i] # Gone THEN Live(listing[i])
     ELSE IF ~complete \/ FirstAudit \/ i \in Resources THEN NoPin ELSE Tombstone(pins[i])]

(* The listing is probed and compared: in full, or what a budget let       *)
(* through of it. A comparison or analysis that throws leaves no pins.     *)
Compare(a) ==
  /\ audit[a].phase = "idle" /\ audits < MaxAudits /\ audits' = audits + 1
  /\ \E cut \in SUBSET Items, analysed \in BOOLEAN :
       LET listing  == [i \in Items |-> IF i \in cut THEN Gone ELSE served[i]]
           complete == cut = {}
       IN  audit' = [audit EXCEPT ![a] =
             [phase |-> IF analysed THEN "compared" ELSE "unpinned", listing |-> listing,
              complete |-> complete, changed |-> IF FirstAudit THEN {} ELSE Changed(listing),
              pins |-> NewPins(listing, complete), raced |-> FALSE]]
  /\ UNCHANGED <<served, pins, audited, seen, changes>>

(* replaceServerPins, or upsertServerPins when the listing was cut.        *)
Stored(a) ==
  IF audit[a].complete THEN audit[a].pins
  ELSE [i \in Items |-> IF audit[a].listing[i] # Gone THEN audit[a].pins[i] ELSE pins[i]]

(* At the end of the audit, after its findings.                            *)
Store(a) ==
  /\ audit[a].phase = "compared"
  /\ pins' = Stored(a) /\ audited' = TRUE
  /\ seen' = [i \in Items |->
               IF audit[a].listing[i] # Gone THEN audit[a].listing[i]
               ELSE IF audit[a].raced THEN pins'[i].def ELSE seen[i]]
  /\ audit' = [b \in Auditors |-> IF b = a THEN NoAudit ELSE [audit[b] EXCEPT !.raced = TRUE]]
  /\ UNCHANGED <<served, changes, audits>>

(* Nothing to pin; or the process is killed before the pins are stored.    *)
LeaveAudit(a) ==
  /\ audit[a].phase # "idle"
  /\ audit' = [audit EXCEPT ![a] = NoAudit]
  /\ UNCHANGED <<served, pins, audited, seen, changes, audits>>

PinsNext ==
  \/ \E i \in Items, d \in Defs \cup {Gone} : Serve(i, d)
  \/ \E a \in Auditors : Compare(a) \/ Store(a) \/ LeaveAudit(a)

PinsSpec == PinsInit /\ [][PinsNext]_pinVars

----------------------------------------------------------------------------
PinsTypeOK ==
  /\ served \in [Items -> Defs \cup {Gone}] /\ audited \in BOOLEAN
  /\ pins \in [Items -> [def : Defs \cup {Gone}, live : BOOLEAN]]

(* A definition is never replaced by another without a report: what an     *)
(* audit stores for a tool is what was last stored for it, or the audit    *)
(* reports it changed, over removals, returns, partial audits and kills    *)
(* (pins.ts). Of audits that overlap, only the first to store.             *)
StoresWhatItReports ==
  \A a \in Auditors : Store(a) /\ ~audit[a].raced =>
    \A i \in Items \ Resources :
      seen[i] # Gone /\ seen'[i] # seen[i] => i \in audit[a].changed
ChangeIsReported == [][StoresWhatItReports]_pinVars
=============================================================================
