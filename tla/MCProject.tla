------------------------------ MODULE MCProject -------------------------------
(* What is kept of a project between runs of its tools: the findings that  *)
(* are open, the configs, the pinned definitions of an MCP server's tools; *)
(* and how its database is opened.                                         *)
(* They share no state, so that one run checks them side by side: `part`   *)
(* is the one that runs.                                                   *)
EXTENDS MCCarryForward, ConfigRefresh, ToolPins, Opening

CONSTANTS t1, b1, b2, old, new1, new2

VARIABLE part

(* Two releases, and an install of a third that lacks the file.            *)
OneFile == <<t1>>
TwoReleases == [v \in 1 .. 3 |-> [t \in {t1} |-> CASE v = 1 -> b1 [] v = 2 -> b2 [] v = 3 -> NoBaseline]]

(* The first migration is one of those up to 011, the next two are probed, *)
(* the last is known to the newer build only.                              *)
NewerHasFour == [p \in {old, new1, new2} |-> IF p = old THEN 1 .. 3 ELSE 1 .. 4]

(* What the slot has while another part runs.                              *)
OneScan == <<[book |-> Book({Ok(semgrep)}), reports |-> {}]>>

ASSUME ProjectAssumption == ShippedAssumption /\ ShipsAssumption

ProjectInit ==
  /\ part \in {"open", "configs", "pins", "database"}
  /\ IF part = "configs" THEN TRUE ELSE file = [t \in {t1} |-> Absent]
  /\ IF part = "pins" THEN TRUE ELSE served = [i \in Items |-> Gone]
  /\ IF part = "database" THEN TRUE ELSE exists = FALSE
  /\ ConfigsInit /\ PinsInit /\ OpeningInit
  /\ IF part = "open" THEN Init
     ELSE /\ slot = staticAnalysis /\ chain = <<>> /\ sawEmpty = FALSE /\ notRun = {}
          /\ fold = [x \in Classes |-> NewState] /\ history = OneScan
          /\ known = {} /\ carried = {} /\ walking = TRUE

ProjectNext ==
  /\ UNCHANGED part
  /\ \/ part = "open" /\ Next /\ UNCHANGED <<configVars, pinVars, openingVars>>
     \/ part = "configs" /\ ConfigsNext /\ UNCHANGED <<vars, pinVars, openingVars>>
     \/ part = "pins" /\ PinsNext /\ UNCHANGED <<vars, configVars, openingVars>>
     \/ part = "database" /\ OpeningNext /\ UNCHANGED <<vars, configVars, pinVars>>

ProjectSpec == ProjectInit /\ [][ProjectNext]_<<part, vars, configVars, pinVars, openingVars>>
=============================================================================
