----------------------------- MODULE LlmPromise -----------------------------
(***************************************************************************)
(* What an LLM-scan plan promises, whoever leases, answers, crashes or     *)
(* comes late: each task is closed once, with one outcome; tasks are added *)
(* only with the answer that calls for them, and only to an open plan; a   *)
(* plan is complete only when nothing is left to do.                       *)
(***************************************************************************)
CONSTANTS Tasks, Reasons

VARIABLES
  status,    \* of the plan
  pending,   \* tasks still to be closed
  outcome    \* what each closed task was closed with

vars == <<status, pending, outcome>>

Init ==
  /\ status = "open"
  /\ pending \in SUBSET Tasks
  /\ outcome = [t \in {} |-> "none"]

\* Task t is closed with outcome r, and calls for further tasks.
Close(t, r, further) ==
  /\ t \in pending
  /\ further \cap (pending \cup DOMAIN outcome) = {}
  /\ further # {} => status = "open" /\ r = "valid"
  /\ pending' = (pending \ {t}) \cup further
  /\ outcome' = [u \in DOMAIN outcome \cup {t} |-> IF u = t THEN r ELSE outcome[u]]
  /\ UNCHANGED status

Finish ==
  /\ status = "open"
  /\ pending = {}
  /\ status' = "complete"
  /\ UNCHANGED <<pending, outcome>>

Abandon ==
  /\ status = "open"
  /\ status' = "abandoned"
  /\ UNCHANGED <<pending, outcome>>

Next ==
  \/ \E t \in Tasks, r \in Reasons, further \in SUBSET Tasks : Close(t, r, further)
  \/ Finish
  \/ Abandon

Spec == Init /\ [][Next]_vars
=============================================================================
