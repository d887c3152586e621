--------------------------- MODULE ProcessPromise ----------------------------
(***************************************************************************)
(* What runProcess promises its caller: one result, that names the first   *)
(* reason the child was stopped for when there was one and reports the     *)
(* child's own exit otherwise; once there is a reason, it returns, unless  *)
(* the caller itself is gone.                                              *)
(***************************************************************************)
CONSTANTS Reasons, None

VARIABLES reason, result, caller

vars == <<reason, result, caller>>

Init == reason = None /\ result = None /\ caller = "up"

Ask(r) ==
  /\ caller = "up" /\ reason = None /\ result = None /\ r \in Reasons
  /\ reason' = r /\ UNCHANGED <<result, caller>>

(* `failed` also stands for a child that could not be started.             *)
Return ==
  /\ caller = "up" /\ result = None
  /\ result' \in IF reason = None THEN {"completed", "failed"} ELSE {reason, "failed"}
  /\ UNCHANGED <<reason, caller>>

Leave ==
  /\ caller = "up" /\ caller' = "gone"
  /\ UNCHANGED <<reason, result>>

Next == Return \/ Leave \/ \E r \in Reasons : Ask(r)

Spec == Init /\ [][Next]_vars /\ WF_vars(reason # None /\ Return)
=============================================================================
