------------------------------ MODULE LlmPlans -------------------------------
(***************************************************************************)
(* The LLM-scan plans of one project side by side (llmscan/service.ts,     *)
(* storage/llmScanRepo.ts): how many are open, what their hunts find, what *)
(* verdicts are stored, and what the open set makes of it (openSet.ts).    *)
(* A single plan's tasks and leases are the subject of LlmScan.            *)
(***************************************************************************)
EXTENDS Bookkeeping, Sequences

CONSTANTS
  Callers,      \* starts that may be in progress at the same time
  Fingerprints, \* of what hunts find
  LlmHunt,      \* the pass `llm-hunt` of RUN_NAMES
  NoVerdict,
  MaxOpenPlans, \* max_open_plans
  MaxPlans,     \* bound on plans
  MaxIdle       \* bound on plans that go idle

HuntAssumption == LlmHunt \in Names /\ MaxOpenPlans \in Nat \ {0} /\ IsFiniteSet(Callers)

VARIABLES
  plans,    \* in start order: modes, status, days without activity, findings
  starting, \* [Callers -> did it pass the check, for which modes]
  verify,   \* verify tasks not yet answered: <<plan, fingerprint>>
  verdict,  \* finding_validations of provider llm, by fingerprint
  idled     \* how often plans went idle

planVars == <<plans, starting, verify, verdict, idled>>

Ids == 1 .. Len(plans)
Open(i) == plans[i].status = "open"

(* listActivePlanIds: open, with activity in the last PLAN_INACTIVE_DAYS.  *)
ActivePlans == {i \in Ids : Open(i) /\ plans[i].idle = "no"}

(* The plan's scan is completed at its start: a hunt's pass ran, ok.       *)
ScanBook(i) == [runs |-> IF plans[i].hunts THEN {Ok(LlmHunt)} ELSE {}, missing |-> {}]

HuntFinding(fp) ==
  [key |-> CHOOSE k \in Measures[LlmHunt] : TRUE, file |-> "project", rule |-> "hunt"]

Confirmed(fp) == verdict[fp] = [real |-> TRUE, independent |-> TRUE]

(* The slot llm_scan of the open set: hunt findings with an independent    *)
(* verdict, of plans that all newer ones leave open.                       *)
OpenSet ==
  {fp \in Fingerprints :
     /\ Confirmed(fp)
     /\ \E i \in Ids : /\ fp \in plans[i].found
                       /\ \A j \in i + 1 .. Len(plans) :
                            LeavesOpen(ScanBook(i), ScanBook(j), HuntFinding(fp))}

PlansInit ==
  /\ plans = <<>>
  /\ starting = [c \in Callers |-> "idle"]
  /\ verify = {}
  /\ verdict = [fp \in Fingerprints |-> NoVerdict]
  /\ idled = 0

\* MUTANT of CheckLimit: one plan more than the limit.
CheckLimitOffByOne(c, modes) ==
  /\ starting[c] = "idle" /\ Cardinality(ActivePlans) <= MaxOpenPlans
  /\ starting' = [starting EXCEPT ![c] = modes]
  /\ UNCHANGED <<plans, verify, verdict, idled>>
(* startPlan up to its first await: the number of open plans is read.      *)
CheckLimit(c, modes) ==
  /\ starting[c] = "idle" /\ Cardinality(ActivePlans) < MaxOpenPlans
  /\ starting' = [starting EXCEPT ![c] = modes]
  /\ UNCHANGED <<plans, verify, verdict, idled>>

(* The tree is hashed, the surface or the findings are wrong: no plan.     *)
Refuse(c) ==
  /\ starting[c] # "idle"
  /\ starting' = [starting EXCEPT ![c] = "idle"]
  /\ UNCHANGED <<plans, verify, verdict, idled>>

(* The transaction that stores the plan's scan, the plan and its tasks.    *)
Store(c) ==
  /\ starting[c] # "idle" /\ Len(plans) < MaxPlans
  /\ plans' = Append(plans, [hunts |-> starting[c] = "hunt", status |-> "open", idle |-> "no", found |-> {}])
  /\ starting' = [starting EXCEPT ![c] = "idle"]
  /\ UNCHANGED <<verify, verdict, idled>>

(* acceptHunt: findings the plan does not have yet, each with its task.    *)
Hunt(i, fps) ==
  /\ Open(i) /\ plans[i].hunts
  /\ plans' = [plans EXCEPT ![i].found = @ \cup fps, ![i].idle = "no"]
  /\ verify' = verify \cup {<<i, fp>> : fp \in fps \ plans[i].found}
  /\ UNCHANGED <<starting, verdict, idled>>

(* acceptVerdict: the row of the fingerprint is replaced.                  *)
Answer(i, fp, real, independent) ==
  /\ Open(i) /\ <<i, fp>> \in verify
  /\ plans' = [plans EXCEPT ![i].idle = "no"]
  /\ verify' = verify \ {<<i, fp>>}
  /\ verdict' = [verdict EXCEPT ![fp] = [real |-> real, independent |-> independent]]
  /\ UNCHANGED <<starting, idled>>

(* settlePlan: every task is closed.                                       *)
Complete(i) ==
  /\ Open(i) /\ \A fp \in Fingerprints : <<i, fp>> \notin verify
  /\ plans' = [plans EXCEPT ![i].status = "complete"]
  /\ UNCHANGED <<starting, verify, verdict, idled>>

(* No activity for PLAN_INACTIVE_DAYS, then for PLAN_ABANDON_DAYS.         *)
GoIdle(i) ==
  /\ Open(i) /\ idled < MaxIdle
  /\ \/ plans[i].idle = "no" /\ plans' = [plans EXCEPT ![i].idle = "week"]
     \/ plans[i].idle = "week" /\ plans' = [plans EXCEPT ![i].idle = "month"]
  /\ idled' = idled + 1
  /\ UNCHANGED <<starting, verify, verdict>>

(* abandonStalePlans, at the start of retention.                           *)
AbandonStale ==
  /\ \E i \in Ids : Open(i) /\ plans[i].idle = "month"
  /\ plans' = [i \in Ids |-> IF Open(i) /\ plans[i].idle = "month"
                             THEN [plans[i] EXCEPT !.status = "abandoned"] ELSE plans[i]]
  /\ UNCHANGED <<starting, verify, verdict, idled>>

(* A task is handed out again: the plan is active again.                   *)
ResumePlan(i) ==
  /\ Open(i) /\ plans[i].idle # "no"
  /\ plans' = [plans EXCEPT ![i].idle = "no"]
  /\ UNCHANGED <<starting, verify, verdict, idled>>

PlansNext ==
  \/ \E c \in Callers : CheckLimit(c, "hunt") \/ CheckLimit(c, "verify") \/ Refuse(c) \/ Store(c)
  \/ \E i \in Ids :
       \/ \E fps \in SUBSET Fingerprints : Hunt(i, fps)
       \/ \E fp \in Fingerprints, real, independent \in BOOLEAN : Answer(i, fp, real, independent)
       \/ Complete(i) \/ GoIdle(i) \/ ResumePlan(i)
  \/ AbandonStale

PlansSpec == PlansInit /\ [][PlansNext]_planVars

----------------------------------------------------------------------------
(* However starts interleave, the limit is exceeded by the starts that     *)
(* were past the check at the same time, less one, and by idle plans that  *)
(* were resumed (startPlan reads the count before it waits).               *)
OvershootBounded ==
  Cardinality(ActivePlans) + Cardinality({c \in Callers : starting[c] # "idle"})
    <= MaxOpenPlans + Cardinality(Callers) - 1 + idled

(* The start of a plan that does not hunt looks for nothing and closes no  *)
(* finding (startPlan's scan, read by openSet.ts).                         *)
VerifyPlanClosesNothing ==
  [][\A i \in Ids' \ Ids : ~plans'[i].hunts => OpenSet \subseteq OpenSet']_planVars
=============================================================================
