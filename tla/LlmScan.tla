------------------------------- MODULE LlmScan -------------------------------
(***************************************************************************)
(* The lease protocol of an LLM-scan plan (llmscan/service.ts over         *)
(* storage/llmScanRepo.ts).  Several servers share the database; hosts ask *)
(* any of them for the plan's next task, get a brief under a lease token,  *)
(* and submit an answer under it, late, twice, or never.  A server reads   *)
(* the tasks, then writes statement by statement; each statement says what *)
(* it expects, and other servers' statements fall in between.              *)
(***************************************************************************)
EXTENDS Naturals, FiniteSets, FiniteSetsExt

CONSTANTS
  Servers,         \* server processes
  Planned,         \* how many tasks the plan starts with, numbered from 1
  KindOf,          \* the kind of each of them
  MaxTasks,        \* limits.max_tasks: tasks that may be delivered
  MaxBriefs,       \* limits.max_estimated_tokens, in briefs of one size
  MaxInvalid,      \* MAX_INVALID_SUBMISSIONS
  MaxFindings,     \* bound: new findings the hunts of the plan may store
  MaxReturns,      \* bound: leases that expire or are given back
  Tokens           \* lease tokens

ASSUME PlannedAssumption == Planned \in Nat \ {0}
ASSUME KindOfAssumption == KindOf \in [1 .. Planned -> {"verify", "hunt", "crosscut"}]
ASSUME TokensAssumption == Tokens \subseteq Nat \ {0}
ASSUME LimitsAssumption ==
  /\ MaxTasks \in Nat \ {0}
  /\ MaxBriefs \in Nat
  /\ MaxInvalid \in Nat \ {0}
  /\ MaxFindings \in Nat
  /\ MaxReturns \in Nat

VARIABLES
  plan,      \* the plan's row: its status, and whether it was idle for 30 days
  task,      \* the rows of its tasks
  found,     \* the stored hunt findings, each under the task that checks it
  op,        \* what each server is in the middle of
  returns    \* how many leases expired or were given back

vars == <<plan, task, found, op, returns>>

\* Task ids; those past Planned are the verify tasks of hunt findings.
TaskIds == 1 .. Planned + MaxFindings
NoToken == 0

AllKinds == {"verify", "hunt", "crosscut"}

Kind(t) == IF t \in 1 .. Planned THEN KindOf[t] ELSE "verify"

\* `origin` is the hunt whose finding the task checks (0: the plan's own).
\* Attempts saturate at MaxInvalid: only reaching it makes a difference.
Task == [status : {"absent", "open", "leased", "closed"}, token : {NoToken} \cup Tokens,
         expired : BOOLEAN, attempts : 0 .. MaxInvalid, delivered : BOOLEAN,
         reason : {"none", "valid", "stale", "invalid_submissions", "not_delivered"},
         origin : 0 .. Planned + MaxFindings]

NewTask(status, origin) ==
  [status |-> status, token |-> NoToken, expired |-> FALSE, attempts |-> 0,
   delivered |-> FALSE, reason |-> "none", origin |-> origin]

\* A server between two statements.  A lease call works through the
\* candidates it read (`todo` of `cands`), knowing what was delivered then; a
\* submission knows its task, token and what the validator says of the answer.
Op == [step : {"down", "idle", "leasing", "stopping", "answering", "closing", "settling", "completing"},
       todo : SUBSET TaskIds, cands : SUBSET TaskIds, seen : SUBSET TaskIds,
       crosscut : BOOLEAN, task : {0} \cup TaskIds, token : {NoToken} \cup Tokens,
       answer : {"none", "valid", "stale", "invalid"}]

Idle == [step |-> "idle", todo |-> {}, cands |-> {}, seen |-> {}, crosscut |-> FALSE,
         task |-> 0, token |-> NoToken, answer |-> "none"]

TypeOK ==
  /\ plan \in [status : {"open", "complete", "abandoned"}, idle : BOOLEAN]
  /\ task \in [TaskIds -> Task]
  /\ op \in [Servers -> Op]
  /\ found \subseteq TaskIds
  /\ returns \in 0 .. MaxReturns

-----------------------------------------------------------------------------
Existing == {t \in TaskIds : task[t].status # "absent"}
Closed(t) == task[t].status = "closed"
AllClosed == \A t \in Existing : Closed(t)
Delivered == {t \in Existing : task[t].delivered}

\* Tasks that count against max_tasks: not the verify tasks of hunt findings.
Counted(S) == {t \in S : task[t].origin = 0}

Init ==
  /\ plan = [status |-> "open", idle |-> FALSE]
  /\ task = [t \in TaskIds |-> NewTask(IF t <= Planned THEN "open" ELSE "absent", 0)]
  /\ op = [p \in Servers |-> Idle]
  /\ found = {}
  /\ returns = 0

\* LEASABLE_SQL: open, or leased and past its expiry.
Leasable(t) == task[t].status = "open" \/ (task[t].status = "leased" /\ task[t].expired)

\* The guard of every write an answer makes.
Held(t, k) == task[t].status = "leased" /\ task[t].token = k

\* A random token: neither the row nor any call about the task has it.  (A
\* token is only ever compared with the one on its task's row.)
Fresh(t, k) ==
  k = Min(Tokens \ ({task[t].token} \cup {op[p].token : p \in {q \in Servers : op[q].task = t}}))

\* touchPlan: only an open plan is used.
Touched == IF plan.status = "open" THEN [plan EXCEPT !.idle = FALSE] ELSE plan

\* closeUnleased: never a live lease, never a closed task.
CloseUnleased(t, reason) ==
  task' = IF Leasable(t)
          THEN [task EXCEPT ![t].status = "closed", ![t].reason = reason,
                            ![t].token = NoToken, ![t].expired = FALSE]
          ELSE task

\* closeTask, under its guard.
CloseAs(t, reason) == [task EXCEPT ![t].status = "closed", ![t].reason = reason]

(***************************************************************************)
(* Asking for the next task.                                               *)
(***************************************************************************)

\* The plan and its tasks are read.  Sampling asks for verify tasks only.
LeaseNext(p, kinds) ==
  /\ op[p].step = "idle"
  /\ plan.status = "open"
  /\ LET cands == {t \in Existing : Leasable(t) /\ Kind(t) \in kinds} IN
     op' = [op EXCEPT ![p] = [Idle EXCEPT
              !.step = "leasing", !.todo = cands, !.cands = cands, !.seen = Delivered,
              !.crosscut = \E t \in Existing \ Delivered : Kind(t) = "crosscut" /\ ~Closed(t)]]
  /\ UNCHANGED <<plan, task, found, returns>>

\* p is done with the candidate t and looks at the next.
Drop(p, t) == op' = [op EXCEPT ![p].todo = @ \ {t}]

\* The first candidate p has not looked at.
First(p, t) ==
  /\ op[p].step = "leasing"
  /\ t \in op[p].todo
  /\ \A u \in op[p].todo : t <= u

\* A file of a verify target changed, or its finding is gone.
SkipStale(p, t) ==
  /\ First(p, t)
  /\ Kind(t) = "verify"
  /\ CloseUnleased(t, "stale")
  /\ Drop(p, t)
  /\ UNCHANGED <<plan, found, returns>>

\* MUTANT of OverLimit: one task more than max_tasks.
OverLimitLate(p, t) ==
  LET reserved == IF Kind(t) # "crosscut" /\ op[p].crosscut THEN 1 ELSE 0 IN
  \/ task[t].origin = 0 /\ Cardinality(Counted(op[p].seen)) + reserved > MaxTasks
  \/ Cardinality(op[p].seen) + 1 > MaxBriefs

\* MUTANT of OverLimit: no slot is kept for the cross-cutting task.
OverLimitUnreserved(p, t) ==
  \/ task[t].origin = 0 /\ Cardinality(Counted(op[p].seen)) >= MaxTasks
  \/ Cardinality(op[p].seen) + 1 > MaxBriefs

\* limitReason, from what p read: the cross-cutting task keeps its slot.
OverLimit(p, t) ==
  LET reserved == IF Kind(t) # "crosscut" /\ op[p].crosscut THEN 1 ELSE 0 IN
  \/ task[t].origin = 0 /\ Cardinality(Counted(op[p].seen)) + reserved >= MaxTasks
  \/ Cardinality(op[p].seen) + 1 > MaxBriefs

\* MUTANT of ReachLimit: what does not fit is always looked past.
ReachLimitLooksPast(p, t) ==
  /\ First(p, t)
  /\ t \notin op[p].seen
  /\ OverLimit(p, t)
  /\ Drop(p, t)
  /\ UNCHANGED <<plan, task, found, returns>>

\* A limit is reached: look past this task to the cross-cutting one, or stop
\* and close, one by one, what was read as undelivered.
ReachLimit(p, t) ==
  /\ First(p, t)
  /\ t \notin op[p].seen
  /\ OverLimit(p, t)
  /\ IF Kind(t) # "crosscut"
        /\ \E c \in op[p].cands \ op[p].seen : Kind(c) = "crosscut"
     THEN Drop(p, t)
     ELSE op' = [op EXCEPT ![p].step = "stopping", ![p].todo = op[p].cands \ op[p].seen]
  /\ UNCHANGED <<plan, task, found, returns>>

\* claimTask: a fresh token, if the task is still leasable.
Claim(p, t, k) ==
  /\ First(p, t)
  /\ t \in op[p].seen \/ ~OverLimit(p, t)
  /\ Leasable(t)
  /\ Fresh(t, k)
  /\ task' = [task EXCEPT ![t].status = "leased", ![t].token = k,
                          ![t].expired = FALSE, ![t].delivered = TRUE]
  /\ plan' = Touched
  /\ op' = [op EXCEPT ![p] = Idle]
  /\ UNCHANGED <<found, returns>>

\* Another server leased or closed it first.
ClaimFails(p, t) ==
  /\ First(p, t)
  /\ t \in op[p].seen \/ ~OverLimit(p, t)
  /\ ~Leasable(t)
  /\ Drop(p, t)
  /\ UNCHANGED <<plan, task, found, returns>>

\* No candidate is left: the plan is settled, or others hold what remains.
NothingToLease(p) ==
  /\ op[p].step = "leasing"
  /\ op[p].todo = {}
  /\ op' = [op EXCEPT ![p] = [Idle EXCEPT !.step = IF AllClosed THEN "settling" ELSE "idle"]]
  /\ UNCHANGED <<plan, task, found, returns>>

\* stopDelivery: close the undelivered, then settle.
StopDelivery(p) ==
  /\ op[p].step = "stopping"
  /\ IF op[p].todo = {}
     THEN op' = [op EXCEPT ![p] = [Idle EXCEPT !.step = "settling"]] /\ UNCHANGED task
     ELSE \E t \in op[p].todo : CloseUnleased(t, "not_delivered") /\ Drop(p, t)
  /\ UNCHANGED <<plan, found, returns>>

(***************************************************************************)
(* Submitting an answer.                                                   *)
(***************************************************************************)

\* The plan and the task are read, the token is checked, the answer validated.
Submit(p, t, k) ==
  /\ op[p].step = "idle"
  /\ plan.status # "abandoned"
  /\ Held(t, k)
  /\ \E a \in {"valid", "stale", "invalid"} :
       /\ a = "stale" => Kind(t) = "verify"
       /\ op' = [op EXCEPT ![p] = [Idle EXCEPT !.step = "answering", !.task = t,
                                               !.token = k, !.answer = a]]
  /\ UNCHANGED <<plan, task, found, returns>>

Answers(p, t, step) == op[p].step = step /\ op[p].task = t

\* The task is closed, or held by another by now (lostRace): nothing changes.
LostRace(p, t) ==
  /\ Answers(p, t, "answering") \/ Answers(p, t, "closing")
  /\ ~Held(t, op[p].token)
  /\ op' = [op EXCEPT ![p] = [Idle EXCEPT !.step = IF op[p].step = "closing"
                                                   THEN "settling" ELSE "idle"]]
  /\ UNCHANGED <<plan, task, found, returns>>

\* MUTANT of Refuse: one invalid answer more is let through.
RefuseLate(p, t) ==
  /\ Answers(p, t, "answering")
  /\ op[p].answer = "invalid"
  /\ Held(t, op[p].token)
  /\ LET n == task[t].attempts + 1 IN
     /\ task' = [task EXCEPT ![t].attempts = n]
     /\ op' = [op EXCEPT ![p] = IF n > MaxInvalid THEN [@ EXCEPT !.step = "closing"] ELSE Idle]
  /\ UNCHANGED <<plan, found, returns>>

\* recordInvalidSubmission: the last invalid answer goes on to close the task.
Refuse(p, t) ==
  /\ Answers(p, t, "answering")
  /\ op[p].answer = "invalid"
  /\ Held(t, op[p].token)
  /\ LET n == task[t].attempts + 1 IN
     /\ task' = [task EXCEPT ![t].attempts = Min({n, MaxInvalid})]
     /\ op' = [op EXCEPT ![p] = IF n >= MaxInvalid THEN [@ EXCEPT !.step = "closing"] ELSE Idle]
  /\ UNCHANGED <<plan, found, returns>>

CloseInvalid(p, t) ==
  /\ Answers(p, t, "closing")
  /\ Held(t, op[p].token)
  /\ task' = CloseAs(t, "invalid_submissions")
  /\ plan' = Touched
  /\ op' = [op EXCEPT ![p] = [Idle EXCEPT !.step = "settling"]]
  /\ UNCHANGED <<found, returns>>

\* MUTANT of AcceptVerdict: the lease checked on reading is not asked for again.
AcceptVerdictUnguarded(p, t) ==
  /\ Answers(p, t, "answering")
  /\ Kind(t) = "verify"
  /\ op[p].answer \in {"valid", "stale"}
  /\ task' = CloseAs(t, op[p].answer)
  /\ plan' = Touched
  /\ op' = [op EXCEPT ![p] = [Idle EXCEPT !.step = "settling"]]
  /\ UNCHANGED <<found, returns>>

\* acceptVerdict: the verdict is recorded with the close, or is stale.
AcceptVerdict(p, t) ==
  /\ Answers(p, t, "answering")
  /\ Kind(t) = "verify"
  /\ op[p].answer \in {"valid", "stale"}
  /\ Held(t, op[p].token)
  /\ task' = CloseAs(t, op[p].answer)
  /\ plan' = Touched
  /\ op' = [op EXCEPT ![p] = [Idle EXCEPT !.step = "settling"]]
  /\ UNCHANGED <<found, returns>>

\* The tasks after n new findings of the hunt t, which is closed.
AfterHunt(t, n) ==
  LET fresh == Cardinality(Existing) + 1 .. Cardinality(Existing) + n
      closed == CloseAs(t, "valid")
  IN  [u \in TaskIds |-> IF u \in fresh THEN NewTask("open", t) ELSE closed[u]]

\* MUTANT of AcceptHunt: tasks that could not be added take nothing back.
AcceptHuntAnyway(p, t) ==
  /\ Answers(p, t, "answering")
  /\ Kind(t) # "verify"
  /\ op[p].answer = "valid"
  /\ Held(t, op[p].token)
  /\ \E n \in 0 .. Cardinality(TaskIds \ Existing) :
       /\ task' = AfterHunt(t, IF plan.status = "open" THEN n ELSE 0)
       /\ found' = found \cup (Cardinality(Existing) + 1 .. Cardinality(Existing) + n)
  /\ plan' = Touched
  /\ op' = [op EXCEPT ![p] = [Idle EXCEPT !.step = "settling"]]
  /\ UNCHANGED returns

\* acceptHunt: one transaction closes the task, stores its new findings and
\* adds a verify task for each - or, if the plan is no longer open, is rolled
\* back (store_failed).
AcceptHunt(p, t) ==
  /\ Answers(p, t, "answering")
  /\ Kind(t) # "verify"
  /\ op[p].answer = "valid"
  /\ Held(t, op[p].token)
  /\ \E n \in 0 .. Cardinality(TaskIds \ Existing) :
       IF n = 0 \/ plan.status = "open"
       THEN /\ task' = AfterHunt(t, n)
            /\ found' = found \cup {u \in TaskIds : task[u].status = "absent" /\ task'[u].status = "open"}
            /\ plan' = Touched
            /\ op' = [op EXCEPT ![p] = [Idle EXCEPT !.step = "settling"]]
       ELSE /\ op' = [op EXCEPT ![p] = Idle]
            /\ UNCHANGED <<task, found, plan>>
  /\ UNCHANGED returns

(***************************************************************************)
(* Settling, and what happens around the calls.                            *)
(***************************************************************************)

\* MUTANT of SettleRead: no task waits for delivery.
SettleNothingOpen(p) ==
  /\ op[p].step = "settling"
  /\ op' = [op EXCEPT ![p] = [Idle EXCEPT
              !.step = IF /\ plan.status = "open"
                          /\ \A t \in Existing : task[t].status # "open"
                       THEN "completing" ELSE "idle"]]
  /\ UNCHANGED <<plan, task, found, returns>>

\* settlePlan reads the plan and its tasks ...
SettleRead(p) ==
  /\ op[p].step = "settling"
  /\ op' = [op EXCEPT ![p] = [Idle EXCEPT
              !.step = IF plan.status = "open" /\ AllClosed THEN "completing" ELSE "idle"]]
  /\ UNCHANGED <<plan, task, found, returns>>

\* ... and completes it if it is still open.
Complete(p) ==
  /\ op[p].step = "completing"
  /\ plan' = IF plan.status = "open" THEN [plan EXCEPT !.status = "complete"] ELSE plan
  /\ op' = [op EXCEPT ![p] = Idle]
  /\ UNCHANGED <<task, found, returns>>

\* planStatus: the report settles the plan, too.
Report(p) ==
  /\ op[p].step = "idle"
  /\ plan.status = "open"
  /\ op' = [op EXCEPT ![p] = [Idle EXCEPT !.step = "settling"]]
  /\ UNCHANGED <<plan, task, found, returns>>

\* releaseLease: sampling cut short gives its verify task back, attempts kept.
\* It alone knows the token, so no answer under it is being taken.
GiveBack(t, k) ==
  /\ Held(t, k)
  /\ Kind(t) = "verify"
  /\ \A p \in Servers : op[p].task = t => op[p].token # k
  /\ task' = [task EXCEPT ![t].status = "open", ![t].token = NoToken, ![t].expired = FALSE]
  /\ returns < MaxReturns
  /\ returns' = returns + 1
  /\ UNCHANGED <<plan, found, op>>

\* Twenty minutes pass.  A lease call judges by the time it began: for the calls
\* that have t among their candidates a lease made since has not expired.
LeaseExpires(t) ==
  /\ task[t].status = "leased"
  /\ ~task[t].expired
  /\ \A p \in Servers : t \notin op[p].cands
  /\ task' = [task EXCEPT ![t].expired = TRUE]
  /\ returns < MaxReturns
  /\ returns' = returns + 1
  /\ UNCHANGED <<plan, found, op>>

\* Thirty days pass without a lease or an answer: every lease has expired.
PlanIdles ==
  /\ plan.status = "open"
  /\ ~plan.idle
  /\ \A t \in Existing : task[t].status = "leased" => task[t].expired
  /\ plan' = [plan EXCEPT !.idle = TRUE]
  /\ UNCHANGED <<task, found, op, returns>>

\* abandonStalePlans, when a server starts.
Retired == IF plan.idle /\ plan.status = "open" THEN [plan EXCEPT !.status = "abandoned"] ELSE plan

\* A server dies between two statements ...
Crash(p) ==
  /\ op[p].step \notin {"down", "idle"}
  /\ op' = [op EXCEPT ![p] = [Idle EXCEPT !.step = "down"]]
  /\ UNCHANGED <<plan, task, found, returns>>

\* ... and starts again.
Start(p) ==
  /\ op[p].step = "down"
  /\ plan' = Retired
  /\ op' = [op EXCEPT ![p] = Idle]
  /\ UNCHANGED <<task, found, returns>>

\* A server that takes no other part starts.
Abandon ==
  /\ plan.status = "open"
  /\ plan.idle
  /\ plan' = Retired
  /\ UNCHANGED <<task, found, op, returns>>

LeaseStep(p) ==
  \/ \E t \in TaskIds : SkipStale(p, t) \/ ReachLimit(p, t) \/ ClaimFails(p, t)
  \/ \E t \in TaskIds, k \in Tokens : Claim(p, t, k)
  \/ NothingToLease(p)
  \/ StopDelivery(p)

AnswerStep(p) ==
  \E t \in TaskIds : LostRace(p, t) \/ Refuse(p, t) \/ CloseInvalid(p, t)
                     \/ AcceptVerdict(p, t) \/ AcceptHunt(p, t)

ServerStep(p) == LeaseStep(p) \/ AnswerStep(p) \/ SettleRead(p) \/ Complete(p)

Next ==
  \/ \E p \in Servers : LeaseNext(p, AllKinds) \/ LeaseNext(p, {"verify"})
  \/ \E p \in Servers : Report(p) \/ ServerStep(p) \/ Crash(p) \/ Start(p)
  \/ \E p \in Servers, t \in TaskIds, k \in Tokens : Submit(p, t, k)
  \/ \E t \in TaskIds, k \in Tokens : GiveBack(t, k)
  \/ \E t \in TaskIds : LeaseExpires(t)
  \/ PlanIdles
  \/ Abandon

Spec == Init /\ [][Next]_vars

\* Hosts ask for the next task and answer the one they hold "until step task
\* answers { done: true }"; a call that began is one synchronous block, and
\* servers do not crash for ever.
Fairness ==
  /\ \A p \in Servers : WF_vars(ServerStep(p)) /\ WF_vars(Start(p)) /\ SF_vars(LeaseNext(p, AllKinds))
  /\ \A p \in Servers : SF_vars(\E t \in TaskIds, k \in Tokens : Submit(p, t, k))
  /\ <>[][\A p \in Servers : ~Crash(p)]_vars

FairSpec == Spec /\ Fairness

-----------------------------------------------------------------------------
\* Every step of the protocol is one of the promise, or none at all: a late or
\* second answer never replaces the first, nothing is added to a plan that was
\* given up, and a plan is complete only when nothing is left to do.
Promise == INSTANCE LlmPromise WITH
  Tasks <- TaskIds,
  Reasons <- {"valid", "stale", "invalid_submissions", "not_delivered"},
  status <- plan.status,
  pending <- {t \in Existing : ~Closed(t)},
  outcome <- [t \in {u \in TaskIds : Closed(u)} |-> task[t].reason]

KeepsPromise == Promise!Spec

\* A complete plan has no task left, not even one added while it was settled.
CompleteIsDone == plan.status = "complete" => AllClosed

\* A hunt's finding is never stored without the task that checks it, whatever
\* becomes of the plan between the submission's read and its transaction.
FindingsAreChecked == \A f \in found : task[f].status # "absent"

\* An answer is recorded only for who holds the task then: an answer that comes
\* after the lease went to another, or after a give-back, changes nothing.
AnswersAreOfTheHolder ==
  [][\A t \in TaskIds :
       task'[t].reason \in {"valid", "invalid_submissions"} /\ ~Closed(t) =>
         \E p \in Servers : op[p].task = t /\ op[p].token = task[t].token
                            /\ task[t].status = "leased"]_vars

\* Delivery stops at max_tasks ...
DeliveredWithinMax == Cardinality(Counted(Delivered)) <= MaxTasks

\* ... and the cross-cutting task is among those delivered: while briefs are
\* left, it is not closed undelivered for want of a slot.
CrosscutKeepsItsSlot ==
  \A t \in Existing : Kind(t) = "crosscut" /\ task[t].reason = "not_delivered" =>
    Cardinality(Delivered) >= MaxBriefs

\* A plan whose hosts go on asking and answering ends, whatever its limits.
PlanEnds == <>(plan.status # "open")
=============================================================================
