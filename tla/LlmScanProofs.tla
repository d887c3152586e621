---------------------------- MODULE LlmScanProofs ----------------------------
(***************************************************************************)
(* For every plan, every number of servers, tokens and limits: the lease   *)
(* protocol keeps the promise of LlmPromise.  Each step of it leaves all   *)
(* outcomes alone, closes one task that was not closed, or ends the plan;  *)
(* the theorems follow from that.  Delivery, in the second part, exceeds   *)
(* max_tasks by less than the number of servers, and not at all if there   *)
(* is one, which then keeps a slot for the cross-cutting task.             *)
(***************************************************************************)
EXTENDS LlmScan, FiniteSetTheorems, TLAPS

\* Tasks are numbered without a gap, so a new one never takes the row of another.
Numbered == \E n \in 0 .. Planned + MaxFindings : Existing = 1 .. n

\* Who is about to complete the plan saw its last task closed, and nothing
\* can have been added since: that takes a task under lease.
CompletingIsDone == \A p \in Servers : op[p].step = "completing" => AllClosed

OutcomeOnClose == \A t \in TaskIds : ~Closed(t) => task[t].reason = "none"

IInv ==
  /\ TypeOK
  /\ Numbered
  /\ CompleteIsDone
  /\ CompletingIsDone
  /\ FindingsAreChecked
  /\ OutcomeOnClose

-----------------------------------------------------------------------------
\* What a step does to the tasks that the promise is about.

\* Nothing but leases, attempts and the plan's idleness.
KeepsTasks ==
  /\ \A t \in TaskIds :
       /\ task'[t].reason = task[t].reason
       /\ task'[t].status = "absent" <=> task[t].status = "absent"
       /\ task'[t].status = "closed" <=> task[t].status = "closed"
  /\ plan'.status = plan.status
  /\ found' = found

Reasons == {"valid", "stale", "invalid_submissions", "not_delivered"}

\* The task t is closed for r, on an answer of its holder or for want of one,
\* and `further` are added, as the next numbers, with the findings they check.
ClosesTask(t, r, further) ==
  /\ task[t].status \in {"open", "leased"}
  /\ r \in {"valid", "invalid_submissions"} =>
       \E p \in Servers : op[p].task = t /\ op[p].token = task[t].token
                          /\ task[t].status = "leased"
  /\ task'[t].status = "closed" /\ task'[t].reason = r
  /\ further # {} => plan.status = "open" /\ r = "valid" /\ Numbered'
  /\ \A u \in further : task[u].status = "absent" /\ task'[u].status = "open"
                        /\ task'[u].reason = "none"
  /\ \A u \in TaskIds \ (further \cup {t}) : task'[u] = task[u]
  /\ plan'.status = plan.status
  /\ found' = found \cup further

\* The plan ends: complete with every task closed, or given up.
EndsPlan ==
  /\ plan.status = "open"
  /\ plan'.status = "abandoned" \/ (plan'.status = "complete" /\ AllClosed)
  /\ task' = task /\ found' = found

\* Only one who sees every task closed sets out to complete the plan, and it
\* changes no task in that step.
SetsOut ==
  \A p \in Servers : op'[p].step = "completing" =>
    op[p].step = "completing" \/ (AllClosed /\ task' = task)

Effect ==
  /\ SetsOut
  /\ \/ KeepsTasks
     \/ \E t \in TaskIds, r \in Reasons, further \in SUBSET TaskIds : ClosesTask(t, r, further)
     \/ EndsPlan

-----------------------------------------------------------------------------
\* The smaller of two numbers is one of them.
LEMMA MinOfTwo ==
  ASSUME NEW a \in Nat, NEW b \in Nat
  PROVE  Min({a, b}) \in 0 .. b
<1>1. \E x \in {a, b} : \A y \in {a, b} : x =< y
  OBVIOUS
<1>2. Min({a, b}) \in {a, b} /\ \A y \in {a, b} : Min({a, b}) =< y
  BY <1>1 DEF Min
<1> QED BY <1>2

\* A server between two statements is one after it has gone on to the next.
LEMMA NextOp ==
  ASSUME op \in [Servers -> Op], NEW p \in Servers, NEW o \in Op,
         op' = [op EXCEPT ![p] = o]
  PROVE  /\ op' \in [Servers -> Op]
         /\ o.step # "completing" => SetsOut
BY DEF SetsOut

\* A server between two calls is a server.
LEMMA IdleIsOp == Idle \in Op
BY DEF Idle, Op, NoToken, TaskIds

\* What a server is left with when it drops a candidate.
LEMMA DropOp ==
  ASSUME op \in [Servers -> Op], NEW p \in Servers, NEW t \in TaskIds, Drop(p, t)
  PROVE  op' \in [Servers -> Op] /\ SetsOut
BY DEF Drop, Op, SetsOut

\* closeUnleased closes a task that was not, or nothing.
LEMMA CloseUnleasedCloses ==
  ASSUME TypeOK, NEW t \in TaskIds, NEW r \in {"stale", "not_delivered"},
         CloseUnleased(t, r), plan' = plan, found' = found
  PROVE  /\ task' \in [TaskIds -> Task]
         /\ KeepsTasks \/ ClosesTask(t, r, {})
<1>1. CASE Leasable(t)
  <2> DEFINE w == [task[t] EXCEPT !.status = "closed", !.reason = r,
                                  !.token = NoToken, !.expired = FALSE]
  <2>1. task \in [TaskIds -> Task] /\ task[t] \in Task
    BY DEF TypeOK
  <2>2. w \in Task /\ w.status = "closed" /\ w.reason = r
    BY <2>1 DEF Task, NoToken
  <2>3. task' = [task EXCEPT ![t] = w]
    BY <1>1 DEF CloseUnleased
  <2>4. task[t].status \in {"open", "leased"}
    BY <1>1 DEF Leasable
  <2> HIDE DEF w
  <2> QED BY <2>1, <2>2, <2>3, <2>4 DEF ClosesTask
<1>2. CASE ~Leasable(t)
  BY <1>2 DEF CloseUnleased, TypeOK, KeepsTasks
<1> QED BY <1>1, <1>2

\* A step that closes a task is among the effects.
LEMMA EffectOfClosing ==
  ASSUME SetsOut, NEW t \in TaskIds, NEW r \in Reasons, NEW further \in SUBSET TaskIds,
         ClosesTask(t, r, further)
  PROVE  Effect
BY DEF Effect

\* Reading the plan, or dying, changes nothing but the server's own state.
LEMMA LeaseCall ==
  ASSUME IInv, NEW p \in Servers,
         NEW kinds \in {AllKinds, {"verify"}},
         LeaseNext(p, kinds) \/ NothingToLease(p) \/ Report(p) \/ SettleRead(p) \/ Crash(p)
  PROVE  TypeOK' /\ Effect
<1> DEFINE cands == {t \in Existing : Leasable(t) /\ Kind(t) \in kinds}
           crosscut == \E t \in Existing \ Delivered : Kind(t) = "crosscut" /\ ~Closed(t)
<1>1. KeepsTasks /\ UNCHANGED <<task, plan, found, returns>> /\ op \in [Servers -> Op]
  BY DEF IInv, TypeOK, LeaseNext, NothingToLease, Report, SettleRead, Crash, KeepsTasks
<1>2. CASE LeaseNext(p, kinds)
  <2>1. cands \in SUBSET TaskIds /\ Delivered \in SUBSET TaskIds /\ crosscut \in BOOLEAN
    BY DEF Existing, Delivered
  <2> DEFINE o == [Idle EXCEPT !.step = "leasing", !.todo = cands, !.cands = cands,
                               !.seen = Delivered, !.crosscut = crosscut]
  <2>2. op' = [op EXCEPT ![p] = o]
    BY <1>2 DEF LeaseNext
  <2> HIDE DEF cands, crosscut
  <2>3. o \in Op /\ o.step # "completing"
    BY <2>1, IdleIsOp DEF Idle, Op
  <2> HIDE DEF o
  <2>4. op' \in [Servers -> Op] /\ SetsOut
    BY <1>1, <2>2, <2>3, NextOp
  <2> QED BY <1>1, <2>4 DEF IInv, TypeOK, Effect
<1>3. CASE NothingToLease(p) \/ Report(p) \/ Crash(p)
  <2>1. PICK step \in {"settling", "idle", "down"} : op' = [op EXCEPT ![p] = [Idle EXCEPT !.step = step]]
    <3>1. CASE NothingToLease(p) /\ AllClosed
      BY <3>1 DEF NothingToLease
    <3>2. CASE NothingToLease(p) /\ ~AllClosed
      BY <3>2 DEF NothingToLease
    <3>3. CASE Report(p) \/ Crash(p)
      BY <3>3 DEF Report, Crash
    <3> QED BY <1>3, <3>1, <3>2, <3>3
  <2>2. [Idle EXCEPT !.step = step] \in Op /\ [Idle EXCEPT !.step = step].step # "completing"
    BY IdleIsOp DEF Idle, Op
  <2>3. op' \in [Servers -> Op] /\ SetsOut
    BY <1>1, <2>1, <2>2, NextOp
  <2> QED BY <1>1, <2>3 DEF IInv, TypeOK, Effect
<1>4. CASE SettleRead(p)
  <2>1. PICK step \in {"completing", "idle"} :
          /\ op' = [op EXCEPT ![p] = [Idle EXCEPT !.step = step]]
          /\ step = "completing" => AllClosed
    BY <1>4 DEF SettleRead
  <2> DEFINE o == [Idle EXCEPT !.step = step]
  <2>2. o \in Op /\ o.step = step
    BY IdleIsOp DEF Idle, Op
  <2>3. op' = [op EXCEPT ![p] = o]
    BY <2>1
  <2> HIDE DEF o
  <2>4. op' \in [Servers -> Op] /\ op'[p] = o /\ \A q \in Servers \ {p} : op'[q] = op[q]
    BY <1>1, <2>2, <2>3
  <2>5. SetsOut
    BY <1>1, <2>1, <2>2, <2>4 DEF SetsOut
  <2> QED BY <1>1, <2>4, <2>5 DEF IInv, TypeOK, Effect
<1> QED BY <1>2, <1>3, <1>4

\* Looking at the candidates changes a task only where one is closed.
LEMMA Candidates ==
  ASSUME IInv, NEW p \in Servers, NEW t \in TaskIds,
         SkipStale(p, t) \/ ReachLimit(p, t) \/ ClaimFails(p, t)
  PROVE  TypeOK' /\ Effect
<1>1. op \in [Servers -> Op] /\ op[p] \in Op
  BY DEF IInv, TypeOK
<1>2. CASE SkipStale(p, t)
  <2>1. CloseUnleased(t, "stale") /\ Drop(p, t) /\ UNCHANGED <<plan, found, returns>>
    BY <1>2 DEF SkipStale
  <2>2. op' \in [Servers -> Op] /\ SetsOut
    BY <1>1, <2>1, DropOp
  <2>3. task' \in [TaskIds -> Task] /\ (KeepsTasks \/ ClosesTask(t, "stale", {}))
    BY <2>1, CloseUnleasedCloses DEF IInv
  <2>4. Effect
    BY <2>2, <2>3, EffectOfClosing DEF Effect, Reasons
  <2> QED BY <2>1, <2>2, <2>3, <2>4 DEF IInv, TypeOK
<1>3. CASE ClaimFails(p, t)
  <2>1. Drop(p, t) /\ UNCHANGED <<plan, task, found, returns>>
    BY <1>3 DEF ClaimFails
  <2>2. op' \in [Servers -> Op] /\ SetsOut
    BY <1>1, <2>1, DropOp
  <2> QED BY <2>1, <2>2 DEF IInv, TypeOK, Effect, KeepsTasks
<1>4. CASE ReachLimit(p, t)
  <2>1. UNCHANGED <<plan, task, found, returns>>
    BY <1>4 DEF ReachLimit
  <2>2. op' \in [Servers -> Op] /\ SetsOut
    <3>1. CASE Drop(p, t)
      BY <1>1, <3>1, DropOp
    <3>2. CASE op' = [op EXCEPT ![p].step = "stopping", ![p].todo = op[p].cands \ op[p].seen]
      BY <1>1, <3>2 DEF Op, SetsOut
    <3> QED BY <1>4, <3>1, <3>2 DEF ReachLimit
  <2> QED BY <2>1, <2>2 DEF IInv, TypeOK, Effect, KeepsTasks
<1> QED BY <1>2, <1>3, <1>4

\* claimTask takes a lease and closes nothing.
LEMMA ClaimEffect ==
  ASSUME IInv, NEW p \in Servers, NEW t \in TaskIds, NEW k \in Tokens, Claim(p, t, k)
  PROVE  TypeOK' /\ Effect
<1>1. op' \in [Servers -> Op] /\ SetsOut
  <2>1. op \in [Servers -> Op] /\ Idle \in Op /\ Idle.step # "completing"
    BY IdleIsOp DEF IInv, TypeOK, Idle
  <2> QED BY <2>1, NextOp DEF Claim
<1> DEFINE w == [task[t] EXCEPT !.status = "leased", !.token = k, !.expired = FALSE, !.delivered = TRUE]
<1>2. task \in [TaskIds -> Task] /\ task[t] \in Task /\ plan \in [status : {"open", "complete", "abandoned"}, idle : BOOLEAN]
  BY DEF IInv, TypeOK
<1>3. w \in Task /\ w.status = "leased" /\ w.reason = task[t].reason
  BY <1>2 DEF Task
<1>4. task' = [task EXCEPT ![t] = w] /\ task[t].status \in {"open", "leased"}
  BY DEF Claim, Leasable
<1> HIDE DEF w
<1>5. plan' \in [status : {"open", "complete", "abandoned"}, idle : BOOLEAN] /\ plan'.status = plan.status
  BY <1>2 DEF Claim, Touched
<1>6. UNCHANGED <<found, returns>>
  BY DEF Claim
<1>7. KeepsTasks
  BY <1>2, <1>3, <1>4, <1>5, <1>6 DEF KeepsTasks
<1> QED BY <1>1, <1>2, <1>3, <1>4, <1>5, <1>6, <1>7 DEF IInv, TypeOK, Effect

\* stopDelivery closes what was not delivered, one task at a time.
LEMMA StopDeliveryEffect ==
  ASSUME IInv, NEW p \in Servers, StopDelivery(p)
  PROVE  TypeOK' /\ Effect
<1>1. op \in [Servers -> Op] /\ op[p] \in Op /\ UNCHANGED <<plan, found, returns>>
  BY DEF IInv, TypeOK, StopDelivery
<1>2. CASE op[p].todo = {}
  <2>1. op' = [op EXCEPT ![p] = [Idle EXCEPT !.step = "settling"]] /\ task' = task
    BY <1>2 DEF StopDelivery
  <2>2. [Idle EXCEPT !.step = "settling"] \in Op /\ [Idle EXCEPT !.step = "settling"].step # "completing"
    BY IdleIsOp DEF Idle, Op
  <2>3. op' \in [Servers -> Op] /\ SetsOut
    BY <1>1, <2>1, <2>2, NextOp
  <2> QED BY <1>1, <2>1, <2>3 DEF IInv, TypeOK, Effect, KeepsTasks
<1>3. CASE op[p].todo # {}
  <2>1. PICK t \in op[p].todo : CloseUnleased(t, "not_delivered") /\ Drop(p, t)
    BY <1>3 DEF StopDelivery
  <2>2. t \in TaskIds
    BY <1>1 DEF Op
  <2>3. op' \in [Servers -> Op] /\ SetsOut
    BY <1>1, <2>1, <2>2, DropOp
  <2>4. task' \in [TaskIds -> Task] /\ (KeepsTasks \/ ClosesTask(t, "not_delivered", {}))
    BY <1>1, <2>1, <2>2, CloseUnleasedCloses DEF IInv
  <2>5. Effect
    BY <2>2, <2>3, <2>4, EffectOfClosing DEF Effect, Reasons
  <2> QED BY <1>1, <2>2, <2>3, <2>4, <2>5 DEF IInv, TypeOK
<1> QED BY <1>2, <1>3

\* An answer that is refused or comes too late closes nothing.
LEMMA LateOrRefused ==
  ASSUME IInv, NEW p \in Servers, NEW t \in TaskIds, LostRace(p, t) \/ Refuse(p, t)
  PROVE  TypeOK' /\ Effect
<1>1. /\ op \in [Servers -> Op] /\ op[p] \in Op
      /\ task \in [TaskIds -> Task] /\ task[t] \in Task
  BY DEF IInv, TypeOK
<1>2. CASE LostRace(p, t)
  <2>1. PICK step \in {"settling", "idle"} : op' = [op EXCEPT ![p] = [Idle EXCEPT !.step = step]]
    BY <1>2 DEF LostRace
  <2>2. [Idle EXCEPT !.step = step] \in Op /\ [Idle EXCEPT !.step = step].step # "completing"
    BY IdleIsOp DEF Idle, Op
  <2>3. op' \in [Servers -> Op] /\ SetsOut
    BY <1>1, <2>1, <2>2, NextOp
  <2> QED BY <1>2, <2>3 DEF LostRace, IInv, TypeOK, Effect, KeepsTasks
<1>3. CASE Refuse(p, t)
  <2> DEFINE n == task[t].attempts + 1
             w == [task[t] EXCEPT !.attempts = Min({n, MaxInvalid})]
  <2>1. n \in Nat /\ MaxInvalid \in Nat
    BY <1>1, LimitsAssumption DEF Task
  <2>2. Min({n, MaxInvalid}) \in 0 .. MaxInvalid
    BY <2>1, MinOfTwo
  <2>3. w \in Task /\ w.status = task[t].status /\ w.reason = task[t].reason
    BY <1>1, <2>2 DEF Task
  <2>4. task' = [task EXCEPT ![t] = w] /\ UNCHANGED <<plan, found, returns>>
    BY <1>3 DEF Refuse
  <2>5. PICK o : /\ op' = [op EXCEPT ![p] = o]
                 /\ o = [op[p] EXCEPT !.step = "closing"] \/ o = Idle
    BY <1>3 DEF Refuse
  <2>6. o \in Op /\ o.step # "completing"
    BY <1>1, <2>5, IdleIsOp DEF Op, Idle
  <2>7. op' \in [Servers -> Op] /\ SetsOut
    BY <1>1, <2>5, <2>6, NextOp
  <2> HIDE DEF w
  <2>8. task' \in [TaskIds -> Task] /\ KeepsTasks
    BY <1>1, <2>3, <2>4 DEF KeepsTasks
  <2> QED BY <2>4, <2>7, <2>8 DEF IInv, TypeOK, Effect
<1> QED BY <1>2, <1>3

\* An answer under a lease closes its task: the last invalid one, a verdict,
\* or a hunt that found nothing new.
LEMMA CloseAsEffect ==
  ASSUME IInv, NEW p \in Servers, NEW t \in TaskIds, NEW r \in Reasons,
         Held(t, op[p].token), op[p].task = t, task' = CloseAs(t, r), plan' = Touched,
         op' = [op EXCEPT ![p] = [Idle EXCEPT !.step = "settling"]],
         found' = found, returns' = returns
  PROVE  TypeOK' /\ Effect
<1>1. /\ op \in [Servers -> Op] /\ task \in [TaskIds -> Task] /\ task[t] \in Task
      /\ plan \in [status : {"open", "complete", "abandoned"}, idle : BOOLEAN]
  BY DEF IInv, TypeOK
<1>2. [Idle EXCEPT !.step = "settling"] \in Op /\ [Idle EXCEPT !.step = "settling"].step # "completing"
  BY IdleIsOp DEF Idle, Op
<1>3. op' \in [Servers -> Op] /\ SetsOut
  BY <1>1, <1>2, NextOp
<1> DEFINE w == [task[t] EXCEPT !.status = "closed", !.reason = r]
<1>4. w \in Task /\ w.status = "closed" /\ w.reason = r
  BY <1>1 DEF Task, Reasons
<1>5. task' = [task EXCEPT ![t] = w]
  BY DEF CloseAs
<1> HIDE DEF w
<1>6. task' \in [TaskIds -> Task] /\ task'[t] = w /\ \A u \in TaskIds \ {t} : task'[u] = task[u]
  BY <1>1, <1>4, <1>5
<1>7. /\ plan' \in [status : {"open", "complete", "abandoned"}, idle : BOOLEAN]
      /\ plan'.status = plan.status
  BY <1>1 DEF Touched
<1>8. ClosesTask(t, r, {})
  BY <1>4, <1>6, <1>7 DEF ClosesTask, Held
<1>9. Effect
  BY <1>3, <1>8, EffectOfClosing
<1> QED BY <1>3, <1>6, <1>7, <1>9 DEF IInv, TypeOK

\* A verdict, or the last invalid answer, closes the task of its holder.
LEMMA VerdictEffect ==
  ASSUME IInv, NEW p \in Servers, NEW t \in TaskIds, CloseInvalid(p, t) \/ AcceptVerdict(p, t)
  PROVE  TypeOK' /\ Effect
<1>1. CASE CloseInvalid(p, t)
  BY <1>1, CloseAsEffect DEF CloseInvalid, Answers, Reasons
<1>2. CASE AcceptVerdict(p, t)
  <2>1. op[p].answer \in Reasons
    BY <1>2 DEF AcceptVerdict, Reasons
  <2> QED BY <1>2, <2>1, CloseAsEffect DEF AcceptVerdict, Answers
<1> QED BY <1>1, <1>2

\* New tasks take the numbers after the last one, so none is overwritten.
LEMMA HuntEffect ==
  ASSUME IInv, NEW p \in Servers, NEW t \in TaskIds, AcceptHunt(p, t)
  PROVE  TypeOK' /\ Effect
<1>1. /\ op \in [Servers -> Op] /\ task \in [TaskIds -> Task] /\ task[t] \in Task
      /\ plan \in [status : {"open", "complete", "abandoned"}, idle : BOOLEAN]
      /\ found \subseteq TaskIds
  BY DEF IInv, TypeOK
<1>2. /\ Held(t, op[p].token) /\ op[p].task = t /\ op[p].step = "answering"
      /\ returns' = returns
  BY DEF AcceptHunt, Answers
<1>3. PICK last \in 0 .. Planned + MaxFindings : Existing = 1 .. last
  BY DEF IInv, Numbered
<1>4. Planned \in Nat /\ MaxFindings \in Nat /\ last \in Nat /\ last <= Planned + MaxFindings
  BY PlannedAssumption, LimitsAssumption
<1>5. Cardinality(Existing) = last
  BY <1>3, <1>4, FS_Interval
<1>6. TaskIds \ Existing = last + 1 .. Planned + MaxFindings
  BY <1>3, <1>4 DEF TaskIds
<1>7. Cardinality(TaskIds \ Existing) = (Planned + MaxFindings) - last
  <2> DEFINE a == last + 1
             b == Planned + MaxFindings
  <2>1. a \in Int /\ b \in Int /\ (a > b => 0 = b - last) /\ b - a + 1 = b - last
    BY <1>4
  <2>2. TaskIds \ Existing = a .. b
    BY <1>6
  <2> HIDE DEF a, b
  <2>3. Cardinality(a .. b) = IF a > b THEN 0 ELSE b - a + 1
    BY <2>1, FS_Interval
  <2>4. Cardinality(a .. b) = b - last
    BY <2>1, <2>3
  <2> QED BY <2>2, <2>4 DEF b
<1>8. PICK n \in 0 .. Cardinality(TaskIds \ Existing) :
        IF n = 0 \/ plan.status = "open"
        THEN /\ task' = AfterHunt(t, n)
             /\ found' = found \cup {u \in TaskIds : task[u].status = "absent" /\ task'[u].status = "open"}
             /\ plan' = Touched
             /\ op' = [op EXCEPT ![p] = [Idle EXCEPT !.step = "settling"]]
        ELSE /\ op' = [op EXCEPT ![p] = Idle]
             /\ UNCHANGED <<task, found, plan>>
  BY DEF AcceptHunt
<1>9. CASE ~(n = 0 \/ plan.status = "open")
  <2>1. op' = [op EXCEPT ![p] = Idle] /\ UNCHANGED <<task, found, plan>>
    BY <1>8, <1>9
  <2>2. op' \in [Servers -> Op] /\ SetsOut
    <3>1. Idle.step # "completing"
      BY DEF Idle
    <3> QED BY <1>1, <2>1, <3>1, IdleIsOp, NextOp
  <2> QED BY <1>1, <1>2, <2>1, <2>2 DEF IInv, TypeOK, Effect, KeepsTasks
<1>10. CASE n = 0 \/ plan.status = "open"
  <2> DEFINE further == last + 1 .. last + n
             w == [task[t] EXCEPT !.status = "closed", !.reason = "valid"]
             v == NewTask("open", t)
  <2>1. /\ task' = AfterHunt(t, n) /\ plan' = Touched
        /\ found' = found \cup {u \in TaskIds : task[u].status = "absent" /\ task'[u].status = "open"}
        /\ op' = [op EXCEPT ![p] = [Idle EXCEPT !.step = "settling"]]
    BY <1>8, <1>10
  <2>2. n \in Nat /\ last + n \in 0 .. Planned + MaxFindings
    BY <1>4, <1>7
  <2>3. further \subseteq TaskIds \ Existing /\ (n = 0 => further = {})
    BY <1>4, <1>6, <2>2
  <2>4. t \in Existing /\ t \notin further
    BY <1>2, <2>3 DEF Held, Existing
  <2>5. w \in Task /\ w.status = "closed" /\ w.reason = "valid"
    BY <1>1 DEF Task
  <2>6. v \in Task /\ v.status = "open" /\ v.reason = "none"
    BY LimitsAssumption DEF NewTask, Task, NoToken, TaskIds
  <2>7. task' = [u \in TaskIds |-> IF u \in further THEN v ELSE [task EXCEPT ![t] = w][u]]
    <3>1. CloseAs(t, "valid") = [task EXCEPT ![t] = w]
      BY DEF CloseAs
    <3> QED BY <1>5, <2>1, <3>1 DEF AfterHunt
  <2> HIDE DEF further, w, v
  <2>8. /\ task' \in [TaskIds -> Task]
        /\ task'[t] = w
        /\ \A u \in further : task'[u] = v
        /\ \A u \in TaskIds \ (further \cup {t}) : task'[u] = task[u]
    BY <1>1, <2>3, <2>4, <2>5, <2>6, <2>7
  <2>9. {u \in TaskIds : task[u].status = "absent" /\ task'[u].status = "open"} = further
    BY <2>3, <2>4, <2>5, <2>6, <2>8 DEF Existing
  <2>10. Existing' = 1 .. last + n
    <3>1. Existing' = Existing \cup further
      BY <2>3, <2>4, <2>5, <2>6, <2>8 DEF Existing
    <3> QED BY <1>3, <1>4, <2>2, <3>1 DEF further
  <2>11. Numbered'
    BY <2>2, <2>10 DEF Numbered
  <2>12. /\ plan' \in [status : {"open", "complete", "abandoned"}, idle : BOOLEAN]
         /\ plan'.status = plan.status
    BY <1>1, <2>1 DEF Touched
  <2>13. op' \in [Servers -> Op] /\ SetsOut
    <3>1. [Idle EXCEPT !.step = "settling"] \in Op /\ [Idle EXCEPT !.step = "settling"].step # "completing"
      BY IdleIsOp DEF Idle, Op
    <3> QED BY <1>1, <2>1, <3>1, NextOp
  <2>14. ClosesTask(t, "valid", further)
    <3>1. \A u \in further : task[u].status = "absent"
      BY <2>3 DEF Existing
    <3>2. further # {} => plan.status = "open"
      BY <1>10, <2>3
    <3> QED BY <1>2, <2>1, <2>5, <2>6, <2>8, <2>9, <2>11, <2>12, <3>1, <3>2 DEF ClosesTask, Held
  <2>15. Effect
    BY <2>3, <2>13, <2>14, EffectOfClosing DEF Reasons
  <2> QED BY <1>1, <1>2, <2>1, <2>3, <2>8, <2>9, <2>12, <2>13, <2>15 DEF IInv, TypeOK
<1> QED BY <1>9, <1>10

-----------------------------------------------------------------------------
\* What happens around the calls changes no outcome; a start may give up an idle plan.
LEMMA AroundEffect ==
  ASSUME IInv,
         \/ \E t \in TaskIds, k \in Tokens : GiveBack(t, k)
         \/ \E t \in TaskIds : LeaseExpires(t)
         \/ PlanIdles
         \/ Abandon
         \/ \E p \in Servers : Start(p)
  PROVE  TypeOK' /\ Effect
<1>1. /\ op \in [Servers -> Op] /\ task \in [TaskIds -> Task]
      /\ plan \in [status : {"open", "complete", "abandoned"}, idle : BOOLEAN]
      /\ returns \in Nat /\ MaxReturns \in Nat
  BY LimitsAssumption DEF IInv, TypeOK
<1>2. op' = op => op' \in [Servers -> Op] /\ SetsOut
  BY <1>1 DEF SetsOut
<1>3. ASSUME NEW t \in TaskIds, (\E k \in Tokens : GiveBack(t, k)) \/ LeaseExpires(t)
      PROVE  TypeOK' /\ Effect
  <2>1. /\ UNCHANGED <<plan, found, op>> /\ returns' \in 0 .. MaxReturns
        /\ task[t].status = "leased"
    <3>1. /\ UNCHANGED <<plan, found, op>> /\ task[t].status = "leased"
          /\ returns < MaxReturns /\ returns' = returns + 1
      BY <1>3 DEF GiveBack, LeaseExpires, Held
    <3> QED BY <1>1, <3>1
  <2>2. PICK w \in Task :
          /\ task' = [task EXCEPT ![t] = w]
          /\ w.status \in {"open", "leased"} /\ w.reason = task[t].reason
    <3>1. task[t] \in Task
      BY <1>1
    <3>2. CASE \E k \in Tokens : GiveBack(t, k)
      <4>1. task' = [task EXCEPT ![t] = [task[t] EXCEPT !.status = "open", !.token = NoToken, !.expired = FALSE]]
        BY <3>2 DEF GiveBack
      <4>2. [task[t] EXCEPT !.status = "open", !.token = NoToken, !.expired = FALSE] \in Task
        BY <3>1 DEF Task, NoToken
      <4> QED BY <3>1, <4>1, <4>2 DEF Task
    <3>3. CASE LeaseExpires(t)
      <4>1. task' = [task EXCEPT ![t] = [task[t] EXCEPT !.expired = TRUE]]
        BY <3>3 DEF LeaseExpires
      <4>2. [task[t] EXCEPT !.expired = TRUE] \in Task
        BY <3>1 DEF Task
      <4> QED BY <2>1, <3>1, <4>1, <4>2 DEF Task
    <3> QED BY <1>3, <3>2, <3>3
  <2>3. task' \in [TaskIds -> Task] /\ KeepsTasks
    BY <1>1, <2>1, <2>2 DEF KeepsTasks
  <2> QED BY <1>2, <2>1, <2>3 DEF IInv, TypeOK, Effect
<1>4. CASE PlanIdles
  <2>1. /\ plan' = [plan EXCEPT !.idle = TRUE] /\ UNCHANGED <<task, found, op, returns>>
    BY <1>4 DEF PlanIdles
  <2> QED BY <1>1, <1>2, <2>1 DEF IInv, TypeOK, Effect, KeepsTasks
<1>5. CASE Abandon \/ \E p \in Servers : Start(p)
  <2>1. plan' = Retired /\ UNCHANGED <<task, found, returns>>
    BY <1>5 DEF Abandon, Start
  <2>2. /\ plan' \in [status : {"open", "complete", "abandoned"}, idle : BOOLEAN]
        /\ plan' = plan \/ (plan.status = "open" /\ plan'.status = "abandoned")
    BY <1>1, <2>1 DEF Retired
  <2>3. op' \in [Servers -> Op] /\ SetsOut
    <3>1. ASSUME NEW p \in Servers, Start(p)
          PROVE  op' \in [Servers -> Op] /\ SetsOut
      <4>1. Idle.step # "completing"
        BY DEF Idle
      <4> QED BY <1>1, <3>1, <4>1, IdleIsOp, NextOp DEF Start
    <3> QED BY <1>2, <1>5, <3>1 DEF Abandon
  <2>4. Effect
    BY <2>1, <2>2, <2>3 DEF Effect, KeepsTasks, EndsPlan
  <2> QED BY <2>1, <2>2, <2>3, <2>4 DEF IInv, TypeOK
<1> QED BY <1>3, <1>4, <1>5

\* Only a server that saw every task closed completes the plan.
LEMMA CompleteEffect ==
  ASSUME IInv, NEW p \in Servers, Complete(p)
  PROVE  TypeOK' /\ Effect
<1>1. /\ op \in [Servers -> Op]
      /\ plan \in [status : {"open", "complete", "abandoned"}, idle : BOOLEAN]
      /\ UNCHANGED <<task, found, returns>> /\ AllClosed
  BY DEF IInv, TypeOK, Complete, CompletingIsDone
<1>2. /\ plan' \in [status : {"open", "complete", "abandoned"}, idle : BOOLEAN]
      /\ plan' = plan \/ (plan.status = "open" /\ plan'.status = "complete")
  BY <1>1 DEF Complete
<1>3. op' \in [Servers -> Op] /\ SetsOut
  <2>1. Idle.step # "completing"
    BY DEF Idle
  <2> QED BY <1>1, <2>1, IdleIsOp, NextOp DEF Complete
<1>4. Effect
  BY <1>1, <1>2, <1>3 DEF Effect, KeepsTasks, EndsPlan
<1> QED BY <1>1, <1>2, <1>3, <1>4 DEF IInv, TypeOK

\* A submission is read: nothing but the server's own state changes.
LEMMA SubmitEffect ==
  ASSUME IInv, NEW p \in Servers, NEW t \in TaskIds, NEW k \in Tokens, Submit(p, t, k)
  PROVE  TypeOK' /\ Effect
<1>1. PICK a \in {"valid", "stale", "invalid"} :
        op' = [op EXCEPT ![p] = [Idle EXCEPT !.step = "answering", !.task = t, !.token = k, !.answer = a]]
  BY DEF Submit
<1> DEFINE o == [Idle EXCEPT !.step = "answering", !.task = t, !.token = k, !.answer = a]
<1>2. o \in Op /\ o.step # "completing"
  BY IdleIsOp DEF Idle, Op
<1>3. op \in [Servers -> Op] /\ UNCHANGED <<plan, task, found, returns>>
  BY DEF IInv, TypeOK, Submit
<1>4. op' \in [Servers -> Op] /\ SetsOut
  BY <1>1, <1>2, <1>3, NextOp
<1> QED BY <1>3, <1>4 DEF IInv, TypeOK, Effect, KeepsTasks

\* Every step of the protocol.
LEMMA NextEffect ==
  ASSUME IInv, [Next]_vars
  PROVE  TypeOK' /\ Effect
<1>1. CASE UNCHANGED vars
  BY <1>1 DEF vars, IInv, TypeOK, Effect, KeepsTasks, SetsOut
<1>2. ASSUME NEW p \in Servers, \/ LeaseNext(p, AllKinds) \/ LeaseNext(p, {"verify"})
                                \/ NothingToLease(p) \/ Report(p) \/ SettleRead(p) \/ Crash(p)
      PROVE  TypeOK' /\ Effect
  BY <1>2, LeaseCall
<1>3. ASSUME NEW p \in Servers, LeaseStep(p)
      PROVE  TypeOK' /\ Effect
  BY <1>2, <1>3, Candidates, ClaimEffect, StopDeliveryEffect DEF LeaseStep
<1>4. ASSUME NEW p \in Servers, AnswerStep(p)
      PROVE  TypeOK' /\ Effect
  BY <1>4, LateOrRefused, VerdictEffect, HuntEffect DEF AnswerStep
<1>5. ASSUME NEW p \in Servers, Report(p) \/ ServerStep(p) \/ Crash(p)
      PROVE  TypeOK' /\ Effect
  BY <1>2, <1>3, <1>4, <1>5, CompleteEffect DEF ServerStep
<1> QED BY <1>1, <1>2, <1>5, SubmitEffect, AroundEffect DEF Next

-----------------------------------------------------------------------------
\* The plan starts with Planned open tasks and nothing found.
LEMMA InitIInv == Init => IInv
<1> SUFFICES ASSUME Init PROVE IInv
  OBVIOUS
<1>1. Planned \in Nat \ {0} /\ MaxFindings \in Nat /\ MaxInvalid \in Nat /\ MaxReturns \in Nat
  BY PlannedAssumption, LimitsAssumption
<1>2. \A t \in TaskIds :
        /\ task[t] \in Task
        /\ task[t].status = (IF t <= Planned THEN "open" ELSE "absent")
        /\ task[t].reason = "none"
  BY <1>1 DEF Init, NewTask, Task, NoToken, TaskIds
<1>3. TypeOK
  BY <1>1, <1>2, IdleIsOp DEF Init, TypeOK
<1>4. Existing = 1 .. Planned
  BY <1>1, <1>2 DEF Existing, TaskIds
<1>5. Numbered
  BY <1>1, <1>4 DEF Numbered
<1>6. CompleteIsDone /\ CompletingIsDone /\ FindingsAreChecked /\ OutcomeOnClose
  BY <1>2 DEF Init, CompleteIsDone, CompletingIsDone, Idle, FindingsAreChecked, OutcomeOnClose
<1> QED BY <1>3, <1>5, <1>6 DEF IInv

\* The invariant needs no more of a step than its effect.
LEMMA StepIInv ==
  ASSUME IInv, TypeOK', Effect
  PROVE  IInv'
<1>1. /\ plan \in [status : {"open", "complete", "abandoned"}, idle : BOOLEAN]
      /\ found \subseteq TaskIds
      /\ \A t \in TaskIds : task[t].status \in {"absent", "open", "leased", "closed"}
  BY DEF IInv, TypeOK, Task
<1>2. CASE KeepsTasks
  <2>1. Existing' = Existing /\ (AllClosed' <=> AllClosed)
    BY <1>2 DEF KeepsTasks, Existing, AllClosed, Closed
  <2>2. Numbered' /\ CompleteIsDone' /\ CompletingIsDone'
    BY <1>2, <2>1 DEF IInv, Numbered, CompleteIsDone, CompletingIsDone, KeepsTasks, Effect, SetsOut
  <2>3. FindingsAreChecked' /\ OutcomeOnClose'
    BY <1>1, <1>2 DEF IInv, KeepsTasks, FindingsAreChecked, OutcomeOnClose, Closed
  <2> QED BY <2>2, <2>3 DEF IInv
<1>3. ASSUME NEW t \in TaskIds, NEW r \in Reasons, NEW further \in SUBSET TaskIds,
             ClosesTask(t, r, further)
      PROVE  IInv'
  <2>1. t \in Existing /\ ~AllClosed /\ task' # task
    BY <1>3 DEF ClosesTask, Existing, AllClosed, Closed
  <2>2. CompleteIsDone' /\ CompletingIsDone'
    BY <1>3, <2>1 DEF IInv, CompleteIsDone, CompletingIsDone, ClosesTask, Effect, SetsOut
  <2>3. Existing' = Existing \cup further
    BY <1>3, <2>1 DEF ClosesTask, Existing
  <2>4. Numbered'
    <3>1. CASE further = {}
      BY <2>3, <3>1 DEF IInv, Numbered
    <3>2. CASE further # {}
      BY <1>3, <3>2 DEF ClosesTask
    <3> QED BY <3>1, <3>2
  <2>5. FindingsAreChecked'
    BY <1>1, <1>3, <2>3 DEF IInv, FindingsAreChecked, ClosesTask, Existing
  <2>6. OutcomeOnClose'
    BY <1>3 DEF IInv, OutcomeOnClose, ClosesTask, Closed
  <2> QED BY <2>2, <2>4, <2>5, <2>6 DEF IInv
<1>4. CASE EndsPlan
  <2>1. Existing' = Existing /\ (AllClosed' <=> AllClosed)
    BY <1>4 DEF EndsPlan, Existing, AllClosed, Closed
  <2>2. CompleteIsDone' /\ CompletingIsDone'
    BY <1>4, <2>1 DEF IInv, CompleteIsDone, CompletingIsDone, EndsPlan, Effect, SetsOut
  <2>3. Numbered' /\ FindingsAreChecked' /\ OutcomeOnClose'
    BY <1>4, <2>1 DEF IInv, Numbered, FindingsAreChecked, OutcomeOnClose, EndsPlan, Closed
  <2> QED BY <2>2, <2>3 DEF IInv
<1> QED BY <1>2, <1>3, <1>4 DEF Effect

\* The inductive invariant holds in every reachable state.
THEOREM Invariance == Spec => []IInv
<1>1. IInv /\ [Next]_vars => IInv'
  BY NextEffect, StepIInv
<1> QED BY <1>1, InitIInv, PTL DEF Spec

\* Rows, plan and the servers' states keep their types, whatever is interleaved.
THEOREM TypeCorrect == Spec => []TypeOK
<1>1. IInv => TypeOK
  BY DEF IInv
<1> QED BY <1>1, Invariance, PTL

\* A plan that settlePlan marked complete has no task left, not even one that
\* another server added between the read and the write.
THEOREM CompletePlansAreDone == Spec => []CompleteIsDone
<1>1. IInv => CompleteIsDone
  BY DEF IInv
<1> QED BY <1>1, Invariance, PTL

\* acceptHunt never leaves a finding without the task that checks it.
THEOREM FindingsStayChecked == Spec => []FindingsAreChecked
<1>1. IInv => FindingsAreChecked
  BY DEF IInv
<1> QED BY <1>1, Invariance, PTL

\* closeTask records an answer only for who holds the task at that moment.
THEOREM OnlyHoldersAnswer == Spec => AnswersAreOfTheHolder
<1>1. ASSUME IInv, [Next]_vars, NEW t \in TaskIds,
             task'[t].reason \in {"valid", "invalid_submissions"}, ~Closed(t)
      PROVE  \E p \in Servers : op[p].task = t /\ op[p].token = task[t].token
                                /\ task[t].status = "leased"
  <2>1. Effect /\ task[t].reason = "none"
    BY <1>1, NextEffect DEF IInv, OutcomeOnClose
  <2>2. ~KeepsTasks /\ ~EndsPlan
    BY <1>1, <2>1 DEF KeepsTasks, EndsPlan
  <2>3. PICK u \in TaskIds, r \in Reasons, further \in SUBSET TaskIds : ClosesTask(u, r, further)
    BY <2>1, <2>2 DEF Effect
  <2>4. u = t /\ r \in {"valid", "invalid_submissions"}
    BY <1>1, <2>1, <2>3 DEF ClosesTask
  <2> QED BY <2>3, <2>4 DEF ClosesTask
<1>2. IInv /\ [Next]_vars =>
        \A t \in TaskIds :
          task'[t].reason \in {"valid", "invalid_submissions"} /\ ~Closed(t) =>
            \E p \in Servers : op[p].task = t /\ op[p].token = task[t].token
                               /\ task[t].status = "leased"
  BY <1>1
<1> QED BY <1>2, Invariance, PTL DEF Spec, AnswersAreOfTheHolder

-----------------------------------------------------------------------------
\* The refinement: pending tasks and outcomes, as the promise sees them.
Pending == {t \in Existing : ~Closed(t)}
Outcome == [t \in {u \in TaskIds : Closed(u)} |-> task[t].reason]

\* A new plan has every task pending and no outcome.
LEMMA InitPromise == Init /\ IInv => Promise!Init
<1> SUFFICES ASSUME Init, IInv PROVE Promise!Init
  OBVIOUS
<1>1. \A t \in TaskIds : ~Closed(t)
  BY DEF Init, NewTask, Closed
<1>2. {u \in TaskIds : Closed(u)} = {}
  BY <1>1
<1>3. Outcome = [t \in {} |-> "none"]
  BY <1>2 DEF Outcome
<1>4. Pending \in SUBSET TaskIds /\ plan.status = "open"
  BY DEF Pending, Existing, Init
<1> QED BY <1>3, <1>4 DEF Promise!Init, Pending, Outcome

\* Each effect is a step of the promise, or none.
LEMMA StepPromise ==
  ASSUME IInv, TypeOK', Effect
  PROVE  [Promise!Next]_Promise!vars
<1>1. CASE KeepsTasks
  <2>1. Pending' = Pending
    BY <1>1 DEF KeepsTasks, Pending, Existing, Closed
  <2>2. {u \in TaskIds : Closed(u)}' = {u \in TaskIds : Closed(u)}
    BY <1>1 DEF KeepsTasks, Closed
  <2>3. Outcome' = Outcome
    BY <1>1, <2>2 DEF KeepsTasks, Outcome
  <2> QED BY <1>1, <2>1, <2>3 DEF KeepsTasks, Promise!vars, Pending, Outcome
<1>2. ASSUME NEW t \in TaskIds, NEW r \in Reasons, NEW further \in SUBSET TaskIds,
             ClosesTask(t, r, further)
      PROVE  Promise!Next
  <2> DEFINE done == {u \in TaskIds : Closed(u)}
  <2>1. t \in Pending /\ t \notin further
    BY <1>2 DEF ClosesTask, Pending, Existing, Closed
  <2>2. further \cap (Pending \cup DOMAIN Outcome) = {}
    BY <1>2 DEF ClosesTask, Pending, Outcome, Existing, Closed
  <2>3. Pending' = (Pending \ {t}) \cup further
    BY <1>2, <2>1 DEF ClosesTask, Pending, Existing, Closed
  <2>4. done' = done \cup {t}
    BY <1>2, <2>1 DEF ClosesTask, Closed
  <2>5. \A u \in done : task'[u] = task[u]
    BY <1>2, <2>1 DEF ClosesTask, Closed, Pending
  <2>6. Outcome' = [u \in DOMAIN Outcome \cup {t} |-> IF u = t THEN r ELSE Outcome[u]]
    <3>1. DOMAIN Outcome = done /\ \A u \in done : Outcome[u] = task[u].reason
      BY DEF Outcome
    <3>2. Outcome' = [u \in done' |-> task'[u].reason]
      BY DEF Outcome
    <3>3. \A u \in done \cup {t} : task'[u].reason = IF u = t THEN r ELSE Outcome[u]
      BY <1>2, <2>5, <3>1 DEF ClosesTask
    <3> HIDE DEF done
    <3> QED BY <2>4, <3>1, <3>2, <3>3
  <2>7. Promise!Close(t, r, further)
    BY <1>2, <2>1, <2>2, <2>3, <2>6 DEF Promise!Close, ClosesTask, Pending, Outcome
  <2> QED BY <2>7 DEF Promise!Next, Reasons
<1>3. CASE EndsPlan
  <2>1. Pending' = Pending /\ Outcome' = Outcome
    BY <1>3 DEF EndsPlan, Pending, Outcome, Existing, Closed
  <2>2. AllClosed => Pending = {}
    BY DEF AllClosed, Pending
  <2>3. Promise!Finish \/ Promise!Abandon
    BY <1>3, <2>1, <2>2 DEF EndsPlan, Promise!Finish, Promise!Abandon, Pending, Outcome
  <2> QED BY <2>3 DEF Promise!Next
<1> QED BY <1>1, <1>2, <1>3 DEF Effect

\* The whole: leases, races, crashes and late answers notwithstanding, a plan
\* does what LlmPromise says.
THEOREM ImplementsPromise == Spec => KeepsPromise
<1>1. IInv /\ [Next]_vars => [Promise!Next]_Promise!vars
  BY NextEffect, StepPromise
<1> QED BY <1>1, InitIInv, InitPromise, Invariance, PTL DEF Spec, KeepsPromise, Promise!Spec

-----------------------------------------------------------------------------
\* One server has the plan to itself: the others that may share the database
\* are not asked for its tasks.
OneServer == \A p, q \in Servers : p = q

\* What a step does to the rows, as far as delivery goes: none is delivered by
\* it, and a task that is added is not.
KeepsRows ==
  /\ \A u \in Existing :
       /\ task'[u].status # "absent" /\ (Closed(u) => task'[u].status = "closed")
       /\ task'[u].delivered = task[u].delivered /\ task'[u].origin = task[u].origin
  /\ \A u \in TaskIds \ Existing : task'[u].status # "absent" => ~task'[u].delivered

\* No task is closed undelivered by the step.
KeepsReasons ==
  \A u \in TaskIds : task'[u].status # "absent" /\ task'[u].reason = "not_delivered" =>
    u \in Existing /\ task[u].reason = "not_delivered"

\* What a call for the next task has read stays as it was read.
KeepsCalls ==
  \A q \in Servers : op'[q].step \in {"leasing", "stopping"} =>
    /\ op'[q].step = op[q].step /\ op'[q].seen = op[q].seen /\ op'[q].cands = op[q].cands
    /\ op'[q].crosscut = op[q].crosscut /\ op'[q].todo \subseteq op[q].todo

\* Who goes on asking for the next task has not seen the cross-cutting one closed.
KeepsCrosscut ==
  \A u \in Existing :
    (\E q \in Servers : op'[q].step = "leasing") /\ Kind(u) = "crosscut" /\ task'[u].status = "closed" => Closed(u)

\* A row that is edited where delivery is not concerned.
LEMMA EditedRow ==
  ASSUME IInv, NEW t \in Existing, NEW w, task' = [task EXCEPT ![t] = w],
         w.status # "absent", w.delivered = task[t].delivered, w.origin = task[t].origin,
         Closed(t) => w.status = "closed"
  PROVE  /\ KeepsRows
         /\ (w.reason = "not_delivered" => task[t].reason = "not_delivered") => KeepsReasons
<1>1. task \in [TaskIds -> Task]
  BY DEF IInv, TypeOK
<1>2. t \in TaskIds /\ task'[t] = w /\ \A u \in TaskIds \ {t} : task'[u] = task[u]
  BY <1>1 DEF Existing
<1>3. \A u \in TaskIds : u \in Existing <=> task[u].status # "absent"
  BY DEF Existing
<1>4. KeepsRows
  <2>1. ASSUME NEW u \in TaskIds \ Existing PROVE task'[u].status = "absent"
    BY <1>2, <1>3, <2>1
  <2>2. ASSUME NEW u \in Existing
        PROVE  /\ task'[u].status # "absent" /\ (Closed(u) => task'[u].status = "closed")
               /\ task'[u].delivered = task[u].delivered /\ task'[u].origin = task[u].origin
    <3>1. CASE u = t
      BY <1>2, <3>1
    <3>2. CASE u # t
      <4>1. u \in TaskIds /\ task'[u] = task[u] /\ task[u].status # "absent"
        BY <1>2, <3>2 DEF Existing
      <4> QED BY <4>1 DEF Closed
    <3> QED BY <3>1, <3>2
  <2> QED BY <2>1, <2>2 DEF KeepsRows
<1>5. ASSUME w.reason = "not_delivered" => task[t].reason = "not_delivered" PROVE KeepsReasons
  BY <1>2, <1>3, <1>5 DEF KeepsReasons
<1> QED BY <1>4, <1>5

\* A step that leaves the rows alone.
LEMMA SameRows == ASSUME task' = task PROVE KeepsRows /\ KeepsReasons
BY DEF KeepsRows, KeepsReasons, Existing, Closed

\* A server that goes on to a step that asks for nothing.
LEMMA LeavesCall ==
  ASSUME IInv, NEW p \in Servers, NEW o, op' = [op EXCEPT ![p] = o], o.step \notin {"leasing", "stopping"}
  PROVE  KeepsCalls /\ (OneServer => KeepsCrosscut)
<1>1. op'[p] = o /\ \A q \in Servers \ {p} : op'[q] = op[q]
  BY DEF IInv, TypeOK
<1> QED BY <1>1 DEF KeepsCalls, KeepsCrosscut, OneServer

\* A candidate that is dropped.
LEMMA DropsCandidate ==
  ASSUME IInv, NEW p \in Servers, NEW t \in TaskIds, Drop(p, t)
  PROVE  KeepsCalls
<1>1. /\ op \in [Servers -> Op] /\ op' = [op EXCEPT ![p] = [op[p] EXCEPT !.todo = op[p].todo \ {t}]]
  BY DEF Drop, IInv, TypeOK
<1>2. op'[p] = [op[p] EXCEPT !.todo = op[p].todo \ {t}] /\ \A q \in Servers \ {p} : op'[q] = op[q]
  BY <1>1
<1>3. op[p] \in Op
  BY <1>1
<1>4. /\ op'[p].step = op[p].step /\ op'[p].seen = op[p].seen /\ op'[p].cands = op[p].cands
      /\ op'[p].crosscut = op[p].crosscut /\ op'[p].todo \subseteq op[p].todo
  BY <1>2, <1>3 DEF Op
<1> QED BY <1>2, <1>4 DEF KeepsCalls

\* closeUnleased.
LEMMA ClosesUnleased ==
  ASSUME IInv, NEW t \in TaskIds, NEW r, CloseUnleased(t, r)
  PROVE  /\ KeepsRows /\ (r # "not_delivered" => KeepsReasons)
         /\ \A u \in TaskIds \ {t} : task'[u] = task[u]
<1>1. task \in [TaskIds -> Task] /\ task[t] \in Task
  BY DEF IInv, TypeOK
<1>2. CASE Leasable(t)
  <2> DEFINE w == [task[t] EXCEPT !.status = "closed", !.reason = r, !.token = NoToken, !.expired = FALSE]
  <2>1. task' = [task EXCEPT ![t] = w] /\ t \in Existing
    BY <1>2 DEF CloseUnleased, Leasable, Existing
  <2>2. w.status = "closed" /\ w.reason = r /\ w.delivered = task[t].delivered /\ w.origin = task[t].origin
    BY <1>1 DEF Task
  <2> HIDE DEF w
  <2>3. KeepsRows /\ (r # "not_delivered" => KeepsReasons)
    BY <2>1, <2>2, EditedRow
  <2> QED BY <1>1, <2>1, <2>3
<1>3. CASE ~Leasable(t)
  BY <1>3, SameRows DEF CloseUnleased
<1> QED BY <1>2, <1>3

-----------------------------------------------------------------------------
\* The steps that neither read what is delivered, nor deliver, nor stop.
LEMMA QuietCall ==
  ASSUME IInv, NEW p \in Servers,
         NothingToLease(p) \/ Report(p) \/ SettleRead(p) \/ Crash(p) \/ Complete(p) \/ Start(p)
         \/ \E t \in TaskIds : LostRace(p, t) \/ \E k \in Tokens : Submit(p, t, k)
  PROVE  KeepsRows /\ KeepsReasons /\ KeepsCalls /\ (OneServer => KeepsCrosscut)
<1>1. task' = task
  BY DEF NothingToLease, Report, SettleRead, Crash, Complete, Start, LostRace, Submit
<1>2. \E o : op' = [op EXCEPT ![p] = o] /\ o.step \notin {"leasing", "stopping"}
  <2> DEFINE o(step) == [Idle EXCEPT !.step = step]
  <2>0. \A step \in {"settling", "idle", "completing", "down"} : o(step).step \notin {"leasing", "stopping"}
    BY DEF Idle
  <2>1. CASE NothingToLease(p) \/ SettleRead(p) \/ \E t \in TaskIds : LostRace(p, t)
    <3>1. \E step \in {"settling", "idle", "completing"} : op' = [op EXCEPT ![p] = o(step)]
      BY <2>1 DEF NothingToLease, SettleRead, LostRace
    <3> HIDE DEF o
    <3> QED BY <2>0, <3>1
  <2>2. CASE Report(p) \/ Crash(p)
    <3>1. op' = [op EXCEPT ![p] = o("settling")] \/ op' = [op EXCEPT ![p] = o("down")]
      BY <2>2 DEF Report, Crash
    <3> HIDE DEF o
    <3> QED BY <2>0, <3>1
  <2>3. CASE Complete(p) \/ Start(p)
    <3>1. op' = [op EXCEPT ![p] = Idle] /\ Idle.step \notin {"leasing", "stopping"}
      BY <2>3 DEF Complete, Start, Idle
    <3> HIDE DEF o
    <3> QED BY <3>1
  <2>4. CASE \E t \in TaskIds, k \in Tokens : Submit(p, t, k)
    <3>1. PICK t \in TaskIds, k \in Tokens, a \in {"valid", "stale", "invalid"} :
            op' = [op EXCEPT ![p] = [Idle EXCEPT !.step = "answering", !.task = t, !.token = k, !.answer = a]]
      BY <2>4 DEF Submit
    <3>2. [Idle EXCEPT !.step = "answering", !.task = t, !.token = k, !.answer = a].step = "answering"
      BY DEF Idle
    <3> HIDE DEF o
    <3> QED BY <3>1, <3>2
  <2> QED BY <2>1, <2>2, <2>3, <2>4
<1> QED BY <1>1, <1>2, SameRows, LeavesCall

\* An answer delivers nothing, and ends its call.
LEMMA QuietAnswer ==
  ASSUME IInv, NEW p \in Servers, NEW t \in TaskIds,
         Refuse(p, t) \/ CloseInvalid(p, t) \/ AcceptVerdict(p, t)
  PROVE  KeepsRows /\ KeepsReasons /\ KeepsCalls /\ (OneServer => KeepsCrosscut)
<1>1. /\ task \in [TaskIds -> Task] /\ task[t] \in Task /\ op[p] \in Op /\ op \in [Servers -> Op]
      /\ task[t].status = "leased" /\ t \in Existing
  BY DEF IInv, TypeOK, Existing, Refuse, CloseInvalid, AcceptVerdict, Held
<1>2. CASE Refuse(p, t)
  <2> DEFINE w == [task[t] EXCEPT !.attempts = Min({task[t].attempts + 1, MaxInvalid})]
  <2>1. task' = [task EXCEPT ![t] = w]
    BY <1>2 DEF Refuse
  <2>2. w.status = task[t].status /\ w.reason = task[t].reason /\ w.delivered = task[t].delivered /\ w.origin = task[t].origin
    BY <1>1 DEF Task
  <2> HIDE DEF w
  <2>3. KeepsRows /\ KeepsReasons
    BY <1>1, <2>1, <2>2, EditedRow DEF Closed
  <2>4. PICK o : op' = [op EXCEPT ![p] = o] /\ (o = Idle \/ o = [op[p] EXCEPT !.step = "closing"])
    BY <1>2 DEF Refuse
  <2>5. o.step \notin {"leasing", "stopping"}
    BY <1>1, <2>4 DEF Op, Idle
  <2> QED BY <2>3, <2>4, <2>5, LeavesCall
<1>3. ASSUME NEW r \in {"invalid_submissions", "valid", "stale"}, task' = CloseAs(t, r),
             op' = [op EXCEPT ![p] = [Idle EXCEPT !.step = "settling"]]
      PROVE  KeepsRows /\ KeepsReasons /\ KeepsCalls /\ (OneServer => KeepsCrosscut)
  <2> DEFINE w == [task[t] EXCEPT !.status = "closed", !.reason = r]
  <2>1. task' = [task EXCEPT ![t] = w]
    BY <1>3 DEF CloseAs
  <2>2. w.status = "closed" /\ w.reason = r /\ w.delivered = task[t].delivered /\ w.origin = task[t].origin
    BY <1>1 DEF Task
  <2> HIDE DEF w
  <2>3. KeepsRows /\ KeepsReasons
    BY <1>1, <2>1, <2>2, EditedRow
  <2>4. [Idle EXCEPT !.step = "settling"].step \notin {"leasing", "stopping"}
    BY DEF Idle
  <2> QED BY <1>3, <2>3, <2>4, LeavesCall
<1>4. CASE CloseInvalid(p, t)
  BY <1>3, <1>4 DEF CloseInvalid
<1>5. CASE AcceptVerdict(p, t)
  <2>1. op[p].answer \in {"invalid_submissions", "valid", "stale"}
    BY <1>5 DEF AcceptVerdict
  <2> QED BY <1>3, <1>5, <2>1 DEF AcceptVerdict
<1> QED BY <1>2, <1>4, <1>5

\* A hunt's findings are checked by tasks that are new, and undelivered.
LEMMA QuietHunt ==
  ASSUME IInv, NEW p \in Servers, NEW t \in TaskIds, AcceptHunt(p, t)
  PROVE  KeepsRows /\ KeepsReasons /\ KeepsCalls /\ (OneServer => KeepsCrosscut)
<1>1. /\ task \in [TaskIds -> Task] /\ task[t] \in Task /\ task[t].status = "leased" /\ t \in Existing
  BY DEF IInv, TypeOK, Existing, AcceptHunt, Held
<1>2. PICK n \in 0 .. Cardinality(TaskIds \ Existing) :
        \/ task' = AfterHunt(t, n) /\ op' = [op EXCEPT ![p] = [Idle EXCEPT !.step = "settling"]]
        \/ task' = task /\ op' = [op EXCEPT ![p] = Idle]
  BY DEF AcceptHunt
<1>3. KeepsCalls /\ (OneServer => KeepsCrosscut)
  <2>1. PICK o : op' = [op EXCEPT ![p] = o] /\ (o = Idle \/ o = [Idle EXCEPT !.step = "settling"])
    BY <1>2
  <2>2. o.step \notin {"leasing", "stopping"}
    BY <2>1 DEF Idle
  <2> QED BY <2>1, <2>2, LeavesCall
<1>4. CASE task' = task
  BY <1>3, <1>4, SameRows
<1>5. CASE task' = AfterHunt(t, n)
  <2> DEFINE fresh == Cardinality(Existing) + 1 .. Cardinality(Existing) + n
             w == [task[t] EXCEPT !.status = "closed", !.reason = "valid"]
             v == NewTask("open", t)
  <2>1. task' = [u \in TaskIds |-> IF u \in fresh THEN v ELSE [task EXCEPT ![t] = w][u]]
    <3>1. CloseAs(t, "valid") = [task EXCEPT ![t] = w]
      BY DEF CloseAs
    <3> QED BY <1>5, <3>1 DEF AfterHunt
  <2>2. fresh \cap Existing = {}
    <3>1. PICK last \in 0 .. Planned + MaxFindings : Existing = 1 .. last
      BY DEF IInv, Numbered
    <3>2. last \in Nat /\ Cardinality(Existing) = last
      BY <3>1, FS_Interval, PlannedAssumption, LimitsAssumption
    <3> QED BY <3>1, <3>2
  <2>3. w.status = "closed" /\ w.reason = "valid" /\ w.delivered = task[t].delivered /\ w.origin = task[t].origin
    BY <1>1 DEF Task
  <2>4. ~v.delivered /\ v.reason = "none"
    BY DEF NewTask
  <2> HIDE DEF w, v, fresh
  <2>5. ASSUME NEW u \in TaskIds PROVE task'[u] = IF u \in fresh THEN v ELSE IF u = t THEN w ELSE task[u]
    BY <1>1, <2>1
  <2>6. ASSUME NEW u \in Existing PROVE u \in TaskIds /\ task'[u] = (IF u = t THEN w ELSE task[u]) /\ task[u].status # "absent"
    BY <2>2, <2>5 DEF Existing
  <2>7. ASSUME NEW u \in TaskIds \ Existing PROVE task'[u] = v \/ task'[u].status = "absent"
    BY <1>1, <2>5 DEF Existing
  <2>8. KeepsRows
    <3>1. ASSUME NEW u \in Existing
          PROVE  /\ task'[u].status # "absent" /\ (Closed(u) => task'[u].status = "closed")
                 /\ task'[u].delivered = task[u].delivered /\ task'[u].origin = task[u].origin
      BY <2>3, <2>6 DEF Closed
    <3> QED BY <2>4, <2>7, <3>1 DEF KeepsRows
  <2>9. KeepsReasons
    BY <2>3, <2>4, <2>6, <2>7 DEF KeepsReasons
  <2> QED BY <1>3, <2>8, <2>9
<1> QED BY <1>2, <1>4, <1>5

\* Leases given back or expired, and what becomes of the plan.
LEMMA QuietAround ==
  ASSUME IInv,
         \/ \E t \in TaskIds, k \in Tokens : GiveBack(t, k)
         \/ \E t \in TaskIds : LeaseExpires(t)
         \/ PlanIdles \/ Abandon \/ UNCHANGED vars
  PROVE  KeepsRows /\ KeepsReasons /\ KeepsCalls /\ KeepsCrosscut
<1>1. op' = op
  BY DEF GiveBack, LeaseExpires, PlanIdles, Abandon, vars
<1>2. KeepsCalls
  BY <1>1 DEF KeepsCalls
<1>3. CASE task' = task
  BY <1>2, <1>3, SameRows DEF KeepsCrosscut, Closed
<1>4. ASSUME NEW t \in TaskIds, (\E k \in Tokens : GiveBack(t, k)) \/ LeaseExpires(t)
      PROVE  KeepsRows /\ KeepsReasons /\ KeepsCalls /\ KeepsCrosscut
  <2>1. /\ task \in [TaskIds -> Task] /\ task[t] \in Task /\ task[t].status = "leased" /\ t \in Existing
    BY <1>4 DEF IInv, TypeOK, Existing, GiveBack, LeaseExpires, Held
  <2>2. PICK w : /\ task' = [task EXCEPT ![t] = w] /\ w.status \in {"open", "leased"}
                 /\ w.reason = task[t].reason /\ w.delivered = task[t].delivered /\ w.origin = task[t].origin
    <3>1. CASE \E k \in Tokens : GiveBack(t, k)
      <4> DEFINE w == [task[t] EXCEPT !.status = "open", !.token = NoToken, !.expired = FALSE]
      <4>1. task' = [task EXCEPT ![t] = w]
        BY <3>1 DEF GiveBack
      <4>2. w.status = "open" /\ w.reason = task[t].reason /\ w.delivered = task[t].delivered /\ w.origin = task[t].origin
        BY <2>1 DEF Task
      <4> QED BY <4>1, <4>2
    <3>2. CASE LeaseExpires(t)
      <4> DEFINE w == [task[t] EXCEPT !.expired = TRUE]
      <4>1. task' = [task EXCEPT ![t] = w]
        BY <3>2 DEF LeaseExpires
      <4>2. w.status = "leased" /\ w.reason = task[t].reason /\ w.delivered = task[t].delivered /\ w.origin = task[t].origin
        BY <2>1 DEF Task
      <4> QED BY <4>1, <4>2
    <3> QED BY <1>4, <3>1, <3>2
  <2>3. KeepsRows /\ KeepsReasons
    BY <2>1, <2>2, EditedRow DEF Closed
  <2>4. \A u \in Existing : task'[u].status = "closed" => Closed(u)
    BY <2>1, <2>2 DEF Closed, Existing
  <2> QED BY <1>2, <2>3, <2>4 DEF KeepsCrosscut
<1> QED BY <1>3, <1>4 DEF PlanIdles, Abandon, vars

-----------------------------------------------------------------------------
\* Servers that may still deliver a task that counts, going by what they read.
Able == {p \in Servers : op[p].step = "leasing" /\ Cardinality(Counted(op[p].seen)) < MaxTasks}

\* Each of them delivers at most one more, and who reads that max_tasks are
\* delivered is not one of them.
DeliveryIInv ==
  /\ \A p \in Servers : op[p].step = "leasing" => op[p].seen \subseteq Delivered
  /\ Cardinality(Counted(Delivered)) + Cardinality(Able) <= MaxTasks + Cardinality(Servers) - 1

\* Who goes on asking read what it read, or reads what is delivered now.
ReadsNow ==
  \A q \in Servers : op'[q].step = "leasing" =>
    (op[q].step = "leasing" /\ op'[q].seen = op[q].seen) \/ op'[q].seen = Delivered

\* Tasks are finitely many, and so are the servers.
LEMMA FiniteDelivery ==
  ASSUME IInv, IsFiniteSet(Servers)
  PROVE  /\ IsFiniteSet(TaskIds) /\ IsFiniteSet(Existing) /\ IsFiniteSet(Delivered) /\ IsFiniteSet(Able)
         /\ \A S \in SUBSET TaskIds :
              /\ IsFiniteSet(S) /\ Cardinality(S) \in Nat
              /\ IsFiniteSet(Counted(S)) /\ Cardinality(Counted(S)) \in Nat
         /\ Cardinality(Able) \in Nat /\ Cardinality(Servers) \in Nat /\ Cardinality(Able) <= Cardinality(Servers)
         /\ MaxTasks \in Nat \ {0} /\ MaxBriefs \in Nat
         /\ Existing \subseteq TaskIds /\ Delivered \subseteq Existing
<1>1. IsFiniteSet(TaskIds)
  BY FS_Interval, PlannedAssumption, LimitsAssumption DEF TaskIds
<1>2. Existing \subseteq TaskIds /\ Delivered \subseteq Existing /\ Able \subseteq Servers
  BY DEF Existing, Delivered, Able
<1>3. ASSUME NEW S \in SUBSET TaskIds
      PROVE  /\ IsFiniteSet(S) /\ Cardinality(S) \in Nat
             /\ IsFiniteSet(Counted(S)) /\ Cardinality(Counted(S)) \in Nat
  <2>1. Counted(S) \subseteq S
    BY DEF Counted
  <2> QED BY <1>1, <2>1, FS_Subset, FS_CardinalityType
<1>4. IsFiniteSet(Able) /\ Cardinality(Able) <= Cardinality(Servers)
  BY <1>2, FS_Subset
<1>5. Cardinality(Able) \in Nat /\ Cardinality(Servers) \in Nat
  BY <1>4, FS_CardinalityType
<1> QED BY <1>1, <1>2, <1>3, <1>4, <1>5, LimitsAssumption

\* A step that delivers nothing leaves the counts as they are.
LEMMA SameCounts ==
  ASSUME KeepsRows
  PROVE  /\ Delivered' = Delivered
         /\ \A S \in SUBSET Existing : {t \in S : task'[t].origin = 0} = Counted(S)
         /\ Counted(Delivered)' = Counted(Delivered)
<1>1. Delivered' = Delivered
  BY DEF KeepsRows, Delivered, Existing
<1>2. \A S \in SUBSET Existing : {t \in S : task'[t].origin = 0} = Counted(S)
  BY DEF KeepsRows, Counted
<1>3. Delivered \subseteq Existing
  BY DEF Delivered
<1> QED BY <1>1, <1>2, <1>3 DEF Counted

\* Reading, and everything but a claim, keeps what may still be delivered in bounds.
LEMMA QuietDelivery ==
  ASSUME IInv, IsFiniteSet(Servers), DeliveryIInv, KeepsRows, ReadsNow
  PROVE  DeliveryIInv'
<1> DEFINE able == {p \in Servers : op'[p].step = "leasing" /\ Cardinality(Counted(op'[p].seen)) < MaxTasks}
<1>1. Delivered' = Delivered /\ Counted(Delivered)' = Counted(Delivered)
  BY SameCounts
<1>2. \A p \in Servers : op'[p].step = "leasing" => op'[p].seen \subseteq Delivered
  BY DEF ReadsNow, DeliveryIInv
<1>3. Able' = able
  <2>1. Delivered \subseteq Existing
    BY FiniteDelivery
  <2>2. ASSUME NEW p \in Servers, op'[p].step = "leasing"
        PROVE  Counted(op'[p].seen) = {t \in op'[p].seen : task'[t].origin = 0}
    BY <1>2, <2>1, <2>2, SameCounts
  <2> QED BY <2>2 DEF Able, Counted
<1>4. CASE Cardinality(Counted(Delivered)) >= MaxTasks
  <2>1. able \subseteq Able
    BY <1>4, FiniteDelivery DEF ReadsNow, Able
  <2>2. Cardinality(able) <= Cardinality(Able) /\ Cardinality(able) \in Nat
    BY <2>1, FiniteDelivery, FS_Subset, FS_CardinalityType
  <2> HIDE DEF able
  <2>3. Cardinality(Counted(Delivered)) \in Nat
    BY FiniteDelivery
  <2> QED BY <1>1, <1>2, <1>3, <2>2, <2>3, FiniteDelivery DEF DeliveryIInv
<1>5. CASE ~(Cardinality(Counted(Delivered)) >= MaxTasks)
  <2>1. able \subseteq Servers
    OBVIOUS
  <2>2. Cardinality(able) <= Cardinality(Servers) /\ Cardinality(able) \in Nat
    BY <2>1, FS_Subset, FS_CardinalityType
  <2> HIDE DEF able
  <2>3. Cardinality(Counted(Delivered)) \in Nat
    BY FiniteDelivery
  <2> QED BY <1>1, <1>2, <1>3, <1>5, <2>2, <2>3, FiniteDelivery DEF DeliveryIInv
<1> QED BY <1>4, <1>5

\* claimTask delivers one task, that is neither new nor closed, and ends the call.
LEMMA ClaimRows ==
  ASSUME IInv, NEW p \in Servers, NEW t \in TaskIds, NEW k \in Tokens, Claim(p, t, k)
  PROVE  /\ t \in Existing /\ ~Closed(t) /\ Existing' = Existing /\ Delivered' = Delivered \cup {t}
         /\ \A u \in TaskIds : task'[u].origin = task[u].origin /\ task'[u].reason = task[u].reason
         /\ \A u \in TaskIds : task'[u].status = "closed" <=> Closed(u)
         /\ op'[p].step = "idle" /\ \A q \in Servers \ {p} : op'[q] = op[q]
<1>1. task \in [TaskIds -> Task] /\ task[t] \in Task /\ op \in [Servers -> Op]
  BY DEF IInv, TypeOK
<1> DEFINE w == [task[t] EXCEPT !.status = "leased", !.token = k, !.expired = FALSE, !.delivered = TRUE]
<1>2. task' = [task EXCEPT ![t] = w] /\ task[t].status \in {"open", "leased"}
  BY DEF Claim, Leasable
<1>3. w.status = "leased" /\ w.delivered /\ w.origin = task[t].origin /\ w.reason = task[t].reason
  BY <1>1 DEF Task
<1> HIDE DEF w
<1>4. task'[t] = w /\ \A u \in TaskIds \ {t} : task'[u] = task[u]
  BY <1>1, <1>2
<1>5. Existing' = Existing /\ t \in Existing /\ ~Closed(t)
  BY <1>2, <1>3, <1>4 DEF Existing, Closed
<1>6. Delivered' = Delivered \cup {t}
  BY <1>3, <1>4, <1>5 DEF Delivered, Existing
<1>7. ASSUME NEW u \in TaskIds
      PROVE  /\ task'[u].origin = task[u].origin /\ task'[u].reason = task[u].reason
             /\ (task'[u].status = "closed" <=> Closed(u))
  <2>1. CASE u = t
    BY <1>2, <1>3, <1>4, <2>1 DEF Closed
  <2>2. CASE u # t
    BY <1>4, <2>2 DEF Closed
  <2> QED BY <2>1, <2>2
<1>8. op'[p].step = "idle" /\ \A q \in Servers \ {p} : op'[q] = op[q]
  BY <1>1 DEF Claim, Idle
<1> QED BY <1>5, <1>6, <1>7, <1>8

\* Who delivers a task that was not delivered was able to, and is done.
LEMMA ClaimDelivery ==
  ASSUME IInv, IsFiniteSet(Servers), DeliveryIInv,
         NEW p \in Servers, NEW t \in TaskIds, NEW k \in Tokens, Claim(p, t, k)
  PROVE  DeliveryIInv'
<1>1. /\ t \in Existing /\ Delivered' = Delivered \cup {t}
      /\ \A u \in TaskIds : task'[u].origin = task[u].origin
      /\ op'[p].step = "idle" /\ \A q \in Servers \ {p} : op'[q] = op[q]
  BY ClaimRows
<1>2. /\ op[p].step = "leasing" /\ op[p].seen \subseteq Delivered
      /\ t \in op[p].seen \/ ~OverLimit(p, t)
  BY DEF Claim, First, DeliveryIInv
<1>3. \A q \in Servers : op'[q].step = "leasing" => op'[q].seen \subseteq Delivered'
  BY <1>1 DEF DeliveryIInv
<1>4. \A S \in SUBSET TaskIds : {u \in S : task'[u].origin = 0} = Counted(S)
  BY <1>1 DEF Counted
<1>5. Able' = Able \ {p}
  <2>1. \A q \in Servers \ {p} : op[q].step = "leasing" => {u \in op[q].seen : task'[u].origin = 0} = Counted(op[q].seen)
    BY <1>4, FiniteDelivery DEF DeliveryIInv
  <2>2. ASSUME NEW q \in Servers \ {p} PROVE q \in Able' <=> q \in Able
    BY <1>1, <2>1, <2>2 DEF Able, Counted
  <2>3. p \notin Able'
    BY <1>1 DEF Able
  <2> QED BY <2>2, <2>3 DEF Able
<1>6. CASE Counted(Delivered)' = Counted(Delivered)
  <2>1. Able \ {p} \subseteq Able
    OBVIOUS
  <2>2. Cardinality(Able \ {p}) <= Cardinality(Able) /\ Cardinality(Able \ {p}) \in Nat
    BY <2>1, FiniteDelivery, FS_Subset, FS_CardinalityType
  <2>3. Cardinality(Counted(Delivered)) \in Nat
    BY FiniteDelivery
  <2> QED BY <1>3, <1>5, <1>6, <2>2, <2>3, FiniteDelivery DEF DeliveryIInv
<1>7. CASE Counted(Delivered)' # Counted(Delivered)
  <2>1. Counted(Delivered)' = {u \in Delivered \cup {t} : task'[u].origin = 0}
    BY <1>1 DEF Counted
  <2>2. Counted(Delivered)' = Counted(Delivered \cup {t})
    BY <1>1, <1>4, <2>1, FiniteDelivery
  <2>3. t \notin Delivered /\ task[t].origin = 0 /\ Counted(Delivered \cup {t}) = Counted(Delivered) \cup {t}
    BY <1>7, <2>2 DEF Counted
  <2>4. t \notin Counted(Delivered)
    BY <2>3 DEF Counted
  <2>5. Cardinality(Counted(Delivered \cup {t})) = Cardinality(Counted(Delivered)) + 1
    BY <2>3, <2>4, FiniteDelivery, FS_AddElement
  <2>6. p \in Able
    <3>1. ~OverLimit(p, t)
      BY <1>2, <2>3
    <3>2. Cardinality(Counted(op[p].seen)) \in Nat
      BY <1>2, FiniteDelivery
    <3>3. Cardinality(Counted(op[p].seen)) < MaxTasks
      BY <2>3, <3>1, <3>2, FiniteDelivery DEF OverLimit
    <3> QED BY <1>2, <3>3 DEF Able
  <2>7. Cardinality(Able \ {p}) = Cardinality(Able) - 1
    BY <2>6, FiniteDelivery, FS_RemoveElement
  <2>8. Cardinality(Counted(Delivered)) \in Nat
    BY FiniteDelivery
  <2> QED BY <1>3, <1>5, <2>2, <2>5, <2>7, <2>8, FiniteDelivery DEF DeliveryIInv
<1> QED BY <1>6, <1>7

\* What a call reads is what is delivered.
LEMMA LeaseReads ==
  ASSUME IInv, NEW p \in Servers, NEW kinds, LeaseNext(p, kinds)
  PROVE  /\ KeepsRows /\ KeepsReasons /\ ReadsNow
         /\ op'[p].step = "leasing" /\ op'[p].seen = Delivered
         /\ op'[p].cands = {t \in Existing : Leasable(t) /\ Kind(t) \in kinds} /\ op'[p].todo = op'[p].cands
         /\ op'[p].crosscut = \E t \in Existing \ Delivered : Kind(t) = "crosscut" /\ ~Closed(t)
<1> DEFINE cands == {t \in Existing : Leasable(t) /\ Kind(t) \in kinds}
           crosscut == \E t \in Existing \ Delivered : Kind(t) = "crosscut" /\ ~Closed(t)
           o == [Idle EXCEPT !.step = "leasing", !.todo = cands, !.cands = cands,
                             !.seen = Delivered, !.crosscut = crosscut]
<1>1. op' = [op EXCEPT ![p] = o] /\ task' = task /\ op \in [Servers -> Op]
  BY DEF LeaseNext, IInv, TypeOK
<1> HIDE DEF cands, crosscut
<1>2. o.step = "leasing" /\ o.seen = Delivered /\ o.cands = cands /\ o.todo = cands /\ o.crosscut = crosscut
  BY DEF Idle
<1> HIDE DEF o
<1>3. op'[p] = o /\ \A q \in Servers \ {p} : op'[q] = op[q]
  BY <1>1
<1>4. ReadsNow
  BY <1>2, <1>3 DEF ReadsNow
<1> USE DEF cands, crosscut
<1> QED BY <1>1, <1>2, <1>3, <1>4, SameRows

\* A limit is reached: the next candidate, or the tasks to close.
LEMMA ReachesLimit ==
  ASSUME IInv, NEW p \in Servers, NEW t \in TaskIds, ReachLimit(p, t)
  PROVE  /\ KeepsRows /\ KeepsReasons /\ ReadsNow
         /\ \/ KeepsCalls
            \/ /\ op'[p].step = "stopping" /\ op'[p].todo = op[p].cands \ op[p].seen
               /\ Kind(t) = "crosscut" \/ \A c \in op[p].cands \ op[p].seen : Kind(c) # "crosscut"
<1>1. task' = task /\ op \in [Servers -> Op] /\ op[p] \in Op
  BY DEF ReachLimit, IInv, TypeOK
<1>2. CASE Drop(p, t)
  <2>1. KeepsCalls
    BY <1>2, DropsCandidate
  <2> QED BY <1>1, <2>1, SameRows DEF KeepsCalls, ReadsNow
<1>3. CASE ~Drop(p, t)
  <2> DEFINE o == [op[p] EXCEPT !.step = "stopping", !.todo = op[p].cands \ op[p].seen]
  <2>1. /\ op' = [op EXCEPT ![p] = o]
        /\ Kind(t) = "crosscut" \/ \A c \in op[p].cands \ op[p].seen : Kind(c) # "crosscut"
    BY <1>1, <1>3 DEF ReachLimit
  <2>2. o.step = "stopping" /\ o.todo = op[p].cands \ op[p].seen
    BY <1>1 DEF Op
  <2> HIDE DEF o
  <2>3. op'[p] = o /\ \A q \in Servers \ {p} : op'[q] = op[q]
    BY <1>1, <2>1
  <2> QED BY <1>1, <2>1, <2>2, <2>3, SameRows DEF ReadsNow
<1> QED BY <1>2, <1>3

\* The steps by which nothing is delivered, read or stopped.
Quiet == KeepsRows /\ KeepsReasons /\ KeepsCalls /\ (OneServer => KeepsCrosscut)

\* Every step is quiet, or one of the four that are not.
LEMMA StepsOfDelivery ==
  ASSUME IInv, [Next]_vars
  PROVE  \/ Quiet
         \/ \E p \in Servers :
              \/ \E kinds \in {AllKinds, {"verify"}} : LeaseNext(p, kinds)
              \/ \E t \in TaskIds : SkipStale(p, t) \/ ReachLimit(p, t) \/ ClaimFails(p, t)
              \/ \E t \in TaskIds, k \in Tokens : Claim(p, t, k)
              \/ StopDelivery(p)
<1>1. ASSUME NEW p \in Servers,
             \/ Report(p) \/ NothingToLease(p) \/ AnswerStep(p) \/ SettleRead(p) \/ Complete(p)
             \/ Crash(p) \/ Start(p) \/ \E t \in TaskIds, k \in Tokens : Submit(p, t, k)
      PROVE  Quiet
  <2>1. KeepsRows /\ KeepsReasons /\ KeepsCalls /\ (OneServer => KeepsCrosscut)
    <3>1. CASE \E t \in TaskIds : Refuse(p, t) \/ CloseInvalid(p, t) \/ AcceptVerdict(p, t)
      BY <3>1, QuietAnswer
    <3>2. CASE \E t \in TaskIds : AcceptHunt(p, t)
      BY <3>2, QuietHunt
    <3>3. CASE \/ Report(p) \/ NothingToLease(p) \/ SettleRead(p) \/ Complete(p) \/ Crash(p) \/ Start(p)
               \/ \E t \in TaskIds : LostRace(p, t) \/ \E k \in Tokens : Submit(p, t, k)
      BY <3>3, QuietCall
    <3> QED BY <1>1, <3>1, <3>2, <3>3 DEF AnswerStep
  <2> QED BY <2>1 DEF Quiet
<1>2. CASE \/ \E t \in TaskIds, k \in Tokens : GiveBack(t, k)
           \/ \E t \in TaskIds : LeaseExpires(t)
           \/ PlanIdles \/ Abandon \/ UNCHANGED vars
  BY <1>2, QuietAround DEF Quiet
<1> QED BY <1>1, <1>2 DEF Next, ServerStep, LeaseStep

\* Candidates that are looked at, and closed, are not delivered.
LEMMA LooksAt ==
  ASSUME IInv, NEW p \in Servers, NEW t \in TaskIds, SkipStale(p, t) \/ ClaimFails(p, t)
  PROVE  KeepsRows /\ KeepsReasons /\ KeepsCalls /\ KeepsCrosscut
<1>1. Drop(p, t) /\ KeepsCalls
  BY DropsCandidate DEF SkipStale, ClaimFails
<1>2. CASE SkipStale(p, t)
  <2>1. CloseUnleased(t, "stale") /\ Kind(t) = "verify"
    BY <1>2 DEF SkipStale
  <2>2. KeepsRows /\ KeepsReasons /\ \A u \in TaskIds \ {t} : task'[u] = task[u]
    BY <2>1, ClosesUnleased
  <2>3. \A u \in Existing : Kind(u) = "crosscut" => task'[u] = task[u]
    BY <2>1, <2>2 DEF Existing
  <2> QED BY <1>1, <2>2, <2>3 DEF KeepsCrosscut, Closed
<1>3. CASE ClaimFails(p, t)
  BY <1>1, <1>3, SameRows DEF ClaimFails, KeepsCrosscut, Closed
<1> QED BY <1>2, <1>3

\* stopDelivery closes one of its tasks, or is over.
LEMMA Stops ==
  ASSUME IInv, NEW p \in Servers, StopDelivery(p)
  PROVE  /\ KeepsRows /\ KeepsCalls /\ (OneServer => KeepsCrosscut)
         /\ KeepsReasons \/ \E t \in op[p].todo : \A u \in TaskIds \ {t} : task'[u] = task[u]
         /\ op[p].step = "stopping"
<1>1. op[p] \in Op /\ op \in [Servers -> Op] /\ op[p].step = "stopping"
  BY DEF IInv, TypeOK, StopDelivery
<1>2. CASE op[p].todo = {}
  <2>1. op' = [op EXCEPT ![p] = [Idle EXCEPT !.step = "settling"]] /\ task' = task
    BY <1>2 DEF StopDelivery
  <2>2. [Idle EXCEPT !.step = "settling"].step \notin {"leasing", "stopping"}
    BY DEF Idle
  <2> QED BY <1>1, <2>1, <2>2, SameRows, LeavesCall
<1>3. CASE op[p].todo # {}
  <2>1. PICK t \in op[p].todo : CloseUnleased(t, "not_delivered") /\ Drop(p, t)
    BY <1>3 DEF StopDelivery
  <2>2. t \in TaskIds
    BY <1>1 DEF Op
  <2>3. KeepsRows /\ KeepsCalls /\ \A u \in TaskIds \ {t} : task'[u] = task[u]
    BY <2>1, <2>2, ClosesUnleased, DropsCandidate
  <2>4. OneServer => KeepsCrosscut
    BY <1>1, <2>3 DEF KeepsCalls, KeepsCrosscut, OneServer
  <2> QED BY <1>1, <2>3, <2>4
<1> QED BY <1>2, <1>3

\* Every step keeps delivery in bounds.
LEMMA NextDelivery ==
  ASSUME IsFiniteSet(Servers), IInv, DeliveryIInv, [Next]_vars PROVE DeliveryIInv'
<1>1. ASSUME KeepsRows, KeepsCalls PROVE DeliveryIInv'
  <2>1. ReadsNow
    BY <1>1 DEF KeepsCalls, ReadsNow
  <2> QED BY <1>1, <2>1, QuietDelivery
<1>2. CASE Quiet
  BY <1>1, <1>2 DEF Quiet
<1>3. ASSUME NEW p \in Servers, NEW kinds, LeaseNext(p, kinds) PROVE DeliveryIInv'
  BY <1>3, LeaseReads, QuietDelivery
<1>4. ASSUME NEW p \in Servers, NEW t \in TaskIds, SkipStale(p, t) \/ ClaimFails(p, t) PROVE DeliveryIInv'
  BY <1>1, <1>4, LooksAt
<1>5. ASSUME NEW p \in Servers, NEW t \in TaskIds, ReachLimit(p, t) PROVE DeliveryIInv'
  BY <1>5, ReachesLimit, QuietDelivery
<1>6. ASSUME NEW p \in Servers, NEW t \in TaskIds, NEW k \in Tokens, Claim(p, t, k) PROVE DeliveryIInv'
  BY <1>6, ClaimDelivery
<1>7. ASSUME NEW p \in Servers, StopDelivery(p) PROVE DeliveryIInv'
  BY <1>1, <1>7, Stops
<1> QED BY <1>2, <1>3, <1>4, <1>5, <1>6, <1>7, StepsOfDelivery

\* Nothing is delivered when the plan starts.
LEMMA InitDelivery == ASSUME IsFiniteSet(Servers) PROVE Init => DeliveryIInv
<1> SUFFICES ASSUME Init PROVE DeliveryIInv
  OBVIOUS
<1>1. Delivered = {} /\ Able = {} /\ \A p \in Servers : op[p].step # "leasing"
  BY DEF Init, Delivered, Existing, NewTask, Able, Idle
<1>2. Counted(Delivered) = {}
  BY <1>1 DEF Counted
<1>3. Cardinality(Servers) \in Nat /\ MaxTasks \in Nat \ {0} /\ Cardinality({}) = 0
  BY FS_CardinalityType, FS_EmptySet, LimitsAssumption
<1>4. Cardinality(Counted(Delivered)) = 0 /\ Cardinality(Able) = 0
  BY <1>1, <1>2, <1>3
<1> QED BY <1>1, <1>3, <1>4 DEF DeliveryIInv

\* However the servers' calls interleave, each delivers at most one task more
\* than max_tasks allows, and one of them none.
THEOREM DeliveryOvershoot ==
  ASSUME IsFiniteSet(Servers)
  PROVE  Spec => [](Cardinality(Counted(Delivered)) <= MaxTasks + Cardinality(Servers) - 1)
<1>1. IInv /\ DeliveryIInv /\ [Next]_vars => DeliveryIInv'
  BY NextDelivery
<1>2. IInv /\ DeliveryIInv => Cardinality(Counted(Delivered)) <= MaxTasks + Cardinality(Servers) - 1
  BY FiniteDelivery DEF DeliveryIInv
<1>3. Init => DeliveryIInv
  BY InitDelivery
<1> QED BY <1>1, <1>2, <1>3, Invariance, PTL DEF Spec

\* One server that has the plan to itself delivers max_tasks tasks, and no more.
THEOREM DeliveryStopsAtMax ==
  ASSUME OneServer
  PROVE  Spec => []DeliveredWithinMax
<1>1. IsFiniteSet(Servers) /\ Cardinality(Servers) <= 1
  <2>1. CASE Servers = {}
    BY <2>1, FS_EmptySet
  <2>2. CASE Servers # {}
    <3>1. PICK p \in Servers : Servers = {p}
      BY <2>2 DEF OneServer
    <3>2. IsFiniteSet({p}) /\ Cardinality({p}) = 1
      BY FS_Singleton
    <3> QED BY <3>1, <3>2
  <2> QED BY <2>1, <2>2
<1>2. IInv /\ Cardinality(Counted(Delivered)) <= MaxTasks + Cardinality(Servers) - 1 => DeliveredWithinMax
  BY <1>1, FiniteDelivery DEF DeliveredWithinMax
<1>3. Spec => [](Cardinality(Counted(Delivered)) <= MaxTasks + Cardinality(Servers) - 1)
  BY <1>1, DeliveryOvershoot
<1> QED BY <1>2, <1>3, Invariance, PTL

-----------------------------------------------------------------------------
\* The planner adds one cross-cutting task, or none.
OneCrosscut ==
  \A t, u \in 1 .. Planned : KindOf[t] = "crosscut" /\ KindOf[u] = "crosscut" => t = u

\* The cross-cutting task, while it may still be delivered.
Waiting == {c \in Existing \ Delivered : Kind(c) = "crosscut" /\ ~Closed(c)}

\* While it waits, a slot is free. A server that has the plan to itself knows
\* what is delivered and whether it waits, and closes it undelivered only when
\* the briefs are used up.
CrosscutIInv ==
  /\ 1 .. Planned \subseteq Existing
  /\ Waiting # {} => Cardinality(Counted(Delivered)) < MaxTasks
  /\ \A p \in Servers : op[p].step = "leasing" =>
       /\ op[p].seen = Delivered /\ op[p].cands \subseteq Existing /\ op[p].todo \subseteq op[p].cands
       /\ op[p].crosscut <=> Waiting # {}
       /\ \A c \in op[p].cands : Kind(c) = "crosscut" => ~Closed(c)
  /\ \A p \in Servers : op[p].step = "stopping" =>
       \A c \in op[p].todo : Kind(c) = "crosscut" => Cardinality(Delivered) >= MaxBriefs
  /\ CrosscutKeepsItsSlot

\* The cross-cutting task is one that was planned.
LEMMA CrosscutIsPlanned ==
  ASSUME NEW t \in TaskIds, Kind(t) = "crosscut"
  PROVE  t \in 1 .. Planned /\ KindOf[t] = "crosscut"
BY DEF Kind

\* A step that delivers nothing, if it closes no cross-cutting task undelivered.
LEMMA QuietCrosscut ==
  ASSUME OneServer, IInv, CrosscutIInv, KeepsRows,
         \A u \in 1 .. Planned : Kind(u) = "crosscut" /\ task'[u].reason = "not_delivered" =>
           task[u].reason = "not_delivered" \/ Cardinality(Delivered) >= MaxBriefs
  PROVE  /\ 1 .. Planned \subseteq Existing' /\ Waiting' \subseteq Waiting
         /\ Waiting' # {} => Cardinality(Counted(Delivered)') < MaxTasks
         /\ KeepsCrosscut /\ (\E p \in Servers : op'[p].step = "leasing") => Waiting' = Waiting
         /\ CrosscutKeepsItsSlot'
<1>1. Delivered' = Delivered /\ Counted(Delivered)' = Counted(Delivered) /\ Existing \subseteq Existing'
  BY SameCounts DEF KeepsRows, Existing
<1>2. 1 .. Planned \subseteq Existing /\ 1 .. Planned \subseteq TaskIds
  BY DEF CrosscutIInv, Existing
<1>3. ASSUME NEW u \in TaskIds, Kind(u) = "crosscut" PROVE u \in Existing /\ u \in 1 .. Planned
  BY <1>2, <1>3, CrosscutIsPlanned
<1>4. Waiting' \subseteq Waiting
  <2>1. ASSUME NEW c \in Waiting' PROVE c \in Waiting
    <3>1. c \in TaskIds /\ Kind(c) = "crosscut" /\ c \notin Delivered /\ task'[c].status # "closed"
      BY <1>1, <2>1 DEF Waiting, Existing, Closed, Kind
    <3> QED BY <1>3, <3>1 DEF Waiting, KeepsRows
  <2> QED BY <2>1
<1>5. Waiting' # {} => Cardinality(Counted(Delivered)') < MaxTasks
  BY <1>1, <1>4 DEF CrosscutIInv
<1>6. ASSUME KeepsCrosscut, \E p \in Servers : op'[p].step = "leasing" PROVE Waiting' = Waiting
  <2>1. ASSUME NEW c \in Waiting PROVE c \in Waiting'
    <3>1. c \in Existing /\ c \notin Delivered /\ Kind(c) = "crosscut" /\ ~Closed(c)
      BY <2>1 DEF Waiting
    <3>2. task'[c].status # "closed"
      BY <1>6, <3>1 DEF KeepsCrosscut
    <3> QED BY <1>1, <3>1, <3>2 DEF Waiting, Closed, Kind
  <2> QED BY <1>4, <2>1
<1>7. CrosscutKeepsItsSlot'
  <2>1. ASSUME NEW u \in TaskIds, Kind(u) = "crosscut", task'[u].reason = "not_delivered"
        PROVE  Cardinality(Delivered) >= MaxBriefs
    BY <1>3, <2>1 DEF CrosscutIInv, CrosscutKeepsItsSlot
  <2> QED BY <1>1, <2>1 DEF CrosscutKeepsItsSlot, Existing, Kind
<1> QED BY <1>1, <1>2, <1>4, <1>5, <1>6, <1>7

\* The same, where nothing is read or stopped.
LEMMA QuietCrosscutIInv ==
  ASSUME OneServer, IInv, CrosscutIInv, KeepsRows, KeepsCalls, KeepsCrosscut,
         \A u \in 1 .. Planned : Kind(u) = "crosscut" /\ task'[u].reason = "not_delivered" =>
           task[u].reason = "not_delivered" \/ Cardinality(Delivered) >= MaxBriefs
  PROVE  CrosscutIInv'
<1>1. Delivered' = Delivered /\ Existing \subseteq Existing'
  BY SameCounts DEF KeepsRows, Existing
<1>2. ASSUME NEW p \in Servers, op'[p].step = "leasing"
      PROVE  /\ op'[p].seen = Delivered' /\ op'[p].cands \subseteq Existing' /\ op'[p].todo \subseteq op'[p].cands
             /\ op'[p].crosscut <=> Waiting' # {}
             /\ \A c \in op'[p].cands : Kind(c) = "crosscut" => task'[c].status # "closed"
  <2>1. /\ op[p].step = "leasing" /\ op'[p].seen = op[p].seen /\ op'[p].cands = op[p].cands
        /\ op'[p].crosscut = op[p].crosscut /\ op'[p].todo \subseteq op[p].todo
    BY <1>2 DEF KeepsCalls
  <2>2. Waiting' = Waiting
    BY <1>2, QuietCrosscut
  <2>3. ASSUME NEW c \in op'[p].cands, Kind(c) = "crosscut" PROVE task'[c].status # "closed"
    BY <1>2, <2>1, <2>3 DEF CrosscutIInv, KeepsCrosscut
  <2>4. op'[p].seen = Delivered' /\ op'[p].cands \subseteq Existing' /\ op'[p].todo \subseteq op'[p].cands
    BY <1>1, <2>1 DEF CrosscutIInv
  <2> QED BY <2>1, <2>2, <2>3, <2>4 DEF CrosscutIInv
<1>3. ASSUME NEW p \in Servers, op'[p].step = "stopping", NEW c \in op'[p].todo, Kind(c) = "crosscut"
      PROVE  Cardinality(Delivered') >= MaxBriefs
  BY <1>1, <1>3 DEF KeepsCalls, CrosscutIInv
<1>4. /\ 1 .. Planned \subseteq Existing' /\ CrosscutKeepsItsSlot'
      /\ Waiting' # {} => Cardinality(Counted(Delivered)') < MaxTasks
  BY QuietCrosscut
<1> QED BY <1>2, <1>3, <1>4 DEF CrosscutIInv, Closed, Kind

\* A call reads what is delivered, and whether the cross-cutting task waits.
LEMMA LeaseCrosscut ==
  ASSUME OneServer, IInv, CrosscutIInv, NEW p \in Servers, NEW kinds, LeaseNext(p, kinds)
  PROVE  CrosscutIInv'
<1>1. /\ KeepsRows /\ KeepsReasons /\ op'[p].step = "leasing" /\ op'[p].seen = Delivered
      /\ op'[p].cands = {t \in Existing : Leasable(t) /\ Kind(t) \in kinds} /\ op'[p].todo = op'[p].cands
      /\ op'[p].crosscut = \E t \in Existing \ Delivered : Kind(t) = "crosscut" /\ ~Closed(t)
  BY LeaseReads
<1>2. task' = task /\ Existing' = Existing /\ Delivered' = Delivered /\ Waiting' = Waiting
      /\ Counted(Delivered)' = Counted(Delivered)
  BY DEF LeaseNext, Existing, Delivered, Waiting, Closed, Kind, Counted
<1>3. op'[p].crosscut <=> Waiting' # {}
  BY <1>1, <1>2 DEF Waiting
<1>4. \A c \in op'[p].cands : ~Closed(c)
  BY <1>1 DEF Leasable, Closed
<1>5. CrosscutKeepsItsSlot'
  BY <1>2 DEF CrosscutIInv, CrosscutKeepsItsSlot, Kind
<1>6. \A q \in Servers : q = p
  BY DEF OneServer
<1>7. 1 .. Planned \subseteq Existing' /\ (Waiting' # {} => Cardinality(Counted(Delivered)') < MaxTasks)
  BY <1>2 DEF CrosscutIInv
<1>8. op'[p].cands \subseteq Existing' /\ op'[p].todo \subseteq op'[p].cands
  BY <1>1, <1>2
<1> QED BY <1>1, <1>2, <1>3, <1>4, <1>5, <1>6, <1>7, <1>8 DEF CrosscutIInv, Closed, Kind

\* It stops at the cross-cutting task only if the briefs are used up: a slot is
\* kept for it.
LEMMA ReachCrosscut ==
  ASSUME OneServer, IInv, CrosscutIInv,
         NEW p \in Servers, NEW t \in TaskIds, ReachLimit(p, t)
  PROVE  CrosscutIInv'
<1>1. /\ task' = task /\ op[p].step = "leasing" /\ t \in op[p].todo /\ t \notin op[p].seen /\ OverLimit(p, t)
  BY DEF ReachLimit, First
<1>2. KeepsRows /\ KeepsReasons /\ KeepsCrosscut
  BY <1>1, SameRows DEF KeepsCrosscut, Closed
<1>3. CASE KeepsCalls
  BY <1>1, <1>2, <1>3, QuietCrosscutIInv
<1>4. CASE /\ op'[p].step = "stopping" /\ op'[p].todo = op[p].cands \ op[p].seen
           /\ Kind(t) = "crosscut" \/ \A c \in op[p].cands \ op[p].seen : Kind(c) # "crosscut"
  <2>1. \A q \in Servers : q = p
    BY DEF OneServer
  <2>2. Delivered' = Delivered
    BY <1>2, SameCounts
  <2>3. ASSUME NEW c \in op'[p].todo, Kind(c) = "crosscut" PROVE Cardinality(Delivered') >= MaxBriefs
    <3>1. Kind(t) = "crosscut"
      BY <1>4, <2>3
    <3>2. op[p].seen = Delivered /\ t \in Existing /\ ~Closed(t) /\ t \in Waiting
      BY <1>1, <3>1 DEF CrosscutIInv, Waiting
    <3>3. Cardinality(Counted(Delivered)) < MaxTasks
      BY <3>2 DEF CrosscutIInv
    <3>4. Cardinality(Counted(Delivered)) \in Nat /\ Cardinality(Delivered) \in Nat /\ MaxTasks \in Nat /\ MaxBriefs \in Nat
      <4>1. IsFiniteSet(TaskIds) /\ Delivered \subseteq TaskIds /\ Counted(Delivered) \subseteq TaskIds
        BY FS_Interval, PlannedAssumption, LimitsAssumption DEF TaskIds, Delivered, Existing, Counted
      <4> QED BY <4>1, FS_Subset, FS_CardinalityType, LimitsAssumption
    <3>5. ~(Cardinality(Counted(op[p].seen)) + 0 >= MaxTasks)
      BY <3>2, <3>3, <3>4
    <3>6. Cardinality(op[p].seen) + 1 > MaxBriefs
      BY <1>1, <3>1, <3>5 DEF OverLimit
    <3> QED BY <2>2, <3>2, <3>4, <3>6
  <2>4. /\ 1 .. Planned \subseteq Existing' /\ CrosscutKeepsItsSlot'
        /\ Waiting' # {} => Cardinality(Counted(Delivered)') < MaxTasks
    BY <1>1, <1>2, QuietCrosscut
  <2> QED BY <1>4, <2>1, <2>2, <2>3, <2>4 DEF CrosscutIInv, Kind
<1> QED BY <1>3, <1>4, ReachesLimit

\* Another task is delivered only if a slot is left for the cross-cutting one.
LEMMA ClaimCrosscut ==
  ASSUME OneServer, OneCrosscut, IInv, CrosscutIInv,
         NEW p \in Servers, NEW t \in TaskIds, NEW k \in Tokens, Claim(p, t, k)
  PROVE  CrosscutIInv'
<1>1. /\ t \in Existing /\ Existing' = Existing /\ Delivered' = Delivered \cup {t} /\ op'[p].step = "idle"
      /\ \A q \in Servers : q = p
  BY ClaimRows DEF OneServer
<1>2. \A u \in TaskIds : task'[u].origin = task[u].origin /\ task'[u].reason = task[u].reason
  BY ClaimRows
<1>3. \A u \in TaskIds : task'[u].status = "closed" <=> Closed(u)
  BY ClaimRows
<1>4. /\ op[p].step = "leasing" /\ op[p].seen = Delivered /\ (op[p].crosscut <=> Waiting # {})
      /\ t \in op[p].seen \/ ~OverLimit(p, t)
  BY DEF Claim, First, CrosscutIInv
<1>5. /\ IsFiniteSet(Delivered) /\ IsFiniteSet(Counted(Delivered))
      /\ Cardinality(Counted(Delivered)) \in Nat /\ Cardinality(Delivered) \in Nat
      /\ MaxTasks \in Nat /\ MaxBriefs \in Nat
  <2>1. IsFiniteSet(TaskIds) /\ Delivered \subseteq TaskIds /\ Counted(Delivered) \subseteq TaskIds
    BY FS_Interval, PlannedAssumption, LimitsAssumption DEF TaskIds, Delivered, Existing, Counted
  <2> QED BY <2>1, FS_Subset, FS_CardinalityType, LimitsAssumption
<1>6. Waiting' = Waiting \ {t}
  BY <1>1, <1>3 DEF Waiting, Existing, Closed, Kind
<1>7. Waiting' # {} => Cardinality(Counted(Delivered)') < MaxTasks
  <2> SUFFICES ASSUME Waiting' # {} PROVE Cardinality(Counted(Delivered)') < MaxTasks
    OBVIOUS
  <2>1. Waiting # {} /\ Cardinality(Counted(Delivered)) < MaxTasks
    BY <1>6 DEF CrosscutIInv
  <2>2. Counted(Delivered)' = {u \in Delivered \cup {t} : task[u].origin = 0}
    BY <1>1, <1>2 DEF Counted, Delivered, Existing
  <2>3. CASE t \in Delivered
    <3>1. Counted(Delivered)' = Counted(Delivered)
      BY <2>2, <2>3 DEF Counted
    <3> QED BY <2>1, <3>1
  <2>4. CASE t \notin Delivered /\ task[t].origin # 0
    <3>1. Counted(Delivered)' = Counted(Delivered)
      BY <2>2, <2>4 DEF Counted
    <3> QED BY <2>1, <3>1
  <2>5. CASE t \notin Delivered /\ task[t].origin = 0
    <3>1. Kind(t) # "crosscut"
      <4>1. PICK c \in Waiting : c # t
        BY <1>6
      <4>2. c \in TaskIds /\ Kind(c) = "crosscut" /\ t \in TaskIds
        BY DEF Waiting, Existing
      <4> QED BY <4>1, <4>2, CrosscutIsPlanned DEF OneCrosscut
    <3>2. ~(Cardinality(Counted(Delivered)) + 1 >= MaxTasks)
      BY <1>4, <2>1, <2>5, <3>1 DEF OverLimit
    <3>3. Counted(Delivered)' = Counted(Delivered) \cup {t}
      BY <2>2, <2>5 DEF Counted
    <3>4. Cardinality(Counted(Delivered) \cup {t}) = Cardinality(Counted(Delivered)) + 1
      <4>1. t \notin Counted(Delivered)
        BY <2>5 DEF Counted
      <4> QED BY <1>5, <4>1, FS_AddElement
    <3> QED BY <1>5, <3>2, <3>3, <3>4
  <2> QED BY <2>3, <2>4, <2>5
<1>8. CrosscutKeepsItsSlot'
  <2>1. Cardinality(Delivered \cup {t}) \in Nat /\ Cardinality(Delivered \cup {t}) >= Cardinality(Delivered)
    <3>1. IsFiniteSet(Delivered \cup {t})
      BY <1>5, FS_AddElement
    <3>2. Delivered \subseteq Delivered \cup {t}
      OBVIOUS
    <3> QED BY <3>1, <3>2, FS_Subset, FS_CardinalityType
  <2>2. ASSUME NEW u \in Existing, Kind(u) = "crosscut", task'[u].reason = "not_delivered"
        PROVE  Cardinality(Delivered) >= MaxBriefs
    BY <1>2, <2>2 DEF CrosscutIInv, CrosscutKeepsItsSlot, Existing
  <2>3. ASSUME NEW u \in Existing, Kind(u) = "crosscut", task'[u].reason = "not_delivered"
        PROVE  Cardinality(Delivered \cup {t}) >= MaxBriefs
    BY <1>5, <2>1, <2>2, <2>3
  <2> QED BY <1>1, <2>3 DEF CrosscutKeepsItsSlot, Kind
<1>9. 1 .. Planned \subseteq Existing'
  BY <1>1 DEF CrosscutIInv
<1> QED BY <1>1, <1>7, <1>8, <1>9 DEF CrosscutIInv

\* What was read as undelivered is closed when the briefs are used up.
LEMMA StopCrosscut ==
  ASSUME OneServer, IInv, CrosscutIInv, NEW p \in Servers, StopDelivery(p)
  PROVE  CrosscutIInv'
<1>1. /\ KeepsRows /\ KeepsCalls /\ KeepsCrosscut /\ op[p].step = "stopping"
      /\ KeepsReasons \/ \E t \in op[p].todo : \A u \in TaskIds \ {t} : task'[u] = task[u]
  BY Stops
<1>2. ASSUME NEW u \in 1 .. Planned, Kind(u) = "crosscut", task'[u].reason = "not_delivered"
      PROVE  task[u].reason = "not_delivered" \/ Cardinality(Delivered) >= MaxBriefs
  <2>1. u \in TaskIds /\ u \in Existing
    BY DEF CrosscutIInv, Existing
  <2>2. CASE KeepsReasons
    BY <1>1, <1>2, <2>1, <2>2 DEF KeepsReasons, KeepsRows
  <2>3. CASE \E t \in op[p].todo : \A v \in TaskIds \ {t} : task'[v] = task[v]
    BY <1>1, <1>2, <2>1, <2>3 DEF CrosscutIInv
  <2> QED BY <1>1, <2>2, <2>3
<1> QED BY <1>1, <1>2, QuietCrosscutIInv

\* Every step keeps the slot.
LEMMA NextCrosscut ==
  ASSUME OneServer, OneCrosscut, IInv, CrosscutIInv, [Next]_vars
  PROVE  CrosscutIInv'
<1>1. ASSUME KeepsRows, KeepsReasons, KeepsCalls, KeepsCrosscut PROVE CrosscutIInv'
  <2>1. ASSUME NEW u \in 1 .. Planned, task'[u].reason = "not_delivered" PROVE task[u].reason = "not_delivered"
    <3>1. u \in TaskIds /\ task'[u].status # "absent"
      BY <1>1 DEF CrosscutIInv, KeepsRows, Existing
    <3> QED BY <1>1, <2>1, <3>1 DEF KeepsReasons
  <2> QED BY <1>1, <2>1, QuietCrosscutIInv
<1>2. CASE Quiet
  BY <1>1, <1>2 DEF Quiet
<1>3. ASSUME NEW p \in Servers, NEW kinds, LeaseNext(p, kinds) PROVE CrosscutIInv'
  BY <1>3, LeaseCrosscut
<1>4. ASSUME NEW p \in Servers, NEW t \in TaskIds, SkipStale(p, t) \/ ClaimFails(p, t) PROVE CrosscutIInv'
  BY <1>1, <1>4, LooksAt
<1>5. ASSUME NEW p \in Servers, NEW t \in TaskIds, ReachLimit(p, t) PROVE CrosscutIInv'
  BY <1>5, ReachCrosscut
<1>6. ASSUME NEW p \in Servers, NEW t \in TaskIds, NEW k \in Tokens, Claim(p, t, k) PROVE CrosscutIInv'
  BY <1>6, ClaimCrosscut
<1>7. ASSUME NEW p \in Servers, StopDelivery(p) PROVE CrosscutIInv'
  BY <1>7, StopCrosscut
<1> QED BY <1>2, <1>3, <1>4, <1>5, <1>6, <1>7, StepsOfDelivery

\* When the plan starts, no task is delivered, and max_tasks is not zero.
LEMMA InitCrosscut == Init => CrosscutIInv
<1> SUFFICES ASSUME Init PROVE CrosscutIInv
  OBVIOUS
<1>1. /\ Delivered = {} /\ \A p \in Servers : op[p].step = "idle"
      /\ \A t \in TaskIds : task[t].reason = "none"
  BY DEF Init, Delivered, Existing, NewTask, Idle
<1>2. Counted(Delivered) = {} /\ Cardinality({}) = 0 /\ MaxTasks > 0
  BY <1>1, FS_EmptySet, LimitsAssumption DEF Counted
<1>3. 1 .. Planned \subseteq Existing
  BY PlannedAssumption, LimitsAssumption DEF Init, Existing, TaskIds, NewTask
<1>4. CrosscutKeepsItsSlot
  BY <1>1 DEF CrosscutKeepsItsSlot, Existing
<1> QED BY <1>1, <1>2, <1>3, <1>4 DEF CrosscutIInv

\* One server that has the plan to itself closes the cross-cutting task
\* undelivered only when the briefs are used up, never for want of a slot.
THEOREM CrosscutIsDelivered ==
  ASSUME OneServer, OneCrosscut
  PROVE  Spec => []CrosscutKeepsItsSlot
<1>1. IInv /\ CrosscutIInv /\ [Next]_vars => CrosscutIInv'
  BY NextCrosscut
<1>2. CrosscutIInv => CrosscutKeepsItsSlot
  BY DEF CrosscutIInv
<1> QED BY <1>1, <1>2, InitCrosscut, Invariance, PTL DEF Spec
=============================================================================
