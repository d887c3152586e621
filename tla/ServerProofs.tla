---------------------------- MODULE ServerProofs -----------------------------
(*************************************************************************)
(* What holds of the small mechanisms of one server process, and of its  *)
(* tools, for every value of their constants: the scan clock, the process*)
(* runner, the passes of a scanner, the progress emitter and the limit on*)
(* open LLM-scan plans.  Each has its inductive invariant, *IInv.        *)
(*************************************************************************)
EXTENDS ScanClock, ScannerPasses, ProcessRun, ProgressTokens, LlmPlans,
        QueueLemmas, FiniteSetTheorems, TLAPS

-----------------------------------------------------------------------------
(*************************************************************************)
(* The scan clock: scans sort in the order they started, unless a        *)
(* correction comes between, and no stamp is dated in the future.        *)
(*************************************************************************)

ClockType == now \in Int /\ stamps \in Seq(Int)

\* SortsAsStarted is inductive once the stamps are numbers.
ClockIInv == ClockType /\ SortsAsStarted

\* The new stamp is at or after the last, unless the clock is corrected by it.
LEMMA StampAfterLast ==
  ASSUME ClockAssumption, ClockType
  PROVE  /\ Stamp \in Int
         /\ stamps # <<>> /\ ~(Behind >= Hold) => Stamp >= stamps[Len(stamps)]
  <1>1. stamps = <<>> => Stamp = now
    BY DEF Stamp, Behind
  <1>2. stamps # <<>> => LastStamp \in Int /\ Behind = LastStamp - now
    BY DEF ClockType, LastStamp, Behind
  <1>3. now \in Int /\ Hold \in Int
    BY DEF ClockType, ClockAssumption
  <1>4. QED
    BY <1>1, <1>2, <1>3 DEF Stamp, LastStamp

\* No scan has started.
LEMMA InitClockIInv == ASSUME ClockAssumption PROVE ClockInit => ClockIInv
  BY DEF ClockAssumption, ClockInit, ClockIInv, ClockType, SortsAsStarted

\* A scan that starts is stamped at or after the last, or across a correction.
LEMMA StartScanIInv == ASSUME ClockAssumption, ClockIInv, StartScan PROVE ClockIInv'
  <1> DEFINE n == Len(stamps)
  <1>1. /\ stamps' = Append(stamps, Stamp) /\ now' = now
        /\ corrections' = IF Behind >= Hold THEN corrections \cup {n + 1} ELSE corrections
    BY DEF StartScan
  <1>2. Stamp \in Int /\ n \in Nat /\ stamps \in Seq(Int)
    BY StampAfterLast DEF ClockIInv, ClockType
  <1>3. /\ Len(stamps') = n + 1 /\ stamps'[n + 1] = Stamp
        /\ \A i \in 1 .. n : stamps'[i] = stamps[i]
    BY <1>1, <1>2
  <1>4. ClockType'
    BY <1>1, <1>2 DEF ClockIInv, ClockType
  <1>5. SortsAsStarted'
    <2> SUFFICES ASSUME NEW i \in 1 .. n + 1, NEW j \in 1 .. n + 1,
                        i < j, stamps'[j] < stamps'[i]
                 PROVE  \E k \in i + 1 .. j : k \in corrections'
      BY <1>3 DEF SortsAsStarted
    <2>1. i \in 1 .. n /\ stamps'[i] = stamps[i]
      BY <1>2, <1>3
    <2>2. CASE j \in 1 .. n
      BY <1>1, <1>3, <2>1, <2>2 DEF ClockIInv, SortsAsStarted
    <2>3. CASE j = n + 1 /\ Behind >= Hold
      BY <1>1, <1>2, <2>1, <2>3
    <2>4. CASE j = n + 1 /\ ~(Behind >= Hold)
      <3>1. n \in 1 .. n /\ stamps # <<>> /\ stamps[i] \in Int /\ stamps[n] \in Int
        BY <1>2, <2>1
      <3>2. stamps[n] < stamps[i]
        BY <1>2, <1>3, <2>1, <2>4, <3>1, StampAfterLast DEF ClockIInv
      <3>3. i < n
        BY <1>2, <2>1, <3>1, <3>2
      <3>4. \E k \in i + 1 .. n : k \in corrections
        BY <2>1, <3>1, <3>2, <3>3 DEF ClockIInv, SortsAsStarted
      <3>5. QED
        BY <1>1, <1>2, <2>1, <2>4, <3>4
    <2>5. QED
      BY <1>2, <2>2, <2>3, <2>4
  <1>6. QED
    BY <1>4, <1>5 DEF ClockIInv

\* The wall clock and corrections leave the stamps alone.
LEMMA NextClockIInv == ASSUME ClockAssumption PROVE ClockIInv /\ [ClockNext]_clockVars => ClockIInv'
  <1> SUFFICES ASSUME ClockIInv, [ClockNext]_clockVars PROVE ClockIInv'
    OBVIOUS
  <1>1. CASE ClockMoves
    BY <1>1 DEF ClockAssumption, ClockMoves, ClockIInv, ClockType, SortsAsStarted
  <1>2. CASE UNCHANGED clockVars
    BY <1>2 DEF clockVars, ClockIInv, ClockType, SortsAsStarted
  <1>3. QED
    BY <1>1, <1>2, StartScanIInv DEF ClockNext

\* For every clock, the stamps of every history of scans have it.
THEOREM ClockInvariance == ASSUME ClockAssumption PROVE ClockSpec => []ClockIInv
  BY InitClockIInv, NextClockIInv, PTL DEF ClockSpec

\* Scans sort in the order they started (scanStartedAt), however many small
\* steps back the clock took.
THEOREM ScansSortAsStarted == ASSUME ClockAssumption PROVE ClockSpec => []SortsAsStarted
  <1>1. ClockIInv => SortsAsStarted
    BY DEF ClockIInv
  <1>2. QED
    BY ClockInvariance, <1>1, PTL

\* No stamp is more than the hold ahead of the clock, so that no reader takes
\* it for one of the future (datedInFutureSql).
THEOREM StampsWithinHold == ASSUME ClockAssumption PROVE ClockSpec => WithinHold
  <1> DEFINE Held == \A i \in DOMAIN stamps' \ DOMAIN stamps :
                       stamps'[i] - now <= Hold /\ ~(stamps'[i] > now + Skew)
  <1>1. ClockIInv /\ [ClockNext]_clockVars => [Held]_clockVars
    <2> SUFFICES ASSUME ClockIInv, ClockNext, NEW i \in DOMAIN stamps' \ DOMAIN stamps
                 PROVE  stamps'[i] - now <= Hold /\ ~(stamps'[i] > now + Skew)
      OBVIOUS
    <2>1. StartScan
      BY DEF ClockNext, ClockMoves
    <2>2. Stamp \in Int /\ stamps' = Append(stamps, Stamp) /\ stamps \in Seq(Int) /\ now \in Int
      BY <2>1, StampAfterLast DEF StartScan, ClockIInv, ClockType
    <2>3. stamps'[i] = Stamp
      BY <2>2
    <2>4. Hold \in Nat \ {0} /\ Skew \in Nat /\ Hold <= Skew
      BY DEF ClockAssumption
    <2>5. stamps # <<>> => LastStamp \in Int /\ Behind = LastStamp - now
      BY <2>2 DEF LastStamp, Behind
    <2>6. Stamp - now <= Hold
      BY <2>2, <2>4, <2>5 DEF Stamp, Behind
    <2>7. QED
      BY <2>2, <2>3, <2>4, <2>6
  <1>2. QED
    BY ClockInvariance, <1>1, PTL DEF ClockSpec, WithinHold

-----------------------------------------------------------------------------
(*************************************************************************)
(* The process runner, whatever of the tree leaves the group or ignores  *)
(* SIGTERM: a completed result is whole, a stopped group is gone, and each*)
(* step of runProcess is one that ProcessPromise allows.                 *)
(*************************************************************************)

ProcessType ==
  /\ alive \subseteq Procs /\ born \subseteq Procs /\ holds \subseteq Procs
  /\ code \in {None, "zero", "other"}
  /\ spawn \in {"pending", "started", "failed"} /\ pipes \in {"read", "destroyed"}
  /\ stop \in {"no", "asked", "grace", "killed", "last", "over"}
  /\ outcome \in Reasons \cup {"completed"}

\* Until the child is started there is nothing, and nobody asks to stop it.
NothingYet ==
  /\ spawn # "started" => alive = {} /\ holds = {} /\ ~hook
  /\ spawn = "pending" => stop = "no" /\ ~settled /\ code = None

\* The leader is not started twice.
LeaderOnce ==
  /\ spawn = "started" => Leader \in born
  /\ code # None => Leader \notin alive

\* Who is not asked to stop is not signalled, and keeps its pipes: only the
\* exit hook signals then, and it is gone once the child has settled.
LeftAlone ==
  /\ stop = "no" <=> outcome = "completed"
  /\ stop = "no" /\ (server = "up" \/ settled) => termed = {}
  /\ stop = "no" => pipes = "read"
  /\ settled => ~hook
  /\ lost => pipes = "destroyed"

\* A child that has settled was started in vain, or has ended and let go of
\* its pipes; they are not taken up again.
SettledIsOver ==
  settled => spawn = "failed" \/ (spawn = "started" /\ code # None /\ PipesClosed)

ResultIsOf ==
  /\ result # None => settled
  /\ result = "completed" => outcome = "completed" /\ code = "zero" /\ spawn = "started"

ProcessIInv ==
  /\ ProcessType /\ NothingYet /\ LeaderOnce /\ LeftAlone /\ SettledIsOver /\ ResultIsOf
  /\ GroupGone

\* Nothing is started, and nobody asked.
LEMMA InitProcessIInv == ASSUME ProcsAssumption PROVE ProcessInit => ProcessIInv
  BY DEF ProcsAssumption, ProcessInit, ProcessIInv, ProcessType, NothingYet, LeaderOnce, LeftAlone, SettledIsOver,
         ResultIsOf, GroupGone, Procs, Reasons

-----------------------------------------------------------------------------
(* The tree: processes come of living ones, and let go of what they hold.  *)

\* What a step of the tree does, a signal apart.
TreeStep ==
  /\ UNCHANGED <<termed, spawn, pipes, settled, stop, outcome, result, hook, server>>
  /\ spawn = "started"
  /\ alive' \subseteq Procs /\ born' \subseteq Procs /\ born \subseteq born'
  /\ (alive' \ alive) \cap {Leader} = {}
  /\ alive \cap Group = {} => alive' \cap Group = {}
  /\ holds' \subseteq Procs /\ (holds = {} => holds' = {})
  /\ code' \in {None, "zero", "other"}
  /\ code' # code => Leader \in alive /\ Leader \notin alive'
  /\ lost' # lost => pipes = "destroyed"

\* Processes that start, end or close a pipe keep the invariant.
LEMMA TreeStepIInv == ASSUME ProcsAssumption, ProcessIInv, TreeStep PROVE ProcessIInv'
  BY DEF ProcessIInv, TreeStep, ProcessType, NothingYet, LeaderOnce, LeftAlone, SettledIsOver, ResultIsOf,
         GroupGone, PipesClosed

\* A group without a living process starts none: what left it is not in it.
LEMMA ForkIsTreeStep ==
  ASSUME ProcsAssumption, ProcessIInv, NEW p \in Procs, NEW q \in Procs, Fork(p, q) PROVE TreeStep
  <1>1. p \in alive \cap Group /\ q \notin born /\ spawn = "started" /\ q # Leader
    BY DEF Fork, ProcessIInv, NothingYet, ProcsAssumption
  <1>2. QED
    BY <1>1 DEF Fork, TreeStep, ProcessIInv, ProcessType

\* What the tree does by itself is such a step.
LEMMA TreeIsTreeStep ==
  ASSUME ProcsAssumption, ProcessIInv, NEW p \in Procs,
         Redirect(p) \/ Write(p) \/ Obey(p) \/ Exit(p, "zero") \/ Exit(p, "other")
  PROVE  TreeStep
  <1>1. p \in alive /\ spawn = "started"
    BY DEF Redirect, Write, Obey, Exit, ProcessIInv, NothingYet
  <1>2. CASE Redirect(p) \/ Write(p)
    BY <1>1, <1>2 DEF Redirect, Write, TreeStep, ProcessIInv, ProcessType
  <1>3. ASSUME NEW how \in {"zero", "other"}, Exit(p, how) PROVE TreeStep
    BY <1>1, <1>3 DEF Exit, Gone, TreeStep, ProcessIInv, ProcessType
  <1>4. QED
    BY <1>2, <1>3 DEF Obey

-----------------------------------------------------------------------------
\* The child is started, or is not.
LEMMA StartChildIInv == ASSUME ProcsAssumption, ProcessIInv, StartChild \/ StartFails PROVE ProcessIInv'
  <1>1. CASE StartChild
    BY <1>1 DEF StartChild, ProcessIInv, ProcessType, NothingYet, LeaderOnce, LeftAlone, SettledIsOver, ResultIsOf,
                GroupGone, Procs, Group
  <1>2. CASE StartFails
    BY <1>2 DEF StartFails, procVars, ProcessIInv, ProcessType, NothingYet, LeaderOnce, LeftAlone, SettledIsOver,
                ResultIsOf, GroupGone
  <1>3. QED
    BY <1>1, <1>2

\* The child settles once it is gone and its pipes are closed.
LEMMA SettleIInv == ASSUME ProcsAssumption, ProcessIInv, Settle PROVE ProcessIInv'
  BY DEF Settle, procVars, ProcessIInv, ProcessType, NothingYet, LeaderOnce, LeftAlone, SettledIsOver, ResultIsOf,
         GroupGone, PipesClosed

\* A stop is asked for.
LEMMA AskIInv == ASSUME ProcsAssumption, ProcessIInv, NEW r \in Reasons, Ask(r) PROVE ProcessIInv'
  BY DEF ProcsAssumption, Ask, procVars, Reasons, ProcessIInv, ProcessType, NothingYet, LeaderOnce, LeftAlone,
         SettledIsOver, ResultIsOf, GroupGone, PipesClosed

\* The result is made when the stop, if any, is over.
LEMMA ReturnResultIInv == ASSUME ProcsAssumption, ProcessIInv, ReturnResult PROVE ProcessIInv'
  BY DEF ReturnResult, procVars, Reasons, ProcessIInv, ProcessType, NothingYet, LeaderOnce, LeftAlone, SettledIsOver,
         ResultIsOf, GroupGone, PipesClosed

\* The steps of a stop: SIGTERM, SIGKILL, the last look, pipes given up.
LEMMA StopIInv ==
  ASSUME ProcsAssumption, ProcessIInv, StopBegins \/ KillGroup \/ AbandonPipes \/ StopEnds PROVE ProcessIInv'
  <1>1. CASE StopBegins
    BY <1>1 DEF StopBegins, ProcessIInv, ProcessType, NothingYet, LeaderOnce, LeftAlone, SettledIsOver, ResultIsOf,
                GroupGone, PipesClosed
  <1>2. CASE KillGroup
    BY <1>2 DEF KillGroup, Gone, ProcessIInv, ProcessType, NothingYet, LeaderOnce, LeftAlone, SettledIsOver,
                ResultIsOf, GroupGone, PipesClosed, Group
  <1>3. CASE AbandonPipes
    BY <1>3 DEF AbandonPipes, procVars, ProcessIInv, ProcessType, NothingYet, LeaderOnce, LeftAlone, SettledIsOver,
                ResultIsOf, GroupGone, PipesClosed
  <1>4. CASE StopEnds
    BY <1>4 DEF StopEnds, procVars, ProcessIInv, ProcessType, NothingYet, LeaderOnce, LeftAlone, SettledIsOver,
                ResultIsOf, GroupGone, PipesClosed
  <1>5. QED
    BY <1>1, <1>2, <1>3, <1>4

\* The server exits, with its hook or without.
LEMMA ServerExitsIInv == ASSUME ProcsAssumption, ProcessIInv, ServerExits PROVE ProcessIInv'
  BY DEF ServerExits, ProcessIInv, ProcessType, NothingYet, LeaderOnce, LeftAlone, SettledIsOver, ResultIsOf,
         GroupGone, PipesClosed

\* Every step of runProcess, of the tree and of the server.
LEMMA NextProcessIInv == ASSUME ProcsAssumption PROVE ProcessIInv /\ [ProcessNext]_processVars => ProcessIInv'
  <1> SUFFICES ASSUME ProcessIInv, [ProcessNext]_processVars PROVE ProcessIInv'
    OBVIOUS
  <1>1. CASE UNCHANGED processVars
    BY <1>1 DEF processVars, procVars, ProcessIInv, ProcessType, NothingYet, LeaderOnce, LeftAlone, SettledIsOver,
                ResultIsOf, GroupGone, PipesClosed
  <1>2. CASE ProcessNext
    BY <1>2, ForkIsTreeStep, TreeIsTreeStep, TreeStepIInv, StartChildIInv, SettleIInv, AskIInv, ReturnResultIInv,
       StopIInv, ServerExitsIInv DEF ProcessNext
  <1>3. QED
    BY <1>1, <1>2

\* Every reachable state of a run of a process has the inductive invariant.
THEOREM ProcessInvariance == ASSUME ProcsAssumption PROVE ProcessSpec => []ProcessIInv
  BY InitProcessIInv, NextProcessIInv, PTL DEF ProcessSpec

\* A result `completed` is the whole output of a child that ended by itself.
THEOREM CompletedWhole == ASSUME ProcsAssumption PROVE ProcessSpec => []CompletedIsWhole
  <1>1. ProcessIInv => CompletedIsWhole
    BY DEF ProcsAssumption, Reasons, ProcessIInv, ProcessType, LeftAlone, SettledIsOver, ResultIsOf, PipesClosed,
           CompletedIsWhole
  <1>2. QED
    BY ProcessInvariance, <1>1, PTL

\* Once stopOnce has killed the group, nothing of it is left nor comes back.
THEOREM StoppedGroupIsGone == ASSUME ProcsAssumption PROVE ProcessSpec => []GroupGone
  <1>1. ProcessIInv => GroupGone
    BY DEF ProcessIInv
  <1>2. QED
    BY ProcessInvariance, <1>1, PTL

-----------------------------------------------------------------------------
\* Nothing is promised before the child is started.
LEMMA InitProcessPromise == ASSUME ProcsAssumption PROVE ProcessInit => Promise!Init
  BY DEF ProcessInit, Promise!Init

\* The steps that the promise sees: a first reason, the result, the exit.
LEMMA StepProcessPromise ==
  ASSUME ProcsAssumption PROVE ProcessIInv /\ [ProcessNext]_processVars => [Promise!Next]_Promise!vars
  <1> SUFFICES ASSUME ProcessIInv, [ProcessNext]_processVars PROVE [Promise!Next]_Promise!vars
    OBVIOUS
  <1>1. CASE UNCHANGED <<outcome, result, server>>
    BY <1>1 DEF Promise!vars
  <1>2. ASSUME NEW r \in Reasons, Ask(r) PROVE [Promise!Next]_Promise!vars
    <2>1. CASE outcome = "completed"
      <3>1. Promise!Ask(r)
        BY <1>2, <2>1 DEF Ask, Promise!Ask, Reasons
      <3>2. QED
        BY <3>1 DEF Promise!Next
    <2>2. CASE outcome # "completed"
      BY <1>1, <1>2, <2>2 DEF Ask
    <2>3. QED
      BY <2>1, <2>2
  <1>3. CASE ReturnResult
    <2>1. Promise!Return
      BY <1>3 DEF ReturnResult, Promise!Return, ProcessIInv, ProcessType, Reasons, ProcsAssumption
    <2>2. QED
      BY <2>1 DEF Promise!Next
  <1>4. CASE ServerExits
    <2>1. Promise!Leave
      BY <1>4 DEF ServerExits, Promise!Leave
    <2>2. QED
      BY <2>1 DEF Promise!Next
  <1>5. CASE ProcessNext /\ ~ReturnResult /\ ~ServerExits /\ ~(\E r \in Reasons : Ask(r))
    BY <1>1, <1>5 DEF ProcessNext, Fork, Redirect, Write, Obey, Exit, StartChild, StartFails, Settle, StopBegins,
       KillGroup, AbandonPipes, StopEnds
  <1>6. QED
    BY <1>1, <1>2, <1>3, <1>4, <1>5 DEF processVars

\* Every step of runProcess, its callbacks and its stop, is one the promise
\* allows: one result, and the first reason wins.
THEOREM StepsKeepPromise ==
  ASSUME ProcsAssumption PROVE ProcessSpec => Promise!Init /\ [][Promise!Next]_Promise!vars
  BY InitProcessPromise, StepProcessPromise, ProcessInvariance, PTL DEF ProcessSpec

-----------------------------------------------------------------------------
(*************************************************************************)
(* The passes of a scanner: the ones that must go after others start only*)
(* when those are done.                                                  *)
(*************************************************************************)

Phases == {"waiting", "queued", "granted", "running", "released", "done"}

PassesType == phase \in [Passes -> Phases] /\ queue \in Seq(Passes)

\* A pass has a place in the queue while it is queued, and one only: when it
\* gets there, or gets a slot, the passes it waits for are done, and a pass
\* that is done is never granted a slot again.
PassesIInv ==
  /\ PassesType
  /\ \A i \in DOMAIN queue : phase[queue[i]] = "queued"
  /\ \A i, j \in DOMAIN queue : queue[i] = queue[j] => i = j
  /\ \A p \in Passes : phase[p] # "waiting" => AfterDone(p)

\* No pass has asked for a slot.
LEMMA InitPassesIInv == PassesInit => PassesIInv
  BY DEF PassesInit, PassesIInv, PassesType, Phases

\* Every step but the release changes the phase of one pass, that is not done.
LEMMA AcquireSlotIInv ==
  ASSUME PassesAssumption, PassesIInv, NEW p \in Passes, AcquireSlot(p) PROVE PassesIInv'
  <1>1. phase \in [Passes -> Phases] /\ queue \in Seq(Passes) /\ phase[p] = "waiting" /\ AfterDone(p)
    BY DEF PassesIInv, PassesType, AcquireSlot
  <1>2. CASE slots < MaxParallel
    <2>1. phase' = [phase EXCEPT ![p] = "granted"] /\ queue' = queue
      BY <1>2 DEF AcquireSlot
    <2>2. QED
      BY <1>1, <2>1 DEF PassesIInv, PassesType, Phases, AfterDone, PassesAssumption
  <1>3. CASE ~(slots < MaxParallel)
    <2>1. phase' = [phase EXCEPT ![p] = "queued"] /\ queue' = Append(queue, p)
      BY <1>3 DEF AcquireSlot
    <2>2. /\ DOMAIN queue' = 1 .. Len(queue) + 1 /\ queue' \in Seq(Passes)
          /\ \A i \in 1 .. Len(queue) + 1 : queue'[i] = IF i <= Len(queue) THEN queue[i] ELSE p
          /\ DOMAIN queue = 1 .. Len(queue) /\ Len(queue) \in Nat
      BY <1>1, <2>1
    <2>3. \A i \in DOMAIN queue : queue[i] \in Passes /\ queue[i] # p
      BY <1>1 DEF PassesIInv
    <2>4. /\ \A i \in DOMAIN queue' : phase'[queue'[i]] = "queued"
          /\ \A i, j \in DOMAIN queue' : queue'[i] = queue'[j] => i = j
      BY <1>1, <2>1, <2>2, <2>3 DEF PassesIInv
    <2>5. \A q \in Passes : phase'[q] # "waiting" => AfterDone(q)'
      BY <1>1, <2>1 DEF PassesIInv, AfterDone, PassesAssumption
    <2>6. QED
      BY <1>1, <2>1, <2>2, <2>4, <2>5 DEF PassesIInv, PassesType, Phases
  <1>4. QED
    BY <1>2, <1>3

\* A slot handed over goes to a queued pass, which its own passes are done for.
LEMMA ReleaseSlotIInv ==
  ASSUME PassesAssumption, PassesIInv, NEW p \in Passes, ReleaseSlot(p) PROVE PassesIInv'
  <1>1. phase \in [Passes -> Phases] /\ queue \in Seq(Passes) /\ phase[p] = "released"
    BY DEF PassesIInv, PassesType, ReleaseSlot
  <1>2. CASE queue = <<>>
    <2>1. phase' = [phase EXCEPT ![p] = "done"] /\ queue' = queue
      BY <1>2 DEF ReleaseSlot
    <2>2. QED
      BY <1>1, <1>2, <2>1 DEF PassesIInv, PassesType, Phases, AfterDone, PassesAssumption
  <1>3. CASE queue # <<>>
    <2> DEFINE h == Head(queue)
    <2>1. phase' = [phase EXCEPT ![p] = "done", ![h] = "granted"] /\ queue' = Tail(queue)
      BY <1>3 DEF ReleaseSlot
    <2>2. /\ h \in Passes /\ phase[h] = "queued" /\ h # p
          /\ queue' \in Seq(Passes)
          /\ \A i \in DOMAIN queue' : queue'[i] # h /\ \E j \in DOMAIN queue : queue'[i] = queue[j]
          /\ \A i, j \in DOMAIN queue' : queue'[i] = queue'[j] => i = j
      <3>1. \A i, j \in DOMAIN queue : queue[i] = queue[j] => i = j
        BY DEF PassesIInv
      <3>2. QED
        BY <1>1, <1>3, <2>1, <3>1, TailDistinct DEF PassesIInv
    <2> HIDE DEF h
    <2>3. \A q \in Passes : phase'[q] = IF q = h THEN "granted" ELSE IF q = p THEN "done" ELSE phase[q]
      BY <1>1, <2>1, <2>2
    <2>4. \A i \in DOMAIN queue' : phase'[queue'[i]] = "queued"
      BY <1>1, <2>2, <2>3 DEF PassesIInv
    <2>5. \A q \in Passes : phase'[q] # "waiting" => AfterDone(q)'
      BY <1>1, <2>2, <2>3 DEF PassesIInv, AfterDone, PassesAssumption
    <2>6. QED
      BY <1>1, <2>1, <2>2, <2>4, <2>5 DEF PassesIInv, PassesType, Phases
  <1>4. QED
    BY <1>2, <1>3

\* Every step of a pass.
LEMMA NextPassesIInv == ASSUME PassesAssumption PROVE PassesIInv /\ [PassesNext]_passVars => PassesIInv'
  <1> SUFFICES ASSUME PassesIInv, [PassesNext]_passVars PROVE PassesIInv'
    OBVIOUS
  <1>1. ASSUME NEW p \in Passes, RunPass(p) PROVE PassesIInv'
    BY <1>1 DEF RunPass, PassesIInv, PassesType, Phases, AfterDone, PassesAssumption
  <1>2. ASSUME NEW p \in Passes, Gather(p) PROVE PassesIInv'
    BY <1>2 DEF Gather, PassesIInv, PassesType, AfterDone
  <1>3. ASSUME NEW p \in Passes, ReturnPass(p) PROVE PassesIInv'
    BY <1>3 DEF ReturnPass, PassesIInv, PassesType, Phases, AfterDone, PassesAssumption
  <1>4. CASE Merge \/ UNCHANGED passVars
    BY <1>4 DEF Merge, passVars, PassesIInv, PassesType, AfterDone
  <1>5. QED
    BY <1>1, <1>2, <1>3, <1>4, AcquireSlotIInv, ReleaseSlotIInv DEF PassesNext

\* The queue holds the queued passes once each, and only passes whose
\* predecessors are done leave "waiting".
THEOREM PassesInvariance == ASSUME PassesAssumption PROVE PassesSpec => []PassesIInv
  BY InitPassesIInv, NextPassesIInv, PTL DEF PassesSpec

\* Whatever the passes and what they wait for: a pass that writes the tree is
\* done before a pass that reads it runs (runScannerPasses).
THEOREM WritersGoFirst == ASSUME PassesAssumption PROVE PassesSpec => []AfterRespected
  <1>1. PassesIInv => AfterRespected
    BY DEF PassesIInv, AfterDone, AfterRespected, PassesAssumption
  <1>2. QED
    BY PassesInvariance, <1>1, PTL

-----------------------------------------------------------------------------
(*************************************************************************)
(* The limit on open plans: concurrent starts overshoot it by one plan   *)
(* each, and no more.                                                    *)
(*************************************************************************)

PlanRow ==
  [hunts : BOOLEAN, status : {"open", "complete", "abandoned"}, idle : {"no", "week", "month"},
   found : SUBSET Fingerprints]

PlansType ==
  /\ plans \in Seq(PlanRow) /\ idled \in Nat
  /\ starting \in [Callers -> {"idle", "hunt", "verify"}]

OpenPlans == {i \in Ids : Open(i)}
IdlePlans == {i \in Ids : Open(i) /\ plans[i].idle # "no"}
Starting == {c \in Callers : starting[c] # "idle"}

\* Plans that are open count, idle ones too: they may be resumed. There are no
\* more idle ones than went idle.
PlansIInv ==
  /\ PlansType
  /\ Cardinality(IdlePlans) <= idled
  /\ Cardinality(OpenPlans) + Cardinality(Starting)
       <= MaxOpenPlans + Cardinality(Callers) - 1 + idled

\* The plans and starts are finite sets, and an open plan is active or idle.
LEMMA PlanCounts ==
  ASSUME HuntAssumption, PlansType
  PROVE  /\ IsFiniteSet(Ids) /\ IsFiniteSet(OpenPlans) /\ IsFiniteSet(IdlePlans) /\ IsFiniteSet(Starting)
         /\ Cardinality(OpenPlans) \in Nat /\ Cardinality(IdlePlans) \in Nat
         /\ Cardinality(Starting) \in Nat /\ Cardinality(ActivePlans) \in Nat
         /\ Cardinality(Callers) \in Nat /\ Cardinality(Starting) <= Cardinality(Callers)
         /\ Cardinality(OpenPlans) = Cardinality(ActivePlans) + Cardinality(IdlePlans)
  <1>1. IsFiniteSet(Ids)
    BY FS_Interval DEF PlansType, Ids
  <1>2. /\ OpenPlans \subseteq Ids /\ IdlePlans \subseteq Ids /\ ActivePlans \subseteq Ids
        /\ Starting \subseteq Callers
    BY DEF OpenPlans, IdlePlans, ActivePlans, Starting
  <1>3. /\ IsFiniteSet(OpenPlans) /\ IsFiniteSet(IdlePlans) /\ IsFiniteSet(ActivePlans) /\ IsFiniteSet(Starting)
        /\ Cardinality(Starting) <= Cardinality(Callers)
    BY <1>1, <1>2, FS_Subset DEF HuntAssumption
  <1>4. OpenPlans = ActivePlans \cup IdlePlans /\ ActivePlans \cap IdlePlans = {}
    BY DEF OpenPlans, IdlePlans, ActivePlans
  <1>5. Cardinality(OpenPlans) = Cardinality(ActivePlans) + Cardinality(IdlePlans) - Cardinality({})
    BY <1>3, <1>4, FS_Union
  <1>6. QED
    BY <1>1, <1>3, <1>5, FS_EmptySet, FS_CardinalityType DEF HuntAssumption

\* There is no plan.
LEMMA InitPlansIInv == ASSUME HuntAssumption PROVE PlansInit => PlansIInv
  <1> SUFFICES ASSUME PlansInit PROVE PlansIInv
    OBVIOUS
  <1>1. PlansType /\ idled = 0
    BY DEF PlansInit, PlansType
  <1>2. Ids = {} /\ IdlePlans = {} /\ OpenPlans = {} /\ Starting = {}
    BY DEF PlansInit, Ids, IdlePlans, OpenPlans, Starting
  <1>3. QED
    BY <1>1, <1>2, PlanCounts, FS_EmptySet DEF PlansIInv, HuntAssumption

\* A step that opens no plan and starts none, and leaves idle what it does.
LEMMA QuietStep ==
  ASSUME HuntAssumption, PlansIInv, PlansType', UNCHANGED idled,
         OpenPlans' \subseteq OpenPlans, IdlePlans' \subseteq IdlePlans, Starting' \subseteq Starting
  PROVE  PlansIInv'
  <1>1. PlansType /\ PlansType'
    BY DEF PlansIInv
  <1>2. /\ Cardinality(OpenPlans') <= Cardinality(OpenPlans) /\ Cardinality(IdlePlans') <= Cardinality(IdlePlans)
        /\ Cardinality(Starting') <= Cardinality(Starting)
        /\ Cardinality(OpenPlans') \in Nat /\ Cardinality(IdlePlans') \in Nat /\ Cardinality(Starting') \in Nat
    BY <1>1, PlanCounts, FS_Subset, FS_CardinalityType
  <1>3. idled \in Nat /\ MaxOpenPlans \in Nat /\ Cardinality(Callers) \in Nat
        /\ Cardinality(OpenPlans) \in Nat /\ Cardinality(IdlePlans) \in Nat /\ Cardinality(Starting) \in Nat
    BY <1>1, PlanCounts DEF HuntAssumption, PlansType
  <1>4. QED
    BY <1>1, <1>2, <1>3 DEF PlansIInv

\* The limit was read and is not reached: what is open above it has gone idle.
LEMMA CheckLimitIInv ==
  ASSUME HuntAssumption, PlansIInv, NEW c \in Callers, NEW modes \in {"hunt", "verify"},
         CheckLimit(c, modes)
  PROVE  PlansIInv'
  <1>1. /\ PlansType /\ PlansType'
        /\ OpenPlans' = OpenPlans /\ IdlePlans' = IdlePlans /\ UNCHANGED idled
        /\ Cardinality(ActivePlans) < MaxOpenPlans
    BY DEF CheckLimit, PlansIInv, PlansType, OpenPlans, IdlePlans, Ids, Open
  <1>2. /\ Cardinality(Starting') <= Cardinality(Callers) /\ Cardinality(Starting') \in Nat
    BY <1>1, PlanCounts, FS_Subset, FS_CardinalityType DEF Starting, HuntAssumption
  <1>3. QED
    BY <1>1, <1>2, PlanCounts DEF PlansIInv, HuntAssumption, PlansType

\* A start becomes a plan.
LEMMA StoreIInv ==
  ASSUME HuntAssumption, PlansIInv, NEW c \in Callers, Store(c) PROVE PlansIInv'
  <1> DEFINE new == Len(plans) + 1
             row == [hunts |-> starting[c] = "hunt", status |-> "open", idle |-> "no", found |-> {}]
  <1>1. PlansType /\ starting[c] # "idle" /\ plans' = Append(plans, row) /\ row \in PlanRow
        /\ starting' = [starting EXCEPT ![c] = "idle"] /\ UNCHANGED idled
    BY DEF Store, PlansIInv, PlanRow
  <1>2. PlansType'
    BY <1>1 DEF PlansType
  <1>3. /\ Ids' = Ids \cup {new} /\ new \notin Ids /\ plans'[new] = row
        /\ \A i \in Ids : plans'[i] = plans[i]
    BY <1>1 DEF PlansType, Ids
  <1>4. OpenPlans' = OpenPlans \cup {new} /\ new \notin OpenPlans /\ IdlePlans' = IdlePlans
    BY <1>3 DEF OpenPlans, IdlePlans, Open
  <1>5. Starting' = Starting \ {c} /\ c \in Starting
    BY <1>1 DEF Starting, PlansType
  <1>6. Cardinality(OpenPlans') = Cardinality(OpenPlans) + 1 /\ Cardinality(Starting') = Cardinality(Starting) - 1
    BY <1>1, <1>4, <1>5, PlanCounts, FS_AddElement, FS_RemoveElement
  <1>7. QED
    BY <1>1, <1>2, <1>4, <1>6, PlanCounts DEF PlansIInv, HuntAssumption, PlansType

\* One plan's row is replaced: the plans are those there were.
LEMMA RowEdit ==
  ASSUME PlansType, NEW i \in Ids, NEW row \in PlanRow, plans' = [plans EXCEPT ![i] = row],
         UNCHANGED starting, idled' \in Nat
  PROVE  PlansType' /\ Ids' = Ids /\ \A j \in Ids : plans'[j] = IF j = i THEN row ELSE plans[j]
  BY DEF PlansType, Ids

\* A plan goes idle, once more than before.
LEMMA GoIdleIInv ==
  ASSUME HuntAssumption, PlansIInv, NEW i \in Ids, GoIdle(i) PROVE PlansIInv'
  <1>1. PlansType /\ idled' = idled + 1 /\ starting' = starting /\ Open(i)
    BY DEF GoIdle, PlansIInv
  <1>2. PICK idle \in {"week", "month"} : plans' = [plans EXCEPT ![i].idle = idle]
    BY DEF GoIdle
  <1> DEFINE row == [plans[i] EXCEPT !.idle = idle]
  <1>3. /\ Ids' = Ids /\ PlansType' /\ row.status = plans[i].status /\ row.idle # "no"
        /\ \A j \in Ids : plans'[j] = IF j = i THEN row ELSE plans[j]
    <2>1. plans[i] \in PlanRow
      BY <1>1 DEF PlansType, Ids
    <2>2. row \in PlanRow /\ plans' = [plans EXCEPT ![i] = row] /\ row.status = plans[i].status /\ row.idle = idle
      BY <1>2, <2>1 DEF PlanRow
    <2>3. idled' \in Nat
      BY <1>1 DEF PlansType
    <2> HIDE DEF row
    <2>4. QED
      BY <1>1, <2>2, <2>3, RowEdit
  <1> HIDE DEF row
  <1>4. OpenPlans' = OpenPlans /\ IdlePlans' = IdlePlans \cup {i} /\ Starting' = Starting
    BY <1>1, <1>3 DEF OpenPlans, IdlePlans, Starting, Open
  <1>5. Cardinality(IdlePlans') <= Cardinality(IdlePlans) + 1 /\ Cardinality(IdlePlans') \in Nat
    <2>1. IsFiniteSet(IdlePlans) /\ Cardinality(IdlePlans) \in Nat
      BY <1>1, PlanCounts
    <2>2. Cardinality(IdlePlans \cup {i}) \in {Cardinality(IdlePlans), Cardinality(IdlePlans) + 1}
      BY <2>1, FS_AddElement
    <2>3. QED
      BY <1>4, <2>1, <2>2
  <1>6. idled \in Nat /\ Cardinality(IdlePlans) \in Nat /\ Cardinality(OpenPlans) \in Nat
        /\ Cardinality(Starting) \in Nat /\ Cardinality(Callers) \in Nat /\ MaxOpenPlans \in Nat
    BY <1>1, PlanCounts DEF HuntAssumption, PlansType
  <1>7. QED
    BY <1>1, <1>3, <1>4, <1>5, <1>6 DEF PlansIInv

\* The other steps on plans keep them open, or close them, and make none idle.
LEMMA RowsStep ==
  ASSUME HuntAssumption, PlansIInv, UNCHANGED <<starting, idled>>, PlansType', Ids' = Ids,
         \A i \in Ids : Open(i)' => Open(i) /\ plans'[i].idle \in {"no", plans[i].idle}
  PROVE  PlansIInv'
  BY QuietStep DEF OpenPlans, IdlePlans, Starting, Open

\* A step that rewrites one row.
LEMMA RowStep ==
  ASSUME HuntAssumption, PlansIInv, UNCHANGED <<starting, idled>>, NEW i \in Ids, NEW row \in PlanRow,
         plans' = [plans EXCEPT ![i] = row],
         row.status = "open" => Open(i) /\ row.idle \in {"no", plans[i].idle}
  PROVE  PlansIInv'
  <1>1. PlansType /\ idled' \in Nat
    BY DEF PlansIInv, PlansType
  <1>2. PlansType' /\ Ids' = Ids /\ \A j \in Ids : plans'[j] = IF j = i THEN row ELSE plans[j]
    BY <1>1, RowEdit
  <1>3. QED
    BY <1>2, RowsStep DEF Open

\* Every call on the plans, and every day that passes.
LEMMA NextPlansIInv == ASSUME HuntAssumption PROVE PlansIInv /\ [PlansNext]_planVars => PlansIInv'
  <1> SUFFICES ASSUME PlansIInv, [PlansNext]_planVars PROVE PlansIInv'
    OBVIOUS
  <1>0. PlansType
    BY DEF PlansIInv
  <1>1. ASSUME NEW c \in Callers, Refuse(c) PROVE PlansIInv'
    <2>1. PlansType' /\ OpenPlans' = OpenPlans /\ IdlePlans' = IdlePlans /\ Starting' \subseteq Starting
      BY <1>0, <1>1 DEF Refuse, PlansType, OpenPlans, IdlePlans, Starting, Ids, Open
    <2>2. QED
      BY <1>1, <2>1, QuietStep DEF Refuse
  <1>r. \A i \in Ids : plans[i] \in PlanRow
    BY <1>0 DEF PlansType, Ids
  <1>2. ASSUME NEW i \in Ids, NEW fps \in SUBSET Fingerprints, Hunt(i, fps) PROVE PlansIInv'
    <2> DEFINE row == [plans[i] EXCEPT !.found = @ \cup fps, !.idle = "no"]
    <2>1. plans' = [plans EXCEPT ![i] = row] /\ row \in PlanRow /\ row.idle = "no" /\ Open(i)
      BY <1>2, <1>r DEF Hunt, PlanRow
    <2> HIDE DEF row
    <2>2. QED
      BY <1>2, <2>1, RowStep DEF Hunt
  <1>3. ASSUME NEW i \in Ids,
               \/ \E fp \in Fingerprints, real, independent \in BOOLEAN : Answer(i, fp, real, independent)
               \/ ResumePlan(i)
        PROVE  PlansIInv'
    <2> DEFINE row == [plans[i] EXCEPT !.idle = "no"]
    <2>1. plans' = [plans EXCEPT ![i] = row] /\ row \in PlanRow /\ row.idle = "no" /\ Open(i)
          /\ UNCHANGED <<starting, idled>>
      BY <1>3, <1>r DEF Answer, ResumePlan, PlanRow
    <2> HIDE DEF row
    <2>2. QED
      BY <2>1, RowStep
  <1>4. ASSUME NEW i \in Ids, Complete(i) PROVE PlansIInv'
    <2> DEFINE row == [plans[i] EXCEPT !.status = "complete"]
    <2>1. plans' = [plans EXCEPT ![i] = row] /\ row \in PlanRow /\ row.status # "open"
      BY <1>4, <1>r DEF Complete, PlanRow
    <2> HIDE DEF row
    <2>2. QED
      BY <1>4, <2>1, RowStep DEF Complete
  <1>5. CASE AbandonStale
    <2>1. /\ plans' = [i \in Ids |-> IF Open(i) /\ plans[i].idle = "month"
                                     THEN [plans[i] EXCEPT !.status = "abandoned"] ELSE plans[i]]
          /\ UNCHANGED <<starting, idled>>
      BY <1>5 DEF AbandonStale
    <2>2. ASSUME NEW i \in Ids
          PROVE  plans'[i] \in PlanRow /\ (plans'[i].status = "open" => Open(i)) /\ plans'[i].idle = plans[i].idle
      BY <1>r, <2>1 DEF PlanRow, Open
    <2>3. plans' \in Seq(PlanRow) /\ Len(plans') = Len(plans)
      <3>1. DOMAIN plans' = 1 .. Len(plans) /\ Len(plans) \in Nat
        BY <1>0, <2>1 DEF PlansType, Ids
      <3>2. plans' \in [1 .. Len(plans) -> PlanRow]
        BY <2>1, <2>2, <3>1 DEF Ids
      <3>3. QED
        BY <3>1, <3>2
    <2>4. PlansType' /\ Ids' = Ids /\ \A j \in Ids : Open(j)' => Open(j) /\ plans'[j].idle \in {"no", plans[j].idle}
      BY <1>0, <2>1, <2>2, <2>3 DEF PlansType, Ids, Open
    <2>5. QED
      BY <2>1, <2>4, RowsStep
  <1>6. CASE UNCHANGED planVars
    <2>1. UNCHANGED <<plans, starting, idled>>
      BY <1>6 DEF planVars
    <2>2. PlansType' /\ OpenPlans' = OpenPlans /\ IdlePlans' = IdlePlans /\ Starting' = Starting
      BY <1>0, <2>1 DEF PlansType, OpenPlans, IdlePlans, Starting, Ids, Open
    <2>3. QED
      BY <2>1, <2>2, QuietStep
  <1>7. ASSUME NEW c \in Callers, CheckLimit(c, "hunt") \/ CheckLimit(c, "verify") \/ Store(c) PROVE PlansIInv'
    BY <1>7, CheckLimitIInv, StoreIInv
  <1>8. ASSUME NEW i \in Ids, GoIdle(i) PROVE PlansIInv'
    BY <1>8, GoIdleIInv
  <1>9. QED
    BY <1>1, <1>2, <1>3, <1>4, <1>5, <1>6, <1>7, <1>8 DEF PlansNext

\* Each open plan was counted by its start, or by a start that raced it, or
\* went idle and was resumed: what maxOpenPlans admits, plus those.
THEOREM PlansInvariance == ASSUME HuntAssumption PROVE PlansSpec => []PlansIInv
  BY InitPlansIInv, NextPlansIInv, PTL DEF PlansSpec

\* However starts interleave, however many there are: the limit is exceeded by
\* no more than the starts past the check at once, less one, and idle plans.
THEOREM LimitIsNearlyKept == ASSUME HuntAssumption PROVE PlansSpec => []OvershootBounded
  <1>1. PlansIInv => OvershootBounded
    <2> SUFFICES ASSUME PlansIInv PROVE OvershootBounded
      OBVIOUS
    <2>1. Cardinality(ActivePlans) <= Cardinality(OpenPlans)
      BY PlanCounts DEF PlansIInv
    <2>2. QED
      BY <2>1, PlanCounts DEF PlansIInv, OvershootBounded, Starting, HuntAssumption, PlansType
  <1>2. QED
    BY PlansInvariance, <1>1, PTL

-----------------------------------------------------------------------------
(*************************************************************************)
(* The progress emitter: the values of a token increase while it is among*)
(* the tracked ones.                                                     *)
(*************************************************************************)

ProgressType ==
  /\ live \subseteq Emitters
  /\ payload \in [Emitters -> [progress : Nat, total : Nat]] /\ beats \in [Emitters -> Nat]
  /\ lastSent \in Seq(Tokens) /\ value \in [Tokens -> Nat]
  /\ sent \in [Tokens -> Seq(Nat)] /\ others \in [Tokens -> SUBSET Tokens]

\* A token is remembered once; the ones remembered behind it sent since it
\* did.
Remembered ==
  /\ Len(lastSent) <= MaxTracked
  /\ \A i, j \in DOMAIN lastSent : lastSent[i] = lastSent[j] => i = j
  /\ \A i, j \in DOMAIN lastSent : i < j => lastSent[j] \in others[lastSent[i]]
  /\ \A t \in Tokens : IsFiniteSet(others[t])

\* A token in use that has sent is remembered, with the value it sent last.
UsedAreRemembered ==
  /\ \A i \in DOMAIN lastSent : LET t == lastSent[i] IN sent[t] # <<>> /\ value[t] = sent[t][Len(sent[t])]
  /\ \A e \in live : sent[TokenOf[e]] # <<>> => TokenOf[e] \in ToSet(lastSent)

ProgressIInv == ProgressType /\ Remembered /\ UsedAreRemembered /\ Increases

\* No token has sent.
LEMMA InitProgressIInv == ASSUME ProgressAssumption PROVE ProgressInit => ProgressIInv
  <1> SUFFICES ASSUME ProgressInit PROVE ProgressIInv
    OBVIOUS
  <1>1. ProgressType
    BY DEF ProgressInit, ProgressType, NoPayload
  <1>2. Remembered /\ UsedAreRemembered /\ Increases
    BY FS_EmptySet DEF ProgressInit, Remembered, UsedAreRemembered, Increases, Tokens, ProgressAssumption
  <1>3. QED
    BY <1>1, <1>2 DEF ProgressIInv

\* With the token set aside, the others are remembered in their order.
LEMMA WithoutProperties ==
  ASSUME ProgressType, Remembered, NEW token \in Tokens
  PROVE  LET w == Without(token) IN
         /\ w \in Seq(Tokens) /\ Len(w) <= Len(lastSent)
         /\ token \in ToSet(lastSent) => Len(w) = Len(lastSent) - 1
         /\ \A i \in DOMAIN w : w[i] # token /\ w[i] \in ToSet(lastSent)
         /\ \A t \in ToSet(lastSent) : t # token => \E i \in DOMAIN w : w[i] = t
         /\ \A i, j \in DOMAIN w : w[i] = w[j] => i = j
         /\ \A i, j \in DOMAIN w : i < j => w[j] \in others[w[i]]
  <1>1. CASE token \notin ToSet(lastSent)
    BY <1>1 DEF Without, ToSet, ProgressType, Remembered
  <1>2. CASE token \in ToSet(lastSent)
    <2> DEFINE at == CHOOSE i \in DOMAIN lastSent : lastSent[i] = token
    <2>1. at \in DOMAIN lastSent /\ lastSent[at] = token
      BY <1>2 DEF ToSet
    <2> HIDE DEF at
    <2> DEFINE w == RemoveAt(lastSent, at)
    <2>2. Without(token) = w
      BY <1>2 DEF Without, at
    <2>3. /\ w \in Seq(Tokens) /\ Len(w) = Len(lastSent) - 1
          /\ \A i \in 1 .. Len(lastSent) - 1 : w[i] = IF i < at THEN lastSent[i] ELSE lastSent[i + 1]
      BY <2>1, RemoveAtProperties DEF ProgressType
    <2>4. at \in 1 .. Len(lastSent) /\ Len(lastSent) \in Nat /\ DOMAIN lastSent = 1 .. Len(lastSent)
      BY <2>1 DEF ProgressType
    <2> HIDE DEF w
    <2>5. DOMAIN w = 1 .. Len(lastSent) - 1
      BY <2>3, <2>4
    <2> DEFINE old(i) == IF i < at THEN i ELSE i + 1
    <2>6. ASSUME NEW i \in DOMAIN w PROVE old(i) \in DOMAIN lastSent /\ old(i) # at /\ w[i] = lastSent[old(i)]
      BY <2>3, <2>4, <2>5
    <2>7. ASSUME NEW i \in DOMAIN w, NEW j \in DOMAIN w
          PROVE  (old(i) = old(j) => i = j) /\ (i < j => old(i) < old(j))
      BY <2>4, <2>5
    <2>8. ASSUME NEW t \in ToSet(lastSent), t # token PROVE \E i \in DOMAIN w : w[i] = t
      <3>1. PICK k \in DOMAIN lastSent : lastSent[k] = t
        BY DEF ToSet
      <3>2. k # at
        BY <2>1, <2>8, <3>1
      <3>3. CASE k < at
        <4>1. k \in DOMAIN w /\ w[k] = t
          BY <2>3, <2>4, <2>5, <3>1, <3>3
        <4>2. QED
          BY <4>1
      <3>4. CASE k > at
        <4>1. k - 1 \in 1 .. Len(lastSent) - 1 /\ ~(k - 1 < at) /\ (k - 1) + 1 = k
          BY <2>4, <3>1, <3>4
        <4>2. w[k - 1] = t
          BY <2>3, <3>1, <4>1
        <4>3. QED
          BY <2>5, <4>1, <4>2
      <3>5. QED
        BY <2>4, <3>1, <3>2, <3>3, <3>4
    <2>9. DOMAIN w \subseteq Nat
      BY <2>5
    <2> HIDE DEF old
    <2>10. \A i \in DOMAIN w : w[i] # token /\ w[i] \in ToSet(lastSent)
      BY <2>1, <2>6 DEF Remembered, ToSet
    <2>11. \A i, j \in DOMAIN w : w[i] = w[j] => i = j
      BY <2>6, <2>7 DEF Remembered
    <2>12. \A i, j \in DOMAIN w : i < j => w[j] \in others[w[i]]
      BY <2>6, <2>7 DEF Remembered
    <2>13. QED
      BY <1>2, <2>2, <2>3, <2>4, <2>8, <2>10, <2>11, <2>12
  <1>3. QED
    BY <1>1, <1>2

\* A value sent for a token in use exceeds the values sent for it before.
LEMMA NudgedExceeds ==
  ASSUME ProgressIInv, NEW token \in LiveTokens, NEW progress \in Nat
  PROVE  /\ Nudged(token, progress) \in Nat
         /\ \A i \in 1 .. Len(sent[token]) : sent[token][i] < Nudged(token, progress)
  <1>1. token \in Tokens /\ value[token] \in Nat /\ sent[token] \in Seq(Nat)
    BY DEF LiveTokens, Tokens, ProgressIInv, ProgressType
  <1>2. Nudged(token, progress) \in Nat
    BY <1>1 DEF Nudged
  <1>3. ASSUME NEW i \in 1 .. Len(sent[token]) PROVE sent[token][i] < Nudged(token, progress)
    <2>1. sent[token] # <<>> /\ Len(sent[token]) \in Nat /\ Len(sent[token]) \in 1 .. Len(sent[token])
      BY <1>1, <1>3
    <2>2. token \in ToSet(lastSent) /\ value[token] = sent[token][Len(sent[token])]
      BY <2>1 DEF ProgressIInv, UsedAreRemembered, LiveTokens, ToSet
    <2>3. value[token] < Nudged(token, progress)
      BY <1>1, <2>2 DEF Nudged
    <2>4. sent[token][i] \in Nat /\ (i = Len(sent[token]) \/ i < Len(sent[token]))
      BY <1>1, <1>3, <2>1
    <2>5. sent[token][i] <= value[token]
      <3>1. CASE i = Len(sent[token])
        BY <1>1, <2>2, <3>1
      <3>2. CASE i < Len(sent[token])
        BY <1>1, <2>1, <2>2, <2>4, <3>2 DEF ProgressIInv, Increases
      <3>3. QED
        BY <2>4, <3>1, <3>2
    <2>6. QED
      BY <1>1, <1>2, <2>3, <2>4, <2>5
  <1>4. QED
    BY <1>2, <1>3

\* A token is put last, and the first one, if it is one too many, is of a
\* request that has ended: were it in use, MaxTracked others would have sent
\* since it did.
LEMMA SendProgressIInv ==
  ASSUME ProgressAssumption, ProgressIInv, NEW token \in LiveTokens, NEW progress \in Nat,
         SendMonotonic(token, progress), UNCHANGED live,
         payload' \in [Emitters -> [progress : Nat, total : Nat]], beats' \in [Emitters -> Nat]
  PROVE  ProgressIInv'
  <1> DEFINE n   == Nudged(token, progress)
             w   == Without(token)
             put == Append(w, token)
  <1>1. /\ n \in Nat /\ \A i \in 1 .. Len(sent[token]) : sent[token][i] < n
        /\ token \in Tokens /\ ProgressType /\ Remembered /\ UsedAreRemembered
    BY NudgedExceeds DEF LiveTokens, Tokens, ProgressIInv, ProgressType
  <1>2. /\ value' = [value EXCEPT ![token] = n]
        /\ sent' = [sent EXCEPT ![token] = Append(@, n)]
        /\ others' = [t \in Tokens |-> IF t = token THEN {} ELSE others[t] \cup {token}]
        /\ lastSent' = IF Len(put) > MaxTracked THEN Tail(put) ELSE put
    BY DEF SendMonotonic, Remember
  <1>3. /\ w \in Seq(Tokens) /\ Len(w) <= Len(lastSent)
        /\ token \in ToSet(lastSent) => Len(w) = Len(lastSent) - 1
        /\ \A i \in DOMAIN w : w[i] # token /\ w[i] \in ToSet(lastSent)
        /\ \A t \in ToSet(lastSent) : t # token => \E i \in DOMAIN w : w[i] = t
        /\ \A i, j \in DOMAIN w : w[i] = w[j] => i = j
        /\ \A i, j \in DOMAIN w : i < j => w[j] \in others[w[i]]
    BY <1>1, WithoutProperties
  <1>4. Len(lastSent) \in Nat /\ Len(lastSent) <= MaxTracked /\ MaxTracked \in Nat \ {0}
    BY <1>1 DEF ProgressType, Remembered, ProgressAssumption
  <1> HIDE DEF n, w
  <1>5. /\ put \in Seq(Tokens) /\ Len(w) \in Nat /\ Len(put) = Len(w) + 1 /\ put[Len(w) + 1] = token
        /\ \A i \in 1 .. Len(w) : put[i] = w[i]
        /\ DOMAIN w = 1 .. Len(w) /\ DOMAIN put = 1 .. Len(w) + 1
    BY <1>1, <1>3
  <1> HIDE DEF put
  <1>6. /\ value' \in [Tokens -> Nat] /\ sent' \in [Tokens -> Seq(Nat)] /\ others' \in [Tokens -> SUBSET Tokens]
        /\ \A t \in Tokens : IsFiniteSet(others'[t])
    <2>1. value' \in [Tokens -> Nat] /\ sent' \in [Tokens -> Seq(Nat)] /\ others' \in [Tokens -> SUBSET Tokens]
      BY <1>1, <1>2 DEF ProgressType
    <2>2. ASSUME NEW t \in Tokens PROVE IsFiniteSet(others'[t])
      <3>1. IsFiniteSet(others[t]) /\ IsFiniteSet(others[t] \cup {token}) /\ IsFiniteSet({})
        BY <1>1, FS_AddElement, FS_EmptySet DEF Remembered
      <3>2. QED
        BY <1>2, <3>1
    <2>3. QED
      BY <2>1, <2>2
  <1>7. \A i, j \in DOMAIN put : put[i] = put[j] => i = j
    BY <1>3, <1>5
  <1>8. ASSUME NEW i \in DOMAIN put, NEW j \in DOMAIN put, i < j PROVE put[j] \in others'[put[i]]
    <2>1. i \in DOMAIN w /\ put[i] = w[i] /\ put[i] # token /\ put[i] \in Tokens
      BY <1>3, <1>5, <1>8
    <2>2. others'[put[i]] = others[put[i]] \cup {token}
      BY <1>2, <2>1
    <2>3. CASE j = Len(w) + 1
      BY <1>5, <2>2, <2>3
    <2>4. CASE j \in DOMAIN w
      BY <1>3, <1>5, <1>8, <2>1, <2>2, <2>4
    <2>5. QED
      BY <1>5, <2>3, <2>4
  \* The values remembered are the last ones sent.
  <1>9. ASSUME NEW i \in DOMAIN put
        PROVE  sent'[put[i]] # <<>> /\ value'[put[i]] = sent'[put[i]][Len(sent'[put[i]])]
    <2>1. CASE put[i] = token
      <3>1. sent'[token] = Append(sent[token], n) /\ value'[token] = n /\ sent[token] \in Seq(Nat)
        BY <1>1, <1>2 DEF ProgressType
      <3>2. LET a == Append(sent[token], n) IN Len(a) = Len(sent[token]) + 1 /\ Len(a) \in Nat \ {0} /\ a[Len(a)] = n
        BY <1>1, <3>1
      <3>3. QED
        BY <2>1, <3>1, <3>2
    <2>2. CASE put[i] # token
      <3>1. put[i] \in ToSet(lastSent) /\ put[i] \in Tokens
        BY <1>3, <1>5, <2>2
      <3>2. sent'[put[i]] = sent[put[i]] /\ value'[put[i]] = value[put[i]]
        BY <1>1, <1>2, <2>2, <3>1 DEF ProgressType
      <3>3. QED
        BY <1>1, <3>1, <3>2 DEF UsedAreRemembered, ToSet
    <2>3. QED
      BY <2>1, <2>2
  <1>10. ASSUME NEW e \in live, sent'[TokenOf[e]] # <<>> PROVE \E i \in DOMAIN put : put[i] = TokenOf[e]
    <2>1. CASE TokenOf[e] = token
      BY <1>5, <2>1
    <2>2. CASE TokenOf[e] # token
      <3>1. sent'[TokenOf[e]] = sent[TokenOf[e]]
        BY <1>1, <1>2, <2>2 DEF ProgressType, Tokens
      <3>2. TokenOf[e] \in ToSet(lastSent)
        BY <1>1, <1>10, <3>1 DEF UsedAreRemembered
      <3>3. QED
        BY <1>3, <1>5, <2>2, <3>2
    <2>3. QED
      BY <2>1, <2>2
  <1>11. Increases'
    <2> SUFFICES ASSUME NEW t \in Tokens, NEW i \in 1 .. Len(sent'[t]), NEW j \in 1 .. Len(sent'[t]), i < j
                 PROVE  sent'[t][i] < sent'[t][j]
      BY DEF Increases
    <2>1. CASE t # token
      BY <1>1, <1>2, <2>1 DEF ProgressType, ProgressIInv, Increases
    <2>2. CASE t = token
      <3>1. sent'[t] = Append(sent[token], n) /\ sent[token] \in Seq(Nat) /\ Len(sent[token]) \in Nat
        BY <1>1, <1>2, <2>2 DEF ProgressType
      <3>2. i \in 1 .. Len(sent[token]) /\ sent'[t][i] = sent[token][i]
        BY <1>1, <3>1
      <3>3. CASE j = Len(sent[token]) + 1
        BY <1>1, <3>1, <3>2, <3>3
      <3>4. CASE j \in 1 .. Len(sent[token])
        <4>1. sent'[t][j] = sent[token][j]
          BY <1>1, <3>1, <3>4
        <4>2. QED
          BY <1>1, <3>2, <3>4, <4>1 DEF ProgressIInv, Increases
      <3>5. QED
        BY <3>1, <3>3, <3>4
    <2>3. QED
      BY <2>1, <2>2
  <1>12. ProgressType' <=> lastSent' \in Seq(Tokens)
    BY <1>1, <1>6 DEF ProgressType
  <1>13. CASE ~(Len(put) > MaxTracked)
    <2>1. lastSent' = put
      BY <1>2, <1>13
    <2>2. Remembered'
      BY <1>4, <1>5, <1>6, <1>7, <1>8, <1>13, <2>1 DEF Remembered
    <2>3. UsedAreRemembered'
      BY <1>9, <1>10, <2>1 DEF UsedAreRemembered, ToSet
    <2>4. QED
      BY <1>5, <1>11, <1>12, <2>1, <2>2, <2>3 DEF ProgressIInv
  <1>14. CASE Len(put) > MaxTracked
    <2>1. /\ lastSent' = Tail(put) /\ Len(put) = MaxTracked + 1 /\ Len(w) = MaxTracked
      <3>1. lastSent' = Tail(put)
        BY <1>2, <1>14
      <3>2. Len(w) <= Len(lastSent) /\ Len(w) \in Nat /\ Len(put) = Len(w) + 1
        BY <1>3, <1>5
      <3>3. QED
        BY <1>4, <1>14, <3>1, <3>2
    <2>2. /\ lastSent' \in Seq(Tokens) /\ Len(lastSent') = MaxTracked /\ DOMAIN lastSent' = 1 .. MaxTracked
          /\ \A i \in 1 .. MaxTracked : lastSent'[i] = put[i + 1] /\ i + 1 \in DOMAIN put
      BY <1>4, <1>5, <2>1
    <2>3. Remembered'
      <3>1. \A i, j \in DOMAIN lastSent' : lastSent'[i] = lastSent'[j] => i = j
        BY <1>4, <1>7, <2>2
      <3>2. \A i, j \in DOMAIN lastSent' : i < j => lastSent'[j] \in others'[lastSent'[i]]
        BY <1>4, <1>8, <2>2
      <3>3. QED
        BY <1>4, <1>6, <2>2, <3>1, <3>2 DEF Remembered
    <2>4. 1 \in DOMAIN put /\ put[1] # token /\ put[1] \in Tokens
      BY <1>3, <1>4, <1>5, <2>1
    <2>5. put[1] \notin LiveTokens
      <3> DEFINE T == others[put[1]] \cup {token}
                 f == [i \in 1 .. MaxTracked |-> put[i + 1]]
      <3>1. IsFiniteSet(T)
        BY <1>1, <2>4, FS_AddElement DEF Remembered
      <3>2. others'[put[1]] = T
        BY <1>2, <2>4
      <3>3. ASSUME NEW i \in 1 .. MaxTracked PROVE put[i + 1] \in T
        <4>1. i + 1 \in DOMAIN put /\ 1 < i + 1
          <5>1. i + 1 \in DOMAIN put
            BY <2>2
          <5>2. 1 < i + 1
            BY <1>4
          <5>3. QED
            BY <5>1, <5>2
        <4>2. QED
          BY <1>8, <2>4, <3>2, <4>1
      <3>4. f \in Injection(1 .. MaxTracked, T)
        <4>1. f \in [1 .. MaxTracked -> T]
          BY <3>3
        <4>2. \A i, j \in 1 .. MaxTracked : f[i] = f[j] => i = j
          <5> SUFFICES ASSUME NEW i \in 1 .. MaxTracked, NEW j \in 1 .. MaxTracked, f[i] = f[j] PROVE i = j
            OBVIOUS
          <5>1. put[i + 1] = put[j + 1] /\ i + 1 \in DOMAIN put /\ j + 1 \in DOMAIN put
            BY <2>2
          <5>2. i + 1 = j + 1
            BY <1>7, <5>1
          <5>3. QED
            BY <1>4, <5>2
        <4>3. QED
          BY <4>1, <4>2 DEF Injection, IsInjective
      <3> HIDE DEF T, f
      <3>5. Cardinality(1 .. MaxTracked) <= Cardinality(T)
        BY <3>1, <3>4, FS_Injection
      <3>6. Cardinality(1 .. MaxTracked) = MaxTracked
        BY <1>4, FS_Interval
      <3>7. Cardinality(T) \in Nat
        BY <3>1, FS_CardinalityType
      <3>8. ~(Cardinality(T) < MaxTracked)
        BY <1>4, <3>5, <3>6, <3>7
      <3>9. QED
        BY <2>4, <3>8 DEF SendMonotonic, SendsInTime, T
    <2>6. UsedAreRemembered'
      <3>1. \A i \in DOMAIN lastSent' : LET t == lastSent'[i] IN sent'[t] # <<>> /\ value'[t] = sent'[t][Len(sent'[t])]
        BY <1>9, <2>2
      <3>2. ASSUME NEW e \in live, sent'[TokenOf[e]] # <<>> PROVE TokenOf[e] \in ToSet(lastSent')
        <4>1. PICK i \in DOMAIN put : put[i] = TokenOf[e]
          BY <1>10, <3>2
        <4>2. i # 1
          BY <2>5, <4>1 DEF LiveTokens
        <4>3. i - 1 \in 1 .. MaxTracked /\ (i - 1) + 1 = i
          BY <1>4, <1>5, <2>1, <4>2
        <4>4. lastSent'[i - 1] = TokenOf[e]
          BY <2>2, <4>1, <4>3
        <4>5. QED
          BY <2>2, <4>3, <4>4 DEF ToSet
      <3>3. QED
        BY <3>1, <3>2 DEF UsedAreRemembered
    <2>7. QED
      BY <1>11, <1>12, <2>2, <2>3, <2>6 DEF ProgressIInv
  <1>15. QED
    BY <1>13, <1>14

\* Every emit, heartbeat, start and end of an emitter.
LEMMA NextProgressIInv ==
  ASSUME ProgressAssumption PROVE ProgressIInv /\ [ProgressNext]_progressVars => ProgressIInv'
  <1> SUFFICES ASSUME ProgressIInv, [ProgressNext]_progressVars PROVE ProgressIInv'
    OBVIOUS
  <1>0. ProgressType
    BY DEF ProgressIInv
  <1>1. ASSUME UNCHANGED <<lastSent, value, sent, others>>, live' \subseteq Emitters,
               payload' \in [Emitters -> [progress : Nat, total : Nat]], beats' \in [Emitters -> Nat],
               \A e \in live' : TokenOf[e] \in LiveTokens \/ sent[TokenOf[e]] = <<>>
        PROVE  ProgressIInv'
    <2>1. ProgressType' /\ Remembered'
      BY <1>1 DEF ProgressIInv, ProgressType, Remembered
    <2>3. Increases'
      BY <1>1 DEF ProgressIInv, Increases
    <2>2. UsedAreRemembered'
      <3>1. ASSUME NEW e \in live', sent'[TokenOf[e]] # <<>> PROVE TokenOf[e] \in ToSet(lastSent)
        BY <1>1, <3>1 DEF ProgressIInv, UsedAreRemembered, LiveTokens
      <3>2. \A i \in DOMAIN lastSent' : LET t == lastSent'[i] IN sent'[t] # <<>> /\ value'[t] = sent'[t][Len(sent'[t])]
        BY <1>1 DEF ProgressIInv, UsedAreRemembered
      <3>3. ToSet(lastSent') = ToSet(lastSent)
        BY <1>1
      <3>4. QED
        BY <3>1, <3>2, <3>3 DEF UsedAreRemembered
    <2>4. QED
      BY <2>1, <2>2, <2>3 DEF ProgressIInv
  <1>2. ASSUME NEW e \in Emitters, Make(e) PROVE ProgressIInv'
    BY <1>0, <1>1, <1>2 DEF Make, ProgressType, LiveTokens
  <1>3. ASSUME NEW e \in Emitters, Heartbeat(e) PROVE ProgressIInv'
    <2>1. payload[e].progress \in Nat /\ payload[e].total \in Nat /\ beats[e] \in Nat /\ e \in live
      BY <1>0, <1>3 DEF Heartbeat, ProgressType
    <2>2. payload[e].progress + (IF payload[e].total # 0 THEN 0 ELSE beats[e] + 1) \in Nat
      BY <2>1
    <2>3. TokenOf[e] \in LiveTokens
      BY <2>1 DEF LiveTokens
    <2>4. /\ payload' \in [Emitters -> [progress : Nat, total : Nat]] /\ beats' \in [Emitters -> Nat]
          /\ UNCHANGED live
      BY <1>0, <1>3, <2>1 DEF Heartbeat, ProgressType
    <2>5. QED
      BY <1>3, <2>2, <2>3, <2>4, SendProgressIInv DEF Heartbeat
  <1>4. ASSUME NEW e \in Emitters, NEW step \in Steps, NEW total \in Totals, Emit(e, step, total) PROVE ProgressIInv'
    <2> DEFINE progress == Unit * (IF total # 0 /\ total < step THEN total ELSE step)
    <2>1. step \in Nat /\ total \in Nat /\ progress \in Nat
      BY DEF ProgressAssumption, Unit
    <2>2. /\ payload' = [payload EXCEPT ![e] = [progress |-> progress, total |-> total]]
          /\ beats' = [beats EXCEPT ![e] = 0] /\ SendMonotonic(TokenOf[e], progress)
          /\ UNCHANGED live /\ e \in live
      BY <1>4 DEF Emit
    <2> HIDE DEF progress
    <2>3. TokenOf[e] \in LiveTokens
      BY <2>2 DEF LiveTokens
    <2>4. payload' \in [Emitters -> [progress : Nat, total : Nat]] /\ beats' \in [Emitters -> Nat]
      BY <1>0, <2>1, <2>2 DEF ProgressType
    <2>5. QED
      BY <2>1, <2>2, <2>3, <2>4, SendProgressIInv
  <1>5. ASSUME NEW e \in Emitters, Dispose(e) PROVE ProgressIInv'
    BY <1>0, <1>1, <1>5 DEF Dispose, ProgressType, NoPayload, LiveTokens
  <1>6. CASE UNCHANGED progressVars
    BY <1>0, <1>1, <1>6 DEF progressVars, ProgressType, LiveTokens
  <1>7. QED
    BY <1>2, <1>3, <1>4, <1>5, <1>6 DEF ProgressNext

\* What the notifier remembers, in every state.
THEOREM ProgressInvariance == ASSUME ProgressAssumption PROVE ProgressSpec => []ProgressIInv
  BY InitProgressIInv, NextProgressIInv, PTL DEF ProgressSpec

\* The values of a token only ever increase, whichever emitters share it and
\* although only some tokens are remembered.
THEOREM ProgressOnlyIncreases == ASSUME ProgressAssumption PROVE ProgressSpec => []Increases
  <1>1. ProgressIInv => Increases
    BY DEF ProgressIInv
  <1>2. QED
    BY ProgressInvariance, <1>1, PTL
=============================================================================
