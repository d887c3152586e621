----------------------------- MODULE FixPrProofs ------------------------------
(***************************************************************************)
(* For any number of runs, clones, kills and users: a group of findings    *)
(* gets one pull request, and no run deletes the only copy of a commit.    *)
(***************************************************************************)
EXTENDS FixPr, TLAPS

Phases == {"idle", "adding", "resetting", "colliding", "verifying", "checking", "committing",
           "pushing", "creating", "ending", "deleting", "done"}

RunState == [phase : Phases, clone : Clones, keep : BOOLEAN]

RunsOK == fix \in [Runs -> RunState]

\* A run that is past createWorktree has made the branch of its clone.
Owners == {r \in Runs : fix[r].phase \in {"resetting", "verifying", "checking", "committing",
                                          "pushing", "creating", "ending", "deleting"}}

\* One run at a time owns the branch of a clone, and nobody else changes it:
\* there is nothing on it, or its own commit, which is on origin by the time
\* the branch may be deleted.
OwnsRightly(r) ==
  /\ fix[r].phase \in {"resetting", "verifying", "checking", "committing"} => branch[Clone(r)] = AtHead
  /\ fix[r].phase = "pushing" => branch[Clone(r)] = r
  /\ fix[r].phase = "creating" => branch[Clone(r)] \in pushed
  /\ fix[r].phase = "deleting" \/ (fix[r].phase = "ending" /\ ~fix[r].keep) =>
       branch[Clone(r)] \in {AtHead} \cup pushed
  /\ branch[Clone(r)] # NoBranch

OwnBranch ==
  /\ \A r, q \in Owners : Clone(r) = Clone(q) => r = q
  /\ \A r \in Owners : OwnsRightly(r)

\* Whoever may still create a pull request found none, and pushed the branch
\* that the next one would have to push: origin takes one.
OnePushed ==
  /\ \A r, q \in Runs : At(r, "creating") /\ At(q, "creating") => r = q
  /\ \A r \in Runs : At(r, "creating") => remote # NoBranch /\ pr.ever = 0
  /\ \A r \in Runs : fix[r].phase \in {"committing", "pushing"} /\ remote = NoBranch => pr.ever = 0
  /\ pr.open => pr.ever > 0

IInv == FixTypeOK /\ RunsOK /\ OwnBranch /\ OnePushed /\ OnePullRequest

LEMMA NoCloneIsClone == ASSUME BranchAssumption PROVE NoClone \in Clones
  BY DEF BranchAssumption, NoClone

LEMMA InitIInv == ASSUME BranchAssumption PROVE FixInit => IInv
  <1> SUFFICES ASSUME FixInit PROVE IInv
    OBVIOUS
  <1>1. RunsOK /\ \A r \in Runs : fix[r].phase = "idle"
    BY NoCloneIsClone DEF FixInit, RunsOK, RunState, Phases, NotStarted
  <1>2. pr.ever = 0 /\ pr.open = FALSE
    BY DEF FixInit
  <1>3. QED
    BY <1>1, <1>2 DEF FixInit, IInv, FixTypeOK, OwnBranch, Owners, OnePushed, OnePullRequest, At

-----------------------------------------------------------------------------
\* One run goes on; the others are where they were.
Moves(r) ==
  /\ fix' \in [Runs -> RunState] /\ fix'[r].clone = fix[r].clone
  /\ \A q \in Runs \ {r} : fix'[q] = fix[q]

LEMMA ToMoves ==
  ASSUME RunsOK, NEW r \in Runs, NEW phase \in Phases, To(r, phase)
  PROVE  Moves(r) /\ fix'[r].phase = phase /\ fix'[r].keep = fix[r].keep
  BY DEF RunsOK, RunState, To, Moves

LEMMA EndsMoves ==
  ASSUME RunsOK, NEW r \in Runs, NEW keep \in BOOLEAN, Ends(r, keep)
  PROVE  Moves(r) /\ fix'[r].phase = "ending" /\ fix'[r].keep = keep
  BY DEF RunsOK, RunState, Phases, Ends, Moves

LEMMA DoneMoves ==
  ASSUME BranchAssumption, RunsOK, NEW r \in Runs, Done(r)
  PROVE  /\ fix' \in [Runs -> RunState] /\ fix'[r].phase = "done"
         /\ \A q \in Runs \ {r} : fix'[q] = fix[q]
  <1>1. [NotStarted EXCEPT !.phase = "done"] \in RunState
    BY NoCloneIsClone DEF NotStarted, RunState, Phases
  <1>2. [NotStarted EXCEPT !.phase = "done"].phase = "done"
    BY DEF NotStarted
  <1>3. QED
    BY <1>1, <1>2 DEF RunsOK, Done

\* A run that is done, or goes on where it neither owns nor creates anything.
LEMMA LeavesIInv ==
  ASSUME IInv, NEW r \in Runs, fix' \in [Runs -> RunState],
         \A q \in Runs \ {r} : fix'[q] = fix[q],
         fix'[r].phase \in {"done", "adding", "colliding"},
         FixTypeOK', UNCHANGED <<remote, pr, pushed>>,
         \A c \in Clones : branch'[c] = branch[c] \/ \A q \in Owners \ {r} : Clone(q) # c
  PROVE  IInv'
  <1>1. RunsOK'
    BY DEF RunsOK
  <1>2. Owners' = Owners \ {r} /\ \A q \in Owners' : Clone(q)' = Clone(q) /\ Clone(q) \in Clones
    BY DEF Owners, IInv, RunsOK, RunState, Clone
  <1>3. \A q \in Owners' : fix'[q] = fix[q] /\ branch'[Clone(q)] = branch[Clone(q)]
    BY <1>2 DEF Owners
  <1>4. OwnBranch'
    BY <1>2, <1>3 DEF IInv, OwnBranch, OwnsRightly, Clone
  <1>5. OnePushed' /\ OnePullRequest'
    BY DEF IInv, OnePushed, OnePullRequest, At
  <1>6. QED
    BY <1>1, <1>4, <1>5 DEF IInv

\* A run that owns the branch of its clone goes on, or one takes it that nobody
\* owns; it alone may change it.
LEMMA OwnerMoves ==
  ASSUME IInv, NEW r \in Runs, Moves(r), r \in Owners', OwnsRightly(r)',
         r \in Owners \/ branch[Clone(r)] = NoBranch,
         \A c \in Clones \ {Clone(r)} : branch'[c] = branch[c], pushed \subseteq pushed'
  PROVE  RunsOK' /\ OwnBranch'
  <1>1. RunsOK' /\ \A q \in Runs \ {r} : fix'[q] = fix[q] /\ Clone(q)' = Clone(q)
    BY DEF Moves, RunsOK, Clone
  <1>2. \A q \in Runs : Clone(q) \in Clones /\ Clone(q)' = Clone(q)
    BY <1>1 DEF IInv, RunsOK, RunState, Moves, Clone
  <1>3. \A q \in Owners' \ {r} : q \in Owners
    BY <1>1 DEF Owners
  <1>4. \A q \in Owners' \ {r} : Clone(q) # Clone(r)
    BY <1>3 DEF IInv, OwnBranch, OwnsRightly, Owners
  <1>5. \A q \in Owners' \ {r} : OwnsRightly(q)'
    <2> SUFFICES ASSUME NEW q \in Owners' \ {r} PROVE OwnsRightly(q)'
      OBVIOUS
    <2>1. q \in Runs /\ fix'[q] = fix[q] /\ branch'[Clone(q)] = branch[Clone(q)] /\ OwnsRightly(q)
      BY <1>1, <1>2, <1>3, <1>4 DEF IInv, OwnBranch, Owners
    <2>2. QED
      BY <1>2, <2>1 DEF OwnsRightly, Clone
  <1>6. \A p, q \in Owners' : Clone(p)' = Clone(q)' => p = q
    BY <1>2, <1>3, <1>4 DEF IInv, OwnBranch, Owners
  <1>7. QED
    BY <1>1, <1>5, <1>6 DEF OwnBranch

\* What is pushed and asked for is as before when no run comes to committing,
\* pushing or creating that was not there.
LEMMA NobodyPushes ==
  ASSUME IInv, UNCHANGED <<remote, pr>>,
         \A q \in Runs : fix'[q].phase \in {"committing", "pushing", "creating"} =>
                          fix'[q].phase = fix[q].phase
  PROVE  OnePushed' /\ OnePullRequest'
  BY DEF IInv, OnePushed, OnePullRequest, At

-----------------------------------------------------------------------------
LEMMA CreateWorktreeIInv ==
  ASSUME BranchAssumption, IInv, NEW r \in Runs,
         \/ \E c \in Clones : StartRun(r, c)
         \/ AddFails(r) \/ ResetFails(r) \/ NoWorktree(r)
  PROVE  IInv'
  <1>0. RunsOK /\ FixTypeOK /\ Clone(r) \in Clones
    BY DEF IInv, RunsOK, RunState, Clone
  <1>1. ASSUME NEW c \in Clones, StartRun(r, c) PROVE IInv'
    <2>1. /\ fix' \in [Runs -> RunState] /\ fix'[r].phase = "adding"
          /\ \A q \in Runs \ {r} : fix'[q] = fix[q]
      BY <1>0, <1>1 DEF StartRun, RunsOK, RunState, Phases
    <2>2. FixTypeOK' /\ UNCHANGED <<branch, remote, pr, pushed>>
      BY <1>0, <1>1 DEF StartRun, repository, FixTypeOK
    <2>3. QED
      BY <2>1, <2>2, LeavesIInv
  <1>2. CASE AddFails(r)
    <2>1. Moves(r) /\ fix'[r].phase = "colliding"
      BY <1>0, <1>2, ToMoves DEF AddFails, Phases
    <2>2. FixTypeOK' /\ UNCHANGED <<remote, pr, pushed>>
      BY <1>0, <1>2 DEF AddFails, FixTypeOK
    <2>3. \A c \in Clones : branch'[c] = branch[c] \/ \A q \in Owners : Clone(q) # c
      BY <1>0, <1>2 DEF AddFails, IInv, FixTypeOK, OwnBranch, OwnsRightly
    <2>4. QED
      BY <2>1, <2>2, <2>3, LeavesIInv DEF Moves
  <1>3. CASE ResetFails(r)
    <2>1. Moves(r) /\ fix'[r].phase = "colliding"
      BY <1>0, <1>3, ToMoves DEF ResetFails, Phases
    <2>2. FixTypeOK' /\ UNCHANGED <<branch, remote, pr, pushed>>
      BY <1>0, <1>3 DEF ResetFails, FixTypeOK
    <2>3. QED
      BY <2>1, <2>2, LeavesIInv DEF Moves
  <1>4. CASE NoWorktree(r)
    <2>1. /\ fix' \in [Runs -> RunState] /\ fix'[r].phase = "done"
          /\ \A q \in Runs \ {r} : fix'[q] = fix[q]
      BY <1>0, <1>4, DoneMoves DEF NoWorktree
    <2>2. FixTypeOK' /\ UNCHANGED <<branch, remote, pr, pushed>>
      BY <1>0, <1>4 DEF NoWorktree, repository, FixTypeOK
    <2>3. QED
      BY <2>1, <2>2, LeavesIInv
  <1>5. QED
    BY <1>1, <1>2, <1>3, <1>4

\* Up to the push: the branch is the run's, and at HEAD until it commits.
LEMMA OwnerIInv ==
  ASSUME BranchAssumption, IInv, NEW r \in Runs,
         AddWorktree(r) \/ Reset(r) \/ Verify(r) \/ Check(r) \/ CommitNot(r) \/ Commit(r)
  PROVE  IInv'
  <1>0. /\ RunsOK /\ FixTypeOK /\ Clone(r) \in Clones /\ Clone(r)' = Clone(r) /\ Moves(r)
        /\ r \in Owners' /\ (r \in Owners \/ AddWorktree(r))
    <2>1. RunsOK /\ FixTypeOK /\ Clone(r) \in Clones
      BY DEF IInv, RunsOK, RunState, Clone
    <2>2. /\ Moves(r)
          /\ fix'[r].phase \in {"resetting", "verifying", "checking", "ending", "committing", "pushing"}
      BY <2>1, ToMoves, EndsMoves
         DEF AddWorktree, Reset, Verify, Check, CommitNot, Commit, Phases
    <2>3. r \in Owners \/ AddWorktree(r)
      BY DEF Reset, Verify, Check, CommitNot, Commit, Owners, At
    <2>4. QED
      BY <2>1, <2>2, <2>3 DEF Owners, Moves, Clone
  <1>1. CASE AddWorktree(r)
    <2>1. fix'[r].phase = "resetting" /\ branch[Clone(r)] = NoBranch
      BY <1>0, <1>1, ToMoves DEF AddWorktree, Phases
    <2>2. /\ FixTypeOK' /\ branch'[Clone(r)] = AtHead /\ UNCHANGED <<remote, pr, pushed>>
          /\ \A c \in Clones \ {Clone(r)} : branch'[c] = branch[c]
      BY <1>0, <1>1 DEF AddWorktree, FixTypeOK
    <2>3. OwnsRightly(r)'
      BY <1>0, <2>1, <2>2 DEF OwnsRightly, BranchAssumption
    <2>4. RunsOK' /\ OwnBranch'
      BY <1>0, <2>1, <2>2, <2>3, OwnerMoves
    <2>5. OnePushed' /\ OnePullRequest'
      BY <1>0, <2>1, <2>2, NobodyPushes DEF Moves
    <2>6. QED
      BY <2>2, <2>4, <2>5 DEF IInv
  <1>2. CASE Reset(r) \/ Verify(r) \/ Check(r) \/ CommitNot(r)
    <2>1. /\ branch[Clone(r)] = AtHead /\ r \in Owners
      BY <1>2 DEF Reset, Verify, Check, CommitNot, IInv, OwnBranch, OwnsRightly, Owners, At
    <2>2. FixTypeOK' /\ UNCHANGED <<branch, remote, pr, pushed>>
      BY <1>0, <1>2 DEF Reset, Verify, Check, CommitNot, repository, FixTypeOK
    <2>3. /\ fix'[r].phase \in {"verifying", "checking", "ending", "committing"}
          /\ fix'[r].phase = "committing" => pr.ever = 0
      <3>1. ~PrExists => pr.ever = 0
        BY <1>0 DEF PrExists, FixTypeOK
      <3>2. CASE \E keep \in BOOLEAN : Ends(r, keep)
        BY <1>0, <3>2, EndsMoves
      <3>3. CASE To(r, "verifying") \/ To(r, "checking")
        BY <1>0, <3>3, ToMoves DEF Phases
      <3>4. CASE ~PrExists /\ To(r, "committing")
        BY <1>0, <3>1, <3>4, ToMoves DEF Phases
      <3>5. QED
        BY <1>2, <3>2, <3>3, <3>4 DEF Reset, Verify, Check, CommitNot
    <2>4. OwnsRightly(r)'
      BY <1>0, <2>1, <2>2, <2>3 DEF OwnsRightly, BranchAssumption
    <2>5. RunsOK' /\ OwnBranch'
      BY <1>0, <2>1, <2>2, <2>4, OwnerMoves
    <2>6. OnePushed' /\ OnePullRequest'
      BY <1>0, <2>2, <2>3 DEF IInv, OnePushed, OnePullRequest, At, Moves
    <2>7. QED
      BY <2>2, <2>5, <2>6 DEF IInv
  <1>3. CASE Commit(r)
    <2>1. fix[r].phase = "committing" /\ fix'[r].phase = "pushing" /\ r \in Owners
      BY <1>0, <1>3, ToMoves DEF Commit, At, Phases, Owners
    <2>2. /\ FixTypeOK' /\ branch'[Clone(r)] = r /\ UNCHANGED <<remote, pr, pushed>>
          /\ \A c \in Clones \ {Clone(r)} : branch'[c] = branch[c]
      BY <1>0, <1>3 DEF Commit, FixTypeOK
    <2>3. OwnsRightly(r)'
      BY <1>0, <2>1, <2>2 DEF OwnsRightly, BranchAssumption
    <2>4. RunsOK' /\ OwnBranch'
      BY <1>0, <2>1, <2>2, <2>3, OwnerMoves
    <2>5. OnePushed' /\ OnePullRequest'
      BY <1>0, <2>1, <2>2 DEF IInv, OnePushed, OnePullRequest, At, Moves
    <2>6. QED
      BY <2>2, <2>4, <2>5 DEF IInv
  <1>4. QED
    BY <1>1, <1>2, <1>3

\* The push, and what becomes of the pull request.
LEMMA PublishIInv ==
  ASSUME BranchAssumption, IInv, NEW r \in Runs,
         Push(r) \/ PushFails(r) \/ Create(r) \/ CreateFails(r)
  PROVE  IInv'
  <1>0. /\ RunsOK /\ FixTypeOK /\ Clone(r) \in Clones /\ Clone(r)' = Clone(r) /\ Moves(r)
        /\ r \in Owners /\ r \in Owners' /\ OwnsRightly(r)
    <2>1. RunsOK /\ FixTypeOK /\ Clone(r) \in Clones
      BY DEF IInv, RunsOK, RunState, Clone
    <2>2. Moves(r) /\ fix'[r].phase \in {"creating", "ending"}
      <3>1. To(r, "creating") \/ \E keep \in BOOLEAN : Ends(r, keep)
        BY DEF Push, PushFails, Create, CreateFails
      <3>2. QED
        BY <2>1, <3>1, ToMoves, EndsMoves DEF Phases
    <2>3. r \in Owners
      BY DEF Push, PushFails, Create, CreateFails, Owners, At
    <2>4. QED
      BY <2>1, <2>2, <2>3 DEF IInv, OwnBranch, Owners, Moves, Clone
  <1>1. CASE Push(r)
    <2>1. /\ fix[r].phase = "pushing" /\ branch[Clone(r)] = r /\ pr.ever = 0
          /\ \A q \in Runs : fix[q].phase # "creating"
      BY <1>0, <1>1 DEF Push, At, OwnsRightly, IInv, OnePushed
    <2>2. fix'[r].phase = "creating" \/ (fix'[r].phase = "ending" /\ fix'[r].keep)
      BY <1>0, <1>1, ToMoves, EndsMoves DEF Push, Phases
    <2>3. /\ FixTypeOK' /\ branch' = branch /\ remote' = r /\ pr' = pr /\ pushed' = pushed \cup {r}
      BY <1>0, <1>1 DEF Push, FixTypeOK
    <2>4. OwnsRightly(r)'
      BY <1>0, <2>1, <2>2, <2>3 DEF OwnsRightly, BranchAssumption
    <2>5. RunsOK' /\ OwnBranch'
      BY <1>0, <2>3, <2>4, OwnerMoves
    <2>6. \A q \in Runs : fix'[q].phase = "creating" => q = r
      BY <1>0, <2>1 DEF Moves
    <2>7. OnePushed' /\ OnePullRequest'
      BY <1>0, <2>1, <2>3, <2>6 DEF IInv, OnePushed, OnePullRequest, At, BranchAssumption
    <2>8. QED
      BY <2>3, <2>5, <2>7 DEF IInv
  <1>2. CASE PushFails(r)
    <2>1. fix'[r].phase = "ending" /\ fix'[r].keep
      BY <1>0, <1>2, EndsMoves DEF PushFails
    <2>2. FixTypeOK' /\ UNCHANGED <<branch, remote, pr, pushed>>
      BY <1>0, <1>2 DEF PushFails, repository, FixTypeOK
    <2>3. OwnsRightly(r)'
      BY <1>0, <2>1, <2>2 DEF OwnsRightly
    <2>4. RunsOK' /\ OwnBranch'
      BY <1>0, <2>2, <2>3, OwnerMoves
    <2>5. OnePushed' /\ OnePullRequest'
      BY <1>0, <2>1, <2>2, NobodyPushes DEF Moves
    <2>6. QED
      BY <2>2, <2>4, <2>5 DEF IInv
  <1>3. CASE Create(r) \/ CreateFails(r)
    <2>1. /\ fix[r].phase = "creating" /\ remote # NoBranch /\ pr.ever = 0
          /\ \A q \in Runs : fix[q].phase = "creating" => q = r
      BY <1>3 DEF Create, CreateFails, At, IInv, OnePushed
    <2>2. fix'[r].phase = "ending" /\ branch[Clone(r)] \in pushed
      BY <1>0, <1>3, <2>1, EndsMoves DEF Create, CreateFails, OwnsRightly
    <2>3. /\ pr' = pr \/ pr' = [open |-> TRUE, ever |-> pr.ever + 1]
          /\ UNCHANGED <<branch, checkout, remote, pushed, acts>>
          /\ kept' = kept \/ kept' = kept \cup {Clone(r)}
      <3>1. CASE Create(r)
        BY <3>1, Zenon DEF Create
      <3>2. CASE CreateFails(r)
        BY <3>2 DEF CreateFails, repository
      <3>3. QED
        BY <1>3, <3>1, <3>2
    <2>4. pr'.open \in BOOLEAN /\ (pr'.ever = 0 \/ pr'.ever = 1) /\ (pr'.open => pr'.ever > 0)
      <3>1. CASE pr' = pr
        BY <1>0, <2>1, <3>1 DEF FixTypeOK, IInv, OnePushed
      <3>2. CASE pr' = [open |-> TRUE, ever |-> pr.ever + 1]
        <4>1. pr'.open = TRUE
          BY <3>2
        <4>2. pr'.ever = 1
          BY <2>1, <3>2
        <4>3. QED
          BY <4>1, <4>2, 1 > 0, Zenon
      <3>3. QED
        BY <2>3, <3>1, <3>2
    <2>5. OwnsRightly(r)'
      BY <1>0, <2>2, <2>3 DEF OwnsRightly
    <2>6. RunsOK' /\ OwnBranch'
      BY <1>0, <2>3, <2>5, OwnerMoves
    <2>7. \A q \in Runs : fix'[q].phase # "creating"
      BY <1>0, <2>1, <2>2 DEF Moves
    <2>8. \A q \in Runs : fix'[q].phase \in {"committing", "pushing"} => fix'[q] = fix[q]
      BY <1>0, <2>2 DEF Moves
    <2>9. FixTypeOK'
      BY <1>0, <2>3, <2>4 DEF FixTypeOK
    <2>10. OnePushed'
      BY <2>1, <2>3, <2>4, <2>7, <2>8 DEF IInv, OnePushed, At
    <2>11. OnePullRequest'
      BY <2>4 DEF OnePullRequest
    <2>12. QED
      BY <2>6, <2>9, <2>10, <2>11 DEF IInv
  <1>4. QED
    BY <1>1, <1>2, <1>3

\* The end of a run, and of one that is killed.
LEMMA EndIInv ==
  ASSUME BranchAssumption, IInv, NEW r \in Runs,
         RemoveWorktree(r) \/ DeleteBranch(r) \/ DeleteFails(r) \/ Kill(r)
  PROVE  IInv'
  <1>0. RunsOK /\ FixTypeOK /\ Clone(r) \in Clones
    BY DEF IInv, RunsOK, RunState, Clone
  <1>1. FixTypeOK' /\ UNCHANGED <<remote, pr, pushed>>
    BY <1>0 DEF RemoveWorktree, DeleteBranch, DeleteFails, Kill, repository, FixTypeOK
  <1>2. CASE Done(r)
    <2>1. /\ fix' \in [Runs -> RunState] /\ fix'[r].phase = "done"
          /\ \A q \in Runs \ {r} : fix'[q] = fix[q]
      BY <1>0, <1>2, DoneMoves
    <2>2. \A c \in Clones : branch'[c] = branch[c] \/ (r \in Owners /\ c = Clone(r))
      BY <1>0 DEF RemoveWorktree, DeleteBranch, DeleteFails, Kill, repository, FixTypeOK, Owners, At
    <2>3. \A c \in Clones : branch'[c] = branch[c] \/ \A q \in Owners \ {r} : Clone(q) # c
      BY <2>2 DEF IInv, OwnBranch
    <2>4. QED
      BY <1>1, <2>1, <2>3, LeavesIInv
  <1>3. CASE RemoveWorktree(r) /\ ~fix[r].keep
    <2>1. To(r, "deleting") /\ fix[r].phase = "ending" /\ branch' = branch
      BY <1>3 DEF RemoveWorktree, At
    <2>2. Moves(r) /\ fix'[r].phase = "deleting" /\ r \in Owners /\ r \in Owners'
      BY <1>0, <2>1, ToMoves DEF Phases, Owners
    <2>3. OwnsRightly(r) /\ Clone(r)' = Clone(r)
      BY <2>2 DEF IInv, OwnBranch, Moves, Clone
    <2>4. OwnsRightly(r)'
      BY <1>1, <1>3, <2>1, <2>2, <2>3 DEF OwnsRightly
    <2>5. RunsOK' /\ OwnBranch'
      BY <1>1, <2>1, <2>2, <2>4, OwnerMoves
    <2>6. OnePushed' /\ OnePullRequest'
      BY <1>1, <2>2, NobodyPushes DEF Moves
    <2>7. QED
      BY <1>1, <2>5, <2>6 DEF IInv
  <1>4. QED
    BY <1>2, <1>3 DEF RemoveWorktree, DeleteBranch, DeleteFails, Kill

LEMMA UsersIInv ==
  ASSUME BranchAssumption, IInv, ClosePr \/ \E c \in Clones : CleanUp(c) PROVE IInv'
  <1>0. RunsOK /\ FixTypeOK /\ fix' = fix /\ pushed' = pushed /\ RunsOK'
    BY DEF IInv, ClosePr, CleanUp, RunsOK
  <1>1. ASSUME NEW c \in Clones, CleanUp(c) PROVE IInv'
    <2>1. FixTypeOK' /\ UNCHANGED <<remote, pr>>
      BY <1>0, <1>1 DEF CleanUp, Act, FixTypeOK
    <2>2. \A r \in Owners : Clone(r) \in Clones /\ branch'[Clone(r)] = branch[Clone(r)]
      BY <1>0, <1>1 DEF CleanUp, FixTypeOK, Owners, ActiveRuns, RunsOK, RunState, Clone
    <2>3. OwnBranch'
      BY <1>0, <2>2 DEF IInv, OwnBranch, OwnsRightly, Owners, Clone
    <2>4. QED
      BY <1>0, <2>1, <2>3 DEF IInv, OnePushed, OnePullRequest, At
  <1>2. CASE ClosePr
    <2>1. FixTypeOK' /\ branch' = branch
      BY <1>0, <1>2 DEF ClosePr, Act, FixTypeOK
    <2>2. \A r \in Runs : fix[r].phase \notin {"committing", "pushing", "creating"}
      BY <1>2 DEF ClosePr, ActiveRuns
    <2>3. pr'.open = FALSE /\ pr'.ever = pr.ever
      BY <1>2 DEF ClosePr
    <2>4. OwnBranch'
      BY <1>0, <2>1 DEF IInv, OwnBranch, OwnsRightly, Owners, Clone
    <2>5. OnePushed' /\ OnePullRequest'
      BY <1>0, <2>2, <2>3 DEF IInv, OnePushed, OnePullRequest, At
    <2>6. QED
      BY <1>0, <2>1, <2>4, <2>5 DEF IInv
  <1>3. QED
    BY <1>1, <1>2

LEMMA NextIInv == ASSUME BranchAssumption PROVE IInv /\ [FixNext]_fixVars => IInv'
  <1> SUFFICES ASSUME IInv, [FixNext]_fixVars PROVE IInv'
    OBVIOUS
  <1>1. CASE UNCHANGED fixVars
    BY <1>1 DEF fixVars, IInv, FixTypeOK, RunsOK, OwnBranch, OwnsRightly, Owners, Clone, OnePushed,
                OnePullRequest, At
  <1>2. ASSUME NEW r \in Runs, Step(r) PROVE IInv'
    BY <1>2, CreateWorktreeIInv, OwnerIInv, PublishIInv, EndIInv DEF Step
  <1>3. QED
    BY <1>1, <1>2, EndIInv, UsersIInv DEF FixNext

\* Every reachable state of the runs and the repository has the inductive
\* invariant.
THEOREM Invariance == ASSUME BranchAssumption PROVE FixSpec => []IInv
  BY InitIInv, NextIInv, PTL DEF FixSpec

\* However many runs, in however many clones, race, fail, are killed and tried
\* again: a group of findings gets one pull request (openPr).
THEOREM OnlyOnePullRequest == ASSUME BranchAssumption PROVE FixSpec => []OnePullRequest
  <1>1. IInv => OnePullRequest
    BY DEF IInv
  <1>2. QED
    BY Invariance, <1>1, PTL

\* No run takes a commit away that is not on origin (deleteLocalBranch).
THEOREM CommitsAreKept == ASSUME BranchAssumption PROVE FixSpec => OnlyCopyKept
  <1>1. IInv /\ [FixNext]_fixVars => [KeepsOnlyCopy]_fixVars
    <2> SUFFICES ASSUME IInv, FixNext, NEW c \in Clones,
                        branch[c] \in Runs \ pushed, branch'[c] # branch[c], acts' = acts
                 PROVE  FALSE
      BY DEF KeepsOnlyCopy
    <2>1. branch[c] \notin {NoBranch, AtHead} /\ FixTypeOK
      BY DEF BranchAssumption, IInv
    <2>2. \A r \in Runs : ~Kill(r)
      BY DEF Kill, repository
    <2>3. acts \in Nat => ~ClosePr /\ \A d \in Clones : ~CleanUp(d)
      BY DEF ClosePr, CleanUp, Act
    <2>4. PICK r \in Runs : Step(r)
      BY <2>2, <2>3 DEF FixNext, IInv, FixTypeOK
    <2>5. AddWorktree(r) \/ AddFails(r) \/ Commit(r) \/ DeleteBranch(r)
      BY <2>4, Zenon DEF Step, StartRun, Reset, ResetFails, NoWorktree, Verify, Check, CommitNot, Push,
        PushFails, Create, CreateFails, RemoveWorktree, DeleteFails, repository
    <2>6. c = Clone(r)
      BY <2>1, <2>5 DEF AddWorktree, AddFails, Commit, DeleteBranch, FixTypeOK
    <2>7. branch[c] \in {NoBranch, AtHead} \cup pushed
      BY <2>1, <2>5, <2>6 DEF AddWorktree, AddFails, Commit, DeleteBranch, At, IInv, OwnBranch,
                              OwnsRightly, Owners
    <2>8. QED
      BY <2>1, <2>7
  <1>2. QED
    BY Invariance, <1>1, PTL DEF FixSpec, OnlyCopyKept
=============================================================================
