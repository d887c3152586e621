-------------------------------- MODULE FixPr --------------------------------
(***************************************************************************)
(* create_fix_pr with apply=true (tools/createFixPr.ts, fixpr/worktree.ts, *)
(* fixpr/pr.ts): runs, in the clones of one repository, that fix the same  *)
(* group of findings, and so use the same branch name. Git, the remote and *)
(* `gh` are modelled by what the code relies on. A dry run changes nothing *)
(* of this state and is left out.                                          *)
(***************************************************************************)
EXTENDS Naturals, FiniteSets

CONSTANTS
  MaxRuns,  \* bound on runs
  Clones,
  NoBranch, \* the branch does not exist
  AtHead,   \* the branch is where HEAD is: nothing committed
  MaxActive,\* bound on runs at the same time
  MaxKills, \* bound on killed processes
  MaxUser   \* bound on what the users of the repository do

(* Runs are numbered as they start; a run is also the commit it makes.     *)
Runs == 1 .. MaxRuns

BranchAssumption ==
  Clones # {} /\ NoBranch \notin Runs /\ AtHead \notin Runs \cup {NoBranch}

VARIABLES
  branch,   \* [clone -> commit of refs/heads/<branch>]
  checkout, \* [clone -> does a worktree have the branch checked out]
  remote,   \* commit of the branch on origin
  pr,       \* pull requests of the branch: is one open, how many ever
  fix,      \* [run -> what it is doing]
  kept,     \* clones where a run reached openPr and kept the branch (history)
  pushed,   \* commits that ever reached origin (history)
  kills, acts

repository == <<branch, checkout, remote, pr>>
fixVars == <<branch, checkout, remote, pr, fix, kept, pushed, kills, acts>>

NoClone == CHOOSE c \in Clones : TRUE
NotStarted == [phase |-> "idle", clone |-> NoClone, keep |-> FALSE]

FixInit ==
  /\ branch = [c \in Clones |-> NoBranch] /\ checkout = [c \in Clones |-> FALSE]
  /\ remote = NoBranch /\ pr = [open |-> FALSE, ever |-> 0]
  /\ fix = [r \in Runs |-> NotStarted]
  /\ kept = {} /\ pushed = {} /\ kills = 0 /\ acts = 0

At(r, step) == fix[r].phase = step
Clone(r) == fix[r].clone
ActiveRuns == {r \in Runs : fix[r].phase \notin {"idle", "done"}}

To(r, step) == fix' = [fix EXCEPT ![r].phase = step]
Done(r) == fix' = [fix EXCEPT ![r] = [NotStarted EXCEPT !.phase = "done"]]
(* Into the `finally` of processGroup, with keepBranch decided.            *)
Ends(r, keep) == fix' = [fix EXCEPT ![r].phase = "ending", ![r].keep = keep]

----------------------------------------------------------------------------
(* createWorktree.                                                         *)

StartRun(r, c) ==
  /\ At(r, "idle") /\ (\A q \in 1 .. r - 1 : ~At(q, "idle")) /\ Cardinality(ActiveRuns) < MaxActive
  /\ fix' = [fix EXCEPT ![r].phase = "adding", ![r].clone = c]
  /\ UNCHANGED <<repository, kept, pushed, kills, acts>>

AddWorktree(r) ==
  /\ At(r, "adding") /\ branch[Clone(r)] = NoBranch
  /\ branch' = [branch EXCEPT ![Clone(r)] = AtHead]
  /\ checkout' = [checkout EXCEPT ![Clone(r)] = TRUE]
  /\ To(r, "resetting")
  /\ UNCHANGED <<remote, pr, kept, pushed, kills, acts>>

(* `git worktree add -b` fails: on the branch that is there, before it     *)
(* made one, or after; the worktree, if any, is removed.                   *)
AddFails(r) ==
  /\ At(r, "adding")
  /\ \/ UNCHANGED branch
     \/ branch[Clone(r)] = NoBranch /\ branch' = [branch EXCEPT ![Clone(r)] = AtHead]
  /\ To(r, "colliding")
  /\ UNCHANGED <<checkout, remote, pr, kept, pushed, kills, acts>>

Reset(r) ==
  /\ At(r, "resetting") /\ To(r, "verifying")
  /\ UNCHANGED <<repository, kept, pushed, kills, acts>>

(* The worktree is removed, or cannot be; the branch stays.                *)
ResetFails(r) ==
  /\ At(r, "resetting")
  /\ \E removed \in BOOLEAN : checkout' = [checkout EXCEPT ![Clone(r)] = ~removed]
  /\ To(r, "colliding")
  /\ UNCHANGED <<branch, remote, pr, kept, pushed, kills, acts>>

\* MUTANT of NoWorktree: the branch is deleted on this path too.
NoWorktreeDeletes(r) ==
  /\ At(r, "colliding") /\ ~checkout[Clone(r)]
  /\ branch' = [branch EXCEPT ![Clone(r)] = NoBranch]
  /\ Done(r)
  /\ UNCHANGED <<checkout, remote, pr, kept, pushed, kills, acts>>
(* Reported as `exists` or worktree_failed, as prExists says.              *)
NoWorktree(r) ==
  /\ At(r, "colliding") /\ Done(r)
  /\ UNCHANGED <<repository, kept, pushed, kills, acts>>

----------------------------------------------------------------------------
(* The fix is applied and verified, or not: refused, apply_failed,         *)
(* verification_failed, not_verified, or it throws. Then openPr.           *)

Verify(r) ==
  /\ At(r, "verifying")
  /\ To(r, "checking") \/ Ends(r, FALSE)
  /\ UNCHANGED <<repository, kept, pushed, kills, acts>>

\* MUTANT of PrExists: only open pull requests are searched.
PrExistsOpen == pr.open
(* `gh pr list --state all`.                                               *)
PrExists == pr.ever > 0

(* There is one (exists), or it cannot be told (refused).                  *)
Check(r) ==
  /\ At(r, "checking")
  /\ \/ Ends(r, FALSE)
     \/ ~PrExists /\ To(r, "committing")
  /\ UNCHANGED <<repository, kept, pushed, kills, acts>>

(* Nothing changed (no_changes) or more than the fix (refused); or git     *)
(* fails (push_failed, as for the push).                                   *)
CommitNot(r) ==
  /\ At(r, "committing")
  /\ \/ Ends(r, FALSE) /\ UNCHANGED kept
     \/ Ends(r, TRUE) /\ kept' = kept \cup {Clone(r)}
  /\ UNCHANGED <<repository, pushed, kills, acts>>

Commit(r) ==
  /\ At(r, "committing")
  /\ branch' = [branch EXCEPT ![Clone(r)] = r]
  /\ To(r, "pushing")
  /\ UNCHANGED <<checkout, remote, pr, kept, pushed, kills, acts>>

(* Origin takes what fast-forwards: here, a branch it does not have.       *)
Push(r) ==
  /\ At(r, "pushing") /\ remote = NoBranch
  /\ remote' = r /\ pushed' = pushed \cup {r}
  /\ \/ To(r, "creating") /\ UNCHANGED kept
     \/ Ends(r, TRUE) /\ kept' = kept \cup {Clone(r)}
  /\ UNCHANGED <<branch, checkout, pr, kills, acts>>

(* Refused here or by origin, or failed on the way.                        *)
PushFails(r) ==
  /\ At(r, "pushing")
  /\ Ends(r, TRUE) /\ kept' = kept \cup {Clone(r)}
  /\ UNCHANGED <<repository, pushed, kills, acts>>

(* `gh pr create` (created), also when its answer is lost (create_failed). *)
Create(r) ==
  /\ At(r, "creating") /\ ~pr.open /\ remote # NoBranch
  /\ pr' = [open |-> TRUE, ever |-> pr.ever + 1]
  /\ Ends(r, TRUE)
  /\ kept' = kept \cup {Clone(r)}
  /\ UNCHANGED <<branch, checkout, remote, pushed, kills, acts>>

(* It fails; or the file for its body cannot be written, which throws.     *)
CreateFails(r) ==
  /\ At(r, "creating")
  /\ \/ Ends(r, TRUE) /\ kept' = kept \cup {Clone(r)}
     \/ Ends(r, FALSE) /\ UNCHANGED kept
  /\ UNCHANGED <<repository, pushed, kills, acts>>

----------------------------------------------------------------------------
(* worktree.remove, which may fail; then deleteLocalBranch.                *)
RemoveWorktree(r) ==
  /\ At(r, "ending")
  /\ \E removed \in BOOLEAN : checkout' = [checkout EXCEPT ![Clone(r)] = ~removed]
  /\ IF fix[r].keep THEN Done(r) ELSE To(r, "deleting")
  /\ UNCHANGED <<branch, remote, pr, kept, pushed, kills, acts>>

(* `git branch -D` refuses a branch that a worktree has checked out.       *)
DeleteBranch(r) ==
  /\ At(r, "deleting") /\ ~checkout[Clone(r)]
  /\ branch' = [branch EXCEPT ![Clone(r)] = NoBranch]
  /\ Done(r)
  /\ UNCHANGED <<checkout, remote, pr, kept, pushed, kills, acts>>

DeleteFails(r) ==
  /\ At(r, "deleting") /\ Done(r)
  /\ UNCHANGED <<repository, kept, pushed, kills, acts>>

(* The process is killed: the worktree and the branch stay.                *)
Kill(r) ==
  /\ r \in ActiveRuns /\ kills < MaxKills /\ kills' = kills + 1
  /\ Done(r)
  /\ UNCHANGED <<repository, kept, pushed, acts>>

----------------------------------------------------------------------------
(* The users of the repository.                                            *)
Act == acts < MaxUser /\ acts' = acts + 1

(* The branch, and a worktree left behind, are deleted in a clone where    *)
(* no run is active.                                                       *)
CleanUp(c) ==
  /\ Act /\ branch[c] # NoBranch /\ \A r \in ActiveRuns : Clone(r) # c
  /\ branch' = [branch EXCEPT ![c] = NoBranch] /\ checkout' = [checkout EXCEPT ![c] = FALSE]
  /\ kept' = kept \ {c}
  /\ UNCHANGED <<remote, pr, fix, pushed, kills>>

(* The pull request is merged or closed, its branch deleted on origin; not *)
(* in the seconds between a run's check and its push.                      *)
ClosePr ==
  /\ Act /\ pr.open /\ \A r \in ActiveRuns : fix[r].phase \notin {"committing", "pushing", "creating"}
  /\ pr' = [pr EXCEPT !.open = FALSE] /\ remote' = NoBranch
  /\ UNCHANGED <<branch, checkout, fix, kept, pushed, kills>>

Step(r) ==
  \/ \E c \in Clones : StartRun(r, c)
  \/ AddWorktree(r) \/ AddFails(r) \/ Reset(r) \/ ResetFails(r) \/ NoWorktree(r)
  \/ Verify(r) \/ Check(r) \/ CommitNot(r) \/ Commit(r)
  \/ Push(r) \/ PushFails(r) \/ Create(r) \/ CreateFails(r)
  \/ RemoveWorktree(r) \/ DeleteBranch(r) \/ DeleteFails(r)

FixNext ==
  \/ \E r \in Runs : Step(r) \/ Kill(r)
  \/ \E c \in Clones : CleanUp(c)
  \/ ClosePr

FixSpec == FixInit /\ [][FixNext]_fixVars

----------------------------------------------------------------------------
FixTypeOK ==
  /\ branch \in [Clones -> Runs \cup {NoBranch, AtHead}] /\ checkout \in [Clones -> BOOLEAN]
  /\ remote \in Runs \cup {NoBranch} /\ pr.open \in BOOLEAN /\ pr.ever \in Nat
  /\ kept \subseteq Clones /\ pushed \subseteq Runs /\ acts \in Nat

(* A group of findings never gets a second pull request, open or not, over *)
(* retries, clones, lost answers and closed pull requests (openPr).        *)
OnePullRequest == pr.ever <= 1

(* A run never deletes the only copy of a commit: `-D` is for branches     *)
(* with nothing on them, or what is on origin (deleteLocalBranch).         *)
KeepsOnlyCopy ==
  \A c \in Clones : branch[c] \in Runs \ pushed /\ branch'[c] # branch[c] => acts' # acts
OnlyCopyKept == [][KeepsOnlyCopy]_fixVars

(* createFixPr.ts: "a branch collision here can only mean a PREVIOUS run   *)
(* reached `openPr` and kept this exact branch".                           *)
CollisionMeansKept ==
  \A r \in Runs : At(r, "adding") /\ branch[Clone(r)] # NoBranch => Clone(r) \in kept
=============================================================================
