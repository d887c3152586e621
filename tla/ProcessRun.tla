----------------------------- MODULE ProcessRun ------------------------------
(***************************************************************************)
(* One call of runProcess on POSIX (runners/processRunner.ts) over         *)
(* startChild and stopTree (runners/childProcess.ts): the process tree of  *)
(* a scanner, the events of the child, and the timeout, the cancellation   *)
(* and the output cap that all stop it. Processes of the tree are modelled *)
(* with what the operating system does with signals and pipes.             *)
(***************************************************************************)
EXTENDS Naturals, FiniteSets

CONSTANTS
  Leader,    \* the child: leader of its process group
  Members,   \* what it may start in its group
  Outsiders, \* what leaves the group (setsid)
  Deaf,      \* processes that ignore SIGTERM
  None

Group == {Leader} \cup Members
Procs == Group \cup Outsiders
Reasons == {"timed_out", "cancelled", "output_too_large"}

ProcsAssumption ==
  /\ Leader \notin Members \cup Outsiders /\ Members \cap Outsiders = {}
  /\ Deaf \subseteq Procs /\ None \notin Reasons \cup {"completed", "failed"}

VARIABLES
  alive, born, \* processes
  holds,     \* the processes that hold the child's pipes open
  termed,    \* processes that got SIGTERM
  code,      \* how the leader ended: None, "zero", "other"
  spawn,     \* "pending", "started", "failed"
  pipes,     \* "read", or "destroyed" by the runner
  settled,   \* `done` has settled
  stop,      \* stopOnce: where it is
  outcome,   \* as the callbacks set it
  result,    \* what runProcess returned
  lost,      \* the child wrote what was not read (history)
  hook,      \* the signal-exit hook is installed
  server     \* "up" or "gone"

procVars == <<alive, born, holds, termed, code, lost>>
processVars == <<procVars, spawn, pipes, settled, stop, outcome, result, hook, server>>

ProcessInit ==
  /\ alive = {} /\ born = {} /\ holds = {} /\ termed = {} /\ code = None
  /\ spawn = "pending" /\ pipes = "read" /\ settled = FALSE
  /\ stop = "no" /\ outcome = "completed" /\ result = None /\ lost = FALSE
  /\ hook = FALSE /\ server = "up"

----------------------------------------------------------------------------
(* The operating system and the child's tree.                              *)

Fork(p, q) ==
  /\ p \in alive \cap Group /\ q \in (Members \cup Outsiders) \ born
  /\ alive' = alive \cup {q} /\ born' = born \cup {q}
  /\ holds' = IF p \in holds THEN holds \cup {q} ELSE holds
  /\ UNCHANGED <<termed, code, lost, spawn, pipes, settled, stop, outcome, result, hook, server>>

(* A process redirects its output, or closes it.                           *)
Redirect(p) ==
  /\ p \in alive \cap holds /\ holds' = holds \ {p}
  /\ UNCHANGED <<alive, born, termed, code, lost, spawn, pipes, settled, stop, outcome, result, hook, server>>

(* Output after the pipes were destroyed is lost.                          *)
Write(p) ==
  /\ p \in alive \cap holds /\ pipes = "destroyed" /\ ~lost /\ lost' = TRUE
  /\ UNCHANGED <<alive, born, holds, termed, code, spawn, pipes, settled, stop, outcome, result, hook, server>>

(* What a set of processes leaves when it dies.                            *)
Gone(dead, how) ==
  /\ alive' = alive \ dead /\ holds' = holds \ dead
  /\ code' = IF Leader \in dead \cap alive THEN how ELSE code

Exit(p, how) ==
  /\ p \in alive /\ Gone({p}, how)
  /\ UNCHANGED <<born, termed, lost, spawn, pipes, settled, stop, outcome, result, hook, server>>

(* A process that does not ignore SIGTERM ends on it.                      *)
Obey(p) == p \in termed \ Deaf /\ Exit(p, "other")

----------------------------------------------------------------------------
(* startChild.                                                             *)

StartChild ==
  /\ server = "up" /\ spawn = "pending"
  /\ spawn' = "started" /\ hook' = TRUE
  /\ alive' = {Leader} /\ born' = {Leader} /\ holds' = {Leader}
  /\ UNCHANGED <<termed, code, lost, pipes, settled, stop, outcome, result, server>>

StartFails ==
  /\ server = "up" /\ spawn = "pending"
  /\ spawn' = "failed"
  /\ UNCHANGED <<procVars, pipes, settled, stop, outcome, result, hook, server>>

\* MUTANT of PipesClosed: the child is done when it exits.
PipesAnyhow == TRUE
PipesClosed == holds = {} \/ pipes = "destroyed"

(* 'close', or the error event of a child that never started.              *)
Settle ==
  /\ server = "up" /\ ~settled
  /\ spawn = "failed" \/ (spawn = "started" /\ code # None /\ PipesClosed)
  /\ settled' = TRUE /\ hook' = FALSE
  /\ UNCHANGED <<procVars, spawn, pipes, stop, outcome, result, server>>

----------------------------------------------------------------------------
(* runProcess: timeout, abort and output cap, until it has returned.       *)

\* MUTANT of Ask: the last reason is reported.
AskLast(reason) ==
  /\ server = "up" /\ spawn # "pending" /\ result = None
  /\ outcome' = reason
  /\ stop' = IF stop = "no" THEN "asked" ELSE stop
  /\ UNCHANGED <<procVars, spawn, pipes, settled, result, hook, server>>
Ask(reason) ==
  /\ server = "up" /\ spawn # "pending" /\ result = None
  /\ reason = "output_too_large" => spawn = "started" /\ ~settled /\ pipes = "read"
  /\ outcome' = IF outcome = "completed" THEN reason ELSE outcome
  /\ stop' = IF stop = "no" THEN "asked" ELSE stop
  /\ UNCHANGED <<procVars, spawn, pipes, settled, result, hook, server>>

ReturnResult ==
  /\ server = "up" /\ settled /\ result = None
  /\ result' = IF spawn = "failed" \/ (outcome = "completed" /\ code # "zero") THEN "failed" ELSE outcome
  /\ UNCHANGED <<procVars, spawn, pipes, settled, stop, outcome, hook, server>>

----------------------------------------------------------------------------
(* stopOnce. SIGTERM and SIGKILL go to the whole group.                    *)

StopBegins ==
  /\ server = "up" /\ stop = "asked"
  /\ \/ /\ spawn = "failed" \/ settled
        /\ stop' = "over" /\ UNCHANGED termed
     \/ /\ spawn = "started" /\ ~settled
        /\ stop' = "grace" /\ termed' = termed \cup (alive \cap Group)
  /\ UNCHANGED <<alive, born, holds, code, lost, spawn, pipes, settled, outcome, result, hook, server>>

\* MUTANT of KillGroup: a leader that obeyed is enough.
KillGroupUnlessSettled ==
  /\ server = "up" /\ stop = "grace"
  /\ stop' = IF settled THEN "last" ELSE "killed"
  /\ IF settled THEN UNCHANGED <<alive, holds, code>> ELSE Gone(Group, "other")
  /\ UNCHANGED <<born, termed, lost, spawn, pipes, settled, outcome, result, hook, server>>
(* The child settled within the grace, or the grace is over.               *)
KillGroup ==
  /\ server = "up" /\ stop = "grace"
  /\ stop' = IF settled THEN "last" ELSE "killed"
  /\ Gone(Group, "other")
  /\ UNCHANGED <<born, termed, lost, spawn, pipes, settled, outcome, result, hook, server>>

(* Settled after the kill, or what is outside the group holds the pipes.   *)
AbandonPipes ==
  /\ server = "up" /\ stop = "killed"
  /\ stop' = "last"
  /\ pipes' = IF settled THEN pipes ELSE "destroyed"
  /\ UNCHANGED <<procVars, spawn, settled, outcome, result, hook, server>>

StopEnds ==
  /\ server = "up" /\ stop = "last"
  /\ stop' = "over"
  /\ UNCHANGED <<procVars, spawn, pipes, settled, outcome, result, hook, server>>

(* The server exits first: the hook signals the group of a live child.     *)
ServerExits ==
  /\ server = "up" /\ server' = "gone"
  /\ termed' = IF hook THEN termed \cup (alive \cap Group) ELSE termed
  /\ UNCHANGED <<alive, born, holds, code, lost, spawn, pipes, settled, stop, outcome, result, hook>>

ProcessNext ==
  \/ \E p, q \in Procs : Fork(p, q)
  \/ \E p \in Procs : Redirect(p) \/ Write(p) \/ Obey(p) \/ Exit(p, "zero") \/ Exit(p, "other")
  \/ StartChild \/ StartFails \/ Settle \/ ReturnResult \/ \E r \in Reasons : Ask(r)
  \/ StopBegins \/ KillGroup \/ AbandonPipes \/ StopEnds \/ ServerExits

(* Node delivers events and its timers fire while the server is up.        *)
ProcessFairness ==
  /\ WF_processVars(Settle) /\ WF_processVars(ReturnResult) /\ WF_processVars(StopBegins)
  /\ WF_processVars(KillGroup) /\ WF_processVars(AbandonPipes) /\ WF_processVars(StopEnds)

ProcessSpec == ProcessInit /\ [][ProcessNext]_processVars /\ ProcessFairness

----------------------------------------------------------------------------
(* A result `completed` is the whole output of a child that ended by       *)
(* itself: nothing was signalled, no pipe was given up (runProcess).       *)
CompletedIsWhole ==
  result = "completed" =>
    /\ code = "zero" /\ termed = {}
    /\ pipes = "read" /\ ~lost /\ holds = {}

(* After a stop that found the child running, nothing of its group is      *)
(* left, whatever ignored SIGTERM or was started meanwhile (stopOnce).     *)
GroupGone == stop \in {"killed", "last"} => alive \cap Group = {}

(* One result, and the first reason wins; a stop always ends the call,     *)
(* also when something outside the group keeps the pipes open.             *)
Promise == INSTANCE ProcessPromise WITH
  reason <- IF outcome = "completed" THEN None ELSE outcome,
  result <- result, caller <- server

KeepsPromise == Promise!Spec
=============================================================================
