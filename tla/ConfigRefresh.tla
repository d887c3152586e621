---------------------------- MODULE ConfigRefresh ----------------------------
(***************************************************************************)
(* init_project (configdrift/refresh.ts, manifest.ts, tools/initProject.ts)*)
(* installs and refreshes the baseline configs of one project, beside the  *)
(* user, other processes and other plugin versions. A file's state is what *)
(* its canonical hash tells apart; a link or a directory is NotAFile. Dry  *)
(* runs (apply false) change nothing and are left out.                     *)
(***************************************************************************)
EXTENDS Naturals, Sequences

CONSTANTS
  Procs,      \* processes that may run init_project
  Profile,    \* the targets of the profile, in order
  MaxVersion, \* bound on plugin versions
  Shipped,    \* [1 .. MaxVersion -> [target -> baseline]]
  NoBaseline, \* the source that a broken install misses
  Edits,      \* what the user may write
  Absent, NotAFile, Unreadable,
  Nothing,    \* no manifest entry; no delivery
  MaxRuns,    \* bound on runs
  MaxTouches  \* bound on what users and crashes do

Targets == {Profile[i] : i \in 1 .. Len(Profile)}
Baselines == {Shipped[v][t] : v \in 1 .. MaxVersion, t \in Targets} \ {NoBaseline}

Contents == Baselines \cup Edits \cup {Absent, NotAFile, Unreadable}

(* A profile names a target once.                                          *)
ShippedAssumption ==
  /\ Baselines \cap Edits = {} /\ NoBaseline \notin Contents
  /\ {Absent, NotAFile, Unreadable} \cap (Baselines \cup Edits) = {}
  /\ Nothing \notin 1 .. MaxVersion
  /\ Nothing \notin [source : Baselines, target : Contents, delivered : 1 .. MaxVersion \cup {Nothing}]
  /\ Profile \in Seq(Targets)
  /\ \A i, j \in 1 .. Len(Profile) : Profile[i] = Profile[j] => i = j

VARIABLES
  file,     \* what is at each target
  beside,   \* deliveries on disk: <<target, version>>
  manifest, \* .dev-guardian/configs.json, by target
  job,      \* the init_project of each process
  runs, touches,
  offered   \* <<target, content>> beside which a baseline was delivered (history)

configVars == <<file, beside, manifest, job, runs, touches, offered>>

Entry(source, target, delivered) == [source |-> source, target |-> target, delivered |-> delivered]

(* `undisturbed` is history: nobody else did anything and no write failed. *)
Idle == [mode |-> "idle", version |-> 0, next |-> 0, copy |-> [t \in Targets |-> Nothing],
         touched |-> FALSE, skipped |-> FALSE, undisturbed |-> FALSE]

ConfigsInit ==
  /\ file \in [Targets -> {Absent, NotAFile, Unreadable} \cup Edits]
  /\ beside = {} /\ manifest = [t \in Targets |-> Nothing]
  /\ job = [p \in Procs |-> Idle]
  /\ runs = 0 /\ touches = 0 /\ offered = {}

----------------------------------------------------------------------------
(* What a refresh by version v does with target t.                         *)

Pending(entry, t) == entry.delivered # Nothing /\ <<t, entry.delivered>> \in beside

AlongsideAction(entry, t, v) ==
  IF <<t, v>> \in beside /\ (entry = Nothing \/ entry.delivered # v)
  THEN "alongside_blocked" ELSE "write_alongside"

\* MUTANT of Action: a file with an entry is ours, whatever its hash.
ActionRecordedIsOurs(entry, t, v) ==
  IF Shipped[v][t] = NoBaseline THEN "source_missing"
  ELSE IF file[t] = NotAFile THEN "refused"
  ELSE IF file[t] = Absent THEN "create"
  ELSE IF file[t] = Unreadable THEN "up_to_date"
  ELSE IF entry = Nothing THEN IF file[t] = Shipped[v][t] THEN "adopt" ELSE AlongsideAction(entry, t, v)
  ELSE IF Pending(entry, t) THEN "pending_merge"
  ELSE IF Shipped[v][t] = entry.source THEN "up_to_date" ELSE "update_in_place"
Action(entry, t, v) ==
  IF Shipped[v][t] = NoBaseline THEN "source_missing"
  ELSE IF file[t] = NotAFile THEN "refused"
  ELSE IF file[t] = Absent THEN "create"
  ELSE IF file[t] = Unreadable THEN "up_to_date"
  ELSE IF entry = Nothing THEN IF file[t] = Shipped[v][t] THEN "adopt" ELSE AlongsideAction(entry, t, v)
  ELSE IF Pending(entry, t) THEN "pending_merge"
  ELSE IF Shipped[v][t] = entry.source THEN "up_to_date"
  ELSE IF file[t] = entry.target THEN "update_in_place" ELSE AlongsideAction(entry, t, v)

Writes == {"create", "adopt", "update_in_place", "write_alongside"}

----------------------------------------------------------------------------
(* One run: the manifest is read once, and written once at the end.        *)

Become(p, r) ==
  job' = [q \in Procs |-> IF q = p THEN r ELSE [job[q] EXCEPT !.undisturbed = FALSE]]

Start(p, mode, v) ==
  /\ job[p].mode = "idle" /\ runs < MaxRuns /\ runs' = runs + 1
  /\ Become(p, [mode |-> mode, version |-> v, next |-> 1, copy |-> manifest,
                touched |-> FALSE, skipped |-> FALSE, undisturbed |-> TRUE])
  /\ UNCHANGED <<file, beside, manifest, touches, offered>>

AtItem(p, mode) == job[p].mode = mode /\ job[p].next <= Len(Profile)
Target(p) == Profile[job[p].next]
Source(p) == Shipped[job[p].version][Target(p)]
Planned(p) == Action(job[p].copy[Target(p)], Target(p), job[p].version)

Passed(p) == [job[p] EXCEPT !.next = @ + 1]

\* MUTANT of Recorded: the entry is not replaced.
RecordedOnce(p, entry) ==
  IF job[p].copy[Target(p)] # Nothing THEN Passed(p)
  ELSE [Passed(p) EXCEPT !.copy[Target(p)] = entry, !.touched = TRUE]
(* record, upsertManifestEntry: in the run's own copy of the manifest.     *)
Recorded(p, entry) == [Passed(p) EXCEPT !.copy[Target(p)] = entry, !.touched = TRUE]

(* The write is refused or fails: nothing is written nor recorded.         *)
Fails(p) == Become(p, [Passed(p) EXCEPT !.undisturbed = FALSE]) /\ UNCHANGED <<file, beside, offered>>

Install(p) ==
  \/ /\ file' = [file EXCEPT ![Target(p)] = Source(p)]
     /\ Become(p, Recorded(p, Entry(Source(p), Source(p), Nothing)))
     /\ UNCHANGED <<beside, offered>>
  \/ Fails(p)

Adopt(p) ==
  /\ Become(p, Recorded(p, Entry(Source(p), Source(p), Nothing)))
  /\ UNCHANGED <<file, beside, offered>>

(* deliverAlongside: the user's hash is recorded as it is now.             *)
Deliver(p) ==
  \/ /\ beside' = beside \cup {<<Target(p), job[p].version>>}
     /\ offered' = offered \cup {<<Target(p), file[Target(p)]>>}
     /\ Become(p, Recorded(p, Entry(Source(p), file[Target(p)], job[p].version)))
     /\ UNCHANGED file
  \/ Fails(p)

RefreshItem(p) ==
  /\ AtItem(p, "refresh")
  /\ \/ Planned(p) \in {"create", "update_in_place"} /\ Install(p)
     \/ Planned(p) = "adopt" /\ Adopt(p)
     \/ Planned(p) = "write_alongside" /\ Deliver(p)
     \/ Planned(p) \notin Writes /\ Become(p, Passed(p)) /\ UNCHANGED <<file, beside, offered>>
  /\ UNCHANGED <<manifest, runs, touches>>

(* Without `refresh`: what is absent is created, a file there is skipped.  *)
InitItem(p) ==
  /\ AtItem(p, "init")
  /\ \/ Source(p) # NoBaseline /\ file[Target(p)] = Absent /\ Install(p)
     \/ /\ Source(p) = NoBaseline \/ file[Target(p)] # Absent
        /\ Become(p, [Passed(p) EXCEPT !.skipped =
                        @ \/ (Source(p) # NoBaseline /\ file[Target(p)] # NotAFile)])
        /\ UNCHANGED <<file, beside, offered>>
  /\ UNCHANGED <<manifest, runs, touches>>

(* adoptIdenticalConfigs.                                                  *)
AdoptItem(p) ==
  /\ AtItem(p, "adopt")
  /\ IF job[p].copy[Target(p)] = Nothing /\ file[Target(p)] = Source(p)
     THEN Adopt(p)
     ELSE Become(p, Passed(p)) /\ UNCHANGED <<file, beside, offered>>
  /\ UNCHANGED <<manifest, runs, touches>>

(* writeManifest, if anything was recorded; it may fail. A plain init then *)
(* reads the manifest again and adopts what it skipped.                    *)
EndsWith(p, written) ==
  /\ manifest' = IF written THEN job[p].copy ELSE manifest
  /\ IF job[p].mode = "init" /\ job[p].skipped
     THEN Become(p, [job[p] EXCEPT !.mode = "adopt", !.next = 1, !.copy = manifest', !.touched = FALSE])
     ELSE Become(p, Idle)
  /\ UNCHANGED <<file, beside, runs, touches, offered>>

Finish(p) ==
  /\ job[p].mode # "idle" /\ job[p].next > Len(Profile)
  /\ EndsWith(p, job[p].touched)

FinishUnwritten(p) ==
  /\ job[p].mode # "idle" /\ job[p].next > Len(Profile) /\ job[p].touched
  /\ EndsWith(p, FALSE)

Tool(p) ==
  \/ \E mode \in {"refresh", "init"}, v \in 1 .. MaxVersion : Start(p, mode, v)
  \/ RefreshItem(p) \/ InitItem(p) \/ AdoptItem(p) \/ Finish(p) \/ FinishUnwritten(p)

----------------------------------------------------------------------------
(* The user, and what becomes of a process or of the manifest.             *)

Touch == touches < MaxTouches /\ touches' = touches + 1 /\ UNCHANGED runs
Disturb == job' = [q \in Procs |-> [job[q] EXCEPT !.undisturbed = FALSE]]

(* Edited, deleted, or made a link.                                        *)
Write(t, content) ==
  /\ Touch /\ content # file[t] /\ file' = [file EXCEPT ![t] = content] /\ Disturb
  /\ UNCHANGED <<beside, manifest, offered>>

(* A delivery is merged or not; the user deletes it.                       *)
Dispose(d) ==
  /\ Touch /\ d \in beside /\ beside' = beside \ {d} /\ Disturb
  /\ UNCHANGED <<file, manifest, offered>>

(* An entry is lost to a merge conflict, or was not committed.             *)
LoseEntry(t) ==
  /\ Touch /\ manifest[t] # Nothing /\ manifest' = [manifest EXCEPT ![t] = Nothing] /\ Disturb
  /\ UNCHANGED <<file, beside, offered>>

(* The process is killed: what it wrote stays, its manifest copy is lost.  *)
Crash(p) ==
  /\ Touch /\ job[p].mode # "idle" /\ Become(p, Idle)
  /\ UNCHANGED <<file, beside, manifest, offered>>

User ==
  \/ \E t \in Targets, c \in Edits \cup {Absent, NotAFile} : Write(t, c)
  \/ \E d \in beside : Dispose(d)
  \/ \E t \in Targets : LoseEntry(t)

ConfigsNext == User \/ \E p \in Procs : Tool(p) \/ Crash(p)

ConfigsSpec == ConfigsInit /\ [][ConfigsNext]_configVars

----------------------------------------------------------------------------
(* refresh.ts: "The user owns their copy. Nothing here overwrites a file   *)
(* the user has touched, under any flag, ever."                            *)
EditedStays ==
  [][(\E p \in Procs : Tool(p)) => \A t \in Targets : file[t] \in Edits => file'[t] = file[t]]_configVars

(* What the user wrote is overwritten only after a baseline was delivered  *)
(* beside that very content: never across crashes, lost entries, failed    *)
(* writes or the stale manifest of another process otherwise.              *)
ReplacesWhatMetADelivery ==
  (\E p \in Procs : Tool(p)) =>
    \A t \in Targets : file[t] \in Edits /\ file'[t] # file[t] => <<t, file[t]>> \in offered
EditsMeetADelivery == [][ReplacesWhatMetADelivery]_configVars

(* An undisturbed refresh settles: repeated, it would write nothing.       *)
LeavesNothingToDo ==
  \A p \in Procs, v \in 1 .. MaxVersion :
    (job[p].mode = "refresh" /\ job[p].version = v /\ job[p].undisturbed /\ Finish(p)) =>
      \A t \in Targets : Action(manifest[t], t, v)' \notin Writes
RefreshSettles == [][LeavesNothingToDo]_configVars
=============================================================================
