------------------------------- MODULE Opening --------------------------------
(***************************************************************************)
(* Processes open one project's database: whose it is, its id and the      *)
(* registry, the schema check, the migrations (storage/db.ts,              *)
(* storage/dbRegistry.ts, storage/migrations/runner.ts). Builds of         *)
(* different age share it. A migration stands for the tables, columns and  *)
(* indexes it creates; its statements run in one transaction. Left out: a  *)
(* location that cannot be written, a file that cannot be read, git.       *)
(***************************************************************************)
EXTENDS Integers, FiniteSetsExt

CONSTANTS
  Openers,   \* processes that open the database
  Ships,     \* [Openers -> numbers of the migrations its build ships]
  Probed,    \* PROBED_ON_BACKFILL
  DataSteps, \* migrations that change rows, too
  NoId,      \* the id of a database from before ids
  Stranger,  \* an id this user never registered
  MaxOpens   \* bound on openings

VARIABLES
  exists,   \* does the database hold anything
  id,       \* its db_id
  registry, \* the ids registered for its path
  has,      \* [Versions -> "none", "part", "whole"]: objects of each migration
  ran,      \* [Versions -> how often it ran here] (history)
  recorded, \* schema_migrations
  mark,     \* schema_meta.version, 0 if there is none
  opener,   \* [Openers -> what it is doing]
  opens     \* openings so far; the next id

openingVars == <<exists, id, registry, has, ran, recorded, mark, opener, opens>>
database == <<exists, id, registry, has, ran, recorded, mark>>

Versions == UNION {Ships[p] : p \in Openers}

(* Migrations are additive: a newer build ships those of an older one. One *)
(* that fills in the set ships what the branches had.                      *)
ShipsAssumption ==
  /\ Ships \in [Openers -> SUBSET (Nat \ {0})]
  /\ \A p \in Openers : IsFiniteSet(Ships[p]) /\ Ships[p] # {}
  /\ \A p, q \in Openers : \A v \in Versions \ Ships[p] : \A w \in Ships[p] : w < v
  /\ Probed \subseteq Nat /\ \A p \in Openers, v \in Versions, w \in Probed : v <= w => v \in Ships[p]
  /\ Probed \cap DataSteps = {} /\ {NoId, Stranger} \cap Int = {}

(* `adopts`: the process is `db adopt`. `mine`: the id it mints; `newer`:  *)
(* what recordsNewerMigrations said; `todo`: the migrations it is to run.  *)
(* `raced` is history: a newer build migrated between the two reads of the *)
(* schema check.                                                           *)
NotOpening == [phase |-> "idle", adopts |-> FALSE, mine |-> 0, newer |-> FALSE, todo |-> {}, raced |-> FALSE]

(* A new project; or a database from before ids and the set of migrations, *)
(* with those up to `mark`, but of the probed ones what its branches had.  *)
OfBranches(m) ==
  {h \in [Versions -> {"none", "part", "whole"}] :
     \A v \in Versions :
       /\ v > m => h[v] = "none"
       /\ v = m => h[v] # "none"
       /\ v <= m /\ v \notin Probed => h[v] = "whole"}

OpeningInit ==
  /\ registry = {} /\ recorded = {} /\ opens = 0
  /\ opener = [p \in Openers |-> NotOpening]
  /\ \/ exists = FALSE /\ id = NoId /\ mark = 0 /\ has = [v \in Versions |-> "none"]
     \/ /\ exists = TRUE /\ id \in {NoId, Stranger}
        /\ mark \in {v \in Versions : \E w \in Probed : v <= w} /\ has \in OfBranches(mark)
  /\ ran = [v \in Versions |-> IF has[v] = "none" THEN 0 ELSE 1]

At(p, phase) == opener[p].phase = phase
Goes(p, phase) == opener' = [opener EXCEPT ![p].phase = phase]

----------------------------------------------------------------------------
(* judgeProjectDatabase: the server, or the command line, opens it. A      *)
(* foreign database is not used: "disowned" if its id is one given here.   *)
Judgement ==
  IF ~exists THEN "register"
  ELSE IF id \in registry THEN "newer"
  ELSE IF id \in {NoId, Stranger} THEN "foreign" ELSE "disowned"

Open(p) ==
  /\ At(p, "idle") /\ opens < MaxOpens /\ opens' = opens + 1
  /\ opener' = [opener EXCEPT ![p] = [NotOpening EXCEPT !.phase = Judgement, !.mine = opens + 1]]
  /\ UNCHANGED database

(* registerProjectDatabase: `db adopt --yes`, after a report that only     *)
(* reads, of a database not registered here. It opens it, and claims it    *)
(* then.                                                                   *)
AdoptDatabase(p) ==
  /\ At(p, "idle") /\ opens < MaxOpens /\ opens' = opens + 1
  /\ exists /\ id \notin registry
  /\ opener' = [opener EXCEPT ![p] = [NotOpening EXCEPT !.phase = "newer", !.adopts = TRUE, !.mine = opens + 1]]
  /\ UNCHANGED database

(* claimDbId registers an id of its own first.                             *)
Register(p) ==
  /\ At(p, "register") /\ Goes(p, "claim")
  /\ registry' = registry \cup {opener[p].mine}
  /\ UNCHANGED <<exists, id, has, ran, recorded, mark, opens>>

(* Then, under the write lock: an id another process wrote and registered  *)
(* for this database wins, and its own is forgotten.                       *)
Claim(p) ==
  /\ At(p, "claim") /\ Goes(p, IF opener[p].adopts THEN "open" ELSE "newer")
  /\ exists' = TRUE
  /\ IF id \in registry THEN registry' = registry \ {opener[p].mine} /\ UNCHANGED id
     ELSE id' = opener[p].mine /\ UNCHANGED registry
  /\ UNCHANGED <<has, ran, recorded, mark, opens>>

----------------------------------------------------------------------------
(* assertTrustedSchema, in two reads: whether a newer build migrated the   *)
(* database, then its schema. Objects of a newer build are let pass if so. *)
\* MUTANT of RecordsNewer: a newer build is never expected.
RecordsNoNewer(p) == FALSE
RecordsNewer(p) == \E v \in recorded \cup {mark} : v > Max(Ships[p])

ReadNewer(p) ==
  /\ At(p, "newer")
  /\ opener' = [opener EXCEPT ![p].phase = "schema", ![p].newer = RecordsNewer(p)]
  /\ UNCHANGED <<database, opens>>

Unknown(p) == {v \in Versions \ Ships[p] : has[v] # "none"}

ReadSchema(p) ==
  /\ At(p, "schema")
  /\ Goes(p, IF Unknown(p) # {} /\ ~opener[p].newer THEN "refused" ELSE "migrate")
  /\ UNCHANGED <<database, opens>>

----------------------------------------------------------------------------
(* runMigrations. backfillFromHighWaterMark looks before it takes the lock *)
(* and again under it; the probed migrations are not trusted to the mark.  *)
NoSet == mark # 0 /\ recorded = {}

ReadMark(p) ==
  /\ At(p, "migrate") /\ Goes(p, IF NoSet THEN "backfill" ELSE "applied")
  /\ UNCHANGED <<database, opens>>

Backfill(p) ==
  /\ At(p, "backfill") /\ Goes(p, "applied")
  /\ recorded' = IF NoSet THEN {v \in Ships[p] : v <= mark /\ (v \in Probed => has[v] = "whole")}
                 ELSE recorded
  /\ UNCHANGED <<exists, id, registry, has, ran, mark, opens>>

(* appliedVersions, without the lock.                                      *)
ReadApplied(p) ==
  /\ At(p, "applied")
  /\ opener' = [opener EXCEPT ![p].phase = "apply", ![p].todo = Ships[p] \ recorded]
  /\ UNCHANGED <<database, opens>>

RunMigration(v) ==
  /\ has' = [has EXCEPT ![v] = "whole"] /\ ran' = [ran EXCEPT ![v] = @ + 1]
  /\ recorded' = recorded \cup {v} /\ mark' = Max({mark, v})

\* MUTANT of Apply: the set is not read again under the lock.
ApplyUnread(v) == RunMigration(v)
(* applyMigration, what it does under the lock.                            *)
Apply(v) == IF v \in recorded THEN UNCHANGED <<has, ran, recorded, mark>> ELSE RunMigration(v)

(* The next one, in a transaction of its own.                              *)
Migrate(p) ==
  /\ At(p, "apply") /\ opener[p].todo # {}
  /\ LET v == Min(opener[p].todo)
     IN  /\ Apply(v)
         /\ opener' = [q \in Openers |->
              IF q = p THEN [opener[p] EXCEPT !.todo = @ \ {v}]
              ELSE [opener[q] EXCEPT !.raced = @ \/ (At(q, "schema") /\ v \notin Ships[q])]]
  /\ UNCHANGED <<exists, id, registry, opens>>

(* assertSchemaComplete.                                                   *)
Complete(p) ==
  /\ At(p, "apply") /\ opener[p].todo = {}
  /\ Goes(p, IF \E v \in Ships[p] : has[v] # "whole" THEN "incomplete"
             ELSE IF opener[p].adopts THEN "register" ELSE "open")
  /\ UNCHANGED <<database, opens>>

(* The process ends, or is killed, at any point; or it gives up waiting    *)
(* for the lock: claimDbId then forgets the id that it registered.         *)
LeaveDatabase(p) ==
  /\ ~At(p, "idle") /\ opener' = [opener EXCEPT ![p] = NotOpening]
  /\ \/ UNCHANGED registry
     \/ At(p, "claim") /\ registry' = registry \ {opener[p].mine}
  /\ UNCHANGED <<exists, id, has, ran, recorded, mark, opens>>

OpeningNext ==
  \E p \in Openers :
    \/ Open(p) \/ AdoptDatabase(p) \/ Register(p) \/ Claim(p) \/ ReadNewer(p) \/ ReadSchema(p)
    \/ ReadMark(p) \/ Backfill(p) \/ ReadApplied(p) \/ Migrate(p) \/ Complete(p) \/ LeaveDatabase(p)

OpeningSpec == OpeningInit /\ [][OpeningNext]_openingVars

----------------------------------------------------------------------------
OpeningTypeOK ==
  /\ exists \in BOOLEAN /\ id \in {NoId, Stranger} \cup 1 .. opens /\ registry \subseteq 1 .. opens
  /\ has \in [Versions -> {"none", "part", "whole"}] /\ ran \in [Versions -> Nat]
  /\ recorded \subseteq Versions /\ mark \in Versions \cup {0} /\ opens \in Nat
  /\ opener \in [Openers -> [phase : {"idle", "register", "claim", "newer", "schema", "migrate", "backfill",
                                      "applied", "apply", "open", "refused", "foreign", "disowned", "incomplete"},
                             adopts : BOOLEAN, mine : 0 .. opens, newer : BOOLEAN, todo : SUBSET Versions,
                             raced : BOOLEAN]]

(* Whoever created or adopted the database, and whoever is killed half     *)
(* way, no process turns away from the user's own one: it is never taken   *)
(* for a foreign one (openDatabase), never lacks what its build needs      *)
(* after the migrations, and is refused for a newer build's objects only   *)
(* by a process that this build overtook between two reads.                *)
OpensOwn ==
  \A p \in Openers :
    /\ opener[p].phase \notin {"disowned", "incomplete"}
    /\ At(p, "refused") => opener[p].raced

(* What is recorded as applied is there in full, and a migration that      *)
(* changes rows changed them once, over branches, builds and kills         *)
(* (runner.ts: "a data step that must not run twice").                     *)
RecordedRanOnce ==
  \A v \in recorded : has[v] = "whole" /\ (v \in DataSteps => ran[v] = 1)
=============================================================================
