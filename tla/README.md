# dev-guardian: a verification project

TLA+ models of dev-guardian, an MCP server (with a command line and agent hooks)
that runs security scanners over a project and keeps their results in one SQLite
file, checked with TLC and, where it says so, proved with TLAPS. Paths below are
relative to the repository; `src/` in them is `mcp/src/` unless it is written out.

1. [The system](#1-the-system)
2. [Modules](#2-modules)
3. [Runs](#3-runs)
4. [Proofs](#4-proofs)
5. [Where code and documentation disagree](#5-where-code-and-documentation-disagree)
6. [Not modelled](#6-not-modelled)

## 1. The system

Each editor session starts its own server process (`server.ts`) over stdio. All
servers of a project open the same database, `.guardian/guardian.db`; on a network
drive or from containers they may be on different hosts. Nothing coordinates the
servers but the rows they write: SQLite serialises statements and transactions, and
everything between two of them can be interleaved with another process or lost in a
crash. Inside a server one event loop runs tool calls concurrently, switching only at
an `await`.

### Components

Where a component is modelled the module is named; the rest is in section 6.

| Component | State | Operations | Talks to | What makes it correct |
| --- | --- | --- | --- | --- |
| Scan limiter, `runners/concurrencyLimiter.ts` (**ScanLimiter**) | a counter and a queue of waiters, per process | acquire, release (hands over), leave on cancel | every scan call of the process; `AbortSignal` callbacks | never over the cap; no slot lost; first come, first served |
| Scan pipeline, `tools/scanToolFactory.ts` (**ScanLifecycle**) | the call in memory: signal, outcome, findings | cache check, insert, wait for a slot, run, record, finalize | limiter, runners, scan and findings rows | a completed scan is whole; a call ends; only whole scans are served again |
| Scan rows, `storage/scansRepo.ts`, `findingsRepo.ts` (**ScanLifecycle**) | the `scans` and `findings` tables | insert, finalize, chunked insert, cache lookup | all servers | a finished scan stays as it is |
| Start-up and reaper, `server.ts`, `maintenance.ts` (**ScanLifecycle**) | process id; the running rows it listed | reap, connect, shut down | rows of other processes | live scans are spared; dead ones are not left running |
| LLM-scan plans, `llmscan/service.ts`, `storage/llmScanRepo.ts`, `llmscan/sampling.ts` (**LlmScan**, **LlmPromise**, **LlmPlans**) | plan and task rows: status, lease token, expiry, attempts; verdicts | start, lease next, submit, settle, give back, abandon | hosts and their subagents, retention, findings, open set | each task closed once, by its holder; nothing lost or added late; limits kept; the plan ends |
| Retention, `storage/maintenance.ts` (**Retention**) | lists of prunable scans, a protected set read once | list, re-check and delete by batches on timer ticks | open set, baselines, all servers | nothing a report still reads is deleted |
| Open set, `history/openSet.ts`, `runCompare.ts`, `runNames.ts` (**Bookkeeping**, **ChainIndex**, **CarryForward**, **Retention**) | none: computed from history | which findings are open, from which scans | scans, findings, suppressions, verdicts | a finding is closed only by a scan that measured it |
| Scan clock, `storage/scanClock.ts` (**ScanClock**) | the last stamp of the process | stamp a new scan | scan rows | the later scan sorts later; never far in the future |
| Child processes, `runners/childProcess.ts`, `processRunner.ts` (**ProcessRun**, **ProcessPromise**) | one child, its timers, what has settled | spawn, time out, cancel, kill, abandon | operating system, `AbortSignal` | settles once, with its first cause; nothing of the group is left |
| Scanner passes, `runners/scannerPasses.ts` (**ScannerPasses**) | the passes of one scan, their slots, what each gathered | wait for earlier passes, take a slot, run, hand the slot over, merge | process runner | a pass that writes the tree does not run beside those that read it; the result does not depend on who finished first |
| Progress, `progress/progressEmitter.ts` (**ProgressTokens**) | last value of each recent token, heartbeats | emit, heartbeat, dispose | MCP client | the values of a token only grow |
| Configuration baselines, `configdrift/refresh.ts`, `manifest.ts`, `tools/initProject.ts` (**ConfigRefresh**) | files of the project, `.new` deliveries, the manifest | create, update in place, deliver beside, adopt | the user, other plugin versions | no edit is overwritten; a refresh settles |
| Fix pull requests, `tools/createFixPr.ts`, `fixpr/` (**FixPr**) | a private worktree, a branch | create, apply, verify, commit, push, open, remove | git, origin, `gh` | one pull request per group; no commit lost; no branch left behind |
| Auditor of MCP tools, `tools/auditMcpTools.ts`, `mcpaudit/pins.ts` (**ToolPins**) | pinned definitions | compare, report, store | the audited server, other audits | a definition never changes without a report |
| Database, `storage/db.ts`, `dbRegistry.ts`, `migrations/` (**Opening**) | the file's id, the registry of the user's ids, the set of migrations applied | judge, claim, adopt, check the schema, backfill, migrate | file system, servers of other builds | the user's own database is never taken for a foreign one; what is recorded ran once, in full |
| Other repositories, `storage/*Repo.ts` | suppressions, baselines, validations, surfaces | single statements | tools | - |
| CI gate, `ci/` | none: one process | scan, compare, exit code | pipeline, baselines | a gap is not a pass |
| Agent hooks, `hooks/`, `hooks/guardian-hook.mjs` | none: one process per event | allow, warn, deny | agents | - |
| Runners and parsers, tools, surface, validate, deps, pkgvet, intel, other auditors, dast, secrets, report, sarif, vex, frameworks, dashboard, resources, platform, hostsetup | none of their own, or cached answers | conversions, queries, single requests | everything above | values, not behaviours |

### What is hard

* **Several servers, one file, no coordination.** A reaper recognises a dead owner
  only by host name, pid and age; pids are reused.
* **Check, then act.** Rows are read, decided about and then updated by another
  statement: the reaper, `leaseNext`, `submitAnswer`, `settlePlan`, retention, the
  limit of open plans, the manifest of a refresh, the pins of an audit.
* **Partial work.** Findings are stored chunk by chunk; scanners, parsers, writes
  and even the finalize of an error path throw; processes die anywhere; `git` and `gh`
  do their work and lose the answer.
* **Cancels and hand-overs** that race in the same tick.
* **Late answers** under leases that expired, were given back or were taken over.
* **What a gap means.** A scanner that did not run, ran on some files or without some
  rules says nothing about what it did not look at; a whole history of such scans
  decides what is open.
* **The operating system.** Children fork, ignore signals, leave their group and keep
  pipes open; wall clocks step back.

`PROJECT.json` lists these as hazards, each at its line, with the properties that
would catch it.

## 2. Modules

One action is one stretch of code nothing can interleave with: a statement, a
transaction, or a synchronous block of one event loop. Each property that is checked
has a *mutant*: an operator next to the definition it distorts, marked `MUTANT of`,
which a plausible bug would turn the definition into and under which TLC finds the
property violated. Mutants are part of no specification.

### ScanLimiter

The class `Semaphore`. `active` and `waiting` are its fields; `call` says where each
caller is. The point of the model is the gap between `release()`, which resolves the
first waiter's promise, and that waiter's continuation: the state `granted`.
`Acquire`, `Abort` (the listener `leave`) and `Release` are the three operations,
`Resume` is the continuation. The code accepts a fractional cap from the environment;
it acts like the next integer, so `Limit` is a positive natural number.

### ScanLifecycle

The pipeline of one scan call across processes, with the limiter of each server in
place (its gap is left out: `ScanLimiter` shows that the hand-over cannot be told from
a direct one).

| Code | Model |
| --- | --- |
| row of `scans`: `status`, `owner_host`/`owner_pid`, `started_at`, `cache_key`, number of stored chunks of findings, coverage of `tools_run` | `row[s]`: `status`, `owner`, `age`, `key`, `stored`, `full` |
| a tool call in memory | `call[s]` |
| `Semaphore.waiting`; the holders | `queue[p]`; `Holding(p)` |
| a process, its pid, the rows its reaper listed | `server`, `pid`, `listed` |
| other programs' pids; the working tree | `foreign`, `tree` |
| `findCacheHit` + coverage check | `CacheHits`, `Servable`, `ServeFromCache` |
| insert, attach, first line of `acquire` | `StartScan` (a throw in between leaves the row behind) |
| `AbortError` path, `invoke` throwing, `finally { release }` | `Leave`, `InvokeThrows`, `ReleaseSlot` |
| `bulkInsert` by chunks, `finalize` by id | `RecordChunk`, `Finalize`, `SetStatus` |
| `listRunning`, then `reapOne ... AND status = 'running'` per row | `Boot`, `JudgeRow`, `ReapReason` |
| `reapOrphanedScans` catching | `ReaperThrows` (`unreaped`) |
| crash, signal, `storage.close()` under running calls | `Exit` |

The tree of a row's key is the tree when it is inserted; the code takes the hash a
little earlier, which only widens the gap the run `scan_stale` is about. A server's
writes in one synchronous block are not interleaved with its own other calls (`Free`),
but they are with other servers, and a crash can fall between any two. The `await`
between the stored findings and `finalize` is in the model: once all chunks are
stored the server is `Free`. Ages count ticks and saturate just past the largest
threshold that still matters to a row.

### LlmScan and LlmPromise

`LlmScan` is one plan: its row, its task rows, and what each server is in the middle
of (`op`). A lease call reads plan and tasks (`LeaseNext`), then works through the
candidates of that *snapshot* in order - `SkipStale`, `ReachLimit`, `Claim`,
`ClaimFails`, and `NothingToLease` at the end; a submission reads the task and checks
the token (`Submit`), then makes one guarded write: `Refuse` (and `CloseInvalid`, a
second statement), `AcceptVerdict`, `AcceptHunt`, or `LostRace` if the guard fails.
`settlePlan` is two steps, `SettleRead` and `Complete`. `GiveBack` is what sampling
does with a task it cannot finish; `LeaseExpires`, `PlanIdles` are the clock;
`Start` and `Abandon` run `abandonStalePlans`, as retention does when a server starts.

Briefs and the validators are data: an answer is valid, invalid, or stale when it is
recorded. Briefs have one size, so that the token limit is a number of briefs
(`MaxBriefs`). `recordBriefChars`, the statement after a claim, is abstracted with
them. `attempts` saturates where it stops making a difference. The tokens are a
supply out of which a claim takes one nobody uses, as `randomUUID` does.

`LlmPromise` is what all this promises: a task is closed once, with one outcome; new
tasks come only with a valid answer, and only to an open plan; a plan is completed
only with nothing left to do, and an abandoned or complete plan stays so.
`LlmScan` implements it under the refinement mapping of `Promise` (property
`KeepsPromise`, checked by TLC and proved in `LlmScanProofs`).

### LlmPlans

The plans of one project side by side: `startPlan` reads the number of open plans
(`CheckLimit`) and inserts after two awaits (`Store`, or `Refuse` in between); hunts
find (`Hunt`), verify tasks are answered (`Answer`), plans complete, go idle, are
resumed and abandoned. `verdict` is `finding_validations`, one row per fingerprint,
which keeps the last answer. `OpenSet` is the slot `llm_scan` of the open set, with
`LeavesOpen` of `Bookkeeping` over the bookkeeping `startPlan` writes.

### Bookkeeping, ChainIndex and CarryForward

The open set has no state: it is a computation over the history of scans. It is in
three layers.

`Bookkeeping` is what one newer scan says of a finding of an older one
(`LeavesOpen`), from its `tools_run` and `missing_tools`: passes that ran ok, failed
or were skipped, passes with a target of their own, files parsed in part, rules that
did not load, and the plugin's own pack. It has no variables; the tables of
`runNames.ts` are its constants.

`ChainIndex` is the class of that name: a fold over newer scans (`Push`) into one
scope per key and class of holder, with the cap `MAX_ADMIT_PAIRS` past which a meet is
given up for something wider. `IndexExact` compares it with asking each scan.

`CarryForward` is the walk of one slot: the source's own findings, then scan after
scan what all newer ones left open (`ReadSource`, `Examine`), and the early stop
(`StillCarry`). Its reference is the definition a reader of the documentation would
write: a finding is open while no newer scan closed it (`HeldOpen`).

### Retention

The rows of one project as a sequence that only grows, with `deleted` beside it;
baselines and suppressions that come and go; and what the retention of each server has
read. `List` and `Protect` are the two reads of its first tick (`Prunable`,
`OpenSetSources`), `DeleteBatch` one transaction, which applies the rule again to the
batch (`Eligible`). The open set is read in one step, as the union over slots of what
`CarryForward` computes, by its definition (`Holders`) and not by its walk.

Left out: script-era rows, stray worktree rescans, SARIF slots, audit sub-scans, hunts
and open LLM plans (other protections of the same kind). The orchestrated run's own
row counts only as usable or not; its findings are its children's.

### ScanClock

`scanStartedAt` over a wall clock that is set to anything: `Stamp` holds a clock that
is slightly behind at the last stamp, and trusts one that is far behind
(`corrections`). One process; the order among processes is that of the wall clock.

### ScannerPasses

`runScannerPasses`: each pass waits for the passes in its `after`, takes a slot or
queues, gathers into its own part, ends or fails, and hands its slot over; at the end
the parts are merged in the order of the passes. `granted` is the gap between the
hand-over and the continuation, as in `ScanLimiter`.

### ProcessRun and ProcessPromise

`ProcessRun` is one call of `runProcess` on POSIX: the tree of the child (`Leader`, the
`Members` of its group, `Outsiders` that left it, `Deaf` ones that ignore SIGTERM), who
holds its pipes, and the code: `Start`, `Settle` (the `close` event), `Ask` (timeout,
cancel or output cap, the first of which counts), and `stopOnce` step by step:
SIGTERM, the grace period, SIGKILL to the group, and giving up the pipes. The server
may exit first (`ServerExits`, the exit hook).

`ProcessPromise` is what its caller relies on: one result, that names the first reason
or the child's own exit; once there is a reason, a result comes.
`ProcessRun!KeepsPromise` is the refinement, its liveness included.

### ProgressTokens

`sendMonotonic` and the emitters around it: several emitters of one token with steps,
totals and heartbeats, and a memory of `MAX_TRACKED_TOKENS` tokens that forgets the one
that sent longest ago. A value that is not larger is nudged by a thousandth. The
assumption about the environment is `SendsInTime`: a token in use sends again (its
heartbeat comes every ten seconds) before as many others did as are remembered.

### ConfigRefresh

`init_project`: plan an action per file (`Action`), carry it out one by one
(`Install`, `Adopt`, `Deliver`), write the manifest once at the end (`Finish`) from the
copy read at the start. Beside it the user writes, deletes and disposes of deliveries;
manifest entries are lost in merges; writes fail; runs crash; another process runs
another plugin version. A file is what its canonical hash tells apart. The code hashes
a file and then writes it; here both are one step.

### FixPr

`create_fix_pr` with `apply=true`, for one group of findings and so one branch name:
runs in several clones and processes, from `createWorktree` to `deleteLocalBranch`.
Git, origin and `gh` are modelled by what the code relies on: `worktree add -b` fails
on a branch that exists, origin takes what fast-forwards, `branch -D` refuses a branch
that is checked out, `gh pr create` may succeed and lose its answer. The user may clean
up a clone where no run is active, and merge or close the pull request, though not in
the seconds between a run's check and its push (named in `ClosePr`).

### ToolPins

`audit_mcp_tools`: an audit lists what the server serves, in full or cut short, reads
the pins and compares (`Compare`), and stores at its end (`Store`), with tombstones for
what is gone. `raced` marks an audit during which another one stored.

### Opening

Processes of builds of different age open one project's database. `Open` is the verdict
(new, registered here, foreign); `Register` and `Claim` are the two halves of `claimDbId`,
before the schema check for a new database and after the migrations for an adopted one.
The schema check reads twice (`ReadNewer`, `ReadSchema`); `ReadMark`, `Backfill`,
`ReadApplied` and `Migrate` are the reads before the write lock and the transactions
under it. A process may leave after each. Initially there is no database, or one from
before ids, with any of the probed migrations missing or in part. The index repair of
`recreateMissingIndexes` has no state of its own here: a migration stands for its tables,
columns and indexes together.

A build that checks the schema while a newer one migrates may refuse the database for
that session (it then uses the per-user fallback): the two reads are not one
transaction. `OpensOwn` says that this overlap is the only way to be turned away.

### MC modules

`MCScanLifecycle`, `MCLlmScan`, `MCLlmPlans`, `MCCarryForward`, `MCConfigRefresh` and
`MCFixPr` give a module its values. `MCScanRows`, `MCServer` and `MCProject` extend
components that share no state and check them in one run: `part` is chosen at the start
and says which one runs, and the others keep their initial state. Their properties are
the components' own definitions, the ones the theorems state; for this the variables,
actions and specifications of the components that run side by side have names of their
own (`ClockSpec`, `passVars`, `PlansNext`). They prove nothing about
interaction, and are not meant to: where components do interact (the limiter and the
pipeline, the open set and retention, bookkeeping and LLM plans) one module has both.

## 3. Runs

| Run | Question | Bounds, and why they do | Properties |
| --- | --- | --- | --- |
| `scan_rows` | What can be relied on after crashes? | 2 servers on a host, 2 pids so that one is free to be reused, 2 scans, 1 slot, 1 chunk so that a row can be partly stored | `CompletedIsWhole`, `OwnRowsAreOwn`, `CacheServesWhole`, `FinishedStays` |
| | Does retention spare what counts? | 1 server's cleaner; 4 scans of one kind and orchestrated runs, 2 at a time so that an older one finishes late; two scanners of which one or both fail; 1 baseline or suppressed finding; `Keep` 1 | `NothingLost`, `NewestKept`, `BaselinedRunStays` |
| `scan_hosts` | Are another host's live scans spared? | 2 hosts, 1 pid: both servers always have the same number; 2 trees; no chunks of findings | `ReaperSparesTheLiving` |
| `scan_live` | Does every call end, queued ones too, and every row stop running? | 2 calls, 1 slot; 2 pids, one of which a foreign program may take for good | `CallEnds`, `OrphanIsReaped` |
| `scan_stale` | Is a cached result what a fresh run would give? (violated, section 5) | 2 trees, so that a tree can be left and restored | `CachedReadTheTree` |
| `llm_races` | Does the lease protocol keep its promise? | 2 servers; a hunt that may add a task, and a verify task; 2 invalid answers; one lease that expires or is given back; one of the two deliverable under `max_tasks` | `KeepsPromise`, `CompleteIsDone`, `FindingsAreChecked`, `AnswersAreOfTheHolder` |
| `llm_live` | Does every plan end, within its limits? | 1 server; 3 tasks, one of each kind, 2 deliverable, 1 added by the hunt, 4 briefs; a lease that expires; crashes | `PlanEnds`, `DeliveredWithinMax`, `CrosscutKeepsItsSlot` |
| `llm_max_tasks` | Is `max_tasks` kept by two servers? (violated, section 5) | 2 servers, 2 hunts, `max_tasks` 1 | `DeliveredWithinMax` |
| `plans_verify_only` | Does a plan that does not hunt close a hunt's finding? (violated, section 5) | 2 plans, 1 finding | `VerifyPlanClosesNothing` |
| `server_parts` | Does the semaphore keep count? | 4 calls, 2 slots: two holders and two waiters, so that a cancel can hit the head or the tail while a hand-over is pending | `WithinLimit`, `NoIdleSlot`, `QueueExact`, `NoOvertaking` |
| | Do scans sort as they started? | 7 clock values, a hold of 2 and a skew of 3: steps back below, at and above both; 4 stamps | `SortsAsStarted`, `WithinHold` |
| | Do passes respect one another, and all end? | 5 passes on 2 slots; one waits for the first, one for the first and the third | `AfterRespected`, `PassesMerge` |
| | Does a process run end once, with nothing left behind? | a leader, a member that obeys and one that is deaf, a deaf daemon outside the group | `CompletedIsWhole`, `GroupGone`, `KeepsPromise` |
| | Do a token's values grow? | 4 emitters, two of which share a token; 2 tokens remembered of 3; 3 notifications of each | `Increases` |
| | How far is the limit of open plans exceeded? | 2 starts at once, a limit of 1, 3 plans, one that goes idle | `OvershootBounded` |
| | One pull request, and no commit lost? | 3 runs, at once or one after another, in 2 clones; one kill; two deeds of the users | `OnePullRequest`, `OnlyCopyKept` |
| `project_parts` | Does the carry-forward compute what is open? | histories of 3 scans out of 12 kinds of bookkeeping of static analysis and 11 of containers (full, failed, skipped, missing, partial in files, rules and pack, image targets, a pass the table does not know); the index alone over every chain of 3; at most 2 pairs in a meet, so that it is given up | `IndexAlone`, `CarriesTheOpen`, `StopLosesNothing` |
| | Is an edit ever overwritten out of the blue; does a refresh settle? | 2 processes, 1 file, 2 releases and an install that lacks the file; 3 runs, 2 deeds of the user or crashes | `EditsMeetADelivery`, `RefreshSettles` |
| | Is every change of a definition reported? | 2 auditors, a tool and a resource, 2 definitions, 3 changes, 3 audits | `ChangeIsReported` |
| | Does every build open the user's own database, and migrate it once? | 3 processes, one of an older build; 4 migrations: one in order, two probed, one that the older build lacks; 3 openings or adoptions, left at any point; a new project, or any database of parallel branches | `OpensOwn`, `RecordedRanOnce` |
| `refresh_overwrites` | Does an edited file stay? (violated, section 5) | 1 process, 3 releases | `EditedStays` |
| `fix_branch_left` | Is a branch that collides one that a run kept? (violated, section 5) | 2 runs, one after the other | `CollisionMeansKept` |

Thresholds of age keep their order (5 minutes < 6 hours < 24 hours as 0 < 1 < 2
ticks); only the order matters. Scans, pids and trees, and the servers of `llm_races`
and `llm_max_tasks`, are symmetric; runs with liveness use no symmetry. Deadlock is
checked where time always passes (`scan_hosts`, `scan_live`, `scan_stale`); a
semaphore, a plan, a process, a history or a repository does come to rest, so the other
configurations turn it off.

### Fairness

* `CallFairness` (`scan_live`): a scan call whose next step can be taken takes it:
  promises settle, and every scanner is capped by a timeout
  (`GUARDIAN_SCAN_TIMEOUT_MS`, 10 minutes by default), which `ProcessRun` shows to end
  it. Servers need not exit, so `CallEnds` is not bought with their deaths; it covers
  calls that wait for a slot.
* `ServerFairness`, the hypothesis of `OrphanIsReaped` alone: editor sessions end and
  start again, the clock goes on, and a start-up judges each row it lists (strongly
  fair: one crash or one busy database may stop a reaper, not every one of them).
  Without it an orphan's row does stay `running`, since nothing but a start-up looks at
  it.
* `LlmScan`: a server's call, once begun, is a synchronous block and goes on; a server
  that crashed starts again, and does not crash for ever; hosts keep asking for the
  next task and keep answering, as the recipe handed to them says ("Until step task
  answers { done: true, report }"). The answers may all be invalid. Nothing forces a
  plan to be abandoned, so `PlanEnds` is not bought with that either.
* `ScannerPasses`: the continuation of a settled promise runs, and a scanner ends.
* `ProcessRun`: Node delivers events and fires timers while the server is up. Nothing
  is assumed of the child: it may run, ignore signals and hold its pipes for ever, and
  nobody has to stop it; so `ProcessPromise` promises a result only once there is a
  reason to stop.

## 4. Proofs

TLC shows these properties on a handful of scans and servers; the theorems hold for
every value of the constants under the assumptions their modules name: a positive
cap, finitely many calls, ages in order, a value `None` that is nothing else, natural
numbers for the limits of a plan; and, in the theorems themselves:

| Assumption | What it says |
| --- | --- |
| `ClockAssumption` | a hold no longer than the skew |
| `ProcsAssumption` | the leader is not one of the others |
| `PassesAssumption` | a pass waits for earlier passes only, as those of each scan tool do |
| `ProgressAssumption` | steps of at least one; at least one token is remembered |
| `HuntAssumption` | finitely many callers, a limit of at least one plan |
| `BranchAssumption` | there is a clone, and no branch is not a commit |
| `KeepAssumption` | at least one scan is kept |
| `ShipsAssumption` | a build ships finitely many migrations; what it lacks of another's is newer than all it has; all builds have the probed ones and those before them, and no probed one changes rows |
| `TableAssumption` | listed and unlisted pass names differ; a pass that did not run ok speaks for no less than one that did |
| `BooksAssumption` | a scan records passes that are listed or not, and leaves out files and rules there are; the widest holder's target is one no scan recorded, and is a target; each key is one of the table or the unknown one |
| `OwnFindings`, `FilesOnly` | (`NothingOpenIsLost` only) no two slots report the same finding; their passes have no target of their own and are not run on request |
| `ShippedAssumption` | a profile names a target once; the marks for missing things are no content of a file |

TLC evaluates each of them on the values of the runs, and bounds on histories
(`MaxScans`, `MaxRuns`, `MaxSent` ...) are arbitrary in the theorems.

**QueueLemmas.** What removing an element of a queue, or taking its head, leaves.

**ScanLimiterProofs.** `IInv` adds to the types that the counter is the number of
holders and at most the cap, that the queue holds exactly the queued calls, once each,
and that it is empty while a slot is free. `NoIdleSlot` alone is not inductive: a
cancel that left a stale entry in the queue would break it a few steps later, which
`QueueExact` excludes. Proved: `LimitHolds`, `NoSlotIsLost`, `QueueIsExact`,
`FirstComeFirstServed`.

**ScanLifecycleProofs.** `IInv` is the conjunction of parts, each about one thing:

* `ScanOK`: how the phase of a call, the server it names, and its row agree - a live
  or a thrown call has a server that is up and whose host and pid are the row's owner;
  a row is `completed` or `cancelled` only if its call is over;
* `ServedOK`: a served call was served by a whole scan, and it is whole still;
* `QueueOK`: a queue has the calls that wait there, once each;
* `PidsDistinct`: no two servers of a host have one pid;
* `ListedOK`: a row on a reaper's list existed when listed, and is no younger now;
* `OwnOK`: while a start-up reaps, a running row under its own pid that is not its own
  call's is still on its list.

`CompletedIsWhole` needs `ScanOK` (only a recording call finalizes as completed);
`OwnRowsAreOwn` needs `OwnOK` and `PidsDistinct`; `ReaperSparesTheLiving` needs
`ScanOK`, `PidsDistinct` and `ListedOK`, since the age a reaper judges by is older
news than the row. `NextIInv` has one lemma per action; most go through
`CallStepIInv`, the frame of a step of one call. Theorems: `Invariance`,
`TypeCorrect`, `CompletedWhole`, `CachedIsWhole`, `OwnRows`, `FinishedIsFinal`,
`LivingAreSpared`, `SlotsHold`; the last adds `SlotsOK`, the count of each server's
holders.

**LlmScanProofs.** For any number of servers, tasks and tokens, and any limits. The
argument is that a step's *effect* on the tasks is one of three (`Effect`): it keeps
outcomes as they are (`KeepsTasks`), closes one task that was not closed and perhaps
adds others (`ClosesTask`), or ends the plan (`EndsPlan`); and that a server sets out to
complete the plan only in a step in which every task is closed (`SetsOut`). There is
one lemma per action or group of actions; invariant and refinement need only the
effect. `IInv` adds to the checked invariants

* `Numbered`: tasks are numbered without a gap, so that a hunt's new task never takes
  the row of another;
* `CompletingIsDone`: between `settlePlan`'s read and its write every task stays
  closed. `CompleteIsDone` is not inductive without it; it holds because only an answer
  under a lease adds tasks, and a closed task has none;
* `OutcomeOnClose`: an outcome is on a closed task only.

Theorems: `Invariance`, `TypeCorrect`, `CompletePlansAreDone`, `FindingsStayChecked`,
`OnlyHoldersAnswer`, and `ImplementsPromise`: `LlmScan` implements `LlmPromise`.

Its second part is about delivery. `DeliveredWithinMax` does not hold for every number
of servers (section 5), and its general form says by how much it fails: `DeliveryOvershoot`,
at most `MaxTasks + |Servers| - 1` delivered tasks that count. The invariant is a
count of those who may still overshoot: `Able` are the servers in the middle of a lease
whose snapshot shows room, a snapshot only ever lags behind (`seen \subseteq Delivered`),
and delivered tasks and `Able` servers together stay within the bound. A claim moves one
from the second to the first; a new lease makes a server `Able` only when there is room
now. One server is then within `MaxTasks` itself (`DeliveryStopsAtMax`).
`CrosscutIsDelivered` is for one server and one cross-cutting task, which is what
`llmscan/plan.ts:174` adds at most: while that task waits (`Waiting`) a slot is free,
the server's snapshot is what is delivered, and what it takes for a waiting
cross-cutting task is one. Both hypotheses are needed: a second server can take the slot
behind a snapshot, just as in `llm_max_tasks`.

**ServerProofs.** The mechanisms inside one server, one after another.

*Clock.* `SortsAsStarted` is inductive once stamps are numbers: a new stamp is at or
after the last (`StampAfterLast`), which is at or after every one since the last
correction. `StampsWithinHold` bounds each new stamp by the clock and the hold.

*Process.* `ProcessIInv` says that nothing exists or is signalled before the child is
started (`NothingYet`), that the leader lives once (`LeaderOnce`), that a child which
nobody asked to stop is left alone (`LeftAlone`), that a settled child has ended and let
go of its pipes (`SettledIsOver`), and what a result comes of (`ResultIsOf`). Proved:
`CompletedWhole`, `StoppedGroupIsGone` (a group that is dead stays dead, since only its
living members fork into it), and `StepsKeepPromise`: every step is one of
`ProcessPromise` or a stutter.

*Passes.* `AfterRespected` only speaks of passes that run. `PassesIInv` says why: a pass
that got past its wait has all it waited for done, and `done` is for good, because the
queue holds only passes that are `queued`, each once, so that a hand-over cannot wake one
that has ended. Proved: `WritersGoFirst`.

*Plans.* `OvershootBounded` counts active plans, and a plan that went idle and is resumed
is counted by none of its steps. `PlansIInv` counts *open* plans instead, which resuming
leaves alone, with the starts past the check, and bounds the idle ones by how often plans
went idle. A start passes the check while fewer than `MaxOpenPlans` are active, with at
most all the other callers past it. Proved: `LimitIsNearlyKept`.

*Progress.* `Increases` depends on the memory: a value is nudged only past one that is
remembered. `ProgressIInv` says that every token in use that has sent is remembered, with
the value it sent last, that none is twice in the memory, and that it is in the order of
sending: whatever stands behind a token has sent since (`others`). The oldest one is
dropped only when all the others stand behind it, which `SendsInTime` rules out for a
token in use. Proved: `ProgressOnlyIncreases`.

**FixPrProofs.** `OwnBranch` says that one run at a time owns the branch of a clone,
and what is on it in each phase: nothing, its own commit, or one that is on origin by
the time the branch may be deleted; this is what `OnlyCopyKept` needs. `OnePushed` says
that whoever may still create a pull request found none and pushed the branch the next
one would have to push, so that there is at most one of them; `OnePullRequest` is not
inductive without it. Proved: `OnlyOnePullRequest`, `CommitsAreKept`.

**RetentionProofs.** `NewestStay`: the argument is `KeepsK`. If every scan a batch
deletes has more than `Keep` kept ones of its kind from itself on, then above the
*newest* deleted one there are `Keep`, and they stay; so whatever had `Keep` above it
still has. The invariant adds that deleted scans are finished: a late finish only adds
to a usable kind. `BaselinesStay` is the rule re-evaluated under the lock.

`NothingOpenIsLost` compares the open set of the whole history with that of what is
left, while scans finish late on either side of the ones a cleaner has listed. What it
rests on is the *latest report* of a finding (`IsLatest`): a scan that reports it, which
no newer one closed and which no newer one reports. That speaks of newer scans only, so a
late finish can end it but never start it for a scan that was over already. Hence a scan
that is the latest report when its batch comes was so when the cleaner read the open set,
was the scan that the finding is shown by (`LatestIsShown`), and is protected:
`LatestStay` is inductive where `NothingLost` is not. An open finding has a latest report
if what leaves it open does so whichever scan reports it (`LeavesOpenOfAny`), which is
what `FilesOnly` is for. The two hypotheses are needed: a finding that two slots report is
protected in one of them (`OwnFindings`), and one that an image and the project's files
both have is protected as the newer report; a clean scan of the files then closes that
one, and the older, of the image, is gone. TLC finds both within four scans.

**ProjectProofs.** What is kept of a project between runs.

*Opening.* `OpeningIInv` has one part for each question a process asks: whose the database
is (`IdsAreOwn`: an id is registered before it is written into a file, so that the file's
is a registered one), what the objects found mean while no set of migrations is recorded
(`AsFound`, `ObjectsAreTold`), what the backfill of that set has left open
(`BackfillIsDone`), what a process has still to run (`RestIsRecorded`) and that a
migration which changes rows and is not recorded has not run (`NotYetRun`).
`RecordedRanOnce` is not inductive without the last two: a process acts on what it read
before it had the write lock. `UnexpectedRaced` is the pair of reads of the schema check.
Proved: `OpensItsOwn`, `MigrationsRunOnce`, over `GreatestOfFinite` and `LeastOfFinite`,
that finite sets of numbers have a greatest and a least element.

*Pins.* `PinsIInv`: what was last stored for a tool is what is pinned for it, tombstones
included, so that an item that left and came back is compared; and an audit that no other
overtook holds the comparison with the pins that are there now, not those it read.
Proved: `ChangesAreReported`.

*Configs.* `EditsMeetADelivery` depends on what the manifest claims: an entry that takes
the user's content for ours met a delivery (`EntriesMeetADelivery`), in the manifest and in
the copy that each process read and will write back, which may be stale. `RefreshSettles`
needs `SettledUpTo`: an undisturbed refresh leaves, at every item it has passed, an action
that writes nothing. Proved: `ReplacedMetADelivery`, `UndisturbedRefreshSettles`.

*Open set.* `ChainIndex` folds scan by scan and `CarryForward` walks, so that what they
compute over a history of any length is state, and an invariant of it needs no induction
over data. `IndexIInv` says what the fold of a class means (`FoldsTheKept`): it admits
the findings that every scan of the chain it looked at left out (`Kept`), and more only
once a meet was given up (`wide`). `NarrowStep` is one more scan, over
`ExactMeetAdmits`: what the meet built of files, rules and pairs admits is what both
sides admit. `OpenByClass` says the same of asking pair by pair, where a class is looked
at through one of its targets. Proved: `IndexSaysWhatEachSays`, for every chain, also
while a history is walked.

For the walk, `Walked` says that the chain is what was read of the history. Then what is
held and what is carried follow from the index at each scan (`ExamineOpen`,
`OpenIsCarried`). Stopping early rests on `HeldOpenCarries`: the widest holder has every
pass the history names, ok, over a target that no scan recorded, so a scan that looks
again at all it looked at looks again at all that any holder did
(`WidestLooksFurther`); while an older scan still holds a finding open, the widest one's
class is not closed, its key is one it can have (`ProducedKeys`), and the walk goes on.
Proved: `StopsLosingNothing`.

**Only model-checked.**

* Liveness, `CallEnds`, `OrphanIsReaped`, `PlanEnds`, `PassesMerge` and the liveness in
  `ProcessPromise` (the theorem is about the steps, the run about both): fairness and
  `ENABLED` are beyond the prover.
* Two of the theorems state less than is checked or hoped for, each because more is not
  so: `DeliveryStopsAtMax` is for one server, `NothingOpenIsLost` for slots whose passes
  look at the project's files.

## 5. Where code and documentation disagree

With a run that shows it:

* **`scan_stale`.** `treeHash/cacheKey.ts:4` says "A cached result may be served only
  when a fresh run would have produced the same thing." The tree is hashed before the
  scan waits for its slot and runs its scanners, and not again. If the tree changes in
  between, the row is stored under a tree its scanners did not read; when that tree is
  restored within the cache window, its caller gets the other tree's findings.
* **`llm_max_tasks`.** `docs/llm-scan.md:119` gives `max_tasks` as the number of
  "Tasks handed out per plan", at which "delivery stops with `limit_reached`".
  `leaseNext` counts delivered tasks in the list it read before its loop. When another
  server claims the first candidate in between, `claimTask` fails, the loop goes on to
  the next candidate with the same count, and one task too many is delivered.
* **`plans_verify_only`.** A plan without the mode hunt stores a completed `llm_scan`
  row with empty bookkeeping, which reads as having measured everything
  (`llmscan/service.ts:335`); it becomes the newest source of its slot and closes the
  confirmed findings of earlier hunts. `history/openSet.ts:54` says a finding is carried
  "only while EVERY newer scan left it open - one that measured it and did not find it
  resolved it"; a verification looks for nothing.
* **`refresh_overwrites`.** `configdrift/refresh.ts:6`: "The user owns their copy.
  Nothing here overwrites a file the user has touched, under any flag, ever."
  `deliverAlongside` (line 480) records the hash of the user's edited file as the one
  delivered to. Once the user deletes the `.new` file, the next release takes the edit
  for an untouched baseline and replaces it. What does hold is `EditsMeetADelivery`:
  no edit is replaced that was not offered a baseline beside it first.
* **`fix_branch_left`.** `tools/createFixPr.ts:672`: "a branch collision here can only
  mean a PREVIOUS run reached `openPr` and kept this exact branch". A `worktree add -b`
  that fails after it made the branch, or a `reset --hard` that fails, leaves the branch
  too, and every later run of the group collides with it.

Met while modelling, without a run of their own:

* A resolved finding may come back: retention deletes the scan that resolved it while a
  baseline, or an older scan that finished later, still holds it. `NothingLost` is the
  direction that retention promises, that nothing is taken away. Nor are scans
  protected that only a lifted suppression would show, or a second slot; hence
  `\ marked` in the property and one slot in its run.
* Two starts may both pass the limit of open plans; `OvershootBounded` is what is true.
* `ValidationsRepo.upsert` keeps the last verdict, so that an answer of the same
  context replaces an independent one, which `history/openSet.ts:170` asks for.
* A refresh by an *older* plugin version takes files that are untouched back to its own
  release. A crash before the manifest is written makes the run's own `.new` file look
  foreign to the next one (`alongside_blocked`). The drift advisory reads a link inside
  the project that a refresh refuses.
* In `createFixPr`, a throw between the push and `gh pr create` (the body's file cannot
  be written) deletes a local branch that carries a commit, unlike
  `deleteLocalBranch`'s comment says (the commit is on origin), and leaves a branch on
  origin that no answer names; and a `push_failed` that comes from `git status`, `add`
  or `commit` keeps a branch without a commit, with which later runs collide.
* Audits that overlap may forget an item, where `mcpaudit/pins.ts` says "An item that
  stops being served is not forgotten" (hence `raced`); and the cap on the findings of
  one audit may drop the one that reports a change.

## 6. Not modelled

The repository is some 140,000 lines, most of them conversions of values: parsers of
scanner output, rules over files, formatting, queries, requests to outside services.
They have no behaviour over time that a model would add to their tests. SQLite's
locking, git and the operating system are taken for what their documentation says.

Of the modelled components these operations are missing:

* pipeline: orchestrators with child scans (only as rows, in `Retention`), identity
  adoption, CVE rows, report directories;
* rows: `markCancelled` (no caller in the pipeline), `tree_cache`, history queries;
* start-up: path canonicalisation, tool registration;
* LLM plans: the confirm gate; briefs, validators and reports;
* retention: stack snapshots, stray worktree re-scans, audit sub-scans, hunts and open
  plans; more than one project, and in TLC's run more than one server's cleaner and
  more than one slot;
* open set: script-era rows, imported logs, gaps' wording, diffs; `CARRY_WALK_LIMIT`
  (5000 scans), which no bounded history reaches;
* processes: Windows (`taskkill`), git hardening, `captureOutput`;
* fix pull requests: how fixes are planned, applied and verified, the commit's scope,
  dry runs; configuration drift: the advisory, client trust, dry runs;
* database: locations that cannot be used and corrupt files, which lead to the fallback;
  re-homing rows and re-keying rule ids; a build from before the set of migrations that
  migrates the file at the same time (it would neither read nor write the set);
* auditors other than that of MCP tools.

Not modelled at all, and why:

* CI gate, agent hooks: one sequential process, whose state nobody else sees;
* scanner runners and parsers, fingerprints, severity, redaction, tree hashes, attack
  surface, validation heuristics: functions of their input;
* reports, SARIF, VEX, frameworks, dashboard, resources: formatting of stored data;
* package vetting, dependencies, threat intelligence, DAST, secret verification,
  budgets, WordPress: requests to outside services, whose cached answers are replaced whole;
* platform and host setup, the bundled command line, evaluations: files of the host,
  generated code and prose.

What a continuation would add, in this order: orchestrated runs with children in
`ScanLifecycle`; the walk of `CarryForward` inside `Retention` instead of its
definition, with two slots; the re-keying of stored rule ids, and builds from before the
set of migrations that open the file while it is migrated.
