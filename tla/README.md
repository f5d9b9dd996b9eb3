# A TLA+ model of ivygrep

ivygrep (`ig`) is a local code-search engine. For every workspace it keeps a
SQLite store of chunks, a Tantivy index, two vector stores and a Merkle
snapshot; several processes (command line, daemon, background workers) read and
write them at the same time, and any of them may be killed at any moment. This
directory models the protocols that keep those stores consistent, checks them
with TLC on small instances and proves the most important facts with TLAPS.

## The system

| Part | State it keeps | Operations | What makes it hard | Module |
| --- | --- | --- | --- | --- |
| Index publication (`indexer.rs`, `indexer/staging.rs`) | `metadata.sqlite3`, `tantivy/`, `vectors.usearch`, `workspace.json`, `index_format_version`, `index_incarnation`, `.indexing.incomplete`, `.indexing.pid`, staging and backup directories | index run (health check, reset, scan, in-place update or staged rebuild, promotion, rollback, finalisation), removal | seven artifacts that no transaction spans; kills between any two; a guard that drops after the lock is released; retries | IndexPublication |
| Merkle snapshot (`merkle.rs`) | path to stamp | full walk, targeted refresh, diff, vanished marks | files change between being listed and being read | IndexPublication |
| Workspace health (`workspace.rs`) | derived from the artifacts | `quick_index_health`, readers that clean up stale pids | it decides from existence, counts and pids, never from contents | IndexPublication |
| Vector enhancement (`indexer.rs`, `indexer/enhancement.rs`) | vector stores, pending and processing tombstone journals, generation files, model identity | hash pass, neural pass | computes for minutes without the index lock; superseded, killed, restarted | VectorEnhancement |
| Enhancement queue (`enhancement_queue.rs`, `workspace.rs`, `cli.rs`) and worker slots | waiting requests per lane, slot files, `.enhancing.pid`, `.queued_neural` | enqueue, dispatch, start a worker, run, chain | places shared by processes; pid files written after the start; requests dropped because work seems to be done | EnhancementQueue |
| Job ledger (`jobs.rs`) | `job.json` | start, heartbeat, finish, status | two runs share one record per kind | JobLedger |
| Worktree overlays (`indexer.rs`, `workspace.rs`) | `overlay.*`, `base_ref.json` | create, reconcile, update, merged search | content depends on a base that moves | WorktreeOverlay |
| Git shortcut (`indexer/git_state.rs`) | recorded checkout state | capture, verify, record | checkout moves during the scan | WorktreeOverlay |
| Daemon leases and permits (`daemon.rs`) | a mode coordinator per workspace, two semaphores | shared and exclusive leases, booking of the next mode, cancellation | condition variables, several workspaces at once, permits taken after leases | WorkspaceLeases |
| Daemon index requests (`daemon.rs`) | in-flight entry, start of the last full run | lead, follow, skip, run, publish | coalescing compares instants with scans that last | IndexRequests |
| Daemon searches (`daemon.rs`) | cancellation registry, result cache, context pools | register, cancel, look up, run, store | a cancellation may come first; the index moves under three caches | DaemonSearch |
| Watcher (`daemon.rs`) | a control per registration, queued work, recovery table | events, startup scan, updates, retries, supervision | callback, worker, supervisor and requests interleave; roots go and return | WorkspaceWatcher |
| Index garbage collection (`index_gc.rs`) | markers in index directories | pass over the registry | races with runs that start, with readers and with overlays of a base | IndexCollector |
| Search (`search*.rs`, `symbols.rs`) | one request | Boolean pool, literal, lexical, symbol, path and vector passes | bounded lists over an index that holds what must not be seen; cancellation | SearchPipeline |

Components interact through the file system (`index.lock`, `enhancement.lock`,
`job.lock` and the artifacts themselves), through the daemon's socket, and by
starting worker processes. The modules meet at their edges: what one takes apart
is one step of the next. A run publishes in one step in WorktreeOverlay and
IndexRequests because IndexPublication takes that step apart; a pass is one step
in EnhancementQueue because VectorEnhancement does; the leases are a holder in
IndexRequests, WorkspaceWatcher and DaemonSearch because WorkspaceLeases shows
that they exclude each other and that everybody gets one.

## Modules

### IndexPublication

One workspace, a main checkout outside Git. `disk` is the index directory, one
field per artifact; `pc` and `run` are the program counters and locals of the
processes in `index_workspace_with_options_and_store_replacement`; `files` is
the source tree. One action is one effect on the disk, because a process can be
killed between any two:

* `Acquire` .. `Announce`: lock, `remove_abandoned_staging`, health check, the
  destructive `rebuild_index_storage` (`Wipe` deletes one entry at a time, in
  any order, as `read_dir` does), incarnation, pid file.
* `TrustWatcher`, `ScanNoOp`, `ScanIncremental`, `ScanFresh`: the four outcomes of
  the Merkle step. `ScanIncremental` may add to the changed paths any files that are there, as
  `add_included_file_dependents` does for files that include a changed one.
* `MarkIncremental`, `PersistPath`, `CommitSqlite`, `CommitTantivy`: the update;
  `PersistPath` reads the file when it is chunked, which may be long after the
  scan.
* `MarkPromotion`, `Backup`, `Promote` and the failure paths `BackupFails`,
  `PromoteFails`, `Unpromote`, `Restore`, `RollbackFails`.
* `WriteMetadata`, `WriteFormat`, `SaveSnapshot`, `ClearMarker`, `Unlock`, then
  `DropGuard` (after the lock is free).
* `Fail`, `FailEarly`, `RetryTantivy`, `Crash`; a reader that unlinks a stale pid
  (`ReaderSeesStalePid`, `ReaderUnlinksPid`); `ig --add` (`AddReads`,
  `AddWrites`); `Upgrade`, `Edit`, `Return` for the world outside.

A file's content is a version number and one version is one chunk. Every edit
has a fresh version because the Merkle stamp hashes length, mtime and ctime;
`Return` models the exception, a file that is moved away and back. Left out: the
ignore filter, which is constant; overlays and Git; the cached statistics; a
change of checkout role.

Properties: `SettledIsSound` (a run that ends well leaves equal stores, and a
snapshot that matches the tree only where they do), `AcceptedIsSound` (whatever the next run would accept
without rebuilding has agreeing stores), `NothingLost` (a failed promotion
leaves the previous generation live or in a kept backup),
`IdentityNamesContent` (of all publications so far, which the history variable
`settled` keeps, no two have one incarnation and generation and two contents;
excepted are histories in which `ig --add` has written back metadata that had
changed meanwhile, `rewound`), `CatchesUp` (liveness). `IdentityIsName` is the same
without the exception.

### VectorEnhancement

The two vector tiers of a workspace, its tombstone journals, the workers and
the index runs that disturb them. A worker's pass is `LockWorker`, `Open`,
`ResetNeural` (five file operations, one per step), `Claim`, then
`ReadBatch`/`Embed`/`Checkpoint` rounds of which only the first and last hold
`index.lock`, then `FinishSave`, `FinishJournal`, `FinishMark`. `Superseded` is
`verify_current` failing. An index run is one or more transactions, each
journalled to the hash tier, to the neural tier and then committed, or a whole
replacement. `NeedsHash` and `NeedsNeural` are the functions that decide whether
a worker is started; they compare generations and counts. `NeedsNeural` has the
cases of the source: an active job answers that there is nothing to start
(`JobActive`; the record `job` is started by `Begin` and finished by `Cleanup`), and
in a build without the neural feature a worker refuses the neural pass, after which
only an outdated hash tier or a journal asks for work (`job.refused`, `NeuralLags`).
A replacement is one step because it happens
under `index.lock`.

A removal inside `ResetNeural` may fail, and the code drops the error and goes on to
write the new identity (`ResetIgnores`, `indexer.rs:3030`). What outlives its reset
in this way, or because the worker dies inside it, is remembered in `survived`: the
old model's `"store"`, or the `"mark"` of a store that is gone.

Properties: `StaleIsJournalled`, `HashComplete`, `NeuralComplete`, `ModelNamed`
and `EventuallyEnhanced`. `NeuralComplete`, `ModelNamed` and, for the neural tier,
`StaleIsJournalled` except what has survived; `NeuralTrusted` and `ModelsApart` are
the first two without the exception.

### WorkspaceLeases

How the requests inside the daemon share workspaces. The coordinator's fields
(`activeMode`, `activeLeases`, `nextMode`, `nextModeGeneration`,
`nextModeWaiters`, `exclusiveActive`, `exclusiveWaiters`) are those of
`WorkspaceModeCoordinatorState`, one copy per workspace; a request has a place
in the code (`pc`), its job, the leases it holds and its booking. Whatever
happens under the coordinator's mutex is one action; a condition-variable wait
splits a function in two, with the waiter `asleep` or `awake` in between.

* `Arrive`, `TryShared`, `DeclineInline`: a search first tries to take all its
  leases without waiting.
* `Plan`, `AcquireShared`, `Reserve`, `WaitShared`, `CancelShared`,
  `AcquireExclusive`, `WaitExclusive`, `CancelExclusive`: the blocking path, in
  the order of workspace ids. `Poll` is the timeout of the waits that poll their
  cancellation flag.
* `Proceed`, `Escalate`, `Reidentify`, `GiveUp`: what a request does once it has
  its leases, including starting over.
* `TakeBackground`, `TakeCpu`, `CancelCpu`, `Finish`: the permits, taken after
  the leases. `DropShared`, `DropExclusive`, `Forget`, `Release`, `Answer`: the
  way out. `Cancel` is the client's.

The daemon keeps coordinators in a map of weak references and may recreate one
nobody uses; an idle coordinator equals a new one (`WaitersCounted` shows that
nothing is left behind), so the model keeps one per workspace for ever.

Properties: `Exclusion`, `WaitersCounted`, `NoLostWakeup`, `EveryRequestEnds`.

### JobLedger

`job.json`, with one record for index runs and one for watchers, and everything
that writes it. Each operation of `jobs.rs` holds `job.lock` and is one action.
A record keeps the fields that decide what others conclude: its owner (pid and
start time), nonce, `active`, whether the heartbeat is `fresh` enough, and
whether its phase says `reconciling`.

* An index run: `Acquire`, `Wipe` (a rebuild or a removal deletes `job.json`),
  `BeginRun`, `BeatRun` (its heartbeat thread), `UnlockRun`, `JoinHeartbeat`,
  `FinishRun`, in the order of the code, where the last three come after each
  other with the lock already free. `LeaveRun` ends a run or removal that never
  started a job.
* A watcher: `Register`, `Registered`, `Publish`, `Stop`, `Stopped`, and the
  steps of `update_watcher_job` (`Read`, `ReadNonce`, `Apply`, `Check`, `Create`,
  `Mark`), which several tasks execute for the same watcher. The registering
  thread or the readiness publication is the task `publisher`; it holds
  `pending_work` or the watchers' map, so `Stop` waits for it. The other tasks
  are `Updaters`.
* `RegistrationFails` is every `finish_job` on the watcher's record without a
  nonce. `KillRun` and `KillDaemon` end processes; `Lapse` is the passing of
  the time limit.

A nonce is reused only when nobody remembers it. Left out: the enhancement
worker's record, the pid files of earlier versions, attempt, generation and
the descriptive details.

Properties: `NoPhantomRun`, `TrustedIsReconciled`, `RunningWatcherShown`,
`PhantomExpires`.

### EnhancementQueue

Who builds vectors, and when. `pending`, `started`, `dispatch` and `awake` are
the daemon's queue; `pidfile`, `queued` and `job` are the files by which
processes learn of each other; `starter` holds the calls of
`trigger_background_enhancement_command`, `worker` the worker processes, `lag`
what the vectors of each workspace lack.

A dispatch keeps the queue's mutex but looks at the file system and starts
processes meanwhile, so it is one action per request it examines, and starting a
worker is one action per file operation. `Request`, `WatchRequest` and `Command`
are the three who want vectors (a search, the watcher after an update, a command
line of its own); `Kill`, `PassFails`, `SpawnFails`, `CommandDies`,
`RootVanishes` are what goes wrong; `GuardLifts` ends the pause for battery or
heat.

Properties: `RequestKept`, `RequestServed`, `QueuedNeuralRuns`; `WithinPlaces`.

### WorktreeView and WorktreeOverlay

`WorktreeView` is the abstract specification of a search of a Git worktree: the
user writes files, runs begin and complete, and what a search shows is, path by
path, a content this path of this worktree has had since the last completed run
began to read. Another checkout is never shown.

`WorktreeOverlay` is how ivygrep does it: two index directories, the base with
its chunks and snapshot and the overlay with chunks and tombstones; two runs,
`BaseStep` over the main checkout and `TreeStep` over the worktree. A run over the
worktree reads the base's published state, the base's files, the worktree's
stamps and its contents one after the other, while both checkouts are edited,
committed (`Commit`), touched in `.git/index` (`Touch`) or moved (`MoveBase`), and
while the base is removed and built again. `Captured`, `Recorded` and the metadata
refresh of the Git shortcut are part of the runs. `View` is what a search merges:
overlay chunks over base chunks that no tombstone hides, or a refusal when the
overlay does not fit its base.

There are two moments at which no run can see a change of the main checkout, and
the history variable `slipped` says that one of them was hit: a committed file was
away only while a run walked (`Missed`, `record_indexed_git_state` compares the
stamps of indexed paths only), or the checkout was no longer the recorded one when
`refresh_clean_base_metadata` saved the snapshot again (`BaseResnap`).

`ShowsTheWorktree` is the refinement: with `tree` mapped to the worktree's texts
and `view` to `View`, every step of the overlay is a step of `WorktreeView`; once
the main checkout has slipped, nothing more is claimed of what is shown. Besides,
`CleanIsIndexed` and `SnapshotIsHonest` (the two facts the shortcuts of later runs
rest on), which hold until the main checkout slips, and `Converges`. `NeverLeaks`,
`RecordedIsIndexed` and `UnchangedIsIndexed` are the three without the exception.
`Leased` says whether searches hold the daemon's leases (a search outside the
daemon does not); the run and the theorem are about searches that do.

### IndexRequests

`Index` and `StartIndex` requests of one workspace. A request follows the entry of
`inflight_indexes` with its options or leads (`Arrival`, `Enter`), waits for the
exclusive lease, and then skips its scan if the daemon believes a later one
covered it, or scans file by file (`Walk`) while files are edited, commits,
publishes its outcome to its followers, and drops its entry. Runs of the watcher
take the same lease. Leaders are aborted, scans fail, a watcher cannot be
registered.

Properties: `AckCovers`, `SkipIsJustified`, `EveryoneAnswered`. `SkipIsJustified`
excepts a request after whose arrival a full run has started and failed; what an
earlier walk has published then lets it skip. `SkipIsCurrent` is the same without
the exception.

### DaemonSearch

A search from the registration of its id to its answer. The registry holds an
owner or a tombstone per id and drops old tombstones at its bound; the result
cache has a revision and signatures; pools keep idle search contexts within two
bounds. The index moves by runs inside the daemon (`IndexRun`, which invalidate),
by a search's own repair, and by other processes (`External`, which the daemon
sees only in the stamps). `Disconnect` and `Deadline` set the same token as
`CancelSearch`, and a cancelled search may already have its hits.

Properties: `EarlyCancelWins`, `FreshAnswers`, `CancelsReturn`; `RegistryExact`,
`IdleAccounted`.

### WorkspaceWatcher

One workspace's watcher in the daemon. The callback (`Deliver`) filters events
through the ignore rules it has and queues work. The rules are read (`Build`) before
the backend watches with them (`Enter`), or before they replace the filter of a
registration that is there (`Refresh`), and an ignore file may change in between; the worker (`WorkerStep`: park,
startup scan, claim, wait for the lease, update or full run, retry, readiness)
applies it; the supervisor (`Supervise`) registers what is enabled and missing,
with a back-off, and releases a watcher whose root has gone. Explicit requests
satisfy the startup scan or stop the watcher, and searches wait for readiness. A
backend watches the directory that was there at its registration; its queue may
overflow. `meta` is what the workspace's metadata says (enabled, indexed), by which
requests and supervisor decide. The rules hide nothing at first, or any one of the
files.

Properties: `NothingForgotten`, `ReadyIsCaughtUp`, `Settles`. They except files that
the filter hides although the rules no longer did when it was put in place
(`misled`); `NothingMissed` does not.

### IndexCollector

A pass of the collector as the daemon runs it: the registry is read, then the
bases living overlays need, then for each index the root, the marker and its
age, Git's list of worktrees, the exclusive lease, the job record, both lock
files (told apart by inode, because they are unlinked while others hold them),
the second look at the root, the release of the locks, the removal entry by entry.
It fails or dies anywhere. Runs and workers of other processes meet it only at the
lock files; requests of the daemon meet it at the lease.

Time (`Tick`) passes under runs at any stage, because the grace may be configured
as a second and a wait for a lock has no limit. Writing or removing a marker may
fail, which the code ignores.

Properties: `GraceIsWaited`, `RunsKeepTheirIndex`, `LiveOverlayKeepsBase`,
`GoneIsCollected`; `ReadersAreOut`. `GraceIsWaited` excepts a root whose marker has
outlived its return (`slipped`). `RunsKeepTheirIndex` is about runs that had their
lock when the pass looked at it: whoever is at work on an index that is taken apart
came later (`late`), and never with a lock file that the pass holds. That such late
runs exist is shown by the stronger `NoJobInBetween` and `NoRunAtWork`, which fail.

### SearchPipeline

One hybrid search. `kind` says how each file stands to the index and the request
(own, base, edited or deleted in the overlay, ignored, outside the filters, purged
with its vectors left behind); `pc` is the pass. `TopDocs` is the collector of
Tantivy documents, with its native probe, its heap and its pruning threshold, as a
fold over the posting order; `Nearest` is the approximate vector search, of which
nothing is assumed except how many keys come back; `RefillRound` and `RefillScan`
are the recovery when neighbours cannot be shown. `Cancel` sets the token at any
moment, and every pass reacts to it the way its code does.

Chunks that define a symbol have their score doubled (`Boosted`) after each index has
collected its best matches by raw score, and before both lists are merged, sorted
and cut (`MergeLexical`). With an overlay and its base the result is the top of
neither score, and `DirectExact` says what it is: of each index the best `limit`
visible matches by raw score, and of these the best `limit` by boosted score.

Properties: `OnlyVisible`, `DirectExact`, `SemanticFull`. They compare with `Visible`,
a definition from the files' standing alone.

## Runs

| Run | Question | Bounds |
| --- | --- | --- |
| publication_safety | do crashes, late guard drops and rollbacks ever leave an accepted but unsound index, or one identity for two contents? | 1 path, 2 indexers, 2 versions; 2 faults, 2 removals or an `ig --add` |
| publication_live | does the index catch up? | 2 paths, 1 indexer, 2 versions, and a fault, a removal, an upgrade or an `ig --add` |
| enhance | can workers and index runs leave a store that is taken for complete and is not, mix models, or never finish? | 2 keys, up to 2 workers, 2 models; a run with a fault, a run with a change of model, two runs, a run with two faults and a model that changes and changes back, a build without the neural feature |
| queue | are requests for vectors kept and served? | 2 workspaces, one an overlay of the other, 2 processes, 1 place; six mixes of requests, commands, updates and faults, at the limit of the queue |
| leases | are mutations alone, wakeups kept, and does every request end? | 3 requests on 1 workspace, or 2 on 2 with a restart; 2 modes, 1 permit of each kind |
| ledger | is a run reported active after its end, a watcher trusted too early, a running watcher shown again? | 2 runs, 1 watch, 1 heartbeat task, 1 fault |
| overlay | does a search of a worktree show that worktree, and exactly in the end? | 2 paths, 2 contents; edits of both checkouts with a fault, a commit, a move, a touched `.git/index`, or a removal of the base; a file of the base that is away during a run and back; edits, moves and a commit around a touched `.git/index` |
| requests | is a request acknowledged before its edits are covered, or never? | 3 requests, 2 sets of options, 1 file; an edit with an update of the watcher, a failure or a detached start; an abort; an update that fails |
| search | are answers complete and fresh, and do cancellations win and return? | 3 searches, 2 ids, 1 tombstone, 2 idle contexts, 2 permits; seven mixes of cancellations and moves of the index |
| watcher | is a change forgotten, readiness declared early, a workspace left unwatched? | 3 registrations, 2 files, 1 waiting search; seven mixes of edits, rules, overflow, failure, a vanishing root and requests, each with rules that hide nothing or one file at first |
| collector | is an index taken early, from a run or under a living overlay, or never? | a base and an overlay, a run and a worker, grace of 2 ticks; five mixes of up to three moves of roots, one or two runs, a request and a fault |
| pipeline | does anything invisible show up or push out something visible, is a partial answer ever given? | 3 files with 5 chunks, two of them definitions, in 7 standings each, 13 requests with limits 1 and 2, 2 vector sources |

Why the bounds are enough: the protocols compare artifacts pairwise (one store
with another, one generation with another), so two versions, two processes and
two faults, the second one during the recovery from the first, produce every
pairwise disagreement. Two paths or keys are needed where counts are compared.
Three requests make a holder, a waiter and one that arrives while the first
leaves; three registrations are a watcher, its replacement and one after that. A
queue, registry or pool has the smallest limit at which something is evicted.
In `pipeline` the limit is below the number of matches, the scores have ties, and
the posting order puts the larger key of a tie first. The `Budgets` of a module
are sets of combinations: an instance in which everything may happen together is
out of reach, so each combination pairs the disturbances that meet in the code.

In `leases` and `collector` a state without a successor is reported as a deadlock;
in the others deadlock checking is off because the system may rest.

Fairness: a started process goes on (weak fairness of its step), a lock that is
free again and again is eventually obtained (strong fairness of acquiring it:
`flock` waiters are served and the lock is never held for ever), and somebody
keeps asking for an index run or a worker as long as there is work (searches
and the daemon's watcher do). Faults and edits are bounded, so "eventually" means
after the last of them. In the daemon, tasks and threads are scheduled (weak
fairness of every step of a request or task), the leases and semaphores are served
in order of arrival (strong fairness of a step that takes one), waits that poll are
woken by their timeout, a watcher's first reconciliation ends, the backend delivers
what it has queued, and time passes (`Lapse`, `Tick`, `BackoffEnds`, `GuardLifts`).
The watcher asks for vectors after an update it has indexed even if a worker keeps
coming and going (strong fairness of `WatchRequest`).

Stated in the modules and true on the same instances, but in no run, because
another property implies the interesting part or because they are of use mainly as
steps of a proof: `TypeOK` of every module but IndexPublication, `WaitersCounted`
(WorkspaceLeases), `WithinPlaces` (EnhancementQueue), `RegistryExact` and
`IdleAccounted` (DaemonSearch), `ReadersAreOut` (IndexCollector), `PhantomExpires`
(JobLedger). `LedgerWatch.cfg` is a larger instance of the ledger, with two
watches and one run: there a heartbeat meets a watcher that was not stopped but
replaced, which one watch cannot show.

Each `expect: pass` run has for every property a mutant: a plausible mistake in
the code, defined beside the operator it replaces, under which the property
fails.

## Proofs

All theorems hold for every value of the constants under the named assumptions of
the modules, which TLC evaluates on every run: bounds are numbers, `None` is none
of the values it stands beside (no number, no metadata, no directory), some sets of processes are finite, processes of
two kinds are different processes.

| Module | Theorem | Property | Inductive invariant |
| --- | --- | --- | --- |
| IndexPublicationProofs | `TypeCorrect` | `TypeOK` | `TypeOK` |
| | `PromotionLosesNothing` | `NothingLost` | `PromotionInv` |
| | `SettledRunsAreSound` | `SettledIsSound` | `TrustInv` |
| | `UnfinishedNeverTrusted` | `UnfinishedIsNeverTrusted` | `TrustInv` |
| | `AcceptedIndexIsSound` | `AcceptedIsSound` | `TrustInv` and no removal at work |
| | `IdentityIsUnique` | `IdentityNamesContent` | `TrustInv`, and `Named` until `rewound` |
| VectorEnhancementProofs | `StaleVectorsAreJournalled` | `StaleIsJournalled` | `JournalInv`, `ResetClears` |
| | `HashNothingToDo` | `HashComplete` | `JournalInv`, `ResetClears` |
| | `ModelsNeverMix` | `ModelNamed` | and `NameInv` |
| | `NeuralNothingToDo` | `NeuralComplete` | `JournalInv`, `ResetClears`, `MarkInv` |
| WorkspaceLeasesProofs | `LeasesExclusive` | `Exclusion` | `LeaseInv` |
| | `NoWakeupIsLost` | `NoLostWakeup` | `WakeInv` |
| JobLedgerProofs | `NoPhantom` | `NoPhantomRun` | `LedgerInv` |
| | `TrustedOnlyWhenReady` | `TrustedIsReconciled` | `WatchInv` |
| IndexRequestsProofs | `AcknowledgedIsCovered` | `AckCovers` | `RequestInv` |
| | `SkipsAreJustified` | `SkipIsJustified` | `RequestInv` |
| DaemonSearchProofs | `EarlyCancelsWin` | `EarlyCancelWins` | `AnswerInv` |
| | `AnswersAreFresh` | `FreshAnswers` | `AnswerInv` |
| IndexCollectorProofs | `GraceWaited` | `GraceIsWaited` | `CollectorInv` |
| | `RunsKept` | `RunsKeepTheirIndex` | `CollectorInv` |
| | `BasesKept` | `LiveOverlayKeepsBase` | `CollectorInv` |
| WorktreeOverlayProofs | `OverlayTypeCorrect` | `TypeOK`, `Nested`, `BasePhase`, `TreePhase` | `Typed` |
| | `SnapshotHonest` | `SnapshotIsHonest` | `Typed`, and `BaseInv` until `slipped` |
| | `CleanIndexed` | `CleanIsIndexed` | `Typed`, and `BaseInv` until `slipped` |
| | `WorktreeShown` | `ShowsTheWorktree` | `Typed`, and `BaseInv`, `TreeInv` until `slipped` |

Each invariant was checked by TLC on the run's instance before it was proved; a
proof has one lemma per action, or per group of actions that do the same to the
invariant.

**IndexPublication.** `TypeOK` is inductive by itself: besides types it ties the
program counters to the lock (`LockOK`), the run record to its phase (`RunOK`,
`PhaseOK`) and the processes that do not hold the lock to the phases outside it
(`OthersOK`). `NothingLost` is not: after a rename it matters how far the renames
have come, so `BackedUp` says for each step of backup, promotion and rollback
which artifacts are saved and which are in place. The soundness of the stores
needs five facts (`TrustInv`). `VersionsInOrder`: no stamp is newer than the
clock, and a file that was moved away is not also there. `UnmarkedAgrees`: without
the marker what is left of the stores agrees and each stamp of the snapshot either
names what is stored or can never match a file again (`Gone`, stable because an
edit takes a new version and only what is hidden can return). `Vouched`: a run
that takes the stores as they are has had them opened and counted, or there are
none. `Gathered`: the same relation between stamps and contents for the paths a
run is done with. `Marked`: the marker is there whenever the live stores are not
one publication. The metadata, the pid file and the format version appear in none
of them, which is why neither `ig --add` nor a reader that unlinks a pid file can
make a run trust the wrong stores. The soundness theorems have one hypothesis
about the behaviour, none about the constants: no removal is killed or fails
before the directory is empty (`[][~RemovalCutShort]_vars`), because such a removal
may leave stores without the marker that condemned them (`PublicationRemoval.cfg`).
`AcceptedIsSound` speaks of every moment, and in the middle of a removal it may
be false, so that `AcceptedIndexIsSound` supposes that none is requested.

`IdentityNamesContent` compares runs that may be far apart, with removals and
rebuilds between them, so `Named` says `NamesInv(h)` of every publication `h` so far:
every incarnation on disk, put aside or in the history has been given out and none is
given out twice (`GivenOut`, `Incarnate`); while there is no marker, an index that
still has the incarnation of `h` has a generation no lower, and with the same
generation the same content (`UnmarkedNamed`); and a run that has changed the stores
ends under another incarnation or a higher generation (`Renamed`). A removal and a
later build are covered because an incarnation never comes back. The hypothesis is
that of the other soundness theorems. `ig --add` may write at any time; once it
writes back a `workspace.json` that has changed since it read it (`StaleAdd`), the
generation has gone back, `rewound` is set and nothing more is claimed: that is the
history of `PublicationAddRace.cfg`.

**VectorEnhancement.** A worker publishes what it gathered long after it read
the index, so `StaleIsJournalled` needs a word about what is in its hands:
`JournalInv` says that what a worker carries and is stale by now is named by the
journal index runs append to, and not only by the one the worker will remove
(`CarriedIsJournalled`), and that what a transaction is about to delete is already
in the journals (`Flushed`); `ResetClears` says that a reset removes a store before
its journals. Then no journal and equal counts mean equal key sets, by a cardinality
argument for which `Keys` is finite: `HashComplete` needs no generation at all.
`NameInv` ties the vectors in hand and in the store to the identity file.
`NeuralComplete` also trusts the generation file: `MarkInv` says that a marked tier
without a journal has every key (`MarkedIsWhole`), that no mark and no pass is ahead
of the index and both are behind a run that is done (`MarksBehind`, `Behind`), and
that a pass whose generation is still the index's has or will read every key
(`Whole`). Inside a reset the mark outlives the store (`Discarded`). The theorems
have no hypothesis: workers die and removals fail anywhere, the configured model may
change at any time, and the invariants except just the store and the mark that
outlived a reset (`Kept`, `Outlived`), as the properties do. What then happens is in
`EnhanceReset.cfg`.

**WorkspaceLeases.** `Exclusion` speaks of the leases requests hold, but the code
decides from counters: `LeaseInv` adds that `activeLeases` counts the readers and
`activeMode` is theirs (`ReadersCounted`), that `exclusiveActive` is up whenever
somebody writes and then no reader is counted (`OneWriter`), and that a request
has no lease before it arrives or after it dropped them (`NoLeaseOutside`). For
`NoLostWakeup`, `WakeInv` adds that `exclusiveWaiters` counts the requests that
wait for an exclusive lease (`QueueCounted`): a reader that sleeps behind a writer
is right to do so only while that writer is really there.

**JobLedger.** `NoPhantomRun` looks only at records that are fresh and whose
process lives; a lapsed record can become fresh again by anyone's heartbeat, so
`LedgerInv` says it of every active record: its owner has begun and not ended, or
has died. `TrustedIsReconciled` depends on the nonces watchers put into the
record: `WatchInv` says that a record which looks trusted is that of a watcher that
was ready (`Believed`), that whoever remembers the record's nonce made the record
(`Remembers`), and that what a task has read and will write was read when its
watcher was ready (`Carrying`). That a nonce drawn
anew is one nobody holds is an argument by counting, for which watches and
updating tasks are assumed to be finite.

**IndexRequests.** `RequestInv` says that edits are read in the order they were
made, also by a scan under way (`ReadsInOrder`); that once a full run has started
after a request, it is under way, has failed, or has left an index that covers the
request (`TakenCareOf`); and that nobody scans or acknowledges before such a run has
started (`OnlyAfterARun`).

**DaemonSearch.** `AnswerInv` has a part for each place an answer may come from:
the search itself (`SearchesSound`), the result cache, whose entries are complete
and no older than the signature they are kept under (`ResultsSound`), and the pools,
which hold nothing older than their signature and are borrowed only under it
(`PoolsSound`).

**IndexCollector.** `CollectorInv` says that a marker is no older than the absence
of its root (`MarkerIsYoung`), what the pass knows of the index in its hand
(`InHand`), that past a lock whoever is at work with that lock file came later
(`OnlyLate`), that a lock file the pass holds is the one in the directory and no
run's (`HeldAlone`), and that the bases of the worktrees that stayed are among those
the pass noted, and never due (`BasesKnown`). Nothing is assumed about the length of
the grace or of a wait for a lock. A root that was back between two passes only, or
whose marker could not be removed, is excepted from what is said of the grace
(`slipped`): no pass can see it.

**WorktreeOverlay.** `Typed` adds to `TypeOK` what each step of the two runs finds
on disk. `BaseInv` is about the main checkout: without the marker the snapshot
is honest, which is more than `SnapshotIsHonest` says, for it must survive edits
(no stamp is newer than its file, and a path without a stamp has no chunks), and a
recorded checkout state names the chunks (`GitHonest`); and it says the same of what a
run has walked, written and captured at each of its steps (`WriteHonest`,
`PublishHonest`, `ResnapHonest`, `CaptureHonest`). `TreeInv` says for each step of
a run over the worktree which contents the overlay shows, or will show when the
run is done with it, as long as the base is still the one it was read against; the
identity of the base makes that a question of two numbers (`RefsKnown`: one that is
no longer the base's does not come back).

`WorktreeShown` is the refinement, step by step: an edit of the worktree is a
`Write`; reading the worktree's stamps is a `Begin`; the end of a run a `Complete`,
or a `Confirm` if there was nothing to do; every other step of the runs, of the main
checkout and of Git is `Elsewhere`, and after each step `View` is behind by no more
than `since` allows. It supposes `Leased`: a search outside the daemon can read
stores that a run is changing.

The theorems about content have no hypothesis about the behaviour. Their invariants
are claimed until the main checkout has slipped, at one of the two moments named
above, and `slipped` never goes back. Everything else may happen at any time: edits,
commits, moves, crashes, removals and rebuilds of the base.

Only model-checked: liveness (the prover has no ENABLED or fairness); what the
folds of SearchPipeline compute and hence its three properties (induction over
data); `NothingForgotten` and `ReadyIsCaughtUp` of WorkspaceWatcher and
`RequestKept` of EnhancementQueue, which have no proof yet.

## Disagreements between the code and what it says

Each configuration below violates its property; the counterexample is the
history described. They are no runs of the suite, which holds what is true. Two
configurations stand for two properties; TLC's `-continue` shows both.

| Configuration | Property | What happens |
| --- | --- | --- |
| `PublicationAddRace.cfg` | `IdentityIsName` | `run_add` writes back a stale `workspace.json` without `index.lock` (`cli.rs:1271`), which takes the generation back. |
| `PublicationRemoval.cfg` | `UnfinishedIsNeverTrusted` | a removal deletes `.indexing.incomplete` in directory order and may be interrupted before the stores it condemns are gone (`indexer.rs:583`). |
| `EnhanceReset.cfg` | `NeuralTrusted` | discarding another model's vectors removes the generation file after the store (`indexer.rs:3033`); killed in between, and with the old model configured again, the neural tier is taken for complete while it is not. |
| `EnhanceReset.cfg` | `ModelsApart` | the removal of another model's store fails, the error is dropped and the new identity is written (`indexer.rs:3030`): the old vectors are searched, and added to, under the new model's name, although vectors of two models are "never mixed" (`search.rs:7230`). |
| `QueueUpdates.cfg` | `StoreKeptCurrent` | an update indexed while a neural worker runs on the generation before it is not requested, because a job is active (`workspace.rs:828`); "Once a neural store exists, keep it current for all later index updates" (`workspace.rs:936`). |
| `RequestsFollowers.cfg` | `FollowerCovered` | a leader that skips its scan answers its followers too (`daemon.rs:4404`); the comment promises them a scan that began after they arrived (`daemon.rs:4395`). |
| `RequestsFailedWalk.cfg` | `SkipIsCurrent` | a walk from before a request publishes a generation, the full walk after its arrival fails, and the request still skips its scan (`daemon.rs:4119`); "Earlier walks cannot vouch for edits made after they scanned" (`daemon.rs:4037`). |
| `WatcherStaleFilter.cfg` | `NothingMissed` | an ignore file changes after the filter was built and before the backend watches (`daemon.rs:5445`, 5469), or before a refresh puts an older filter over a newer one (`daemon.rs:5544`, 5589): events of a file that is visible now are dropped until something builds the filter again. |
| `WatcherStops.cfg` | `StoppedWorkerEnds` | a watcher stopped between its worker's look at the flag and its wait leaves the worker waiting for ever (`daemon.rs:3790`, against the comment at 3723). |
| `OverlayMoved.cfg` | `RecordedIsIndexed` | a file of the base is away while a run walks and back before its state is recorded: the check compares the stamps of indexed paths only, and a state is recorded that was not indexed (against the comment at `indexer.rs:910`). |
| `OverlayRewritten.cfg` | `UnchangedIsIndexed` | when `.git/index` was rewritten, the snapshot is saved again from a walk later than the look at the checkout (`git_state.rs:144`), so that a stamp may stand for a content that is not indexed. |
| `OverlayRewritten.cfg` | `NeverLeaks` | afterwards a search of the worktree can show the base's content for a path; "Git worktrees reuse data without leaking base content" (`docs/architecture.md:25`). |
| `CollectorGrace.cfg` | `MissingForGrace` | a root that was back only between two passes does not clear the marker (`index_gc.rs:6`), nor does one whose marker cannot be removed (`index_gc.rs:125`). |
| `CollectorLateRun.cfg` | `NoJobInBetween` | a run that found the root before it went, and then waited, takes a lock file that was missing when the pass looked or that it has dropped, and loses its directory (`index_gc.rs:328`); "A root that is gone cannot start a job in between" (`index_gc.rs:312`). The grace may be one second (`config.rs:137`). |
| `CollectorLeftovers.cfg` | `NothingIsLeft` | a pass that dies after it removed `workspace.json` leaves a directory no later pass finds, because the registry lists by that file (`workspace.rs:1779`). |
| `CollectorOrphans.cfg` | `NoRunAtWork` | a run opens the old lock file while its index is taken; a second run makes the directory anew, and no later pass sees the lock of the first (`index_gc.rs:307`). |

Seen in the models as well, without a configuration of their own:

* IndexRequests, `InFlightShown`: the drop of a leader removes the entry whoever
  owns it (`daemon.rs:1594`), so a new leader's run may be reported as not in
  flight (against `daemon.rs:2279`).
* WorktreeOverlay: with `Leased = FALSE`, `ShowsTheWorktree` fails (a search outside
  the daemon opens base and overlay one after the other, `indexer.rs:644`).
* VectorEnhancement: a build without the neural feature never applies the neural
  journal that a deletion writes (`indexer.rs:1550`), and a journal is looked at
  before the feature (`workspace.rs:887`), so `needs_neural` stays true there.
* A stale `.indexing.pid` makes the next run delete a complete index before its
  replacement exists (`indexer.rs:759`).
* An index run finishes its job after it has released `index.lock`
  (`indexer.rs:937`). If the next run has started its record by then, that
  record is marked inactive with the first run's outcome; `NoPhantomRun` shows
  that the error goes in this direction only.
* A task that recreates a lost watcher record (`daemon.rs:5870`) may do so after
  the watcher was stopped; `PhantomExpires` shows that the record is believed
  only until its heartbeat is too old.
* An empty `.enhancing.pid`, left by a command killed between creating and writing
  it, counts as a live worker (`workspace.rs:2550`).
* A root replaced faster than the supervisor looks leaves a watch on the old
  directory until the next request.
* One index that cannot be removed ends the pass for the indexes after it
  (`index_gc.rs:163`).
* When scores are equal, the final order by key in `fuse_dense_file_order` can undo
  the promotion it made, contrary to `search_fusion.rs:64`.

## Plan

Modelled: IndexPublication, VectorEnhancement, WorkspaceLeases, JobLedger,
EnhancementQueue, WorktreeOverlay with its abstract WorktreeView, IndexRequests,
DaemonSearch, WorkspaceWatcher, IndexCollector, SearchPipeline. Left:

1. Theorems: `NothingForgotten` and `ReadyIsCaughtUp` of WorkspaceWatcher;
   `RequestKept` of EnhancementQueue.
2. Daemon life cycle and IPC: one daemon per home directory, takeover of the
   socket, idle shutdown, restart after an upgrade. MCP: request ordering.
3. Pure algorithms against reference definitions: batch budget, late dense fusion,
   the context pack's token budget.

The suite is kept to a dozen runs so that it stays quick: a new module gets one
run with all its properties.

## Not modelled

Inside modelled parts: in IndexPublication the ignore filter and the cached
statistics; in DaemonSearch the sub-searches of memory expansion, the byte budget
of idle contexts, checkouts replaced under their pathname and the cache of neural
query vectors; in WorkspaceWatcher the watch on Git metadata outside the workspace, and a
registrar that refreshes a registration made since it looked;
in IndexCollector `ig --gc` in a process of its own; in SearchPipeline query
parsing and routing, scores, fusion, thresholds, reranking and presentation, and
more than one query variant per pass; in the Merkle snapshot the recursive
directory hashes, so that two directories swapped between scan and read and
swapped back (`merkle.rs:625`) are outside the model.

Whole parts: chunking, symbol extraction, embedding and reranking, path globs and
the code graph are numerical or textual heuristics without a protocol. The vector
store's byte layout is data. The command line's presentation, the web and terminal
interfaces, the agent installer, packaging and the vendored crates are outside the
scope.
