--------------------------- MODULE IndexPublication ---------------------------
(***************************************************************************)
(* How an index run of ivygrep publishes a workspace's stores: the file    *)
(* lock, the health check, the destructive reset, the Merkle scan, the     *)
(* in-place incremental update, the staged rebuild with its promotion and  *)
(* rollback, the metadata, the markers, and what a killed process leaves   *)
(* behind.  (src/src/indexer.rs, src/src/indexer/staging.rs,               *)
(* src/src/workspace.rs, src/src/merkle.rs, src/src/cli.rs.)               *)
(*                                                                         *)
(* The workspace is a main checkout outside Git, indexed with one ignore   *)
(* filter.  A file is a path whose content is a version number; version 0  *)
(* is "no such file".  Every edit takes a fresh version, because the       *)
(* Merkle stamp hashes length, mtime and ctime.  One version is one chunk, *)
(* so the chunk count of a store is the number of paths it holds.          *)
(***************************************************************************)
EXTENDS Integers, FiniteSets

CONSTANTS
    Paths,        \* the files of the workspace
    Indexers,     \* processes that index or remove it (CLI, daemon)
    MaxVersion,   \* bound: edits of the source tree
    Budgets,      \* bound: how many faults (crashes and I/O failures), requested
                  \* removals of the index, binaries with another format
                  \* version, and `ig --add` metadata writes may happen
    None,         \* an artifact that is not on disk
    Damaged,      \* a Tantivy directory of which some files were deleted
    Dead          \* the pid of a process that no longer exists

ASSUME BoundsAssumption ==
    /\ MaxVersion \in Nat \ {0}
    /\ Budgets \subseteq [faults : Nat, removals : Nat, upgrades : Nat, adds : Nat]
    /\ IsFiniteSet(Paths)

\* None stands for absence; no process or artifact is called that.
ASSUME NoneAssumption == None \notin Indexers

VARIABLES
    files,    \* the source tree: Paths -> version
    hidden,   \* versions a directory rename moved away, to come back as they were
    clock,    \* the last version given out
    disk,     \* the artifacts of the workspace's index directory
    lock,     \* holder of index.lock, or None
    pc,       \* where each indexer is
    run,      \* locals of the lock holder's run, or None
    nextInc,  \* incarnations given out so far (fresh UUIDs)
    reaper,   \* TRUE while a reader is about to unlink a pid file it saw stale
    add,      \* metadata `ig --add` has read and not yet written, or None
    budget,   \* faults, removals, upgrades and metadata writes left
    settled,  \* ghost: identity and content of every finished publication
    rewound   \* ghost: `ig --add` has written back metadata that had changed

vars == <<files, hidden, clock, disk, lock, pc, run, nextInc, reaper, add,
          budget, settled, rewound>>

Versions == 0 .. MaxVersion
Vanished == -1                      \* VANISHED_FILE_HASH: matches no file
Content  == [Paths -> Versions]     \* what a store holds for each path
Empty    == [p \in Paths |-> 0]

(* The artifacts promotion replaces, in the order it backs up and promotes *)
(* them.  "vectors" stands for the hash store and everything derived.      *)
Artifact == <<"incarnation", "sqlite", "tantivy", "vectors">>
Stores   == {"incarnation", "sqlite", "tantivy", "vectors"}

-----------------------------------------------------------------------------
(* Health, as quick_index_health judges it.                                *)

Count(c) == Cardinality({p \in Paths : c[p] # 0})

\* legacy_pid_status
PidAlive == disk.pid \notin {None, Dead}
PidStale == disk.pid = Dead

\* index_publication_is_unfinished: a live pid excuses the marker.
Unfinished == disk.incomplete # None /\ ~PidAlive

HasArtifacts ==
    \E a \in {"meta", "sqlite", "tantivy", "vectors"} : disk[a] # None

Healthy ==
    /\ disk.meta # None /\ disk.meta.done
    /\ ~Unfinished
    /\ ~PidStale
    /\ disk.sqlite # None /\ disk.tantivy # None /\ disk.vectors # None
    /\ disk.format # None
    /\ Count(disk.sqlite) > 0 => disk.snapshot # None

Queryable    == HasArtifacts /\ Healthy
NeedsRebuild == HasArtifacts /\ ~Healthy

\* validate_existing_index_storage compares counts, not contents.
StorageValid ==
    /\ disk.sqlite # None
    /\ disk.tantivy \notin {None, Damaged}
    /\ Count(disk.sqlite) = Count(disk.tantivy)
    /\ disk.vectors # None

-----------------------------------------------------------------------------
NoRun == None

Init ==
    /\ files \in [Paths -> {0, 1}] /\ clock = 1
    /\ hidden = Empty
    /\ disk = [meta |-> None, format |-> None, snapshot |-> None,
               incarnation |-> None, sqlite |-> None, tantivy |-> None,
               vectors |-> None, incomplete |-> None, pid |-> None,
               backup |-> None]
    /\ lock = None
    /\ pc = [i \in Indexers |-> "idle"]
    /\ run = NoRun
    /\ nextInc = 0
    /\ reaper = FALSE
    /\ add = None
    /\ budget \in Budgets
    /\ settled = {}
    /\ rewound = FALSE

Goto(i, label) == pc' = [pc EXCEPT ![i] = label]
Spend(kind) == budget[kind] > 0 /\ budget' = [budget EXCEPT ![kind] = @ - 1]

source == <<files, hidden, clock>>
outside == <<reaper, add, rewound>>

-----------------------------------------------------------------------------
(* The run, up to the scan.                                                *)

NewRun(remove, trust, paths) ==
    [remove |-> remove, trust |-> trust, paths |-> paths, kept |-> None,
     healthy |-> FALSE, rebuild |-> FALSE, fresh |-> FALSE, snap |-> Empty,
     todo |-> {}, sq |-> Empty, attempt |-> 0, step |-> 0, before |-> None,
     ok |-> FALSE]

\* lock_exclusive on index.lock, for an index run.  A run has a set of
\* watcher paths (empty: full walk) and may trust a live watcher.
Acquire(i) ==
    /\ pc[i] = "idle" /\ lock = None
    /\ \E paths \in SUBSET Paths, trust \in BOOLEAN :
          /\ trust => paths = {}
          /\ run' = NewRun(FALSE, trust, paths)
    /\ lock' = i
    /\ Goto(i, "inspect")
    /\ UNCHANGED <<source, disk, nextInc, outside, budget, settled>>

\* remove_workspace_index, by `ig --rm`, `--force` or the doctor.
AcquireRemove(i) ==
    /\ pc[i] = "idle" /\ lock = None
    /\ Spend("removals")
    /\ run' = NewRun(TRUE, FALSE, {})
    /\ lock' = i
    /\ Goto(i, "wipe")
    /\ UNCHANGED <<source, disk, nextInc, outside, settled>>

\* remove_abandoned_staging: backups stay only behind their retained marker.
KeptBackup == IF disk.backup # None /\ disk.backup.retained THEN disk.backup
                                                            ELSE None

\* Clean abandoned directories, read metadata and marker, take the health
\* verdict (which unlinks a stale pid file), and choose: reset or go on.
Inspect(i) ==
    /\ pc[i] = "inspect"
    /\ disk' = [disk EXCEPT !.backup = KeptBackup,
                            !.pid = IF PidStale THEN None ELSE @]
    /\ run' = [run EXCEPT !.kept = disk.meta,
                          !.rebuild = disk.incomplete # None,
                          !.healthy = Queryable]
    /\ Goto(i, IF NeedsRebuild /\ disk.incomplete = None
               THEN "wipe" ELSE "identify")
    /\ UNCHANGED <<source, lock, nextInc, outside, budget, settled>>

\* remove_workspace_index_contents: one directory entry at a time, in
\* whatever order read_dir yields them; the Tantivy directory file by file.
Wipe(i) ==
    /\ pc[i] = "wipe"
    /\ \E a \in DOMAIN disk :
          /\ disk[a] # None
          /\ disk' = [disk EXCEPT ![a] = IF a = "tantivy" /\ @ # Damaged
                                         THEN Damaged ELSE None]
    /\ UNCHANGED <<source, lock, pc, run, nextInc, outside, budget, settled>>

\* rebuild_index_storage puts the preserved metadata back, marked as never
\* completed; remove_workspace_index just releases the lock.
WipeDone(i) ==
    /\ pc[i] = "wipe"
    /\ \A a \in DOMAIN disk : disk[a] = None
    /\ IF run.remove
       THEN /\ Goto(i, "idle") /\ lock' = None /\ run' = NoRun
            /\ UNCHANGED disk
       ELSE /\ disk' = [disk EXCEPT !.meta =
                 IF run.kept = None THEN None
                                    ELSE [run.kept EXCEPT !.done = FALSE]]
            /\ Goto(i, "identify")
            /\ UNCHANGED <<lock, run>>
    /\ UNCHANGED <<source, nextInc, outside, budget, settled>>

\* Mutant: an index that is built anew starts counting its incarnations again.
IdentifyRestarts(i) ==
    /\ pc[i] = "identify"
    /\ IF disk.incarnation = None
       THEN /\ nextInc' = 1
            /\ disk' = [disk EXCEPT !.incarnation = nextInc']
       ELSE UNCHANGED <<nextInc, disk>>
    /\ run' = [run EXCEPT !.rebuild = @ \/ (run.healthy /\ ~StorageValid),
                          !.kept = None]
    /\ Goto(i, "announce")
    /\ UNCHANGED <<source, lock, outside, budget, settled>>

\* A missing incarnation is created under the lock; stores that a healthy
\* verdict vouched for are opened and counted.
Identify(i) ==
    /\ pc[i] = "identify"
    /\ IF disk.incarnation = None
       THEN /\ nextInc' = nextInc + 1
            /\ disk' = [disk EXCEPT !.incarnation = nextInc']
       ELSE UNCHANGED <<nextInc, disk>>
    /\ run' = [run EXCEPT !.rebuild = @ \/ (run.healthy /\ ~StorageValid),
                          !.kept = None]
    /\ Goto(i, "announce")
    /\ UNCHANGED <<source, lock, outside, budget, settled>>

\* Write .indexing.pid; from here the guard's Drop will remove it.
Announce(i) ==
    /\ pc[i] = "announce"
    /\ disk' = [disk EXCEPT !.pid = i]
    /\ Goto(i, "scan")
    /\ UNCHANGED <<source, lock, run, nextInc, outside, budget, settled>>

-----------------------------------------------------------------------------
(* The scan and its decision (the head of index_workspace_inner).          *)

OldSnapshot == IF disk.snapshot = None THEN Empty ELSE disk.snapshot

\* refresh_paths_in_place gives up on a path the snapshot does not know.
Targeted ==
    /\ run.paths # {} /\ disk.snapshot # None
    /\ \A p \in run.paths : files[p] # 0 => OldSnapshot[p] # 0

NewSnapshot == IF Targeted
               THEN [p \in Paths |-> IF p \in run.paths THEN files[p]
                                                        ELSE OldSnapshot[p]]
               ELSE files

Diff(old, new) == {p \in Paths : old[p] # new[p]}

\* Listed files that may include or refer to a changed one: which of them the
\* stored edges name is not modelled.
MayDepend == {p \in Paths : NewSnapshot[p] # 0 /\ files[p] # 0}

\* What a retry, or the first attempt, takes into index_workspace_inner.
RebuildMain == run.rebuild \/ disk.incomplete # None

\* Metadata is written early when there is none.
EarlyMeta == IF disk.meta = None THEN [gen |-> 0, done |-> FALSE] ELSE disk.meta

\* A live watcher vouches for the index: no scan at all.
TrustWatcher(i) ==
    /\ pc[i] = "scan"
    /\ run.trust /\ ~RebuildMain /\ Queryable
    /\ run' = [run EXCEPT !.ok = TRUE]
    /\ Goto(i, "settle")
    /\ UNCHANGED <<source, disk, lock, nextInc, outside, budget, settled>>

\* Nothing differs from the snapshot of a healthy index.
ScanNoOp(i) ==
    /\ pc[i] = "scan"
    /\ ~RebuildMain /\ Diff(OldSnapshot, NewSnapshot) = {} /\ Queryable
    /\ run' = [run EXCEPT !.ok = TRUE]
    /\ Goto(i, "settle")
    /\ UNCHANGED <<source, disk, lock, nextInc, outside, budget, settled>>

\* An incremental update of the live stores, announced by the marker; the
\* files that depend on a changed one are read again with it.
ScanIncremental(i) ==
    /\ pc[i] = "scan"
    /\ ~RebuildMain /\ Queryable
    /\ Diff(OldSnapshot, NewSnapshot) # {}
    /\ \E dependents \in SUBSET MayDepend :
          run' = [run EXCEPT !.fresh = FALSE, !.snap = NewSnapshot,
                             !.todo = Diff(OldSnapshot, NewSnapshot) \cup dependents,
                             !.sq = disk.sqlite]
    /\ Goto(i, "mark")
    /\ UNCHANGED <<source, disk, lock, nextInc, outside, budget, settled>>

\* A rebuild from every current file into staging.
ScanFresh(i) ==
    /\ pc[i] = "scan"
    /\ RebuildMain \/ ~Queryable
    /\ disk' = [disk EXCEPT !.meta = EarlyMeta]
    /\ run' = [run EXCEPT !.fresh = TRUE, !.snap = files, !.sq = Empty,
                          !.todo = {p \in Paths : files[p] # 0}]
    /\ Goto(i, "persist")
    /\ UNCHANGED <<source, lock, nextInc, outside, budget, settled>>

\* Mutant: the live stores change without the marker.
MarkIncrementalForgotten(i) ==
    /\ pc[i] = "mark"
    /\ Goto(i, "persist")
    /\ UNCHANGED <<source, disk, lock, run, nextInc, outside, budget, settled>>

MarkIncremental(i) ==
    /\ pc[i] = "mark"
    /\ disk' = [disk EXCEPT !.incomplete = "pending"]
    /\ Goto(i, "persist")
    /\ UNCHANGED <<source, lock, run, nextInc, outside, budget, settled>>

-----------------------------------------------------------------------------
(* Persisting: each listed file is read after the scan, as it is by then.  *)

\* Mutant: a file that vanished after the scan keeps its scanned stamp.
PersistPathKeepsStamp(i) ==
    /\ pc[i] = "persist"
    /\ \E p \in run.todo :
          run' = [run EXCEPT !.todo = @ \ {p},
                             !.sq[p] = IF run.snap[p] = 0 THEN 0 ELSE files[p]]
    /\ UNCHANGED <<source, disk, lock, pc, nextInc, outside, budget, settled>>

\* Mutant: the vanished stamp goes into the store as well.
PersistPathStoresStamp(i) ==
    /\ pc[i] = "persist"
    /\ \E p \in run.todo :
          LET seen == IF run.snap[p] = 0 THEN 0 ELSE
                      IF files[p] = 0 THEN Vanished ELSE files[p]
          IN run' = [run EXCEPT !.todo = @ \ {p}, !.sq[p] = seen, !.snap[p] = seen]
    /\ UNCHANGED <<source, disk, lock, pc, nextInc, outside, budget, settled>>

\* A deleted path loses its chunks; a listed file that is gone by now has
\* none and is marked so that its stamp can never match again.
PersistPath(i) ==
    /\ pc[i] = "persist"
    /\ \E p \in run.todo :
          LET seen == IF run.snap[p] = 0 THEN 0 ELSE files[p]
          IN run' = [run EXCEPT !.todo = @ \ {p}, !.sq[p] = seen,
                                !.snap[p] = IF @ # 0 /\ seen = 0 THEN Vanished
                                                                 ELSE @]
    /\ UNCHANGED <<source, disk, lock, pc, nextInc, outside, budget, settled>>

\* commit_with_vector_tombstones, at a checkpoint or at the end.
CommitSqlite(i) ==
    /\ pc[i] = "persist" /\ ~run.fresh
    /\ run.todo # {} => disk.sqlite # run.sq
    /\ disk' = [disk EXCEPT !.sqlite = run.sq]
    /\ Goto(i, "commit")
    /\ UNCHANGED <<source, lock, run, nextInc, outside, budget, settled>>

CommitTantivy(i) ==
    /\ pc[i] = "commit"
    /\ disk' = [disk EXCEPT !.tantivy = run.sq]
    /\ Goto(i, IF run.todo = {} THEN "metadata" ELSE "persist")
    /\ UNCHANGED <<source, lock, run, nextInc, outside, budget, settled>>

-----------------------------------------------------------------------------
(* Promotion of a staged rebuild.                                          *)

NoStores   == [incarnation |-> None, sqlite |-> None,
               tantivy |-> None, vectors |-> None]
LiveStores == [incarnation |-> disk.incarnation, sqlite |-> disk.sqlite,
               tantivy |-> disk.tantivy, vectors |-> disk.vectors]

\* The marker goes down before the first live store moves.
MarkPromotion(i) ==
    /\ pc[i] = "persist" /\ run.fresh /\ run.todo = {}
    /\ disk' = [disk EXCEPT !.incomplete = "pending",
                            !.backup = [retained |-> FALSE, old |-> NoStores]]
    /\ run' = [run EXCEPT !.before = LiveStores, !.step = 1]
    /\ Goto(i, "backup")
    /\ UNCHANGED <<source, lock, nextInc, outside, budget, settled>>

Backup(i) ==
    /\ pc[i] = "backup"
    /\ LET a == Artifact[run.step]
       IN disk' = [disk EXCEPT ![a] = None, !.backup.old[a] = disk[a]]
    /\ IF run.step < 4
       THEN Goto(i, "backup") /\ run' = [run EXCEPT !.step = @ + 1]
       ELSE Goto(i, "promote") /\ run' = [run EXCEPT !.step = 1]
    /\ UNCHANGED <<source, lock, nextInc, outside, budget, settled>>

Staged(a) == CASE a = "incarnation" -> nextInc + 1
               [] a = "vectors"     -> "hash"
               [] OTHER             -> run.sq

\* The new incarnation first, then the stores; the backups go last.
Promote(i) ==
    /\ pc[i] = "promote"
    /\ LET a == Artifact[run.step]
       IN /\ disk' = [disk EXCEPT ![a] = Staged(a),
                                  !.backup = IF run.step = 4 THEN None ELSE @]
          /\ nextInc' = IF a = "incarnation" THEN nextInc + 1 ELSE nextInc
    /\ IF run.step < 4
       THEN Goto(i, "promote") /\ run' = [run EXCEPT !.step = @ + 1]
       ELSE Goto(i, "metadata") /\ run' = [run EXCEPT !.step = 0, !.before = None]
    /\ UNCHANGED <<source, lock, outside, budget, settled>>

\* A rename failed: the backups made so far, or everything, must come back.
BackupFails(i) ==
    /\ pc[i] = "backup"
    /\ Spend("faults")
    /\ run' = [run EXCEPT !.step = @ - 1]
    /\ Goto(i, "restore")
    /\ UNCHANGED <<source, disk, lock, nextInc, outside, settled>>

PromoteFails(i) ==
    /\ pc[i] = "promote"
    /\ Spend("faults")
    /\ run' = [run EXCEPT !.step = @ - 1]
    /\ Goto(i, "unpromote")
    /\ UNCHANGED <<source, disk, lock, nextInc, outside, settled>>

\* rollback_main_store: remove what was promoted, newest first ...
Unpromote(i) ==
    /\ pc[i] = "unpromote"
    /\ IF run.step = 0
       THEN /\ run' = [run EXCEPT !.step = 4] /\ Goto(i, "restore")
            /\ UNCHANGED disk
       ELSE /\ disk' = [disk EXCEPT ![Artifact[run.step]] = None]
            /\ run' = [run EXCEPT !.step = @ - 1]
            /\ UNCHANGED pc
    /\ UNCHANGED <<source, lock, nextInc, outside, budget, settled>>

\* ... and restore_main_store_backups, newest first; then drop the backup.
Restore(i) ==
    /\ pc[i] = "restore"
    /\ IF run.step = 0
       THEN /\ disk' = [disk EXCEPT !.backup = None]
            /\ Goto(i, "unlock")
            /\ UNCHANGED run
       ELSE LET a == Artifact[run.step]
            IN /\ disk' = [disk EXCEPT ![a] = disk.backup.old[a],
                                       !.backup.old[a] = None]
               /\ run' = [run EXCEPT !.step = @ - 1]
               /\ UNCHANGED pc
    /\ UNCHANGED <<source, lock, nextInc, outside, budget, settled>>

\* Mutant: the failed rollback deletes the backup directory all the same.
RollbackFailsDropsBackup(i) ==
    /\ pc[i] \in {"unpromote", "restore"} /\ run.step > 0
    /\ Spend("faults")
    /\ disk' = [disk EXCEPT !.backup = None]
    /\ Goto(i, "unlock")
    /\ UNCHANGED <<source, lock, run, nextInc, outside, settled>>

\* The rollback fails too: the backup directory is kept behind its marker.
RollbackFails(i) ==
    /\ pc[i] \in {"unpromote", "restore"} /\ run.step > 0
    /\ Spend("faults")
    /\ disk' = [disk EXCEPT !.backup.retained = TRUE]
    /\ Goto(i, "unlock")
    /\ UNCHANGED <<source, lock, run, nextInc, outside, settled>>

-----------------------------------------------------------------------------
(* finalize_workspace_index_state and the end of the run.                  *)

WriteMetadata(i) ==
    /\ pc[i] = "metadata"
    /\ disk' = [disk EXCEPT !.meta = [gen |-> EarlyMeta.gen + 1, done |-> TRUE]]
    /\ Goto(i, "format")
    /\ UNCHANGED <<source, lock, run, nextInc, outside, budget, settled>>

WriteFormat(i) ==
    /\ pc[i] = "format"
    /\ disk' = [disk EXCEPT !.format = "current"]
    /\ Goto(i, "snapshot")
    /\ UNCHANGED <<source, lock, run, nextInc, outside, budget, settled>>

SaveSnapshot(i) ==
    /\ pc[i] = "snapshot"
    /\ disk' = [disk EXCEPT !.snapshot = run.snap]
    /\ run' = [run EXCEPT !.ok = TRUE]
    /\ Goto(i, "settle")
    /\ UNCHANGED <<source, lock, nextInc, outside, budget, settled>>

Identity == [inc |-> disk.incarnation,
             gen |-> IF disk.meta = None THEN None ELSE disk.meta.gen]

\* The marker is removed only on the way out of a successful run.
ClearMarker(i) ==
    /\ pc[i] = "settle"
    /\ disk' = [disk EXCEPT !.incomplete = None]
    /\ settled' = settled \cup {[id |-> Identity, content |-> disk.sqlite]}
    /\ Goto(i, "unlock")
    /\ UNCHANGED <<source, lock, run, nextInc, outside, budget>>

\* The lock is released first; the guard drops at the end of the function.
Unlock(i) ==
    /\ pc[i] = "unlock"
    /\ lock' = None
    /\ run' = NoRun
    /\ Goto(i, "drop")
    /\ UNCHANGED <<source, disk, nextInc, outside, budget, settled>>

\* IndexingGuard::drop removes the pid file, whoever wrote it by now.
DropGuard(i) ==
    /\ pc[i] = "drop"
    /\ disk' = [disk EXCEPT !.pid = None]
    /\ Goto(i, "idle")
    /\ UNCHANGED <<source, lock, run, nextInc, outside, budget, settled>>

-----------------------------------------------------------------------------
(* Failures, crashes and the other actors.                                 *)

Early   == {"inspect", "wipe", "identify"}   \* no guard yet: `?` just returns
Working == {"scan", "mark", "persist", "commit", "metadata", "format",
            "snapshot", "settle"}

FailEarly(i) ==
    /\ pc[i] \in Early
    /\ Spend("faults")
    /\ lock' = None
    /\ run' = NoRun
    /\ Goto(i, "idle")
    /\ UNCHANGED <<source, disk, nextInc, outside, settled>>

\* An error the retry loop does not repeat, or repeated for the last time.
Fail(i) ==
    /\ pc[i] \in Working
    /\ Spend("faults")
    /\ run' = [run EXCEPT !.ok = FALSE]
    /\ Goto(i, "unlock")
    /\ UNCHANGED <<source, disk, lock, nextInc, outside, settled>>

Attempts == 3    \* TANTIVY_INDEX_RETRY_ATTEMPTS

\* retry_transient_tantivy_writes runs index_workspace_inner again.
RetryTantivy(i) ==
    /\ pc[i] \in {"persist", "commit"}
    /\ run.attempt + 1 < Attempts
    /\ Spend("faults")
    /\ run' = [NewRun(FALSE, run.trust, run.paths) EXCEPT
                  !.rebuild = run.rebuild, !.healthy = run.healthy,
                  !.attempt = run.attempt + 1]
    /\ Goto(i, "scan")
    /\ UNCHANGED <<source, disk, lock, nextInc, outside, settled>>

\* SIGKILL or OOM: the flock goes with the process, its files stay.
Crash(i) ==
    /\ pc[i] # "idle"
    /\ Spend("faults")
    /\ disk' = [disk EXCEPT !.pid = IF @ = i THEN Dead ELSE @]
    /\ IF lock = i THEN lock' = None /\ run' = NoRun
                   ELSE UNCHANGED <<lock, run>>
    /\ Goto(i, "idle")
    /\ UNCHANGED <<source, nextInc, outside, settled>>

\* A health check by a reader sees a dead pid, and unlinks the file later.
ReaderSeesStalePid ==
    /\ PidStale /\ ~reaper
    /\ reaper' = TRUE
    /\ UNCHANGED <<source, disk, lock, pc, run, nextInc, add, budget, settled, rewound>>

ReaderUnlinksPid ==
    /\ reaper
    /\ reaper' = FALSE
    /\ disk' = [disk EXCEPT !.pid = None]
    /\ UNCHANGED <<source, lock, pc, run, nextInc, add, budget, settled, rewound>>

\* `ig --add` reads, changes and writes workspace.json without index.lock.
AddReads ==
    /\ add = None
    /\ Spend("adds")
    /\ add' = EarlyMeta
    /\ UNCHANGED <<source, disk, lock, pc, run, nextInc, reaper, settled, rewound>>

AddWrites ==
    /\ add # None
    /\ disk' = [disk EXCEPT !.meta = add]
    /\ add' = None
    /\ rewound' = (rewound \/ add # EarlyMeta)
    /\ UNCHANGED <<source, lock, pc, run, nextInc, reaper, budget, settled>>

\* A binary with another INDEX_FORMAT_VERSION takes over.
Upgrade ==
    /\ disk.format # None
    /\ \A i \in Indexers : pc[i] = "idle"
    /\ Spend("upgrades")
    /\ disk' = [disk EXCEPT !.format = None]
    /\ UNCHANGED <<source, lock, pc, run, nextInc, outside, settled>>

index == <<disk, lock, pc, run, nextInc, outside, budget, settled>>

Edit(p) ==
    /\ clock < MaxVersion
    /\ clock' = clock + 1
    /\ \/ files' = [files EXCEPT ![p] = clock'] /\ hidden' = [hidden EXCEPT ![p] = 0]
       \/ files[p] # 0 /\ files' = [files EXCEPT ![p] = 0] /\ UNCHANGED hidden
       \/ /\ files[p] # 0 /\ hidden[p] = 0
          /\ files' = [files EXCEPT ![p] = 0]
          /\ hidden' = [hidden EXCEPT ![p] = files[p]]
    /\ UNCHANGED index

\* The renamed directory returns; rename does not touch its files' ctime.
Return(p) ==
    /\ hidden[p] # 0
    /\ files' = [files EXCEPT ![p] = hidden[p]]
    /\ hidden' = [hidden EXCEPT ![p] = 0]
    /\ UNCHANGED <<clock, index>>

-----------------------------------------------------------------------------
Step(i) ==
    \/ Inspect(i) \/ Wipe(i) \/ WipeDone(i) \/ Identify(i) \/ Announce(i)
    \/ TrustWatcher(i) \/ ScanNoOp(i) \/ ScanIncremental(i) \/ ScanFresh(i)
    \/ MarkIncremental(i) \/ PersistPath(i) \/ CommitSqlite(i)
    \/ CommitTantivy(i) \/ MarkPromotion(i) \/ Backup(i) \/ Promote(i)
    \/ Unpromote(i) \/ Restore(i) \/ WriteMetadata(i) \/ WriteFormat(i)
    \/ SaveSnapshot(i) \/ ClearMarker(i) \/ Unlock(i) \/ DropGuard(i)

Failure(i) ==
    \/ BackupFails(i) \/ PromoteFails(i) \/ RollbackFails(i)
    \/ FailEarly(i) \/ Fail(i) \/ RetryTantivy(i) \/ Crash(i)

Others ==
    \/ ReaderSeesStalePid \/ ReaderUnlinksPid
    \/ AddReads \/ AddWrites \/ Upgrade
    \/ \E p \in Paths : Edit(p) \/ Return(p)

Next ==
    \/ \E i \in Indexers : Acquire(i) \/ AcquireRemove(i) \/ Step(i) \/ Failure(i)
    \/ Others

Spec == Init /\ [][Next]_vars

\* A full walk: no watcher paths, no trust in a live watcher.
AcquireFull(i) == Acquire(i) /\ run'.paths = {} /\ ~run'.trust

Fairness ==
    /\ \A i \in Indexers : WF_vars(Step(i)) /\ SF_vars(AcquireFull(i))
    /\ WF_vars(ReaderUnlinksPid)

FairSpec == Spec /\ Fairness

-----------------------------------------------------------------------------
(* Properties.                                                             *)

Promoting == {"backup", "promote", "unpromote", "restore"}
Labels == {"idle", "announce", "unlock", "drop"} \cup Early \cup Working
              \cup Promoting

Metas  == [gen : Nat, done : BOOLEAN]
Stamps == Versions \cup {Vanished}

StoresType ==
    [incarnation : Nat \cup {None}, sqlite : Content \cup {None},
     tantivy : Content \cup {Damaged, None}, vectors : {"hash", None}]

BackupType == [retained : BOOLEAN, old : StoresType]

DiskType ==
    [meta : Metas \cup {None}, format : {"current", None},
     snapshot : [Paths -> Stamps] \cup {None},
     incarnation : Nat \cup {None}, sqlite : Content \cup {None},
     tantivy : Content \cup {Damaged, None}, vectors : {"hash", None},
     incomplete : {"pending", None}, pid : Indexers \cup {Dead, None},
     backup : BackupType \cup {None}]

RunType ==
    [remove : BOOLEAN, trust : BOOLEAN, paths : SUBSET Paths,
     kept : Metas \cup {None}, healthy : BOOLEAN, rebuild : BOOLEAN,
     fresh : BOOLEAN, snap : [Paths -> Stamps], todo : SUBSET Paths,
     sq : Content, attempt : 0 .. Attempts - 1, step : 0 .. 4,
     before : StoresType \cup {None}, ok : BOOLEAN]

\* None is no snapshot and no store, no backup directory and no marker, no
\* incarnation and no metadata, and no publication.
ASSUME AbsenceAssumption ==
    /\ None \notin [Paths -> Stamps] /\ None \notin BackupType
    /\ None \notin Nat /\ None \notin Metas
    /\ None \notin {"pending", "hash"}
    /\ None \notin [id : [inc : Nat, gen : Nat], content : Content]

SourceOK == files \in Content /\ hidden \in Content /\ clock \in 1 .. MaxVersion

LockOK ==
    /\ lock \in Indexers \cup {None}
    /\ pc \in [Indexers -> Labels]
    /\ \A i \in Indexers : lock = i <=> pc[i] \notin {"idle", "drop"}

RunOK == IF lock = None THEN run = NoRun ELSE run \in RunType

PhaseOK ==
    \A i \in Indexers :
        /\ pc[i] \in Promoting => disk.backup \in BackupType
        /\ pc[i] \in {"backup", "promote"} => run.step \in 1 .. 4

OthersOK ==
    /\ nextInc \in Nat
    /\ reaper \in BOOLEAN
    /\ add \in Metas \cup {None}
    /\ budget \in [faults : Nat, removals : Nat, upgrades : Nat, adds : Nat]

\* Every variable has its type; a run exists exactly while index.lock is
\* held, its holder is the only indexer between acquiring and unlocking, and
\* a promotion works on a backup directory that is there.
TypeOK == SourceOK /\ disk \in DiskType /\ LockOK /\ RunOK /\ PhaseOK /\ OthersOK

\* What a search returns is one content, and a scan that finds no difference
\* for a path may skip it: a stamp that matches the live file describes the
\* version the stores hold.
Honest == \A p \in Paths : OldSnapshot[p] = files[p] => disk.sqlite[p] = files[p]

Sound ==
    /\ disk.sqlite # None /\ disk.tantivy = disk.sqlite
    /\ disk.vectors # None
    /\ Honest

\* A run that ends well leaves sound stores, whichever shortcut it took.
SettledIsSound == \A i \in Indexers : pc[i] = "settle" => Sound

\* Whenever the next run would accept the index as it is (healthy, no marker,
\* counts equal), it is sound, whatever crashed or failed before.
AcceptedIsSound ==
    Queryable /\ disk.incomplete = None /\ StorageValid => Sound

\* docs/architecture.md:219-223: the marker "survives failures and is cleared
\* only after stores, metadata, snapshot, and filter state publish
\* successfully", so nothing "can trust an unfinished publication".  With no
\* run in progress, an index the next run would accept is sound.
UnfinishedIsNeverTrusted == lock = None => AcceptedIsSound

\* While a promotion moves stores, each artifact of the previous generation
\* is live or in the backup directory; a failed rename never loses it.
NothingLost ==
    run # None => \/ run.before = None
                  \/ \A a \in Stores :
                        \/ disk[a] = run.before[a]
                        \/ /\ disk.backup # None
                           /\ disk.backup.old[a] = run.before[a]

\* Incarnation and generation together name the published content: no two runs
\* that ended well, however far apart and whatever was removed and built anew in
\* between, published two contents under one identity.
IdentityIsName == \A g, h \in settled : g.id = h.id => g.content = h.content

\* The same, up to the moment at which `ig --add` (run_add) writes back metadata
\* that a run has replaced since it was read: the generation it brings back is
\* given out a second time.
IdentityNamesContent == ~rewound => IdentityIsName

\* Once edits, faults and resets are over, the index catches up for good.
CatchesUp ==
    <>[](Queryable /\ disk.sqlite = files /\ disk.tantivy = files)
===============================================================================
