---------------------------- MODULE WorktreeOverlay ----------------------------
(***************************************************************************)
(* A Git worktree reads the index of the repository's main checkout (its   *)
(* base) through an overlay: chunks of the files that differ, and          *)
(* tombstones that hide files of the base (src/src/indexer.rs,             *)
(* src/src/workspace.rs, src/src/indexer/git_state.rs).                    *)
(*                                                                         *)
(* Two index directories, each with its lock, and two checkouts that the   *)
(* user edits at any time.  A run over the base publishes in the steps     *)
(* that IndexPublication takes apart; here the stores of a directory       *)
(* change in one step and the marker covers what lies between.  A run over *)
(* the worktree reads four things one after the other: the base's          *)
(* published state, the base's files, the worktree's stamps, its contents. *)
(***************************************************************************)
EXTENDS Naturals, FiniteSets

CONSTANTS
    Paths,
    Contents,
    Budgets,     \* how the checkouts start, and what may happen to them
    Leased,      \* whether searches hold the daemon's leases
    None

\* The stamps and contents of a checkout, the identity of an index, a checkout
\* state and what the two index directories hold.
PathStamps == [Paths -> Nat]
PathTexts == [Paths -> Contents \cup {None}]
Files == [Paths -> [c : Contents \cup {None}, s : Nat]]
Ref == [inc : Nat, gen : Nat]
Git == [head : PathTexts, staged : Nat]
BaseDir == [inc : Nat, gen : Nat, snap : PathStamps, chunks : PathTexts,
            marker : BOOLEAN, git : Git \cup {None}]
OverDir == [ref : Ref, snap : PathStamps, chunks : PathTexts, tombs : SUBSET Paths,
            marker : BOOLEAN, ready : BOOLEAN]

\* None stands for absence: no content and no directory.
ASSUME OverlayAssumption ==
    /\ Leased \in BOOLEAN
    /\ None \notin Contents /\ None \notin BaseDir /\ None \notin OverDir
    /\ Budgets \subseteq [base : SUBSET [Paths -> Contents \cup {None}],
                          tree : SUBSET [Paths -> Contents \cup {None}],
                          baseEdits : Nat, treeEdits : Nat, moves : Nat,
                          touches : Nat, commits : Nat, faults : Nat, removals : Nat]

VARIABLES
    baseFs,     \* the main checkout: per path its content and stamp
    treeFs,     \* the worktree
    head,       \* the contents the main checkout's HEAD commit names
    staged,     \* a version of the repository's .git/index
    slipped,    \* history: the main checkout changed where no run can tell
    base,       \* the base index directory, None if there is none
    over,       \* the worktree's index directory, None without an overlay
    baseRun,    \* the run that holds the base's index.lock
    treeRun,    \* the run that holds the worktree's index.lock
    since,      \* history: contents of the worktree since the last completed run
    fresh,      \* history: ... since the run in progress began to read
    nextInc,    \* the next index_incarnation
    left        \* what is left of the budget

fsVars == <<baseFs, treeFs, head, staged, slipped>>
vars == <<fsVars, base, over, baseRun, treeRun, since, fresh, nextInc, left>>
historyVars == <<since, fresh>>

Spend(kind) == left[kind] > 0 /\ left' = [left EXCEPT ![kind] = @ - 1]

\* A checkout as the walker lists it: a stamp per file (length, mtime, ctime),
\* fresh after every edit; 0 where there is no file.
Stamps(fs) == [p \in Paths |-> IF fs[p].c = None THEN 0 ELSE fs[p].s]
Texts(fs) == [p \in Paths |-> fs[p].c]
Checkout(texts) == [p \in Paths |-> [c |-> texts[p], s |-> 2]]
Vanished == 1       \* VANISHED_FILE_HASH: the stamp of no file
NoFiles == [p \in Paths |-> 0]
NoTexts == [p \in Paths |-> None]

\* `git status` reports no change against HEAD.
Clean == Texts(baseFs) = head

\* CleanGitCheckout::capture: HEAD and .git/index, of a clean checkout.
Captured == IF Clean THEN [head |-> head, staged |-> staged] ELSE None

Init ==
    \E b \in Budgets :
        /\ \E t \in b.base : baseFs = Checkout(t) /\ head = t
        /\ \E t \in b.tree : treeFs = Checkout(t)
        /\ left = [k \in DOMAIN b \ {"base", "tree"} |-> b[k]]
        /\ staged = 0 /\ slipped = FALSE /\ base = None /\ over = None
        /\ baseRun = None /\ treeRun = None /\ nextInc = 1
        /\ since = [p \in Paths |-> {}]
        /\ fresh = [p \in Paths |-> {treeFs[p].c}]

--------------------------------------------------------------------------------
(* Whether an overlay may be read. *)

Marked(dir) == dir # None /\ dir.marker

\* index_publication_is_unfinished: the marker of a live run does not count.
BaseUnfinished == Marked(base) /\ baseRun = None
OverUnfinished == Marked(over) /\ treeRun = None

\* Mutant: only the generation is compared.
SameGeneration == base # None /\ over.ref.gen = base.gen

\* The referenced generation and incarnation are the base's.
SameBase == base # None /\ over.ref = [inc |-> base.inc, gen |-> base.gen]

\* worktree_overlay_is_stale, its errors included (both lead to a rebuild).
Stale ==
    over # None /\ (OverUnfinished \/ BaseUnfinished \/ ~SameBase)

\* is_shadowed_base_file
Shadowed(p) == over.chunks[p] # None \/ p \in over.tombs

Merged == [p \in Paths |-> IF Shadowed(p) THEN over.chunks[p] ELSE base.chunks[p]]

\* A request in the daemon holds shared leases on both workspaces, so no run
\* is changing their stores.
Disturbed == Leased /\ ((baseRun # None /\ base # None /\ base.marker)
                        \/ (treeRun # None /\ Marked(over)))

\* reconcile_worktree_overlay and SearchContext::load: what a search would show.
Searchable == over # None /\ over.ready /\ ~Stale /\ ~Disturbed
View == IF Searchable THEN Merged ELSE None

--------------------------------------------------------------------------------
(* A run over the main checkout. *)

NewRun == [pc |-> "scan", git |-> None, snap |-> NoFiles, changed |-> {},
           lost |-> FALSE, fresh |-> FALSE, nested |-> FALSE]

\* Takes index.lock; a directory with a marker, or none, is built afresh.  The
\* checkout state is captured before the walk.
BaseLock(nested) ==
    /\ baseRun = None
    /\ baseRun' = [NewRun EXCEPT !.git = Captured, !.nested = nested,
                                 !.fresh = base = None \/ Marked(base)]

BaseStart ==
    /\ BaseLock(FALSE)
    /\ UNCHANGED <<fsVars, base, over, treeRun, historyVars, nextInc, left>>

BaseGo(label) == baseRun # None /\ baseRun.pc = label

\* Whoever waits for a nested run goes on after it.
BaseEnds(next) ==
    /\ baseRun' = None
    /\ treeRun' = IF baseRun.nested THEN next ELSE treeRun

Onward == [treeRun EXCEPT !.pc = "capture"]

\* Mutant: the recorded state is not compared with the indexed stamps.
RecordedUnchecked(git, dir) == IF git = Captured THEN git ELSE None

\* record_indexed_git_state: kept if the checkout is as captured and every
\* indexed path still has its stamp.
Recorded(git, dir) ==
    IF /\ git # None
       /\ git = Captured
       /\ \A p \in Paths : dir.snap[p] # 0 => dir.snap[p] = Stamps(baseFs)[p]
    THEN git ELSE None

\* The captured checkout is the recorded one, and still there.
Reusable == baseRun.git # None /\ baseRun.git = base.git /\ baseRun.git = Captured

\* Nothing to do: the recorded checkout is the current one, or the walk finds
\* every stamp as the snapshot has it.
BaseNoOp ==
    /\ BaseGo("scan") /\ ~baseRun.fresh
    /\ \/ Reusable /\ UNCHANGED base
       \/ /\ ~Reusable /\ Stamps(baseFs) = base.snap
          /\ base' = [base EXCEPT !.git = Recorded(baseRun.git, base)]
    /\ BaseEnds(Onward)
    /\ UNCHANGED <<fsVars, over, historyVars, nextInc, left>>

\* The walk; the marker is written before the stores change.
BaseScan ==
    /\ BaseGo("scan")
    /\ ~baseRun.fresh => ~Reusable /\ Stamps(baseFs) # base.snap
    /\ baseRun' = [baseRun EXCEPT
            !.pc = "write", !.snap = Stamps(baseFs),
            !.changed = {p \in Paths : baseRun.fresh \/ Stamps(baseFs)[p] # base.snap[p]}]
    /\ base' = IF base = None THEN None ELSE [base EXCEPT !.marker = TRUE]
    /\ UNCHANGED <<fsVars, over, treeRun, historyVars, nextInc, left>>

\* Reads the changed files and commits their chunks.  A rebuild gives the
\* directory a new incarnation.
BaseWrite ==
    /\ BaseGo("write")
    /\ base' =
         [inc |-> IF baseRun.fresh THEN nextInc ELSE base.inc,
          gen |-> IF base = None THEN 0 ELSE base.gen,
          snap |-> IF base = None THEN NoFiles ELSE base.snap,
          chunks |-> [p \in Paths |-> IF p \notin baseRun.changed THEN base.chunks[p]
                                      ELSE IF baseRun.snap[p] = 0 THEN None
                                      ELSE baseFs[p].c],
          marker |-> TRUE,
          git |-> IF base = None THEN None ELSE base.git]
    /\ nextInc' = IF baseRun.fresh THEN nextInc + 1 ELSE nextInc
    /\ baseRun' = [baseRun EXCEPT !.pc = "publish", !.changed = {},
                    !.lost = \E p \in baseRun.changed : baseRun.snap[p] # 0 /\ baseFs[p].c = None,
                    !.snap = [p \in Paths |-> IF p \in baseRun.changed /\ baseRun.snap[p] # 0
                                                  /\ baseFs[p].c = None
                                              THEN Vanished ELSE baseRun.snap[p]]]
    /\ UNCHANGED <<fsVars, over, treeRun, historyVars, left>>

\* finalize_workspace_index_state: the generation, then the snapshot.
BasePublish ==
    /\ BaseGo("publish")
    /\ base' = [base EXCEPT !.gen = @ + 1]
    /\ baseRun' = [baseRun EXCEPT !.pc = "finish"]
    /\ UNCHANGED <<fsVars, over, treeRun, historyVars, nextInc, left>>

\* Mutant: saves the stamps of a second walk.
BaseFinishRescans ==
    /\ BaseGo("finish")
    /\ base' = [base EXCEPT !.snap = Stamps(baseFs), !.marker = FALSE, !.git = None]
    /\ BaseEnds(Onward)
    /\ UNCHANGED <<fsVars, over, historyVars, nextInc, left>>

BaseFinish ==
    /\ BaseGo("finish")
    /\ LET done == [base EXCEPT !.snap = baseRun.snap, !.marker = FALSE]
       IN base' = [done EXCEPT !.git = Recorded(IF baseRun.lost THEN None ELSE baseRun.git, done)]
    /\ BaseEnds(Onward)
    /\ UNCHANGED <<fsVars, over, historyVars, nextInc, left>>

\* The run fails or its process is killed; a marker stays.
BaseFails ==
    /\ baseRun # None
    /\ Spend("faults")
    /\ BaseEnds(None)
    /\ UNCHANGED <<fsVars, base, over, historyVars, nextInc>>

\* ig --rm, or the collector.
BaseRemoved ==
    /\ baseRun = None /\ base # None
    /\ Spend("removals")
    /\ base' = None
    /\ UNCHANGED <<fsVars, over, baseRun, treeRun, historyVars, nextInc>>

--------------------------------------------------------------------------------
(* refresh_clean_base_metadata: a run over the worktree that finds the base's *)
(* checkout clean does not index it again.                                    *)

AwaitsBase == treeRun # None /\ treeRun.pc = "base" /\ baseRun = None

\* base_index_checkout_state
CheckoutState ==
    CASE base = None \/ Marked(base) -> "stale"
      [] OTHER -> IF Captured = None \/ base.git = None \/ base.git.head # head THEN "stale"
                  ELSE IF base.git = Captured THEN "current" ELSE "metadataChanged"

\* The checkout is the recorded one.
BaseCurrent ==
    /\ AwaitsBase /\ CheckoutState = "current"
    /\ treeRun' = Onward
    /\ UNCHANGED <<fsVars, base, over, baseRun, historyVars, nextInc, left>>

\* HEAD is the recorded one and only .git/index differs: check it is so ...
BaseTouched ==
    /\ AwaitsBase /\ CheckoutState = "metadataChanged"
    /\ baseRun' = [NewRun EXCEPT !.pc = "resnap", !.nested = TRUE]
    /\ UNCHANGED <<fsVars, base, over, treeRun, historyVars, nextInc, left>>

\* ... capture again, walk and save the snapshot ...
BaseResnap ==
    /\ BaseGo("resnap")
    /\ base' = [base EXCEPT !.snap = Stamps(baseFs)]
    /\ baseRun' = [baseRun EXCEPT !.pc = "record", !.git = Captured]
    /\ slipped' = (slipped \/ Texts(baseFs) # base.git.head)
    /\ UNCHANGED <<baseFs, treeFs, head, staged, over, treeRun, historyVars, nextInc, left>>

\* ... and record the state.  If that fails the base is indexed after all.
BaseRecord ==
    /\ BaseGo("record")
    /\ base' = [base EXCEPT !.git = Recorded(baseRun.git, base)]
    /\ IF base'.git # None
       THEN BaseEnds(Onward)
       ELSE /\ baseRun' = [NewRun EXCEPT !.git = Captured, !.nested = TRUE]
            /\ UNCHANGED treeRun
    /\ UNCHANGED <<fsVars, over, historyVars, nextInc, left>>

\* Anything else is stale, and the base is indexed first.
BaseIndexed ==
    /\ AwaitsBase /\ CheckoutState = "stale"
    /\ BaseLock(TRUE)
    /\ UNCHANGED <<fsVars, base, over, treeRun, historyVars, nextInc, left>>

--------------------------------------------------------------------------------
(* A run over the worktree. *)

NewTreeRun == [pc |-> "base", ref |-> None, indexed |-> NoFiles, old |-> NoTexts,
               meta |-> NoFiles, new |-> NoTexts, take |-> {}, hide |-> {}, clear |-> {}]

\* Mutant: an overlay is kept although its base moved on.
CoursesKeepStale ==
    IF over = None \/ ~over.ready \/ over.marker THEN {"base"} ELSE {"compare"}

\* An overlay that is missing, unfinished or stale is built afresh, another is
\* updated.  The stores of a base in the middle of a run may fail validation.
Courses ==
    IF over = None \/ ~over.ready \/ over.marker \/ Stale THEN {"base"}
    ELSE IF Marked(base) THEN {"base", "compare"} ELSE {"compare"}

\* Takes the worktree's index.lock.
TreeStart ==
    /\ treeRun = None
    /\ \E course \in Courses : treeRun' = [NewTreeRun EXCEPT !.pc = course]
    /\ UNCHANGED <<fsVars, base, over, baseRun, historyVars, nextInc, left>>

TreeGo(label) == treeRun # None /\ treeRun.pc = label

\* capture_base_overlay_state, under the base's lock.
CaptureBase ==
    /\ TreeGo("capture") /\ baseRun = None
    /\ base # None /\ ~Marked(base)
    /\ treeRun' = [treeRun EXCEPT !.pc = "live", !.indexed = base.snap,
                                  !.ref = [inc |-> base.inc, gen |-> base.gen]]
    /\ UNCHANGED <<fsVars, base, over, baseRun, historyVars, nextInc, left>>

\* The base is gone or unfinished again: the run fails.
CaptureFails ==
    /\ TreeGo("capture") /\ baseRun = None
    /\ base = None \/ Marked(base)
    /\ treeRun' = None
    /\ UNCHANGED <<fsVars, base, over, baseRun, historyVars, nextInc, left>>

\* MerkleSnapshot::build_content_based of the main checkout.
ReadBase ==
    /\ TreeGo("live")
    /\ treeRun' = [treeRun EXCEPT !.pc = "stamps", !.old = Texts(baseFs)]
    /\ UNCHANGED <<fsVars, base, over, baseRun, historyVars, nextInc, left>>

\* MerkleSnapshot::build of the worktree, before its contents.
ReadStamps ==
    /\ TreeGo("stamps")
    /\ treeRun' = [treeRun EXCEPT !.pc = "contents", !.meta = Stamps(treeFs)]
    /\ fresh' = [p \in Paths |-> {treeFs[p].c}]
    /\ UNCHANGED <<fsVars, base, over, baseRun, since, nextInc, left>>

ReadContents ==
    /\ TreeGo("contents")
    /\ treeRun' = [treeRun EXCEPT !.pc = "diff", !.new = Texts(treeFs)]
    /\ UNCHANGED <<fsVars, base, over, baseRun, historyVars, nextInc, left>>

\* A path is left to the base if the base indexed the file that is there now,
\* and both checkouts have the same content.
Inherited(p) ==
    /\ treeRun.indexed[p] # 0
    /\ treeRun.indexed[p] = Stamps(baseFs)[p]
    /\ treeRun.old[p] = treeRun.new[p]

\* validate_overlay_snapshot: both walks list the same files, and each still has
\* the stamp of the first.
SnapshotValid ==
    \A p \in Paths : IF treeRun.new[p] = None THEN treeRun.meta[p] = 0
                     ELSE treeRun.meta[p] # 0 /\ treeRun.meta[p] = Stamps(treeFs)[p]

\* initial_overlay_diff
InitialDiff ==
    /\ TreeGo("diff") /\ SnapshotValid
    /\ LET take == {p \in Paths : treeRun.new[p] # None /\ ~Inherited(p)}
           gone == {p \in Paths : treeRun.new[p] = None /\ treeRun.indexed[p] # 0}
       IN treeRun' = [treeRun EXCEPT
             !.pc = "build", !.take = take,
             !.hide = gone \cup {p \in take : treeRun.indexed[p] # 0},
             !.indexed = NoFiles, !.old = NoTexts, !.new = NoTexts]
    /\ UNCHANGED <<fsVars, base, over, baseRun, historyVars, nextInc, left>>

\* The worktree changed while it was read: the run fails.
SnapshotInvalid ==
    /\ TreeGo("diff") /\ ~SnapshotValid
    /\ treeRun' = None
    /\ UNCHANGED <<fsVars, base, over, baseRun, historyVars, nextInc, left>>

\* Chunks the files of the overlay in a staging directory.
Chunked(paths) == [p \in Paths |-> IF p \in paths THEN treeFs[p].c ELSE None]

\* A file that vanished since the walk gets a stamp that matches no file.
WithVanished(stamps, paths) ==
    [p \in Paths |-> IF p \in paths /\ treeFs[p].c = None THEN Vanished ELSE stamps[p]]

BuildOverlay ==
    /\ TreeGo("build")
    /\ treeRun' = [treeRun EXCEPT !.pc = "promote", !.new = Chunked(treeRun.take),
                                  !.meta = WithVanished(treeRun.meta, treeRun.take),
                                  !.take = {}]
    /\ UNCHANGED <<fsVars, base, over, baseRun, historyVars, nextInc, left>>

\* promote_overlay: workspace.json and the format version leave first ...
Unpublish ==
    /\ TreeGo("promote")
    /\ over' = IF over = None THEN None ELSE [over EXCEPT !.ready = FALSE]
    /\ treeRun' = [treeRun EXCEPT !.pc = "publish"]
    /\ UNCHANGED <<fsVars, base, baseRun, historyVars, nextInc, left>>

\* ... and come back last, after the stores, base_ref.json and the snapshot;
\* then the marker of an earlier failure is removed.
PublishOverlay ==
    /\ TreeGo("publish")
    /\ over' = [ref |-> treeRun.ref, snap |-> treeRun.meta, chunks |-> treeRun.new,
                tombs |-> treeRun.hide, marker |-> FALSE, ready |-> TRUE]
    /\ treeRun' = None
    /\ since' = fresh
    /\ UNCHANGED <<fsVars, base, baseRun, fresh, nextInc, left>>

--------------------------------------------------------------------------------
(* An incremental run over the worktree. *)

\* Loads the base's snapshot, without its lock, and walks the worktree.
CompareStamps ==
    /\ TreeGo("compare")
    /\ treeRun' = IF Stamps(treeFs) = over.snap THEN None
                  ELSE [treeRun EXCEPT
                          !.pc = "sort", !.meta = Stamps(treeFs),
                          !.indexed = IF base = None THEN NoFiles ELSE base.snap]
    /\ fresh' = [p \in Paths |-> {treeFs[p].c}]
    /\ since' = IF Stamps(treeFs) = over.snap THEN fresh' ELSE since
    /\ UNCHANGED <<fsVars, base, over, baseRun, nextInc, left>>

\* A changed path whose content is the base's again.
ReturnsToBase(p) ==
    /\ treeRun.indexed[p] # 0
    /\ treeRun.indexed[p] = Stamps(baseFs)[p]
    /\ treeFs[p].c = baseFs[p].c

\* Sorts the changed paths, then writes the marker.
SortChanges ==
    /\ TreeGo("sort")
    /\ LET changed == {p \in Paths : treeRun.meta[p] # over.snap[p]}
           there   == {p \in changed : treeRun.meta[p] # 0}
           back    == {p \in there : ReturnsToBase(p)}
           inBase  == {p \in Paths : treeRun.indexed[p] # 0}
       IN treeRun' = [treeRun EXCEPT
             !.pc = "update", !.take = there \ back, !.indexed = NoFiles,
             !.hide = (changed \ back) \cap inBase,
             !.clear = back \cup ((changed \ there) \ inBase)]
    /\ over' = [over EXCEPT !.marker = TRUE]
    /\ UNCHANGED <<fsVars, base, baseRun, historyVars, nextInc, left>>

\* Removes the chunks of every changed path, adds tombstones for those the base
\* has, drops them for those it shall show again, and chunks the rest.
UpdateOverlay ==
    /\ TreeGo("update")
    /\ LET gone == treeRun.clear \cup treeRun.hide \cup treeRun.take
       IN over' = [over EXCEPT
             !.chunks = [p \in Paths |-> IF p \in gone THEN Chunked(treeRun.take)[p] ELSE @[p]],
             !.tombs = (@ \ treeRun.clear) \cup treeRun.hide]
    /\ treeRun' = [treeRun EXCEPT !.pc = "finish",
                                  !.meta = WithVanished(treeRun.meta, treeRun.take)]
    /\ UNCHANGED <<fsVars, base, baseRun, historyVars, nextInc, left>>

FinishUpdate ==
    /\ TreeGo("finish")
    /\ over' = [over EXCEPT !.snap = treeRun.meta, !.marker = FALSE]
    /\ treeRun' = None
    /\ since' = fresh
    /\ UNCHANGED <<fsVars, base, baseRun, fresh, nextInc, left>>

\* A run over the worktree fails or is killed.
TreeFails ==
    /\ treeRun # None
    /\ treeRun.pc = "base" => baseRun = None
    /\ Spend("faults")
    /\ treeRun' = None
    /\ UNCHANGED <<fsVars, base, over, baseRun, historyVars, nextInc>>

--------------------------------------------------------------------------------
(* The user. *)

SetFile(fs, p, c) == [fs EXCEPT ![p] = [c |-> c, s |-> @.s + 1]]

\* Saves a file of the main checkout: another content, or a new file.
EditBase(p, c) ==
    /\ Spend("baseEdits")
    /\ baseFs[p].c # c
    /\ baseFs[p].c # None \/ head[p] = None
    /\ baseFs' = SetFile(baseFs, p, c)
    /\ UNCHANGED <<treeFs, head, staged, slipped, base, over, baseRun, treeRun, historyVars, nextInc>>

\* A run that captured a clean checkout walked it while this file was away.
Missed(p) ==
    /\ baseRun # None /\ baseRun.pc \in {"write", "publish", "finish"}
    /\ baseRun.git # None /\ baseRun.snap[p] = 0
    /\ head[p] # None /\ baseFs[p].c = None

\* Moves a file away, or a committed file back to its place.
MoveBase(p) ==
    /\ Spend("moves")
    /\ \/ baseFs[p].c # None /\ baseFs' = SetFile(baseFs, p, None)
       \/ baseFs[p].c = None /\ head[p] # None /\ baseFs' = SetFile(baseFs, p, head[p])
    /\ slipped' = (slipped \/ Missed(p))
    /\ UNCHANGED <<treeFs, head, staged, base, over, baseRun, treeRun, historyVars, nextInc>>

\* git rewrites .git/index, without or with a commit.
Touch ==
    /\ Spend("touches")
    /\ staged' = staged + 1
    /\ UNCHANGED <<baseFs, treeFs, head, slipped, base, over, baseRun, treeRun, historyVars, nextInc>>

Commit ==
    /\ Spend("commits")
    /\ head # Texts(baseFs)
    /\ head' = Texts(baseFs) /\ staged' = staged + 1
    /\ UNCHANGED <<baseFs, treeFs, slipped, base, over, baseRun, treeRun, historyVars, nextInc>>

\* Saves or deletes a file of the worktree.
EditTree(p, c) ==
    /\ Spend("treeEdits")
    /\ treeFs[p].c # c
    /\ treeFs' = SetFile(treeFs, p, c)
    /\ since' = [since EXCEPT ![p] = @ \cup {c}]
    /\ fresh' = [fresh EXCEPT ![p] = @ \cup {c}]
    /\ UNCHANGED <<baseFs, head, staged, slipped, base, over, baseRun, treeRun, nextInc>>

User ==
    \/ \E p \in Paths, c \in Contents : EditBase(p, c)
    \/ \E p \in Paths : MoveBase(p)
    \/ \E p \in Paths, c \in Contents \cup {None} : EditTree(p, c)
    \/ Touch \/ Commit

BaseStep == BaseNoOp \/ BaseScan \/ BaseWrite \/ BasePublish \/ BaseFinish
            \/ BaseResnap \/ BaseRecord

TreeStep ==
    \/ BaseCurrent \/ BaseTouched \/ BaseIndexed
    \/ CaptureBase \/ CaptureFails \/ ReadBase \/ ReadStamps \/ ReadContents
    \/ InitialDiff \/ SnapshotInvalid \/ BuildOverlay \/ Unpublish \/ PublishOverlay
    \/ CompareStamps \/ SortChanges \/ UpdateOverlay \/ FinishUpdate

Next ==
    \/ BaseStart \/ BaseStep \/ BaseFails \/ BaseRemoved
    \/ TreeStart \/ TreeStep \/ TreeFails
    \/ User

Spec == Init /\ [][Next]_vars

\* A search reconciles a stale overlay and the watcher indexes an edited
\* worktree, so a run over the worktree starts again and again; a run that
\* started goes on.  It waits for the base's lock in turn with others (the
\* kernel serves the waiters of a file lock in order), hence SF.  Nothing indexes
\* the base of its own accord.
Fairness ==
    WF_vars(TreeStart) /\ SF_vars(TreeStep) /\ WF_vars(BaseStep)

FairSpec == Spec /\ Fairness

--------------------------------------------------------------------------------
(* Properties *)


BaseRuns == [pc : {"scan", "write", "publish", "finish", "resnap", "record"},
             git : Git \cup {None}, snap : PathStamps, changed : SUBSET Paths,
             lost : BOOLEAN, fresh : BOOLEAN, nested : BOOLEAN]
TreeRuns == [pc : {"base", "capture", "live", "stamps", "contents", "diff", "build",
                   "promote", "publish", "compare", "sort", "update", "finish"},
             ref : Ref \cup {None}, indexed : PathStamps, old : PathTexts,
             meta : PathStamps, new : PathTexts, take : SUBSET Paths,
             hide : SUBSET Paths, clear : SUBSET Paths]

TypeOK ==
    /\ baseFs \in Files
    /\ treeFs \in Files
    /\ head \in PathTexts /\ staged \in Nat /\ nextInc \in Nat /\ slipped \in BOOLEAN
    /\ base \in BaseDir \cup {None}
    /\ over \in OverDir \cup {None}
    /\ baseRun \in BaseRuns \cup {None}
    /\ treeRun \in TreeRuns \cup {None}
    /\ since \in [Paths -> SUBSET (Contents \cup {None})]
    /\ fresh \in [Paths -> SUBSET (Contents \cup {None})]

\* docs/architecture.md:25, "Git worktrees reuse data without leaking base
\* content": a search of the worktree shows the worktree, whatever happens to the
\* base.
Plain == INSTANCE WorktreeView WITH tree <- Texts(treeFs), view <- View
NeverLeaks == Plain!Spec

\* The same of a search under the daemon's leases, while the base is edited,
\* committed, indexed, removed and built again, up to the moment at which the main
\* checkout slips: a file is away only while a run walks (Missed), or the checkout is
\* not the recorded one any more when its snapshot is saved again (BaseResnap).
Promise == INSTANCE WorktreeView WITH tree <- Texts(treeFs),
                                      view <- IF slipped THEN None ELSE View
ShowsTheWorktree == Promise!Spec

\* indexer.rs:911: "The index holds no chunks for a file that vanished during the
\* run, even if the checkout is clean again. Do not record it as current."  A base
\* recorded as the clean checkout it still is holds exactly that checkout; a run
\* and an overlay then skip the scan.
RecordedIsIndexed ==
    base # None /\ ~base.marker /\ base.git # None /\ base.git = Captured
        => base.chunks = head

\* The same until the main checkout slips.
CleanIsIndexed == ~slipped => RecordedIsIndexed

\* Whatever the next walk of the base would find unchanged is indexed as it is.
UnchangedIsIndexed ==
    base # None /\ ~base.marker /\ baseRun = None
        => \A p \in Paths : base.snap[p] = Stamps(baseFs)[p] => base.chunks[p] = baseFs[p].c

\* The same until the main checkout slips.
SnapshotIsHonest == ~slipped => UnchangedIsIndexed

\* Once the user and the faults are done, searches of the worktree are
\* answered, and exactly, unless the main checkout has slipped.
Converges == <>[](slipped \/ View = Texts(treeFs))
================================================================================
