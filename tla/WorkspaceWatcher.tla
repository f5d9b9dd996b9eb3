-------------------------- MODULE WorkspaceWatcher --------------------------
(***************************************************************************)
(* The watcher of one workspace in the daemon: the callback of the watch   *)
(* backend, which filters events and queues work; the worker task, which   *)
(* scans at startup, applies the queued work and retries what failed; the  *)
(* supervisor, which registers missing watchers and releases those whose   *)
(* root has gone; explicit Index requests, which may satisfy the startup   *)
(* scan or stop the watcher; and searches that wait for it to be ready.    *)
(*                                                                         *)
(* A file is a version number, and the ignore rules are the set of files   *)
(* that they hide.  The workspace's directory is an incarnation number: a  *)
(* backend watches the directory that was there when it was registered.    *)
(* The Git metadata outside the workspace and its watch are left out, and  *)
(* so is what the ledger records (JobLedger).                              *)
(***************************************************************************)
EXTENDS Naturals, FiniteSets

CONSTANTS
    Watches,    \* registrations (WatchControl), numbered in the order of need
    Files,      \* files of the workspace
    Rules,      \* sets of files that the ignore files may hide at first
    Searches,   \* searches that wait for readiness
    Explicit,   \* an explicit Index request, as a holder of the lease
    Supervisor, \* the supervisor, as one who registers watchers
    None,       \* no holder, no registration
    Budgets     \* what the environment may do, see Spend

ASSUME Numbered == Watches \subseteq Nat
ASSUME RulesAreOfFiles == Rules \subseteq SUBSET Files
ASSUME GoesOnce == \A b \in Budgets : b.vanishes <= 1
ASSUME Distinct ==
    /\ Explicit \notin Watches /\ None \notin Watches \cup {Explicit}
    /\ Explicit # Supervisor /\ {Explicit, Supervisor, None} \cap Searches = {}

VARIABLES
    tree,       \* version of every file in the workspace
    rules,      \* files that the ignore files hide
    root,       \* incarnation of the workspace directory, 0 when it is gone
    index,      \* version of every file in the index, 0 for none
    meta,       \* metadata: watch_enabled, and whether last_indexed_at is set
    registered, \* the entry of the workspace in `watchers`
    building,   \* who holds the lock of `watchers` to register or refresh,
                \* with the filter it has built, or None
    recovery,   \* watcher_recovery: none, inside its back-off, or due
    control,    \* WatchControl and event filter of every registration
    events,     \* what the backend of a registration has not delivered yet
    worker,     \* worker task of every registration
    lease,      \* holder of the exclusive workspace lease
    scan,       \* what the holder's scan has to read and has read
    request,    \* the explicit Index request: the control it found, or None
    asking,     \* searches: the registration each waits for, or None
    left        \* remaining budget of the environment

disk == <<tree, rules, root>>
vars == <<disk, index, meta, registered, building, recovery, control, events,
          worker, lease, scan, request, asking, left>>

Nothing == [f \in {} |-> 0]
Unread == None      \* the scan has not reached the file

NoWork == [kind |-> "none", paths |-> {}]
FullWork == [kind |-> "full", paths |-> {}]
PathWork(paths) == [kind |-> "paths", paths |-> paths]
Startup == [kind |-> "startup", paths |-> {}]

\* WatchControl::new, with the filter of the registration.  `misled` records
\* for the properties which visible files the filter hid when it was installed
\* and has hidden since.
NewControl(filter) ==
    [active |-> TRUE, pending |-> NoWork, indexing |-> FALSE, scanRequired |-> TRUE,
     reconciling |-> TRUE, readiness |-> "reconciling", permit |-> TRUE,
     filter |-> filter, root |-> root, misled |-> filter \ rules]

NoControl == [NewControl({}) EXCEPT !.active = FALSE, !.permit = FALSE, !.root = 0]

Spend(kind) == left[kind] > 0 /\ left' = [left EXCEPT ![kind] = @ - 1]

Init ==
    /\ tree = [f \in Files |-> 1]
    /\ rules \in Rules
    /\ root = 1
    /\ index = [f \in Files |-> 0]
    /\ meta \in [enabled : {TRUE}, indexed : BOOLEAN]
    /\ registered = None
    /\ building = None
    /\ recovery = "none"
    /\ control = [w \in Watches |-> NoControl]
    /\ events = [w \in Watches |-> {}]
    /\ worker = [w \in Watches |-> [pc |-> "unborn", work |-> NoWork]]
    /\ lease = None
    /\ scan = Nothing
    /\ request = None
    /\ asking = [s \in Searches |-> None]
    /\ left \in Budgets

\* What a scan finds of a file.
Visible(f) == IF f \in rules \/ root = 0 THEN 0 ELSE tree[f]

-----------------------------------------------------------------------------
\* WatchControl.

\* mark_paths_dirty.
WithPaths(c, paths) ==
    [c EXCEPT !.pending = IF c.pending.kind = "full" THEN @
                          ELSE PathWork(c.pending.paths \cup paths),
              !.permit = TRUE]

\* mark_full_reconciliation, also behind requeue_failed_index.
WithFull(c) == [c EXCEPT !.pending = FullWork, !.permit = TRUE]

\* Mutant: claimed work does not hold readiness back.
CaughtUpUnclaimed(c) == c.active /\ c.reconciling /\ ~c.scanRequired /\ c.pending = NoWork

\* The conditions of publish_initial_watch_readiness_if_caught_up.
CaughtUp(c) ==
    /\ c.active /\ c.reconciling /\ ~c.scanRequired
    /\ c.pending = NoWork
    /\ ~c.indexing

PublishedIfCaughtUp(c) ==
    IF CaughtUp(c) THEN [c EXCEPT !.reconciling = FALSE, !.readiness = "ready"] ELSE c

\* complete_initial_watch_reconciliation.
ScanCompleted(c) ==
    IF c.active /\ c.reconciling
      THEN PublishedIfCaughtUp([c EXCEPT !.scanRequired = FALSE]) ELSE c

\* Mutant: a stop leaves readiness as it was.
StoppedQuietly(c) == [c EXCEPT !.active = FALSE]

\* stop_watcher.
Stopped(c) == [c EXCEPT !.active = FALSE, !.readiness = "stopped"]

\* Its notify_waiters: only a worker that waits is woken.
Woken(w) == IF worker[w].pc = "parked" THEN "woken" ELSE worker[w].pc

\* The registration leaves the registry and is stopped.
Unregister(w) ==
    /\ registered' = None
    /\ control' = [control EXCEPT ![w] = Stopped(@)]
    /\ worker' = [worker EXCEPT ![w].pc = Woken(w)]
    /\ events' = [events EXCEPT ![w] = {}]

NextWatch == {w \in Watches : /\ worker[w].pc = "unborn"
                              /\ \A v \in Watches : v < w => worker[v].pc # "unborn"}

\* register_resolved_watcher takes the lock of `watchers` and builds the filter
\* from the ignore files of the moment, for a new registration or for one that
\* is refreshed.
Build(by) ==
    /\ building = None
    /\ registered = None => NextWatch # {}
    /\ building' = [by |-> by, filter |-> rules]

\* A new registration: the backend watches from here on, the control is
\* entered, the worker is spawned and given a permit.
Enter(w) ==
    /\ registered = None /\ root # 0
    /\ registered' = w
    /\ control' = [control EXCEPT ![w] = NewControl(building.filter)]
    /\ worker' = [worker EXCEPT ![w].pc = "parking"]
    /\ UNCHANGED events

\* The end of refresh_watch_registration: the filter that was built replaces
\* the callback's, which may be newer.
Refresh ==
    /\ registered # None
    /\ control' = [control EXCEPT
                     ![registered].filter = building.filter,
                     ![registered].misled = @ \cup (building.filter \ rules)]
    /\ UNCHANGED <<registered, events, worker>>

\* The backend cannot watch: it has no room, or the root has gone.
NotWatched ==
    /\ registered = None
    /\ IF root = 0 THEN UNCHANGED left ELSE Spend("regfails")
    /\ UNCHANGED <<registered, control, events, worker>>

-----------------------------------------------------------------------------
\* The disk and the backend.

Live(w) == registered = w /\ control[w].root = root

\* Every backend that watches the directory gets to know.
Reported(e) == events' = [w \in Watches |-> IF Live(w) THEN events[w] \cup {e} ELSE events[w]]

EditFile(f) ==
    /\ root # 0
    /\ Spend("edits")
    /\ tree' = [tree EXCEPT ![f] = @ + 1]
    /\ Reported(f)
    /\ UNCHANGED <<rules, root, index, meta, registered, recovery, control, worker,
                   lease, scan, request, asking, building>>

\* An ignore file hides a file or shows it again.
EditRules(f) ==
    /\ root # 0
    /\ Spend("rules")
    /\ rules' = IF f \in rules THEN rules \ {f} ELSE rules \cup {f}
    /\ Reported("config")
    /\ UNCHANGED <<tree, root, index, meta, registered, recovery, control, worker,
                   lease, scan, request, asking, building>>

\* The backend loses its queue, or fails, and says so.
Overflow(w) ==
    /\ events[w] # {} /\ "rescan" \notin events[w]
    /\ Spend("overflows")
    /\ events' = [events EXCEPT ![w] = {"rescan"}]
    /\ UNCHANGED <<disk, index, meta, registered, recovery, control, worker,
                   lease, scan, request, asking, building>>

\* The directory goes, once; it comes back with other files.
Vanish ==
    /\ root # 0
    /\ Spend("vanishes")
    /\ root' = 0
    /\ UNCHANGED <<tree, rules, index, meta, registered, recovery, control, events,
                   worker, lease, scan, request, asking, building>>

Return ==
    /\ root = 0
    /\ root' = 2
    /\ tree' = [f \in Files |-> tree[f] + 1]
    /\ UNCHANGED <<rules, index, meta, registered, recovery, control, events,
                   worker, lease, scan, request, asking, left, building>>

\* path_should_reindex, with the rules the filter knows.
ShouldReindex(c, e) == e \notin c.filter

\* An ignore file, a checkout that appears over indexed files and a queue that
\* was lost ask for a full reconciliation.
AsksForScan(e) == e \notin Files

\* Mutant: a lost queue is made good without reading the ignore files again.
RefreshedNever(c) == c

\* WatchEventFilter::refresh, in the callback.
Refreshed(c) == [c EXCEPT !.filter = rules, !.misled = {}]

\* change_for_event: nothing, a path, or everything.
ChangeForEvent(c, e) ==
    IF AsksForScan(e) THEN WithFull(Refreshed(c))
    ELSE IF ShouldReindex(c, e) THEN WithPaths(c, {e}) ELSE c

\* handle_watch_result.
Deliver(w, e) ==
    /\ e \in events[w]
    /\ events' = [events EXCEPT ![w] = @ \ {e}]
    /\ control' = [control EXCEPT ![w] = ChangeForEvent(@, e)]
    /\ UNCHANGED <<disk, index, meta, registered, recovery, worker, lease, scan,
                   request, asking, left, building>>

-----------------------------------------------------------------------------
\* The worker task.

At(w, from) == worker[w].pc = from

Goto(w, to) ==
    /\ worker' = [worker EXCEPT ![w].pc = to]
    /\ UNCHANGED <<disk, index, meta, registered, recovery, control, events, lease,
                   scan, request, asking, left, building>>

\* notified().await, and the permit of a notify_one.
Park(w) == At(w, "parking") /\ Goto(w, "parked")

Wake(w) ==
    /\ At(w, "parked") /\ control[w].permit
    /\ control' = [control EXCEPT ![w].permit = FALSE]
    /\ worker' = [worker EXCEPT ![w].pc = "woken"]
    /\ UNCHANGED <<disk, index, meta, registered, recovery, events, lease, scan,
                   request, asking, left, building>>

\* wait_for_watch_quiet is bounded; the worker then marks itself indexing.
Debounce(w) ==
    /\ At(w, "woken")
    /\ control' = [control EXCEPT ![w].indexing = control[w].active]
    /\ worker' = [worker EXCEPT ![w].pc = IF control[w].active THEN "loop" ELSE "ended"]
    /\ UNCHANGED <<disk, index, meta, registered, recovery, events, lease, scan,
                   request, asking, left, building>>

\* take_pending_work, or the startup scan.
Take(w) ==
    LET c == control[w]
        work == IF c.pending # NoWork THEN c.pending
                ELSE IF c.scanRequired THEN Startup ELSE NoWork
    IN /\ At(w, "loop")
       /\ IF c.active /\ work # NoWork
            THEN /\ worker' = [worker EXCEPT ![w] = [pc |-> "lease", work |-> work]]
                 /\ control' = [control EXCEPT ![w].pending = NoWork]
            ELSE /\ worker' = [worker EXCEPT ![w].pc = "close"]
                 /\ UNCHANGED control
       /\ UNCHANGED <<disk, index, meta, registered, recovery, events, lease, scan,
                      request, asking, left, building>>

\* Under the lease: nothing if the watcher was stopped, or somebody else made
\* the startup scan; otherwise a scan of everything or of the paths.
Begin(w) ==
    LET c == control[w]
        work == worker[w].work
        idle == ~c.active \/ (work = Startup /\ ~c.scanRequired)
    IN /\ At(w, "lease")
       /\ lease = None
       /\ IF idle
            THEN /\ worker' = [worker EXCEPT ![w].pc = "ok"]
                 /\ UNCHANGED <<lease, scan>>
            ELSE /\ worker' = [worker EXCEPT ![w].pc = "walk"]
                 /\ lease' = w
                 /\ scan' = [f \in (IF work.paths = {} \/ c.scanRequired
                                      THEN Files ELSE work.paths) |-> Unread]
       /\ UNCHANGED <<disk, index, meta, registered, recovery, control, events,
                      request, asking, left, building>>

\* The scan of whoever holds the lease reads one file.
Read(f) ==
    /\ f \in DOMAIN scan /\ scan[f] = Unread
    /\ scan' = [scan EXCEPT ![f] = Visible(f)]
    /\ UNCHANGED <<disk, index, meta, registered, recovery, control, events, worker,
                   lease, request, asking, left, building>>

Indexed == [f \in Files |-> IF f \in DOMAIN scan THEN scan[f] ELSE index[f]]

ScanIsRead == \A f \in DOMAIN scan : scan[f] # Unread

Release == lease' = None /\ scan' = Nothing

Commit(w) ==
    /\ At(w, "walk") /\ ScanIsRead /\ root # 0
    /\ index' = Indexed
    /\ meta' = [meta EXCEPT !.indexed = TRUE]
    /\ Release
    /\ worker' = [worker EXCEPT ![w].pc = "ok"]
    /\ UNCHANGED <<disk, registered, recovery, control, events, request,
                   asking, left, building>>

\* The lease task, the policy or the run fails; without a root it always does.
Fails(w) ==
    /\ At(w, "walk") \/ At(w, "lease")
    /\ IF root = 0 THEN UNCHANGED left ELSE Spend("fails")
    /\ IF lease = w THEN Release ELSE UNCHANGED <<lease, scan>>
    /\ worker' = [worker EXCEPT ![w].pc = "failed"]
    /\ UNCHANGED <<disk, index, meta, registered, recovery, control, events,
                   request, asking, building>>

Succeeded(w) ==
    /\ At(w, "ok")
    /\ control' = [control EXCEPT ![w] = ScanCompleted(@)]
    /\ worker' = [worker EXCEPT ![w] = [pc |-> "loop", work |-> NoWork]]
    /\ UNCHANGED <<disk, index, meta, registered, recovery, events, lease, scan,
                   request, asking, left, building>>

\* Readiness and requeue_failed_index after a failed update.
Requeued(c) ==
    WithFull([c EXCEPT !.readiness = IF c.reconciling /\ @ # "stopped" THEN "failed" ELSE @])

\* The root is gone: release the watcher; otherwise requeue, wait, go on.
Failed(w) ==
    /\ At(w, "failed")
    /\ IF root = 0
         THEN /\ worker' = [worker EXCEPT ![w] = [pc |-> "release", work |-> NoWork]]
              /\ UNCHANGED control
         ELSE /\ worker' = [worker EXCEPT ![w] = [pc |-> "loop", work |-> NoWork]]
              /\ control' = [control EXCEPT ![w] = Requeued(@)]
    /\ UNCHANGED <<disk, index, meta, registered, recovery, events, lease, scan,
                   request, asking, left, building>>

\* release_watcher_for_missing_root, by the worker: only its own registration.
ReleaseOwn(w) ==
    /\ At(w, "release")
    /\ building = None
    /\ IF registered = w
         THEN /\ registered' = None
              /\ control' = [control EXCEPT ![w] = Stopped(@)]
              /\ events' = [events EXCEPT ![w] = {}]
         ELSE UNCHANGED <<registered, control, events>>
    /\ worker' = [worker EXCEPT ![w].pc = "close"]
    /\ UNCHANGED <<disk, index, meta, recovery, lease, scan, request, asking, left, building>>

\* The end of a round: no longer indexing, and then perhaps ready.
Close(w) ==
    /\ At(w, "close")
    /\ control' = [control EXCEPT ![w].indexing = FALSE]
    /\ worker' = [worker EXCEPT ![w].pc = "publish"]
    /\ UNCHANGED <<disk, index, meta, registered, recovery, events, lease, scan,
                   request, asking, left, building>>

Publish(w) ==
    /\ At(w, "publish")
    /\ control' = [control EXCEPT ![w] = PublishedIfCaughtUp(@)]
    /\ worker' = [worker EXCEPT ![w].pc = "last"]
    /\ UNCHANGED <<disk, index, meta, registered, recovery, events, lease, scan,
                   request, asking, left, building>>

\* The last look at `active` before the job record is written and the worker
\* waits again.
LastCheck(w) == At(w, "last") /\ Goto(w, IF control[w].active THEN "parking" ELSE "ended")

-----------------------------------------------------------------------------
\* The supervisor.

\* release_watchers_for_missing_roots.
SuperviseRelease ==
    /\ registered # None /\ root = 0 /\ building = None
    /\ Unregister(registered)
    /\ UNCHANGED <<disk, index, meta, building, recovery, lease, scan, request, asking,
                   left>>

\* A workspace that wants a watcher and has none, outside the back-off.
WantsWatcher ==
    /\ meta.enabled /\ meta.indexed
    /\ registered = None /\ root # 0 /\ recovery # "backoff"

\* supervise_watchers, the part that registers.
SuperviseRegister ==
    /\ WantsWatcher
    /\ Build(Supervisor)
    /\ UNCHANGED <<disk, index, meta, registered, recovery, control, events, worker,
                   lease, scan, request, asking, left>>

\* ensure_watcher for the supervisor or a search: registers, or notes the
\* failure; a root that is gone leaves no back-off.
EnsureEnds ==
    /\ building # None /\ building.by # Explicit
    /\ \/ /\ \E w \in NextWatch :
               /\ Enter(w)
               /\ asking' = IF building.by = Supervisor THEN asking
                            ELSE [asking EXCEPT ![building.by] = w]
          /\ recovery' = "none"
          /\ UNCHANGED left
       \/ /\ NotWatched
          /\ recovery' = IF root = 0 THEN "none" ELSE "backoff"
          /\ UNCHANGED asking
    /\ building' = None
    /\ UNCHANGED <<disk, index, meta, lease, scan, request>>

\* A root that is gone leaves no back-off behind.
SuperviseForget ==
    /\ meta.enabled /\ registered = None /\ root = 0 /\ recovery # "none"
    /\ recovery' = "none"
    /\ UNCHANGED <<disk, index, meta, registered, control, events, worker, lease,
                   scan, request, asking, left, building>>

BackoffEnds ==
    /\ recovery = "backoff"
    /\ recovery' = "due"
    /\ UNCHANGED <<disk, index, meta, registered, control, events, worker, lease,
                   scan, request, asking, left, building>>

-----------------------------------------------------------------------------
\* Requests.

Everything == [f \in Files |-> Unread]

\* run_index_request under the lease: without `watch` the watcher is stopped
\* and the scan begins, with it a watcher is registered or refreshed first.
IndexRequest(watch) ==
    /\ lease = None /\ root # 0 /\ building = None
    /\ Spend("requests")
    /\ lease' = Explicit
    /\ meta' = [meta EXCEPT !.enabled = watch]
    /\ \/ /\ watch
          /\ Build(Explicit)
          /\ UNCHANGED <<scan, registered, control, events, worker>>
       \/ /\ ~watch
          /\ IF registered # None THEN Unregister(registered)
               ELSE UNCHANGED <<registered, control, events, worker>>
          /\ scan' = Everything
          /\ UNCHANGED building
    /\ UNCHANGED <<disk, index, recovery, request, asking>>

\* Registered before the scan; a request that cannot watch indexes all the same.
RequestRegisters ==
    /\ building # None /\ building.by = Explicit
    /\ \/ (\E w \in NextWatch : Enter(w)) /\ UNCHANGED left
       \/ Refresh /\ UNCHANGED left
       \/ NotWatched
    /\ building' = None
    /\ scan' = Everything
    /\ request' = registered'
    /\ UNCHANGED <<disk, index, meta, recovery, lease, asking>>

IndexRequestEnds ==
    /\ lease = Explicit /\ building = None /\ ScanIsRead
    /\ \/ /\ root # 0
          /\ index' = Indexed
          /\ meta' = [meta EXCEPT !.indexed = TRUE]
          /\ control' = IF request = None THEN control
                          ELSE [control EXCEPT ![request] = ScanCompleted(@)]
          /\ UNCHANGED left
       \/ /\ IF root = 0 THEN UNCHANGED left ELSE Spend("fails")
          /\ UNCHANGED <<index, meta, control>>
    /\ Release
    /\ request' = None
    /\ UNCHANGED <<disk, registered, building, recovery, events, worker, asking>>

\* acquire_search_leases: a search waits for the watcher there is, or for one
\* that it registers itself.
Ask(s) ==
    /\ asking[s] = None /\ building = None
    /\ Spend("asks")
    /\ \/ /\ registered # None
          /\ asking' = [asking EXCEPT ![s] = registered]
          /\ UNCHANGED building
       \/ /\ WantsWatcher
          /\ Build(s)
          /\ UNCHANGED asking
    /\ UNCHANGED <<disk, index, meta, registered, recovery, control, events, worker,
                   lease, scan, request>>

\* The wait ends when the watcher is ready, has failed or is stopped.
AskEnds(s) ==
    /\ asking[s] # None
    /\ control[asking[s]].readiness # "reconciling"
    /\ asking' = [asking EXCEPT ![s] = None]
    /\ UNCHANGED <<disk, index, meta, registered, recovery, control, events, worker,
                   lease, scan, request, left, building>>

-----------------------------------------------------------------------------
WorkerStep(w) ==
    \/ Park(w) \/ Wake(w) \/ Debounce(w) \/ Take(w) \/ Begin(w) \/ Commit(w) \/ Fails(w)
    \/ Succeeded(w) \/ Failed(w) \/ ReleaseOwn(w) \/ Close(w) \/ Publish(w) \/ LastCheck(w)

Supervise == SuperviseRelease \/ SuperviseRegister \/ SuperviseForget

Scan == \E f \in Files : Read(f)

Next ==
    \/ \E f \in Files : EditFile(f) \/ EditRules(f)
    \/ Vanish \/ Return
    \/ \E w \in Watches : Overflow(w) \/ WorkerStep(w) \/ \E e \in events[w] : Deliver(w, e)
    \/ Scan
    \/ Supervise \/ EnsureEnds \/ BackoffEnds
    \/ \E watch \in BOOLEAN : IndexRequest(watch)
    \/ RequestRegisters \/ IndexRequestEnds
    \/ \E s \in Searches : Ask(s) \/ AskEnds(s)

Spec == Init /\ [][Next]_vars

\* Tasks run, the backend delivers, timers go off, and the lease is handed out
\* in the order of arrival.
FairSpec ==
    /\ Spec
    /\ \A w \in Watches : SF_vars(WorkerStep(w)) /\ WF_vars(\E e \in events[w] : Deliver(w, e))
    /\ WF_vars(Scan \/ RequestRegisters \/ IndexRequestEnds)
    /\ WF_vars(Supervise \/ EnsureEnds) /\ WF_vars(BackoffEnds)
    /\ WF_vars(\E s \in Searches : AskEnds(s))

-----------------------------------------------------------------------------
\* Properties.

Works == [kind : {"none", "full", "startup", "paths"}, paths : SUBSET Files]

\* The variables keep their types, and a worker that scans holds the lease.
TypeOK ==
    /\ tree \in [Files -> Nat] /\ rules \subseteq Files /\ root \in Nat
    /\ index \in [Files -> Nat]
    /\ meta \in [enabled : BOOLEAN, indexed : BOOLEAN]
    /\ registered \in Watches \cup {None}
    /\ building \in [by : Searches \cup {Explicit, Supervisor}, filter : SUBSET Files]
                   \cup {None}
    /\ recovery \in {"none", "backoff", "due"}
    /\ control \in [Watches -> [active : BOOLEAN, pending : Works, indexing : BOOLEAN,
                                scanRequired : BOOLEAN, reconciling : BOOLEAN,
                                readiness : {"reconciling", "ready", "failed", "stopped"},
                                permit : BOOLEAN, filter : SUBSET Files, root : Nat,
                                misled : SUBSET Files]]
    /\ \A w \in Watches : events[w] \subseteq Files \cup {"config", "rescan"}
    /\ \A w \in Watches : worker[w].work \in Works /\ (worker[w].pc = "walk" <=> lease = w)
    /\ lease \in Watches \cup {Explicit, None}
    /\ DOMAIN scan \subseteq Files
    /\ request \in Watches \cup {None}
    /\ asking \in [Searches -> Watches \cup {None}]

\* The backend still has to report the file, or why it is seen differently.
Unreported(w, f) == events[w] \cap {f, "config", "rescan"} # {}

\* The watcher's own work will read the file.
Queued(w, f) ==
    \/ control[w].scanRequired
    \/ control[w].pending.kind = "full" \/ f \in control[w].pending.paths
    \/ worker[w].pc \in {"lease", "failed"} /\ (worker[w].work.kind = "full"
                                                \/ f \in worker[w].work.paths)
    \/ worker[w].pc = "walk" /\ f \in DOMAIN scan

\* A file whose index entry is out of date is on its way: its event is still to
\* come, or the queue, the claimed work or the startup scan will read it.
OnItsWay(w, f) == index[f] # Visible(f) => Unreported(w, f) \/ Queued(w, f)

\* Every file that is out of date is on its way.  The code does not keep this:
\* the filter is built before the backend watches, and on a refresh before it
\* replaces the callback's, so an ignore file that changes in between leaves
\* rules behind that no event will renew, and edits of files that they hide
\* are dropped.  WatcherStaleFilter.cfg has TLC show it, and so this is no
\* property of a passing run.
NothingMissed ==
    \A w \in Watches : Live(w) /\ root # 0 => \A f \in Files : OnItsWay(w, f)

\* What the code keeps of NothingMissed: every file that is out of date is on
\* its way unless it was visible when a filter that hides it was installed, and
\* neither an ignore file nor a lost queue has renewed the filter since
\* (`misled`); and a worker that waits with work to do has been woken
\* (daemon.rs, WatchControl, WatchEventFilter and the worker).
NothingForgotten ==
    \A w \in Watches : Live(w) /\ root # 0 =>
        /\ \A f \in Files : OnItsWay(w, f) \/ f \in control[w].misled
        /\ worker[w].pc \in {"parking", "parked"}
              /\ (control[w].pending # NoWork \/ control[w].scanRequired)
           => control[w].permit

\* When the watcher declares itself ready, everything that had been reported by
\* then is in the index, also with an explicit request's scan in between, but
\* for the files NothingForgotten excepts (daemon.rs,
\* publish_initial_watch_readiness_if_caught_up).
ReadyIsCaughtUp ==
    [][\A w \in Watches :
         control[w].readiness # "ready" /\ control'[w].readiness = "ready" =>
            \A f \in Files \ control[w].misled :
                root = 0 \/ control[w].root # root \/ Unreported(w, f)
                \/ index'[f] = Visible(f)]_vars

\* Once the user, the disk and the backend are quiet, a workspace that is
\* enabled and has been indexed has a watcher again and, unless its directory
\* was replaced under the backend, an index of what is there, but for the files
\* NothingForgotten excepts; and no search waits (daemon.rs, the supervisor).
Settles ==
    <>[](/\ \A s \in Searches : asking[s] = None
         /\ meta.enabled /\ meta.indexed /\ root # 0 /\ NextWatch # {} =>
                /\ registered # None
                /\ Live(registered) =>
                      \A f \in Files \ control[registered].misled :
                          index[f] = Visible(f))

\* A worker whose watcher was stopped ends (daemon.rs, stop_watcher and the
\* comment at release_watcher_for_missing_root).
StoppedWorkerEnds ==
    <>[](\A w \in Watches : worker[w].pc # "unborn" /\ ~control[w].active =>
                               worker[w].pc = "ended")
=============================================================================
