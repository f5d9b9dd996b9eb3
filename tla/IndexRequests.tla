--------------------------- MODULE IndexRequests ---------------------------
(***************************************************************************)
(* Explicit index requests of one workspace in the daemon: `Index`, which  *)
(* answers when the index is up to date, and `StartIndex`, which answers   *)
(* at once and leaves a detached run behind.  Requests with equal options  *)
(* coalesce: the first leads, the others await the outcome it publishes,   *)
(* and a request that waited for the exclusive lease skips its scan when   *)
(* the daemon believes that a later scan has covered it already.  Runs of  *)
(* the workspace's watcher compete for the same lease.                     *)
(*                                                                         *)
(* A scan reads the files one at a time while they are edited, and becomes *)
(* visible when it is published.  The daemon compares the instant at which *)
(* a request arrived with the instant at which the last full run started;  *)
(* the set `started` holds the requests for which the comparison says that *)
(* the run started later.  Requests are numbered in the order of their     *)
(* arrival.  The pathname keeps naming the same checkout                   *)
(* (`replaced_workspaces` and obsolete overlays stay empty).               *)
(***************************************************************************)
EXTENDS Naturals, FiniteSets

CONSTANTS
    Requests,   \* index requests, numbered in the order of their arrival
    Files,      \* files of the workspace
    Watcher,    \* the watcher's worker, as a holder of the lease
    None,       \* no holder, no entry, no leader
    Offered,    \* the options requests come with
    Budgets     \* what the environment may do, see Spend

ASSUME Numbered == Requests \subseteq Nat
ASSUME Distinct == Watcher \notin Requests /\ None \notin Requests \cup {Watcher}

VARIABLES
    tree,       \* how often each file has been edited
    index,      \* the edit of each file that the published index holds
    filter,     \* indexed_skip_gitignore: the option the index was built with
    meta,       \* workspace metadata: last_indexed set, generation, skip_gitignore
    watcher,    \* "none", "scan" (initial scan required), "live"
    lease,      \* holder of the exclusive workspace lease
    scan,       \* what the holder's scan has read: file -> edit
    started,    \* full_index_run_starts: the requests that arrived before it
    inflight,   \* inflight_indexes: the leader of the entry and its options
    outcome,    \* the channel each leader publishes its response on
    req,        \* state of every request
    left        \* remaining budget of the environment

vars == <<tree, index, filter, meta, watcher, lease, scan, started, inflight,
          outcome, req, left>>

Options == [watch : BOOLEAN, skip : BOOLEAN]

ASSUME OffersOptions == Offered \subseteq Options

Untouched == [f \in {} |-> 0]

\* A request that has not arrived.  `need` records, for the properties only,
\* the edits that had been made when the request arrived.
Idle == [pc |-> "idle", detached |-> FALSE, opts |-> [watch |-> FALSE, skip |-> FALSE],
         gen |-> 0, follows |-> None, leads |-> FALSE,
         reply |-> "none", answer |-> "none", spoiled |-> FALSE,
         need |-> [f \in Files |-> 0]]

\* The request has ended: an Index request is answered with `reply`, a
\* StartIndex request was answered when it came.
Answered(r, reply) ==
    [Idle EXCEPT !.pc = "done", !.need = req[r].need, !.spoiled = req[r].spoiled,
                 !.follows = req[r].follows, !.detached = req[r].detached,
                 !.answer = IF req[r].detached THEN req[r].answer ELSE reply]

Spend(kind) == left[kind] > 0 /\ left' = [left EXCEPT ![kind] = @ - 1]

Init ==
    /\ tree = [f \in Files |-> 1]
    /\ index = [f \in Files |-> 0]
    /\ filter = FALSE
    /\ meta = [indexed |-> FALSE, gen |-> 0, skip |-> FALSE]
    /\ watcher = "none"
    /\ lease = None
    /\ scan = Untouched
    /\ started = {}
    /\ inflight = None
    /\ outcome = [r \in Requests |-> "none"]
    /\ req = [r \in Requests |-> Idle]
    /\ left \in Budgets

-----------------------------------------------------------------------------
\* The scan of the lease's holder, shared by requests and the watcher.

Arrived == {r \in Requests : req[r].pc # "idle"}

\* note_full_index_run_start, taken only by a scan of the whole workspace.
Noted(full) == started' = IF full THEN Arrived ELSE started

\* The walk reads one file that it has not read.
ReadFile(f) ==
    /\ lease # None
    /\ f \in DOMAIN scan /\ scan[f] = 0
    /\ scan' = [scan EXCEPT ![f] = tree[f]]
    /\ UNCHANGED <<tree, index, filter, meta, watcher, lease, started, inflight,
                   outcome, req, left>>

ScanIsRead == \A f \in DOMAIN scan : scan[f] # 0

\* Publication: a scan that found no difference leaves the generation alone.
Published ==
    /\ index' = [f \in Files |-> IF f \in DOMAIN scan THEN scan[f] ELSE index[f]]
    /\ filter' = meta.skip
    /\ meta' = IF meta.indexed /\ index' = index /\ filter' = filter
                 THEN meta
                 ELSE [meta EXCEPT !.indexed = TRUE, !.gen = @ + 1]

Release == lease' = None /\ scan' = Untouched

-----------------------------------------------------------------------------
\* Requests.

IsNext(r) == req[r].pc = "idle" /\ \A q \in Requests : q < r => req[q].pc # "idle"

\* join_or_lead_index: lead, follow a leader with the same options, or neither.
MayFollow(opts) == inflight # None /\ inflight.opts = opts

\* An Index request arrives: arrived_at is read, then the registry is asked.
Arrive(r, opts) ==
    LET base == [Idle EXCEPT !.opts = opts, !.need = tree]
    IN /\ IsNext(r)
       /\ \/ /\ inflight = None
             /\ inflight' = [lead |-> r, opts |-> opts]
             /\ req' = [req EXCEPT ![r] = [base EXCEPT !.pc = "enter", !.leads = TRUE]]
          \/ /\ MayFollow(opts)
             /\ req' = [req EXCEPT ![r] = [base EXCEPT !.pc = "follow",
                                                      !.follows = inflight.lead]]
             /\ UNCHANGED inflight
          \/ /\ inflight # None /\ ~MayFollow(opts)
             /\ req' = [req EXCEPT ![r] = [base EXCEPT !.pc = "enter"]]
             /\ UNCHANGED inflight
       /\ UNCHANGED <<tree, index, filter, meta, watcher, lease, scan, started, outcome, left>>

\* A StartIndex request: only a leader spawns a run; everyone is answered now.
ArriveStart(r, opts) ==
    LET base == [Idle EXCEPT !.opts = opts, !.detached = TRUE, !.need = tree,
                             !.answer = "started"]
    IN /\ IsNext(r)
       /\ Spend("starts")
       /\ IF inflight = None
            THEN /\ inflight' = [lead |-> r, opts |-> opts]
                 /\ req' = [req EXCEPT ![r] = [base EXCEPT !.pc = "enter", !.leads = TRUE]]
            ELSE /\ req' = [req EXCEPT ![r] = [base EXCEPT !.pc = "done",
                                                          !.answer = "running"]]
                 /\ UNCHANGED inflight
       /\ UNCHANGED <<tree, index, filter, meta, watcher, lease, scan, started, outcome>>

StartedAfter(r) == r \in started

\* Mutant: a follower reuses whatever its leader answered.
ReusableAlways(r) == TRUE

\* A follower may answer with its leader's response: a full run started after
\* it arrived, or the leader failed.
Reusable(r) == StartedAfter(r) \/ outcome[req[r].follows] = "error"

\* await_coalesced_index and the check after it.
FollowEnds(r) ==
    /\ req[r].pc = "follow"
    /\ outcome[req[r].follows] # "none"
    /\ req' = IF Reusable(r)
                THEN [req EXCEPT ![r] = Answered(r, outcome[req[r].follows])]
                ELSE [req EXCEPT ![r].pc = "enter"]
    /\ UNCHANGED <<tree, index, filter, meta, watcher, lease, scan, started, inflight,
                   outcome, left>>

\* run_index_request begins: register_workspace_for_index has left metadata on
\* disk, so there always is a generation to remember.
Enter(r) ==
    /\ req[r].pc = "enter"
    /\ req' = [req EXCEPT ![r].pc = "lease", ![r].gen = meta.gen]
    /\ UNCHANGED <<tree, index, filter, meta, watcher, lease, scan, started, inflight,
                   outcome, left>>

\* The lease task or the new resolution fails: the request ends without a
\* response of its own and its lead, if it has one, is dropped.
Abort(r) ==
    /\ req[r].pc = "lease"
    /\ Spend("aborts")
    /\ req' = [req EXCEPT ![r] = IF req[r].leads
                                    THEN [req[r] EXCEPT !.pc = "drop", !.reply = "error"]
                                    ELSE Answered(r, "error")]
    /\ UNCHANGED <<tree, index, filter, meta, watcher, lease, scan, started, inflight, outcome>>

\* Mutant: the ignore option of the index is not compared.
AlreadyCurrentAnyOption(r) ==
    meta.indexed /\ meta.gen > req[r].gen /\ StartedAfter(r)

\* already_current.
AlreadyCurrent(r) ==
    /\ meta.indexed
    /\ meta.skip = req[r].opts.skip
    /\ meta.gen > req[r].gen
    /\ StartedAfter(r)

\* Watcher after the request's own bookkeeping: without `watch` it is stopped,
\* with `watch` one is registered unless there is one.
Registered(opts) ==
    IF ~opts.watch THEN "none"
    ELSE IF watcher = "none" THEN "scan" ELSE watcher

\* register_resolved_watcher may fail: the request goes on and is answered
\* with the error at its end.
Watch(r) ==
    \/ watcher' = Registered(req[r].opts) /\ UNCHANGED left
    \/ /\ req[r].opts.watch /\ watcher = "none"
       /\ Spend("unwatched")
       /\ UNCHANGED watcher

Reply(r, watch) == IF req[r].opts.watch /\ watch = "none" THEN "error" ELSE "ack"

\* Under the lease, up to the scan or the decision to skip it.
Body(r) ==
    /\ req[r].pc = "lease"
    /\ lease = None
    /\ meta' = [meta EXCEPT !.skip = req[r].opts.skip]
    /\ Watch(r)
    /\ IF AlreadyCurrent(r) /\ watcher' # "scan"
         THEN /\ req' = [req EXCEPT ![r].pc = "publish", ![r].reply = Reply(r, watcher')]
              /\ UNCHANGED <<lease, scan, started>>
         ELSE /\ req' = [req EXCEPT ![r].pc = "walk"]
              /\ lease' = r
              /\ scan' = [f \in Files |-> 0]
              /\ Noted(TRUE)
    /\ UNCHANGED <<tree, index, filter, inflight, outcome>>

\* The scan is published, the watcher's initial scan is satisfied, and the
\* lease goes before the response is sent.
Commit(r) ==
    /\ req[r].pc = "walk"
    /\ ScanIsRead
    /\ Published
    /\ watcher' = IF watcher = "none" THEN "none" ELSE "live"
    /\ Release
    /\ req' = [req EXCEPT ![r].pc = "publish", ![r].reply = Reply(r, watcher)]
    /\ UNCHANGED <<tree, started, inflight, outcome, left>>

\* A scan that fails publishes nothing.  `spoiled` tells the properties which
\* requests saw a run fail that had started after they arrived.
Spoil == [r \in Requests |->
            IF StartedAfter(r)
              THEN [req[r] EXCEPT !.spoiled = TRUE] ELSE req[r]]

Fail(r) ==
    /\ req[r].pc = "walk"
    /\ Spend("fails")
    /\ Release
    /\ req' = [Spoil EXCEPT ![r].pc = "publish", ![r].reply = "error"]
    /\ UNCHANGED <<tree, index, filter, meta, watcher, started, inflight, outcome>>

\* lead.publish: whoever has the workspace's entry loses it.
Publish(r) ==
    /\ req[r].pc = "publish"
    /\ IF req[r].leads
         THEN /\ inflight' = None
              /\ outcome' = [outcome EXCEPT ![r] = req[r].reply]
              /\ req' = [req EXCEPT ![r].pc = "drop"]
         ELSE /\ req' = [req EXCEPT ![r] = Answered(r, req[r].reply)]
              /\ UNCHANGED <<inflight, outcome>>
    /\ UNCHANGED <<tree, index, filter, meta, watcher, lease, scan, started, left>>

\* Mutant: an aborted leader only removes its entry.
DroppedSilently(r) == outcome

\* The channel when the lead is dropped: an outcome never published is an error.
Dropped(r) == IF outcome[r] = "none" THEN [outcome EXCEPT ![r] = "error"] ELSE outcome

\* Drop of the lead: again the entry goes, whoever has it by now.
Drop(r) ==
    /\ req[r].pc = "drop"
    /\ inflight' = None
    /\ outcome' = Dropped(r)
    /\ req' = [req EXCEPT ![r] = Answered(r, req[r].reply)]
    /\ UNCHANGED <<tree, index, filter, meta, watcher, lease, scan, started, left>>

-----------------------------------------------------------------------------
\* The watcher's worker and the user.

\* The worker takes the lease: its initial scan and a full reconciliation read
\* the whole workspace, an ordinary update only the paths of its events.
WatchStart(paths) ==
    LET full == watcher = "scan" \/ paths = Files
    IN /\ watcher # "none"
       /\ lease = None
       /\ IF watcher = "scan" THEN UNCHANGED left ELSE Spend("updates")
       /\ lease' = Watcher
       /\ scan' = [f \in (IF full THEN Files ELSE paths) |-> 0]
       /\ Noted(full)
       /\ UNCHANGED <<tree, index, filter, meta, watcher, inflight, outcome, req>>

WatchCommit ==
    /\ lease = Watcher
    /\ ScanIsRead
    /\ Published
    /\ watcher' = "live"
    /\ Release
    /\ UNCHANGED <<tree, started, inflight, outcome, req, left>>

WatchFail ==
    /\ lease = Watcher
    /\ Spend("fails")
    /\ Release
    /\ req' = IF DOMAIN scan = Files THEN Spoil ELSE req
    /\ UNCHANGED <<tree, index, filter, meta, watcher, started, inflight, outcome>>

Edit(f) ==
    /\ Spend("edits")
    /\ tree' = [tree EXCEPT ![f] = @ + 1]
    /\ UNCHANGED <<index, filter, meta, watcher, lease, scan, started, inflight,
                   outcome, req>>

-----------------------------------------------------------------------------
RequestStep(r) ==
    \/ FollowEnds(r) \/ Enter(r) \/ Abort(r) \/ Body(r) \/ Commit(r) \/ Fail(r)
    \/ Publish(r) \/ Drop(r)

Walk == \E f \in Files : ReadFile(f)

WatchStep == (\E paths \in (SUBSET Files) \ {{}} : WatchStart(paths)) \/ WatchCommit \/ WatchFail

Arrival == \E r \in Requests, opts \in Offered : Arrive(r, opts) \/ ArriveStart(r, opts)

Next ==
    \/ Arrival
    \/ \E r \in Requests : RequestStep(r)
    \/ Walk
    \/ WatchStep
    \/ \E f \in Files : Edit(f)

Spec == Init /\ [][Next]_vars

\* A task that can run is run; a scan ends; the lease's queue is served in
\* order of arrival, so a waiter is not passed over for ever.
FairSpec ==
    /\ Spec
    /\ \A r \in Requests :
         /\ WF_vars(FollowEnds(r) \/ Enter(r) \/ Commit(r) \/ Publish(r) \/ Drop(r))
         /\ SF_vars(Body(r))
    /\ WF_vars(Walk \/ WatchCommit)

-----------------------------------------------------------------------------
\* Properties.

Entry == [lead : Requests, opts : Options]
Answers == {"none", "ack", "error", "started", "running"}

RequestState ==
    [pc : {"idle", "follow", "enter", "lease", "walk", "publish", "drop", "done"},
     detached : BOOLEAN, opts : Options, gen : Nat,
     follows : Requests \cup {None}, leads : BOOLEAN, reply : {"none", "ack", "error"},
     answer : Answers, spoiled : BOOLEAN, need : [Files -> Nat]]

\* The variables keep their types, one request at most scans at a time and
\* holds the lease while it does, and a follower follows a leader.
TypeOK ==
    /\ tree \in [Files -> Nat] /\ index \in [Files -> Nat]
    /\ filter \in BOOLEAN
    /\ meta \in [indexed : BOOLEAN, gen : Nat, skip : BOOLEAN]
    /\ watcher \in {"none", "scan", "live"}
    /\ lease \in Requests \cup {Watcher, None}
    /\ DOMAIN scan \subseteq Files /\ \A f \in DOMAIN scan : scan[f] \in Nat
    /\ started \subseteq Requests
    /\ inflight \in Entry \cup {None}
    /\ outcome \in [Requests -> {"none", "ack", "error"}]
    /\ req \in [Requests -> RequestState]
    /\ \A r \in Requests :
         /\ req[r].pc = "walk" <=> lease = r
         /\ req[r].pc = "follow" => req[r].follows # None

\* The index holds every edit that had been made when the request arrived.
Covered(r) == \A f \in Files : index[f] >= req[r].need[f]

\* A full run that started after the request arrived is still under way.
BeingCovered(r) == lease # None /\ DOMAIN scan = Files /\ StartedAfter(r)

\* An acknowledged Index request has its edits in the index, or a full run
\* that began after it arrived is still reading them.  Exempt is a request
\* after whose arrival a full run started and failed: it may have skipped on
\* the generation of an earlier walk, see SkipIsCurrent (daemon.rs, Index
\* handler: the generation and start-time checks).
AckCovers ==
    \A r \in Requests :
        req[r].answer = "ack" => Covered(r) \/ BeingCovered(r) \/ req[r].spoiled

\* The index is complete up to the request's arrival and was built with the
\* request's own ignore option.
Current(r) == Covered(r) /\ filter = req[r].opts.skip

Skips(r) == req[r].pc = "lease" /\ req'[r].pc = "publish"

\* A request that skips its scan finds the index current: "Earlier walks
\* cannot vouch for edits made after they scanned" (run_index_request).  The
\* code does not keep this: already_current asks that the generation has
\* advanced and that some full run has started since the arrival, and the
\* one need not be the other's doing.  A walk that began before the request
\* advances the generation, a later full walk fails, and the request skips
\* although nobody has read its edit.  RequestsFailedWalk.cfg has TLC show
\* it, and so this is no property of a passing run.
SkipIsCurrent == [][\A r \in Requests : Skips(r) => Current(r)]_vars

\* What the code keeps of SkipIsCurrent (daemon.rs, already_current): a
\* request that skips finds the index current unless a full run that started
\* after its arrival has failed (`spoiled`).  That is the one exemption: every
\* other interleaving of walks, updates, edits, aborts and changes of the
\* ignore option leaves the two tests sufficient.
SkipIsJustified ==
    [][\A r \in Requests : Skips(r) => Current(r) \/ req[r].spoiled]_vars

\* Every request is answered: a leader that fails, is aborted or skips its
\* scan leaves no follower waiting (InflightIndexLead, publish and drop).
EveryoneAnswered == <>[](\A r \in Requests : req[r].pc \in {"idle", "done"})

\* A follower is acknowledged only by a scan that began after it arrived and
\* has been published (daemon.rs, the comment at the coalescing check).  The
\* exemption is AckCovers's: its leader may have skipped after a failed run.
FollowerCovered ==
    \A r \in Requests :
        req[r].answer = "ack" /\ req[r].follows # None => Covered(r) \/ req[r].spoiled

\* While a leader's run is queued or running the workspace is reported as in
\* flight (daemon.rs, index_in_flight).
InFlightShown ==
    \A r \in Requests :
        req[r].leads /\ req[r].pc \in {"enter", "lease", "walk"} => inflight # None
=============================================================================
