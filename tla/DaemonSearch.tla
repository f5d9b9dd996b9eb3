---------------------------- MODULE DaemonSearch ----------------------------
(***************************************************************************)
(* Searches of one workspace in the daemon, from the registration of the   *)
(* request to its response: explicit cancellation, which may come before   *)
(* the search it names; disconnects and the daemon's own deadline; the     *)
(* shared lease and the CPU permit; the cache of query results and the     *)
(* pools of loaded search contexts, with index runs inside the daemon,     *)
(* repairs by a search itself and publications by other processes moving   *)
(* the index underneath.                                                   *)
(*                                                                         *)
(* An index is a version number, which is also what the stamps of its      *)
(* stores and its generation amount to; the hits of a search are the       *)
(* version they were read from and whether the search ran to its end.      *)
(***************************************************************************)
EXTENDS Naturals, Sequences, FiniteSets, SequencesExt, FiniteSetsExt

CONSTANTS
    Searches,       \* executions of search requests, numbered as they arrive
    Ids,            \* request ids a client may send
    MaxTombstones,  \* MAX_SEARCH_CANCELLATION_TOMBSTONES
    MaxIdle,        \* MAX_IDLE_SEARCH_CONTEXTS
    MaxIdlePerKey,  \* MAX_IDLE_SEARCH_CONTEXTS_PER_KEY
    Permits,        \* size of the CPU semaphore
    Tombstone,      \* SearchCancellationEntry::Tombstone
    None,           \* no id, no pool, no entry
    Budgets         \* what the environment may do, see Spend

Kinds == {"hybrid", "literal", "regex", "pack"}

ASSUME Numbered == Searches \subseteq Nat
ASSUME Bounds == MaxTombstones \in Nat /\ MaxIdle \in Nat /\ MaxIdlePerKey \in Nat
                 /\ Permits \in Nat \ {0}
ASSUME Nowhere == None \notin Searches \cup Ids /\ Tombstone \notin Searches \cup {None}

VARIABLES
    version,    \* the published index
    entries,    \* SearchCancellationRegistry.entries: id -> owner, Tombstone or None
    tombstones, \* SearchCancellationRegistry.tombstones
    context,    \* the search context cache: signature and pool, or None
    pools,      \* idle contexts of the pool each search has created
    idleCount,  \* idle_context_count
    results,    \* query result cache: signature -> hits
    revision,   \* its revision
    search,     \* state of every search
    cancels,    \* clients that wait for a cancelled search to finish
    left        \* remaining budget of the environment

vars == <<version, entries, tombstones, context, pools, idleCount, results,
          revision, search, cancels, left>>

caches == <<context, pools, idleCount, results, revision>>
registry == <<entries, tombstones>>

Nothing == [v \in {} |-> 0]
NoHits == [ver |-> 0, whole |-> FALSE]

\* `floor` and `doomed` serve the properties: the index when the request was
\* read, and whether a cancellation had been recorded for it by then.
Unborn == [pc |-> "idle", kind |-> "hybrid", id |-> None, flag |-> FALSE,
           deadline |-> FALSE, gone |-> FALSE, leased |-> FALSE, permit |-> FALSE,
           sig |-> 0, rev |-> 0, pool |-> None, loaded |-> 0, hits |-> NoHits,
           reply |-> "none", floor |-> 0, doomed |-> FALSE]

Spend(kind) == left[kind] > 0 /\ left' = [left EXCEPT ![kind] = @ - 1]

Init ==
    /\ version = 1
    /\ entries = [i \in Ids |-> None]
    /\ tombstones = <<>>
    /\ context = None
    /\ pools = [s \in Searches |-> <<>>]
    /\ idleCount = 0
    /\ results = Nothing
    /\ revision = 0
    /\ search = [s \in Searches |-> Unborn]
    /\ cancels = {}
    /\ left \in Budgets

-----------------------------------------------------------------------------
\* The registry of cancellations.

\* registry.tombstones.retain(|id| id != request_id)
WithoutTombstone(i) == Remove(tombstones, i)

\* Mutant: a search that registers over a tombstone starts afresh.
StartsCancelledNever(i) == FALSE

\* The token of a new search: a tombstone's token has been cancelled already.
StartsCancelled(i) == entries[i] = Tombstone

\* register_request_cancellation: a search without an id is not registered,
\* one whose id is active is refused.
Register(s, kind, i) ==
    /\ search[s].pc = "idle"
    /\ \A t \in Searches : t < s => search[t].pc # "idle"
    /\ kind \in left.kinds
    /\ Spend(IF i = None THEN "anonymous" ELSE "named")
    /\ LET born == [Unborn EXCEPT !.kind = kind, !.floor = version, !.pc = "check"]
       IN \/ /\ i = None
             /\ search' = [search EXCEPT ![s] = born]
             /\ UNCHANGED registry
          \/ /\ i # None /\ entries[i] \in Searches
             /\ search' = [search EXCEPT ![s] = [Unborn EXCEPT !.pc = "done"]]
             /\ UNCHANGED registry
          \/ /\ i # None /\ entries[i] \notin Searches
             /\ search' = [search EXCEPT ![s] = [born EXCEPT !.id = i,
                                !.flag = StartsCancelled(i),
                                !.doomed = entries[i] = Tombstone]]
             /\ entries' = [entries EXCEPT ![i] = s]
             /\ tombstones' = WithoutTombstone(i)
    /\ UNCHANGED <<version, caches, cancels>>

\* cancel_search, and the answer, which waits for an active search to finish.
CancelSearch(i) ==
    /\ Spend("cancels")
    /\ \/ /\ entries[i] \in Searches
          /\ search' = [search EXCEPT ![entries[i]].flag = TRUE]
          /\ cancels' = cancels \cup {entries[i]}
          /\ UNCHANGED registry
       \/ /\ entries[i] = Tombstone
          /\ UNCHANGED <<search, cancels, registry>>
       \/ /\ entries[i] = None
          /\ LET all == Append(tombstones, i)
                 extra == IF Len(all) > MaxTombstones THEN Len(all) - MaxTombstones ELSE 0
                 expired == {all[k] : k \in 1..extra}
             IN /\ tombstones' = SubSeq(all, extra + 1, Len(all))
                /\ entries' = [j \in Ids |-> IF j \in expired THEN None
                                             ELSE IF j = i THEN Tombstone ELSE entries[j]]
          /\ UNCHANGED <<search, cancels>>
    /\ UNCHANGED <<version, caches>>

\* The client hangs up: the token is tripped and nobody reads the response.
Disconnect(s) ==
    /\ search[s].pc \notin {"idle", "drop", "done"} /\ ~search[s].gone
    /\ Spend("disconnects")
    /\ search' = [search EXCEPT ![s].flag = TRUE, ![s].gone = TRUE]
    /\ UNCHANGED <<version, registry, caches, cancels>>

\* The daemon's deadline, which a context pack does not have.
Deadline(s) ==
    /\ search[s].pc \notin {"idle", "drop", "done"}
    /\ search[s].kind # "pack" /\ ~search[s].deadline
    /\ Spend("deadlines")
    /\ search' = [search EXCEPT ![s].flag = TRUE, ![s].deadline = TRUE]
    /\ UNCHANGED <<version, registry, caches, cancels>>

\* Drop of ActiveSearchRegistration: only its own entry goes.
ReleasedEntries(s) == [i \in Ids |-> IF entries[i] = s THEN None ELSE entries[i]]

\* Mutant: a search that has ended with an error wakes nobody.
UnregisterSilently(s) ==
    /\ search[s].pc = "drop"
    /\ entries' = ReleasedEntries(s)
    /\ cancels' = IF search[s].reply = "hits" THEN cancels \ {s} ELSE cancels
    /\ search' = [search EXCEPT ![s] = [Unborn EXCEPT !.pc = "done"]]
    /\ UNCHANGED <<version, tombstones, caches, left>>

\* The response is ready: the registration is dropped and those that wait for
\* the search to finish are told.
Unregister(s) ==
    /\ search[s].pc = "drop"
    /\ entries' = ReleasedEntries(s)
    /\ cancels' = cancels \ {s}
    /\ search' = [search EXCEPT ![s] = [Unborn EXCEPT !.pc = "done"]]
    /\ UNCHANGED <<version, tombstones, caches, left>>

-----------------------------------------------------------------------------
\* Pools of idle contexts.

Held(st) == {st[s].pool : s \in Searches} \ {None}

\* A pool is dropped with its idle contexts once neither the cache nor a
\* search refers to it.
Retire(ctx, held, idle, count) ==
    LET alive == held \cup (IF ctx = None THEN {} ELSE {ctx.pool})
        gone == Searches \ alive
    IN /\ pools' = [p \in Searches |-> IF p \in alive THEN idle[p] ELSE <<>>]
       /\ idleCount' = count - MapThenSumSet(LAMBDA p : Len(idle[p]), gone)

\* clear_workspace_contexts.
Clear ==
    /\ context' = None
    /\ Retire(None, Held(search), pools, idleCount)
    /\ results' = Nothing
    /\ revision' = revision + 1

\* retain_idle: the context of a search that has ended goes back to its pool,
\* within the bounds.
Retained(p, v) ==
    IF Len(pools[p]) < MaxIdlePerKey /\ idleCount < MaxIdle
      THEN [idle |-> [pools EXCEPT ![p] = Append(@, v)], count |-> idleCount + 1]
      ELSE [idle |-> pools, count |-> idleCount]

-----------------------------------------------------------------------------
\* One search.

\* cancelled_search_outcome and its relatives: the deadline answers with what
\* there is and a warning, a client's cancellation with an error.
CancelledReply(s) == IF search[s].deadline THEN "partial" ELSE "cancelled"

Ends(s, reply) == [search[s] EXCEPT !.pc = "drop", !.reply = reply, !.leased = FALSE,
                                    !.permit = FALSE, !.pool = None]

\* The check before anything else; a context pack starts without it.
Check(s) ==
    /\ search[s].pc = "check"
    /\ search' = [search EXCEPT ![s] =
                     IF search[s].flag /\ search[s].kind # "pack"
                       THEN Ends(s, "cancelled") ELSE [@ EXCEPT !.pc = "lease"]]
    /\ UNCHANGED <<version, registry, caches, cancels, left>>

\* acquire_search_leases; index runs of the daemon exclude it.
Lease(s) ==
    /\ search[s].pc = "lease"
    /\ search' = [search EXCEPT ![s] =
                     IF search[s].flag THEN Ends(s, CancelledReply(s))
                       ELSE [@ EXCEPT !.pc = "permit", !.leased = TRUE]]
    /\ UNCHANGED <<version, registry, caches, cancels, left>>

FreePermits == Permits - Cardinality({s \in Searches : search[s].permit})

\* acquire_search_permit: cancellation is preferred to a permit.
Permit(s) ==
    /\ search[s].pc = "permit"
    /\ ~search[s].flag => FreePermits > 0
    /\ search' = [search EXCEPT ![s] =
                     IF search[s].flag THEN Ends(s, CancelledReply(s))
                       ELSE [@ EXCEPT !.pc = "prepare", !.permit = TRUE]]
    /\ UNCHANGED <<version, registry, caches, cancels, left>>

\* The blocking task begins: nothing to do once cancelled; otherwise the index
\* is ready, or the search repairs it, or cannot.
Prepare(s) ==
    /\ search[s].pc = "prepare"
    /\ \/ /\ search[s].flag
          /\ search' = [search EXCEPT ![s].pc = "respond"]
          /\ UNCHANGED <<caches, left>>
       \/ /\ ~search[s].flag
          /\ search' = [search EXCEPT ![s].pc = "sign"]
          /\ UNCHANGED <<caches, left>>
       \/ /\ ~search[s].flag
          /\ Spend("failures")
          /\ search' = [search EXCEPT ![s] = Ends(s, "error")]
          /\ UNCHANGED caches
       \/ /\ ~search[s].flag
          /\ Spend("repairs")
          /\ Clear
          /\ search' = [search EXCEPT ![s].pc = "repair"]
    /\ UNCHANGED <<version, registry, cancels>>

\* The repair of ensure_queryable_workspace, under a shared lease, publishes and
\* the caches are cleared once more.
Repaired(s) ==
    /\ search[s].pc = "repair"
    /\ version' = version + 1
    /\ Clear
    /\ search' = [search EXCEPT ![s].pc = "sign"]
    /\ UNCHANGED <<registry, cancels, left>>

\* Revision first, then the signature of the stores.
Sign(s) ==
    /\ search[s].pc = "sign"
    /\ search' = [search EXCEPT ![s].rev = revision, ![s].sig = version,
                                ![s].pc = IF search[s].kind = "hybrid" THEN "lookup"
                                          ELSE IF search[s].kind = "regex" THEN "run"
                                          ELSE "context"]
    /\ UNCHANGED <<version, registry, caches, cancels, left>>

\* cached_query_results: same revision, same signature.
Cached(s) == revision = search[s].rev /\ search[s].sig \in DOMAIN results

\* A cached result is the answer of the search, unless one of its files has
\* gone from the workspace (retain_live_hits).
Lookup(s) ==
    /\ search[s].pc = "lookup"
    /\ \/ /\ Cached(s)
          /\ search' = [search EXCEPT ![s].pc = "respond",
                                      ![s].hits = results[search[s].sig]]
       \/ search' = [search EXCEPT ![s].pc = "context"]
    /\ UNCHANGED <<version, registry, caches, cancels, left>>

\* cached_search_context_for_signature: a pool for the signature, and from it an
\* idle context or one loaded now.
Context(s) ==
    /\ search[s].pc = "context"
    /\ IF search[s].flag /\ search[s].kind # "pack"
         THEN /\ search' = [search EXCEPT ![s].pc = "store"]
              /\ UNCHANGED caches
         ELSE LET sig == search[s].sig
                  ctx == IF context # None /\ context.sig = sig THEN context
                         ELSE [sig |-> sig, pool |-> s]
                  idle == pools[ctx.pool]
                  taken == idle # <<>>
                  st == [search EXCEPT ![s].pc = "run", ![s].pool = ctx.pool,
                           ![s].loaded = IF taken THEN Last(idle) ELSE version]
              IN /\ context' = ctx
                 /\ search' = st
                 /\ Retire(ctx, Held(st),
                           IF taken THEN [pools EXCEPT ![ctx.pool] = Front(@)] ELSE pools,
                           IF taken THEN idleCount - 1 ELSE idleCount)
                 /\ UNCHANGED <<results, revision>>
    /\ UNCHANGED <<version, registry, cancels, left>>

\* The search itself.  A token tripped on the way may cut it short.
Run(s) ==
    /\ search[s].pc = "run"
    /\ \E whole \in (IF search[s].flag THEN BOOLEAN ELSE {TRUE}) :
         LET p == search[s].pool
             st == [search EXCEPT ![s].pc = "store", ![s].pool = None,
                      ![s].hits = [ver |-> IF p = None THEN version ELSE search[s].loaded,
                                   whole |-> whole]]
         IN /\ search' = st
            /\ IF p = None THEN UNCHANGED <<pools, idleCount>>
                 ELSE LET back == Retained(p, search[s].loaded)
                      IN Retire(context, Held(st), back.idle, back.count)
    /\ UNCHANGED <<version, registry, context, results, revision, cancels, left>>

\* Mutant: what a cancelled search has found is stored as well.
MayStoreCancelled(s) == search[s].kind = "hybrid" /\ revision = search[s].rev

\* Only a search that nobody cancelled is stored, and only if no mutation has
\* cleared the caches since it was signed.
MayStore(s) ==
    /\ search[s].kind = "hybrid"
    /\ ~search[s].flag
    /\ revision = search[s].rev

\* The end of the blocking task: store_query_results, leases and permit go.
Store(s) ==
    /\ search[s].pc = "store"
    /\ results' = IF MayStore(s)
                    THEN [v \in DOMAIN results \cup {search[s].sig} |->
                            IF v = search[s].sig THEN search[s].hits ELSE results[v]]
                    ELSE results
    /\ search' = [search EXCEPT ![s].pc = "respond"]
    /\ UNCHANGED <<version, registry, context, pools, idleCount, revision, cancels, left>>

\* The response, after one more look at the token.
Respond(s) ==
    /\ search[s].pc = "respond"
    /\ search' = [search EXCEPT ![s] =
                     Ends(s, IF search[s].flag THEN CancelledReply(s) ELSE "hits")]
    /\ UNCHANGED <<version, registry, caches, cancels, left>>

-----------------------------------------------------------------------------
\* Everyone else.

\* An index run of the daemon: no search holds the lease, the caches are
\* cleared when it has published.
IndexRun ==
    /\ Spend("runs")
    /\ \A s \in Searches : ~search[s].leased
    /\ version' = version + 1
    /\ Clear
    /\ UNCHANGED <<registry, search, cancels>>

\* A publication by another process, which knows of no lease and no cache.
External ==
    /\ Spend("externals")
    /\ version' = version + 1
    /\ UNCHANGED <<registry, caches, search, cancels>>

Step(s) ==
    \/ Check(s) \/ Lease(s) \/ Permit(s) \/ Prepare(s) \/ Repaired(s) \/ Sign(s)
    \/ Lookup(s) \/ Context(s) \/ Run(s) \/ Store(s) \/ Respond(s) \/ Unregister(s)

Next ==
    \/ \E s \in Searches, kind \in Kinds, i \in Ids \cup {None} : Register(s, kind, i)
    \/ \E s \in Searches : Step(s) \/ Disconnect(s) \/ Deadline(s)
    \/ \E i \in Ids : CancelSearch(i)
    \/ IndexRun
    \/ External

Spec == Init /\ [][Next]_vars

\* Tasks that can run are run, and the semaphore's queue is first come, first
\* served.
FairSpec == Spec /\ \A s \in Searches : SF_vars(Step(s))

-----------------------------------------------------------------------------
\* Properties.

SearchState ==
    [pc : {"idle", "check", "lease", "permit", "prepare", "repair", "sign", "lookup",
           "context", "run", "store", "respond", "drop", "done"},
     kind : Kinds, id : Ids \cup {None}, flag : BOOLEAN, deadline : BOOLEAN,
     gone : BOOLEAN, leased : BOOLEAN, permit : BOOLEAN, sig : Nat, rev : Nat,
     pool : Searches \cup {None}, loaded : Nat, hits : [ver : Nat, whole : BOOLEAN],
     reply : {"none", "hits", "partial", "cancelled", "error"},
     floor : Nat, doomed : BOOLEAN]

\* The variables keep their types and the permits their number.
TypeOK ==
    /\ version \in Nat /\ revision \in Nat /\ idleCount \in Nat
    /\ entries \in [Ids -> Searches \cup {None, Tombstone}]
    /\ tombstones \in Seq(Ids)
    /\ context # None => context.sig \in Nat /\ context.pool \in Searches
    /\ pools \in [Searches -> Seq(Nat)]
    /\ \A v \in DOMAIN results : results[v] \in [ver : Nat, whole : BOOLEAN]
    /\ search \in [Searches -> SearchState]
    /\ cancels \subseteq Searches
    /\ FreePermits \in 0..Permits

\* The registry: every tombstone is queued once and within the bound, every
\* active entry belongs to the one search that runs under its id (daemon.rs,
\* register_search, cancel_search and the registration's drop).
RegistryExact ==
    /\ Len(tombstones) <= MaxTombstones
    /\ IsInjective(tombstones)
    /\ ToSet(tombstones) = {i \in Ids : entries[i] = Tombstone}
    /\ \A i \in Ids, s \in Searches :
         entries[i] = s <=> search[s].id = i /\ search[s].pc # "done"

\* A cancellation that came before its search, and was not dropped for want of
\* room, wins over the search whenever the search starts (daemon.rs,
\* SearchCancellationEntry::Tombstone).
EarlyCancelWins ==
    \A s \in Searches : search[s].doomed => search[s].reply \in {"none", "cancelled"}

\* Hits returned without a warning come from a search that ran to its end on an
\* index at least as new as the request, whether they were cached, read
\* through an idle context or computed (daemon.rs, the Search handler's caches).
FreshAnswers ==
    \A s \in Searches :
        search[s].reply = "hits" => search[s].hits.whole /\ search[s].hits.ver >= search[s].floor

\* The count of idle contexts is the number kept in pools, and never exceeds
\* its bound, although pools are dropped while searches still use them
\* (daemon.rs, SearchContextPool).
IdleAccounted ==
    /\ idleCount = MapThenSumSet(LAMBDA p : Len(pools[p]), Searches)
    /\ idleCount <= MaxIdle

\* Every search ends, and nobody waits for ever for a cancelled one to finish
\* (daemon.rs, CancelSearch awaiting finished()).
CancelsReturn ==
    <>[](cancels = {} /\ \A s \in Searches : search[s].pc \in {"idle", "done"})
=============================================================================
