---------------------------- MODULE JobLedgerProofs ----------------------------
(***************************************************************************)
(* NoPhantomRun and TrustedIsReconciled of JobLedger, for any number of    *)
(* runs, watches, updaters and faults.                                     *)
(***************************************************************************)
EXTENDS JobLedger, FiniteSetTheorems, TLAPS

Fields(rec) ==
    rec = [owner |-> rec.owner, nonce |-> rec.nonce, active |-> rec.active,
           fresh |-> rec.fresh, reconciling |-> rec.reconciling]

Started == {"running", "unlocked", "joined", "dead"}
Places == {"new", "locked", "done"} \cup Started

\* An active record belongs to a run that has begun and has not finished; it
\* may have died.
Owned(rec, places) ==
    rec # None =>
        /\ Fields(rec)
        /\ rec.active => rec.owner \in Runs /\ places[rec.owner] \in Started

LedgerInv ==
    /\ ledger = [k \in Kinds |-> ledger[k]]
    /\ run \in [Runs -> Places]
    /\ Owned(ledger["indexing"], run)

\* The invariant implies the property: a dead run's record is not active.
LEMMA InvImpliesNoPhantom == LedgerInv => NoPhantomRun
<1> SUFFICES ASSUME LedgerInv, Active("indexing")
             PROVE  run[ledger["indexing"].owner] \in {"running", "unlocked", "joined"}
  BY DEF NoPhantomRun
<1> DEFINE who == ledger["indexing"].owner
<1>1. who \in Runs /\ run[who] \in Started /\ Alive(who)
  BY DEF LedgerInv, Owned, Active
<1>2. who \notin Watches
  BY <1>1, LedgerAssumption
<1>3. run[who] # "dead"
  BY <1>1, <1>2 DEF Alive
<1>4. QED
  BY <1>1, <1>3 DEF Started

\* A run that moves from one started place to another, or before it started.
LEMMA MoveKeeps ==
    ASSUME LedgerInv, NEW r \in Runs, NEW to \in Places,
           run' = [run EXCEPT ![r] = to], UNCHANGED ledger,
           to \in Started \/ run[r] \notin Started
    PROVE  LedgerInv'
<1>1. run' \in [Runs -> Places]
  BY DEF LedgerInv
<1>2. Owned(ledger["indexing"], run)
  BY DEF LedgerInv
<1>3. Owned(ledger'["indexing"], run')
  BY <1>2 DEF LedgerInv, Owned
<1>4. QED
  BY <1>1, <1>3 DEF LedgerInv

\* A watcher's record is written, or none: the index runs' record stays.
LEMMA WatcherKeeps ==
    ASSUME LedgerInv, UNCHANGED run,
           \/ UNCHANGED ledger
           \/ \E rec : ledger' = [ledger EXCEPT !["watcher"] = rec]
    PROVE  LedgerInv'
<1>1. CASE UNCHANGED ledger
  BY <1>1 DEF LedgerInv
<1>2. CASE \E rec : ledger' = [ledger EXCEPT !["watcher"] = rec]
  <2>1. PICK rec : ledger' = [ledger EXCEPT !["watcher"] = rec]
    BY <1>2
  <2>2. ledger'["indexing"] = ledger["indexing"]
    BY <2>1 DEF LedgerInv, Kinds
  <2>3. ledger' = [k \in Kinds |-> ledger'[k]]
    BY <2>1 DEF LedgerInv, Kinds
  <2>4. QED
    BY <2>2, <2>3 DEF LedgerInv
<1>3. QED
  BY <1>1, <1>2

\* The record of the index runs is replaced by one that is owned.
LEMMA ReplaceKeeps ==
    ASSUME LedgerInv, NEW rec, Owned(rec, run'),
           ledger' = [ledger EXCEPT !["indexing"] = rec],
           run' \in [Runs -> Places]
    PROVE  LedgerInv'
<1>1. ledger'["indexing"] = rec
  BY DEF LedgerInv, Kinds
<1>2. ledger' = [k \in Kinds |-> ledger'[k]]
  BY DEF LedgerInv, Kinds
<1>3. QED
  BY <1>1, <1>2 DEF LedgerInv

\* A refreshed record is owned as before.
LEMMA RefreshOwned ==
    ASSUME NEW rec, NEW b, Fields(rec)
    PROVE  /\ Fields([rec EXCEPT !.fresh = b])
           /\ [rec EXCEPT !.fresh = b].active = rec.active
           /\ [rec EXCEPT !.fresh = b].owner = rec.owner
           /\ Fields([rec EXCEPT !.reconciling = b])
           /\ [rec EXCEPT !.reconciling = b].active = rec.active
           /\ [rec EXCEPT !.reconciling = b].owner = rec.owner
BY DEF Fields

\* start_job by a run that has begun.
LEMMA StartKeeps ==
    ASSUME LedgerInv, NEW r \in Runs, StartJob("indexing", r, FALSE),
           run' \in [Runs -> Places], run'[r] \in Started
    PROVE  LedgerInv'
<1> DEFINE rec == [owner |-> r, nonce |-> FreshNonce, active |-> TRUE,
                   fresh |-> TRUE, reconciling |-> FALSE]
<1>1. ledger' = [ledger EXCEPT !["indexing"] = rec]
  BY DEF StartJob
<1>2. Fields(rec) /\ rec.owner = r
  BY DEF Fields
<1>3. Owned(rec, run')
  BY <1>2 DEF Owned
<1> HIDE DEF rec
<1>4. QED
  BY <1>1, <1>3, ReplaceKeeps

\* The steps of an index run.
LEMMA RunKeeps ==
    ASSUME LedgerInv, NEW r \in Runs, RunStep(r)
    PROVE  LedgerInv'
<1>0. run \in [Runs -> Places] /\ Owned(ledger["indexing"], run)
  BY DEF LedgerInv
<1>1. CASE Acquire(r)
  BY <1>1, MoveKeeps DEF Acquire, At, Places, Started
<1>2. CASE Wipe(r)
  <2>1. ledger' = [k \in Kinds |-> None] /\ run' = run
    BY <1>2 DEF Wipe, runVars
  <2>2. QED
    BY <2>1, <1>0 DEF LedgerInv, Owned, Kinds
<1>3. CASE BeginRun(r)
  <2>1. run' \in [Runs -> Places] /\ run'[r] \in Started /\ StartJob("indexing", r, FALSE)
    BY <1>3, <1>0 DEF BeginRun, At, Places, Started
  <2>2. QED
    BY <2>1, StartKeeps
<1>4. CASE BeatRun(r)
  <2>1. run' = run /\ run[r] \in Started /\ HeartbeatJob("indexing", r)
    BY <1>4 DEF BeatRun, runVars, Started
  <2>2. CASE ledger["indexing"] = None
    BY <2>1, <2>2, <1>0, StartKeeps DEF HeartbeatJob
  <2>3. CASE ledger["indexing"] # None
    <3> DEFINE old == ledger["indexing"]
               mid == [old EXCEPT !.fresh = TRUE]
               rec == [mid EXCEPT !.reconciling = FALSE]
    <3>1. ledger' = [ledger EXCEPT !["indexing"] = rec]
      BY <2>1, <2>3 DEF HeartbeatJob, LedgerInv, Kinds
    <3>2. Fields(old)
      BY <2>3, <1>0 DEF Owned
    <3>3. Fields(mid) /\ mid.active = old.active /\ mid.owner = old.owner
      BY <3>2, RefreshOwned
    <3>4. Fields(rec) /\ rec.active = mid.active /\ rec.owner = mid.owner
      BY <3>3, RefreshOwned
    <3>5. Owned(rec, run')
      BY <3>3, <3>4, <2>1, <2>3, <1>0 DEF Owned
    <3> HIDE DEF rec
    <3>6. QED
      BY <3>1, <3>5, <2>1, <1>0, ReplaceKeeps
  <2>4. QED
    BY <2>2, <2>3
<1>5. CASE UnlockRun(r)
  BY <1>5, MoveKeeps DEF UnlockRun, At, Places, Started
<1>6. CASE JoinHeartbeat(r)
  BY <1>6, MoveKeeps DEF JoinHeartbeat, At, Places, Started
<1>7. CASE FinishRun(r)
  <2>1. run' \in [Runs -> Places] /\ ledger' = [ledger EXCEPT !["indexing"] = Finished]
    BY <1>7, <1>0 DEF FinishRun, FinishJob, At, Places
  <2>2. Owned(Finished, run')
    BY DEF Finished, Owned, Fields
  <2>3. QED
    BY <2>1, <2>2, ReplaceKeeps
<1>8. CASE LeaveRun(r)
  BY <1>8, MoveKeeps DEF LeaveRun, At, Places, Started
<1>9. CASE KillRun(r)
  BY <1>9, MoveKeeps DEF KillRun, Places, Started
<1>10. QED
  BY <1>1, <1>2, <1>3, <1>4, <1>5, <1>6, <1>7, <1>8, <1>9 DEF RunStep

\* The operations on the watcher's record write no other.
LEMMA WatcherOperations ==
    ASSUME LedgerInv,
           \/ \E who, b : StartJob("watcher", who, b)
           \/ \E b, c : Heartbeat("watcher", b, c)
           \/ FinishJob("watcher")
           \/ \E n : FinishJobIfCurrent("watcher", n)
    PROVE  \E rec : ledger' = [ledger EXCEPT !["watcher"] = rec]
<1>1. ASSUME NEW who, NEW b, StartJob("watcher", who, b)
      PROVE  \E rec : ledger' = [ledger EXCEPT !["watcher"] = rec]
  BY <1>1 DEF StartJob
<1>2. ASSUME NEW b, NEW c, Heartbeat("watcher", b, c)
      PROVE  \E rec : ledger' = [ledger EXCEPT !["watcher"] = rec]
  <2> DEFINE rec == [[[ledger["watcher"] EXCEPT !.fresh = TRUE]
                        EXCEPT !.active = b] EXCEPT !.reconciling = c]
  <2>1. ledger' = [ledger EXCEPT !["watcher"] = rec]
    BY <1>2 DEF Heartbeat, LedgerInv, Kinds
  <2>2. QED
    BY <2>1
<1>3. ASSUME FinishJob("watcher")
      PROVE  \E rec : ledger' = [ledger EXCEPT !["watcher"] = rec]
  BY <1>3 DEF FinishJob
<1>4. ASSUME NEW n, FinishJobIfCurrent("watcher", n)
      PROVE  \E rec : ledger' = [ledger EXCEPT !["watcher"] = rec]
  BY <1>4 DEF FinishJobIfCurrent
<1>5. QED
  BY <1>1, <1>2, <1>3, <1>4

\* The steps of a task that updates a watcher's record.
LEMMA TaskKeeps ==
    ASSUME LedgerInv, NEW w \in Watches, NEW t, TaskStep(w, t)
    PROVE  LedgerInv'
<1>1. UNCHANGED run
  BY DEF TaskStep, Wake, Read, ReadNonce, Apply, Check, Create, Mark, runVars
<1>2. \/ UNCHANGED ledger
      \/ \E who, b : StartJob("watcher", who, b)
      \/ \E b, c : Heartbeat("watcher", b, c)
  BY DEF TaskStep, Wake, Read, ReadNonce, Apply, Check, Create, Mark
<1>3. QED
  BY <1>1, <1>2, WatcherOperations, WatcherKeeps

\* The steps of a watcher.
LEMMA WatchKeeps ==
    ASSUME LedgerInv, NEW w \in Watches, WatchStep(w)
    PROVE  LedgerInv'
<1>1. CASE Register(w) \/ Registered(w) \/ Publish(w) \/ Stop(w) \/ Stopped(w)
  <2>1. UNCHANGED run
    BY <1>1 DEF Register, Registered, Publish, Stop, Stopped, runVars
  <2>2. \/ UNCHANGED ledger
        \/ \E who, b : StartJob("watcher", who, b)
        \/ \E n : FinishJobIfCurrent("watcher", n)
    BY <1>1 DEF Register, Registered, Publish, Stop, Stopped
  <2>3. QED
    BY <2>1, <2>2, WatcherOperations, WatcherKeeps
<1>2. CASE \E t \in Updaters \cup {"publisher"} : TaskStep(w, t)
  BY <1>2, TaskKeeps
<1>3. QED
  BY <1>1, <1>2 DEF WatchStep

\* A heartbeat that is no longer fresh leaves the owner as it was.
LEMMA LapseKeeps ==
    ASSUME LedgerInv, NEW k \in Kinds, Lapse(k)
    PROVE  LedgerInv'
<1>1. run' = run /\ ledger[k] # None /\ ledger' = [ledger EXCEPT ![k].fresh = FALSE]
  BY DEF Lapse, runVars
<1> DEFINE rec == [ledger[k] EXCEPT !.fresh = FALSE]
<1>2. ledger' = [ledger EXCEPT ![k] = rec]
  BY <1>1
<1>3. CASE k = "indexing"
  <2>1. Fields(ledger[k]) /\ run \in [Runs -> Places] /\ Owned(ledger[k], run)
    BY <1>1, <1>3 DEF LedgerInv, Owned
  <2>2. Fields(rec) /\ rec.active = ledger[k].active /\ rec.owner = ledger[k].owner
    BY <2>1, RefreshOwned
  <2>3. Owned(rec, run')
    BY <1>1, <2>1, <2>2 DEF Owned
  <2> HIDE DEF rec
  <2>4. QED
    BY <1>1, <1>2, <1>3, <2>1, <2>3, ReplaceKeeps
<1>4. CASE k = "watcher"
  BY <1>1, <1>2, <1>4, WatcherKeeps
<1>5. QED
  BY <1>3, <1>4 DEF Kinds

\* Every step keeps the invariant.
LEMMA NextKeeps == LedgerInv /\ [Next]_vars => LedgerInv'
<1> SUFFICES ASSUME LedgerInv, [Next]_vars
             PROVE  LedgerInv'
  OBVIOUS
<1>1. CASE \E r \in Runs : RunStep(r)
  BY <1>1, RunKeeps
<1>2. CASE \E w \in Watches : WatchStep(w)
  BY <1>2, WatchKeeps
<1>3. CASE \E k \in Kinds : Lapse(k)
  BY <1>3, LapseKeeps
<1>4. CASE RegistrationFails
  <2>1. UNCHANGED run /\ FinishJob("watcher")
    BY <1>4 DEF RegistrationFails, runVars
  <2>2. QED
    BY <2>1, WatcherOperations, WatcherKeeps
<1>5. CASE KillDaemon
  BY <1>5, WatcherKeeps DEF KillDaemon, runVars
<1>6. CASE UNCHANGED vars
  BY <1>6, WatcherKeeps DEF vars
<1>7. QED
  BY <1>1, <1>2, <1>3, <1>4, <1>5, <1>6 DEF Next

\* Nothing is in the ledger at first.
LEMMA InitLedger == Init => LedgerInv
<1> SUFFICES ASSUME Init
             PROVE  LedgerInv
  OBVIOUS
<1>1. ledger = [k \in Kinds |-> None] /\ run = [r \in Runs |-> "new"]
  BY DEF Init
<1>2. ledger["indexing"] = None
  BY <1>1 DEF Kinds
<1>3. QED
  BY <1>1, <1>2 DEF LedgerInv, Owned, Places

\* NoPhantomRun: however heartbeats, unguarded finishes, wipes and crashes of
\* any number of runs and watchers interleave, a run that the ledger reports
\* active has begun and has not ended.
THEOREM NoPhantom == Spec => []NoPhantomRun
<1>1. QED
  BY InitLedger, NextKeeps, InvImpliesNoPhantom, PTL DEF Spec

-----------------------------------------------------------------------------
(* The watcher's record.                                                   *)

Titles == Updaters \cup {"publisher"}

\* A record that is trusted belongs to a watcher that has reconciled.
Believed(rec, isReady) ==
    rec # None =>
        /\ Fields(rec)
        /\ rec.active /\ ~rec.reconciling => rec.owner \in Watches /\ isReady[rec.owner]

\* What a task has read and will write was read after its watcher was ready,
\* unless it says that the watcher is not.
Carried(w, mine, isReady) ==
    mine.at \notin {"idle", "begin"} => (mine.live \/ ~mine.reconciling => isReady[w])

\* A watcher, or one of its tasks, that remembers the nonce of the record has
\* made the record.
Names(rec, n, w) == rec # None /\ n # 0 /\ rec.nonce = n => rec.owner = w

Remembers(rec, nonces) == \A w \in Watches : Names(rec, nonces[w], w)

Carrying(rec, tasks, isReady) ==
    \A w \in Watches, t \in Titles :
        /\ Carried(w, tasks[<<w, t>>], isReady)
        /\ Names(rec, tasks[<<w, t>>].nonce, w)

WatchTypes ==
    /\ ledger = [k \in Kinds |-> ledger[k]]
    /\ ready \in [Watches -> BOOLEAN]
    /\ jobNonce \in [Watches -> Nonces \cup {0}]
    /\ task \in [Tasks -> TaskStates]

WatchInv ==
    /\ WatchTypes
    /\ Believed(ledger["watcher"], ready)
    /\ Remembers(ledger["watcher"], jobNonce)
    /\ Carrying(ledger["watcher"], task, ready)

\* The values of a function on a finite set are no more than its arguments.
LEMMA ImageBound ==
    ASSUME NEW S, IsFiniteSet(S), NEW f
    PROVE  /\ IsFiniteSet({f[x] : x \in S})
           /\ Cardinality({f[x] : x \in S}) <= Cardinality(S)
<1> DEFINE T == {f[x] : x \in S}
           g == [x \in S |-> f[x]]
<1>1. g \in [S -> T] /\ \A y \in T : \E x \in S : g[x] = y
  OBVIOUS
<1>2. g \in Surjection(S, T)
  BY <1>1 DEF Surjection
<1> HIDE DEF T, g
<1>3. IsFiniteSet(T) /\ Cardinality(T) <= Cardinality(S)
  BY <1>2, FS_Surjection
<1>4. QED
  BY <1>3 DEF T

\* The union of two finite sets is no larger than both together.
LEMMA UnionBound ==
    ASSUME NEW S, NEW T, IsFiniteSet(S), IsFiniteSet(T)
    PROVE  /\ IsFiniteSet(S \cup T)
           /\ Cardinality(S \cup T) <= Cardinality(S) + Cardinality(T)
<1>1. /\ IsFiniteSet(S \cup T)
      /\ Cardinality(S \cup T) = Cardinality(S) + Cardinality(T) - Cardinality(S \cap T)
  BY FS_Union
<1>2. IsFiniteSet(S \cap T)
  BY FS_Intersection
<1>3. /\ Cardinality(S) \in Nat /\ Cardinality(T) \in Nat
      /\ Cardinality(S \cap T) \in Nat
  BY <1>2, FS_CardinalityType
<1>4. QED
  BY <1>1, <1>3

\* There are more nonces than places that remember one.
LEMMA NonceExists == \E n \in Nonces : ~NonceInUse(n)
<1> DEFINE InLedger == {ledger[k].nonce : k \in Kinds}
           InWatches == {jobNonce[w] : w \in Watches}
           InTasks == {task[t].nonce : t \in Tasks}
           nw == Cardinality(Watches)
           nu == Cardinality(Updaters)
<1>1. nw \in Nat /\ nu \in Nat
  BY LedgerAssumption, FS_CardinalityType
<1>2. IsFiniteSet(InLedger) /\ Cardinality(InLedger) <= 2
  <2> DEFINE f == [k \in Kinds |-> ledger[k].nonce]
  <2>1. InLedger = {f[k] : k \in Kinds}
    OBVIOUS
  <2>2. IsFiniteSet(Kinds) /\ Cardinality(Kinds) = 2
    <3>1. IsFiniteSet({"watcher"}) /\ Cardinality({"watcher"}) = 1
      BY FS_Singleton
    <3>2. Kinds = {"watcher"} \cup {"indexing"} /\ "indexing" \notin {"watcher"}
      BY DEF Kinds
    <3>3. QED
      BY <3>1, <3>2, FS_AddElement
  <2> HIDE DEF f
  <2>3. IsFiniteSet({f[k] : k \in Kinds}) /\ Cardinality({f[k] : k \in Kinds}) <= 2
    BY <2>2, ImageBound
  <2>4. QED
    BY <2>1, <2>3
<1>3. IsFiniteSet(InWatches) /\ Cardinality(InWatches) <= nw
  BY LedgerAssumption, ImageBound
<1>4. IsFiniteSet(InTasks) /\ Cardinality(InTasks) <= nw * (nu + 1)
  <2> DEFINE f == [t \in Tasks |-> task[t].nonce]
  <2>1. InTasks = {f[t] : t \in Tasks}
    OBVIOUS
  <2>2. IsFiniteSet(Titles) /\ Cardinality(Titles) = nu + 1
    BY LedgerAssumption, FS_AddElement DEF Titles
  <2>3. IsFiniteSet(Tasks) /\ Cardinality(Tasks) = nw * (nu + 1)
    BY <2>2, LedgerAssumption, FS_Product DEF Tasks, Titles
  <2> HIDE DEF f
  <2>4. QED
    BY <2>1, <2>3, ImageBound
<1> HIDE DEF InLedger, InWatches, InTasks, nw, nu
<1> DEFINE Used == (InLedger \cup InWatches) \cup InTasks
<1>5. IsFiniteSet(Used) /\ Cardinality(Used) <= 2 + nw + nw * (nu + 1)
  <2> DEFINE Both == InLedger \cup InWatches
  <2>1. IsFiniteSet(Both) /\ Cardinality(Both) <= Cardinality(InLedger) + Cardinality(InWatches)
    BY <1>2, <1>3, UnionBound
  <2> HIDE DEF Both
  <2>2. /\ IsFiniteSet(Both \cup InTasks)
        /\ Cardinality(Both \cup InTasks) <= Cardinality(Both) + Cardinality(InTasks)
    BY <2>1, <1>4, UnionBound
  <2>3. /\ Cardinality(InLedger) \in Nat /\ Cardinality(InWatches) \in Nat
        /\ Cardinality(InTasks) \in Nat /\ Cardinality(Both) \in Nat
        /\ Cardinality(Both \cup InTasks) \in Nat
    BY <1>2, <1>3, <1>4, <2>1, <2>2, FS_CardinalityType
  <2>4. nw * (nu + 1) \in Nat
    BY <1>1
  <2> DEFINE m == nw * (nu + 1)
  <2> HIDE DEF m
  <2>5. Cardinality(Both \cup InTasks) <= 2 + nw + m
    BY <1>1, <1>2, <1>3, <1>4, <2>1, <2>2, <2>3, <2>4 DEF m
  <2>6. QED
    BY <2>2, <2>5 DEF Both, m
<1>6. 3 + nw * (2 + nu) \in Nat /\ 2 + nw + nw * (nu + 1) < 3 + nw * (2 + nu)
  BY <1>1
<1>7. IsFiniteSet(Nonces) /\ Cardinality(Nonces) = 3 + nw * (2 + nu)
  <2>1. Nonces = 1 .. (3 + nw * (2 + nu))
    BY DEF Nonces, nw, nu
  <2> DEFINE m == 3 + nw * (2 + nu)
  <2>2. m \in Nat /\ m >= 1
    BY <1>1
  <2> HIDE DEF m
  <2>3. IsFiniteSet(1 .. m) /\ Cardinality(1 .. m) = m
    BY <2>2, FS_Interval
  <2>4. QED
    BY <2>1, <2>3 DEF m
<1>8. ~(Nonces \subseteq Used)
  <2> SUFFICES ASSUME Nonces \subseteq Used
               PROVE  FALSE
    OBVIOUS
  <2>1. Cardinality(Nonces) <= Cardinality(Used)
    BY <1>5, FS_Subset
  <2>2. Cardinality(Used) \in Nat
    BY <1>5, FS_CardinalityType
  <2> HIDE DEF Used
  <2>3. 2 + nw + nw * (nu + 1) \in Nat
    BY <1>1
  <2>4. QED
    BY <1>5, <1>6, <1>7, <2>1, <2>2, <2>3
<1>9. PICK n \in Nonces : n \notin Used
  BY <1>8
<1>10. ~NonceInUse(n)
  BY <1>9 DEF NonceInUse, InLedger, InWatches, InTasks
<1>11. QED
  BY <1>10

\* Uuid::new_v4 gives a nonce that nobody remembers.
LEMMA FreshIsFresh == FreshNonce \in Nonces /\ ~NonceInUse(FreshNonce)
BY NonceExists DEF FreshNonce

\* A nonce is a number, and not the one that stands for none.
LEMMA NonceNotZero == \A n \in Nonces : n # 0
<1>1. Cardinality(Watches) \in Nat /\ Cardinality(Updaters) \in Nat
  BY LedgerAssumption, FS_CardinalityType
<1>2. 3 + Cardinality(Watches) * (2 + Cardinality(Updaters)) \in Nat
  BY <1>1
<1>3. QED
  BY <1>2 DEF Nonces

\* A task's state may be replaced by one that carries what it may.
LEMMA TaskUpdate ==
    ASSUME task \in [Tasks -> TaskStates], NEW rec, NEW isReady,
           Carrying(rec, task, isReady),
           NEW w \in Watches, NEW t \in Titles, NEW new \in TaskStates,
           Carried(w, new, isReady), Names(rec, new.nonce, w)
    PROVE  /\ [task EXCEPT ![<<w, t>>] = new] \in [Tasks -> TaskStates]
           /\ Carrying(rec, [task EXCEPT ![<<w, t>>] = new], isReady)
<1> DEFINE tasks == [task EXCEPT ![<<w, t>>] = new]
<1>1. <<w, t>> \in Tasks
  BY DEF Tasks, Titles
<1>2. tasks \in [Tasks -> TaskStates]
  BY <1>1
<1>3. ASSUME NEW v \in Watches, NEW u \in Titles
      PROVE  Carried(v, tasks[<<v, u>>], isReady) /\ Names(rec, tasks[<<v, u>>].nonce, v)
  <2>1. <<v, u>> \in Tasks
    BY DEF Tasks, Titles
  <2>2. CASE <<v, u>> = <<w, t>>
    <3>1. v = w /\ tasks[<<v, u>>] = new
      BY <2>2, <1>1
    <3>2. QED
      BY <3>1
  <2>3. CASE <<v, u>> # <<w, t>>
    <3>1. tasks[<<v, u>>] = task[<<v, u>>]
      BY <2>3, <2>1
    <3>2. QED
      BY <3>1 DEF Carrying
  <2>4. QED
    BY <2>2, <2>3
<1>4. QED
  BY <1>2, <1>3 DEF Carrying

\* The record changes, and is no longer anybody's or is its owner's as before.
LEMMA RecordUpdate ==
    ASSUME NEW old, NEW rec, NEW nonces, NEW tasks, NEW isReady,
           Remembers(old, nonces), Carrying(old, tasks, isReady),
           \/ rec = None
           \/ rec.nonce = 0
           \/ old # None /\ rec.nonce = old.nonce /\ rec.owner = old.owner
    PROVE  Remembers(rec, nonces) /\ Carrying(rec, tasks, isReady)
<1>1. \A n, w : Names(old, n, w) => Names(rec, n, w)
  BY DEF Names
<1>2. QED
  BY <1>1 DEF Remembers, Carrying

\* The record is a new one: nobody remembers it.
LEMMA RecordFresh ==
    ASSUME WatchInv, NEW rec, rec.nonce = FreshNonce
    PROVE  Remembers(rec, jobNonce) /\ Carrying(rec, task, ready)
<1>1. ~NonceInUse(FreshNonce)
  BY FreshIsFresh
<1>2. \A w \in Watches : jobNonce[w] # FreshNonce
  BY <1>1 DEF NonceInUse
<1>3. \A w \in Watches, t \in Titles : task[<<w, t>>].nonce # FreshNonce
  BY <1>1 DEF NonceInUse, Tasks, Titles
<1>4. QED
  BY <1>2, <1>3 DEF WatchInv, Remembers, Carrying, Names

\* The nonce of one watcher changes.
LEMMA NonceUpdate ==
    ASSUME jobNonce \in [Watches -> Nonces \cup {0}], NEW rec,
           Remembers(rec, jobNonce), NEW w \in Watches, NEW n \in Nonces \cup {0},
           Names(rec, n, w)
    PROVE  /\ [jobNonce EXCEPT ![w] = n] \in [Watches -> Nonces \cup {0}]
           /\ Remembers(rec, [jobNonce EXCEPT ![w] = n])
BY DEF Remembers

\* Only the record of the watchers changes.
LEMMA RecordStep ==
    ASSUME WatchInv, NEW rec, ledger' = [ledger EXCEPT !["watcher"] = rec],
           UNCHANGED <<ready, jobNonce, task>>, Believed(rec, ready),
           \/ rec = None
           \/ rec.nonce = 0
           \/ /\ ledger["watcher"] # None
              /\ rec.nonce = ledger["watcher"].nonce
              /\ rec.owner = ledger["watcher"].owner
    PROVE  WatchInv'
<1>1. ledger'["watcher"] = rec /\ ledger' = [k \in Kinds |-> ledger'[k]]
  BY DEF WatchInv, WatchTypes, Kinds
<1>2. Remembers(rec, jobNonce) /\ Carrying(rec, task, ready)
  BY RecordUpdate DEF WatchInv
<1>3. WatchTypes'
  BY <1>1 DEF WatchInv, WatchTypes
<1>4. QED
  BY <1>1, <1>2, <1>3 DEF WatchInv

\* A task moves without touching the ledger.
LEMMA TaskMove ==
    ASSUME WatchInv, NEW w \in Watches, NEW t \in Titles, NEW new \in TaskStates,
           task' = [task EXCEPT ![<<w, t>>] = new],
           UNCHANGED <<ledger, ready, jobNonce>>,
           Carried(w, new, ready), Names(ledger["watcher"], new.nonce, w)
    PROVE  WatchInv'
<1>1. task' \in [Tasks -> TaskStates] /\ Carrying(ledger["watcher"], task', ready)
  BY TaskUpdate DEF WatchInv, WatchTypes
<1>2. QED
  BY <1>1 DEF WatchInv, WatchTypes

\* Setting a field of a record leaves the others.
LEMMA SetField ==
    ASSUME NEW rec, NEW b, Fields(rec)
    PROVE  /\ Fields([rec EXCEPT !.active = b])
           /\ [rec EXCEPT !.active = b].active = b
           /\ [rec EXCEPT !.active = b].owner = rec.owner
           /\ [rec EXCEPT !.active = b].nonce = rec.nonce
           /\ [rec EXCEPT !.fresh = b].nonce = rec.nonce
           /\ [rec EXCEPT !.fresh = b].reconciling = rec.reconciling
           /\ [rec EXCEPT !.reconciling = b].reconciling = b
           /\ [rec EXCEPT !.reconciling = b].nonce = rec.nonce
BY DEF Fields

\* heartbeat_job_if_current, by a task of the watcher that owns the record.
LEMMA BeatKeeps ==
    ASSUME WatchInv, NEW w \in Watches, NEW t \in Titles,
           task[<<w, t>>].at \notin {"idle", "begin"},
           Current("watcher", task[<<w, t>>].nonce),
           Heartbeat("watcher", task[<<w, t>>].live, task[<<w, t>>].reconciling)
    PROVE  \E rec : /\ ledger' = [ledger EXCEPT !["watcher"] = rec]
                    /\ rec.nonce = ledger["watcher"].nonce
                    /\ rec.owner = ledger["watcher"].owner
                    /\ Believed(rec, ready)
<1> DEFINE old == ledger["watcher"]
           mine == task[<<w, t>>]
           one == [old EXCEPT !.fresh = TRUE]
           two == [one EXCEPT !.active = mine.live]
           rec == [two EXCEPT !.reconciling = mine.reconciling]
<1>1. old # None /\ Fields(old) /\ old.owner = w
  BY DEF WatchInv, Believed, Carrying, Names, Current
<1>2. ledger' = [ledger EXCEPT !["watcher"] = rec]
  BY DEF Heartbeat, WatchInv, WatchTypes, Kinds
<1>3. Fields(one) /\ one.nonce = old.nonce /\ one.owner = old.owner
  BY <1>1, RefreshOwned, SetField
<1> HIDE DEF one
<1>4. /\ Fields(two) /\ two.nonce = old.nonce /\ two.owner = old.owner
      /\ two.active = mine.live
  BY <1>3, SetField
<1> HIDE DEF two
<1>5. /\ Fields(rec) /\ rec.nonce = old.nonce /\ rec.owner = old.owner
      /\ rec.active = mine.live /\ rec.reconciling = mine.reconciling
  <2>1. Fields(rec) /\ rec.owner = two.owner /\ rec.active = two.active
    BY <1>4, RefreshOwned
  <2>2. rec.nonce = two.nonce /\ rec.reconciling = mine.reconciling
    BY <1>4, SetField
  <2>3. QED
    BY <1>4, <2>1, <2>2
<1>6. mine.live \/ ~mine.reconciling => ready[w]
  BY DEF WatchInv, Carrying, Carried
<1> HIDE DEF rec
<1>7. Believed(rec, ready)
  BY <1>1, <1>5, <1>6 DEF Believed
<1>8. QED
  BY <1>2, <1>5, <1>7

\* start_job by a watcher: the record is new and says it reconciles unless
\* the watcher is ready.
LEMMA CreateKeeps ==
    ASSUME WatchInv, NEW w \in Watches, NEW t \in Titles,
           NEW reconciling \in BOOLEAN, ~reconciling => ready[w],
           StartJob("watcher", w, reconciling),
           NEW new \in TaskStates, task' = [task EXCEPT ![<<w, t>>] = new],
           new.nonce = FreshNonce, Carried(w, new, ready), UNCHANGED ready,
           UNCHANGED jobNonce \/ jobNonce' = [jobNonce EXCEPT ![w] = FreshNonce]
    PROVE  WatchInv'
<1> DEFINE rec == [owner |-> w, nonce |-> FreshNonce, active |-> TRUE, fresh |-> TRUE,
                   reconciling |-> reconciling]
<1>1. ledger' = [ledger EXCEPT !["watcher"] = rec]
  BY DEF StartJob
<1>2. Fields(rec) /\ rec.owner = w /\ rec.nonce = FreshNonce /\ rec.reconciling = reconciling
  BY DEF Fields
<1> HIDE DEF rec
<1>3. ledger'["watcher"] = rec /\ ledger' = [k \in Kinds |-> ledger'[k]]
  BY <1>1 DEF WatchInv, WatchTypes, Kinds
<1>4. Believed(rec, ready)
  BY <1>2 DEF Believed
<1>5. Remembers(rec, jobNonce) /\ Carrying(rec, task, ready)
  BY <1>2, RecordFresh
<1>6. Names(rec, FreshNonce, w) /\ FreshNonce \in Nonces
  BY <1>2, FreshIsFresh DEF Names
<1>7. task' \in [Tasks -> TaskStates] /\ Carrying(rec, task', ready)
  BY <1>5, <1>6, TaskUpdate DEF WatchInv, WatchTypes
<1>8. jobNonce' \in [Watches -> Nonces \cup {0}] /\ Remembers(rec, jobNonce')
  BY <1>5, <1>6, NonceUpdate DEF WatchInv, WatchTypes
<1>9. QED
  BY <1>3, <1>4, <1>7, <1>8 DEF WatchInv, WatchTypes

\* The type of what a task is doing.
LEMMA TaskTyped ==
    ASSUME WatchInv, NEW w \in Watches, NEW t \in Titles
    PROVE  /\ <<w, t>> \in Tasks
           /\ task[<<w, t>>] \in TaskStates
           /\ Carried(w, task[<<w, t>>], ready)
           /\ Names(ledger["watcher"], task[<<w, t>>].nonce, w)
           /\ Names(ledger["watcher"], jobNonce[w], w)
           /\ ready[w] \in BOOLEAN /\ jobNonce[w] \in Nonces \cup {0}
BY DEF WatchInv, WatchTypes, Carrying, Remembers, Tasks, Titles

\* A task that does nothing carries nothing.
LEMMA IdleTask ==
    /\ Idle \in TaskStates
    /\ \A w, isReady, rec : Carried(w, Idle, isReady) /\ Names(rec, Idle.nonce, w)
BY DEF Idle, TaskStates, Carried, Names

\* The last step of an update: the record is refreshed if it is the task's,
\* and the watcher may take its nonce.
LEMMA UpdateEnds ==
    ASSUME WatchInv, NEW w \in Watches, NEW t \in Titles,
           task[<<w, t>>].at \notin {"idle", "begin"},
           IF Current("watcher", task[<<w, t>>].nonce)
           THEN Heartbeat("watcher", task[<<w, t>>].live, task[<<w, t>>].reconciling)
           ELSE UNCHANGED ledger,
           task' = [task EXCEPT ![<<w, t>>] = Idle], UNCHANGED ready,
           \/ UNCHANGED jobNonce
           \/ jobNonce' = [jobNonce EXCEPT ![w] = task[<<w, t>>].nonce]
    PROVE  WatchInv'
<1> DEFINE mine == task[<<w, t>>]
           old == ledger["watcher"]
<1>1. /\ mine \in TaskStates /\ Names(old, mine.nonce, w)
      /\ Remembers(old, jobNonce) /\ Carrying(old, task, ready)
      /\ task \in [Tasks -> TaskStates] /\ jobNonce \in [Watches -> Nonces \cup {0}]
  BY TaskTyped DEF WatchInv, WatchTypes
<1>2. PICK rec : /\ ledger' = [ledger EXCEPT !["watcher"] = rec]
                 /\ rec = old \/ (rec.nonce = old.nonce /\ rec.owner = old.owner /\ old # None)
                 /\ Believed(rec, ready)
  <2>1. CASE Current("watcher", mine.nonce)
    BY <2>1, BeatKeeps DEF Current
  <2>2. CASE ~Current("watcher", mine.nonce)
    <3>1. ledger' = [ledger EXCEPT !["watcher"] = old]
      BY <2>2 DEF WatchInv, WatchTypes, Kinds
    <3>2. QED
      BY <3>1 DEF WatchInv
  <2>3. QED
    BY <2>1, <2>2
<1>3. ledger'["watcher"] = rec /\ ledger' = [k \in Kinds |-> ledger'[k]]
  BY <1>2 DEF WatchInv, WatchTypes, Kinds
<1>4. Remembers(rec, jobNonce) /\ Carrying(rec, task, ready)
  BY <1>1, <1>2, RecordUpdate
<1>5. Names(rec, mine.nonce, w) /\ mine.nonce \in Nonces \cup {0}
  <2>1. mine.nonce \in Nonces \cup {0}
    BY <1>1 DEF TaskStates
  <2>2. QED
    BY <1>1, <1>2, <2>1 DEF Names
<1>6. task' \in [Tasks -> TaskStates] /\ Carrying(rec, task', ready)
  BY <1>1, <1>4, IdleTask, TaskUpdate
<1>7. jobNonce' \in [Watches -> Nonces \cup {0}] /\ Remembers(rec, jobNonce')
  BY <1>1, <1>4, <1>5, NonceUpdate
<1>8. QED
  BY <1>2, <1>3, <1>6, <1>7 DEF WatchInv, WatchTypes

\* The steps of a task that updates a watcher's record.
LEMMA TaskReconciles ==
    ASSUME WatchInv, NEW w \in Watches, NEW t \in Titles, TaskStep(w, t)
    PROVE  WatchInv'
<1> DEFINE mine == task[<<w, t>>]
           rec == ledger["watcher"]
<1>0. /\ <<w, t>> \in Tasks /\ mine \in TaskStates
      /\ Carried(w, mine, ready) /\ Names(rec, mine.nonce, w)
      /\ Names(rec, jobNonce[w], w)
      /\ ready[w] \in BOOLEAN /\ jobNonce[w] \in Nonces \cup {0}
      /\ task \in [Tasks -> TaskStates]
  BY TaskTyped DEF WatchInv, WatchTypes
<1>1. CASE Wake(w, t)
  <2> DEFINE new == [mine EXCEPT !.at = "begin"]
  <2>1. task' = [task EXCEPT ![<<w, t>>] = new] /\ UNCHANGED <<ledger, ready, jobNonce>>
    BY <1>1, <1>0 DEF Wake
  <2>2. new \in TaskStates /\ new.at = "begin" /\ new.nonce = mine.nonce
    BY <1>0 DEF TaskStates
  <2> HIDE DEF new
  <2>3. Carried(w, new, ready) /\ Names(rec, new.nonce, w)
    BY <2>2, <1>0 DEF Carried
  <2>4. QED
    BY <2>1, <2>2, <2>3, TaskMove
<1>2. CASE Read(w, t)
  <2> DEFINE new == [at |-> "read", live |-> Watching(w) /\ ready[w],
                     reconciling |-> ~ready[w], nonce |-> 0]
  <2>1. task' = [task EXCEPT ![<<w, t>>] = new] /\ UNCHANGED <<ledger, ready, jobNonce>>
    BY <1>2 DEF Read
  <2>2. new \in TaskStates
    BY <1>0 DEF TaskStates, Watching
  <2>3. Carried(w, new, ready) /\ Names(rec, new.nonce, w)
    BY <1>0 DEF Carried, Names
  <2> HIDE DEF new
  <2>4. QED
    BY <2>1, <2>2, <2>3, TaskMove
<1>3. CASE ReadNonce(w, t)
  <2> DEFINE mid == [mine EXCEPT !.at = "apply"]
             new == [mid EXCEPT !.nonce = jobNonce[w]]
  <2>1. task' = [task EXCEPT ![<<w, t>>] = new] /\ UNCHANGED <<ledger, ready, jobNonce>>
    BY <1>3, <1>0 DEF ReadNonce
  <2>2. new \in TaskStates /\ new.nonce = jobNonce[w]
        /\ new.live = mine.live /\ new.reconciling = mine.reconciling
    BY <1>0 DEF TaskStates
  <2>3. mine.at = "read"
    BY <1>3 DEF ReadNonce
  <2> HIDE DEF new
  <2>4. Carried(w, new, ready) /\ Names(rec, new.nonce, w)
    BY <2>2, <2>3, <1>0 DEF Carried
  <2>5. QED
    BY <2>1, <2>2, <2>4, TaskMove
<1>4. CASE Apply(w, t) /\ Current("watcher", mine.nonce)
  <2>1. /\ mine.at = "apply" /\ Heartbeat("watcher", mine.live, mine.reconciling)
        /\ task' = [task EXCEPT ![<<w, t>>] = Idle]
        /\ UNCHANGED <<ready, jobNonce>>
    BY <1>4 DEF Apply
  <2>2. QED
    BY <2>1, <1>4, UpdateEnds
<1>5. CASE Apply(w, t) /\ ~Current("watcher", mine.nonce)
  <2> DEFINE new == [mine EXCEPT !.at = "lost"]
  <2>1. /\ mine.at = "apply" /\ task' = [task EXCEPT ![<<w, t>>] = new]
        /\ UNCHANGED <<ledger, ready, jobNonce>>
    BY <1>5, <1>0 DEF Apply
  <2>2. new \in TaskStates /\ new.nonce = mine.nonce
        /\ new.live = mine.live /\ new.reconciling = mine.reconciling
    BY <1>0 DEF TaskStates
  <2> HIDE DEF new
  <2>3. Carried(w, new, ready) /\ Names(rec, new.nonce, w)
    BY <2>1, <2>2, <1>0 DEF Carried
  <2>4. QED
    BY <2>1, <2>2, <2>3, TaskMove
<1>6. CASE Check(w, t)
  <2> DEFINE new == IF Watching(w) THEN [mine EXCEPT !.at = "create"] ELSE Idle
  <2>1. /\ mine.at = "lost" /\ task' = [task EXCEPT ![<<w, t>>] = new]
        /\ UNCHANGED <<ledger, ready, jobNonce>>
    BY <1>6, <1>0 DEF Check
  <2>2. CASE Watching(w)
    <3> DEFINE next == [mine EXCEPT !.at = "create"]
    <3>1. new = next
      BY <2>2
    <3>2. next \in TaskStates /\ next.nonce = mine.nonce
          /\ next.live = mine.live /\ next.reconciling = mine.reconciling
      BY <1>0 DEF TaskStates
    <3> HIDE DEF next
    <3>3. Carried(w, next, ready) /\ Names(rec, next.nonce, w)
      BY <2>1, <3>2, <1>0 DEF Carried
    <3>4. QED
      BY <2>1, <3>1, <3>2, <3>3, TaskMove
  <2>3. CASE ~Watching(w)
    BY <2>1, <2>3, IdleTask, TaskMove
  <2>4. QED
    BY <2>2, <2>3
<1>7. CASE Create(w, t)
  <2> DEFINE mid == [mine EXCEPT !.at = "mark"]
             new == [mid EXCEPT !.nonce = FreshNonce]
  <2>1. /\ mine.at = "create" /\ task' = [task EXCEPT ![<<w, t>>] = new]
        /\ StartJob("watcher", w, mine.reconciling)
        /\ UNCHANGED <<ready, jobNonce>>
    BY <1>7, <1>0 DEF Create
  <2>2. FreshNonce \in Nonces
    BY FreshIsFresh
  <2>3. new \in TaskStates /\ new.nonce = FreshNonce
        /\ new.live = mine.live /\ new.reconciling = mine.reconciling
    BY <1>0, <2>2 DEF TaskStates
  <2> HIDE DEF new
  <2>4. Carried(w, new, ready) /\ (~mine.reconciling => ready[w])
        /\ mine.reconciling \in BOOLEAN
    BY <2>1, <2>3, <1>0 DEF Carried, TaskStates
  <2>5. QED
    BY <2>1, <2>3, <2>4, CreateKeeps
<1>8. CASE Mark(w, t)
  <2>1. /\ mine.at = "mark"
        /\ IF Current("watcher", mine.nonce)
           THEN Heartbeat("watcher", mine.live, mine.reconciling)
           ELSE UNCHANGED ledger
        /\ task' = [task EXCEPT ![<<w, t>>] = Idle]
        /\ jobNonce' = [jobNonce EXCEPT ![w] = mine.nonce]
        /\ UNCHANGED ready
    BY <1>8 DEF Mark
  <2>2. QED
    BY <2>1, UpdateEnds
<1>9. QED
  BY <1>1, <1>2, <1>3, <1>4, <1>5, <1>6, <1>7, <1>8 DEF TaskStep

\* The steps of a watcher.
LEMMA WatchReconciles ==
    ASSUME WatchInv, NEW w \in Watches, WatchStep(w)
    PROVE  WatchInv'
<1> DEFINE t == "publisher"
           mine == task[<<w, t>>]
           rec == ledger["watcher"]
<1>0. /\ t \in Titles /\ <<w, t>> \in Tasks
      /\ task \in [Tasks -> TaskStates]
      /\ ready \in [Watches -> BOOLEAN]
  BY DEF WatchInv, WatchTypes, Titles, Tasks
<1>1. CASE Register(w)
  <2> DEFINE one == [Idle EXCEPT !.at = "apply"]
             two == [one EXCEPT !.reconciling = TRUE]
             new == [two EXCEPT !.nonce = FreshNonce]
  <2>1. /\ StartJob("watcher", w, TRUE)
        /\ jobNonce' = [jobNonce EXCEPT ![w] = FreshNonce]
        /\ task' = [task EXCEPT ![<<w, t>>] = new]
        /\ UNCHANGED ready
    BY <1>1 DEF Register
  <2>2. Idle \in TaskStates /\ Idle.live = FALSE /\ FreshNonce \in Nonces
    BY IdleTask, FreshIsFresh DEF Idle
  <2>3. new \in TaskStates /\ new.nonce = FreshNonce /\ ~new.live /\ new.reconciling
    BY <2>2 DEF TaskStates
  <2> HIDE DEF new
  <2>4. Carried(w, new, ready)
    BY <2>3 DEF Carried
  <2> HIDE DEF new
  <2>5. QED
    BY <2>1, <2>3, <2>4, <1>0, CreateKeeps
<1>2. CASE Registered(w) \/ Stop(w)
  BY <1>2 DEF Registered, Stop, WatchInv, WatchTypes
<1>3. CASE Publish(w)
  <2> DEFINE new == [Idle EXCEPT !.at = "begin"]
  <2>1. /\ ready' = [ready EXCEPT ![w] = TRUE] /\ UNCHANGED <<ledger, jobNonce>>
        /\ task' = [task EXCEPT ![<<w, t>>] = new]
    BY <1>3, <1>0 DEF Publish
  <2>2. ready' \in [Watches -> BOOLEAN] /\ \A v \in Watches : ready[v] => ready'[v]
    BY <2>1, <1>0
  <2>3. Believed(rec, ready') /\ Carrying(rec, task, ready')
    BY <2>2 DEF WatchInv, Believed, Carrying, Carried
  <2>4. new \in TaskStates /\ new.at = "begin" /\ new.nonce = 0
    BY DEF Idle, TaskStates
  <2> HIDE DEF new
  <2>5. Carried(w, new, ready') /\ Names(rec, new.nonce, w)
    BY <2>4 DEF Carried, Names
  <2>6. task' \in [Tasks -> TaskStates] /\ Carrying(rec, task', ready')
    BY <2>1, <2>3, <2>4, <2>5, <1>0, TaskUpdate
  <2>7. QED
    BY <2>1, <2>2, <2>3, <2>6 DEF WatchInv, WatchTypes
<1>4. CASE Stopped(w)
  <2> DEFINE new == IF Current("watcher", jobNonce[w]) THEN Finished ELSE rec
  <2>1. /\ ledger' = [ledger EXCEPT !["watcher"] = new]
        /\ UNCHANGED <<ready, jobNonce, task>>
    BY <1>4 DEF Stopped, FinishJobIfCurrent, WatchInv, WatchTypes, Kinds
  <2>2. Believed(new, ready)
    BY DEF WatchInv, Believed, Finished, Fields
  <2>3. new = rec \/ new.nonce = 0
    BY DEF Finished
  <2>4. QED
    BY <2>1, <2>2, <2>3, RecordStep
<1>5. CASE \E u \in Updaters \cup {"publisher"} : TaskStep(w, u)
  BY <1>5, TaskReconciles DEF Titles
<1>6. QED
  BY <1>1, <1>2, <1>3, <1>4, <1>5 DEF WatchStep

\* An operation on the record of the index runs leaves the watchers' alone.
LEMMA IndexingReconciles ==
    ASSUME WatchInv, UNCHANGED <<ready, jobNonce, task>>,
           \/ UNCHANGED ledger
           \/ \E rec : ledger' = [ledger EXCEPT !["indexing"] = rec]
           \/ ledger' = [k \in Kinds |-> None]
    PROVE  WatchInv'
<1>1. CASE ledger' = [k \in Kinds |-> None]
  <2>1. ledger'["watcher"] = None
    BY <1>1 DEF Kinds
  <2>2. Remembers(None, jobNonce) /\ Carrying(None, task, ready) /\ Believed(None, ready)
    BY RecordUpdate DEF WatchInv, Believed
  <2>3. QED
    BY <1>1, <2>1, <2>2 DEF WatchInv, WatchTypes
<1>2. CASE ~(ledger' = [k \in Kinds |-> None])
  <2>1. ledger'["watcher"] = ledger["watcher"] /\ ledger' = [k \in Kinds |-> ledger'[k]]
    BY <1>2 DEF WatchInv, WatchTypes, Kinds
  <2>2. QED
    BY <2>1 DEF WatchInv, WatchTypes
<1>3. QED
  BY <1>1, <1>2

\* The steps of an index run write the record of the runs, or wipe the file.
LEMMA RunReconciles ==
    ASSUME WatchInv, NEW r \in Runs, RunStep(r)
    PROVE  WatchInv'
<1>1. UNCHANGED <<ready, jobNonce, task>>
  BY DEF RunStep, Acquire, Wipe, BeginRun, BeatRun, UnlockRun, JoinHeartbeat,
         FinishRun, LeaveRun, KillRun, watchVars
<1>2. \/ UNCHANGED ledger
      \/ StartJob("indexing", r, FALSE) \/ HeartbeatJob("indexing", r)
      \/ FinishJob("indexing") \/ ledger' = [k \in Kinds |-> None]
  BY DEF RunStep, Acquire, Wipe, BeginRun, BeatRun, UnlockRun, JoinHeartbeat,
         FinishRun, LeaveRun, KillRun
<1>3. ASSUME HeartbeatJob("indexing", r), ledger["indexing"] # None
      PROVE  \E rec : ledger' = [ledger EXCEPT !["indexing"] = rec]
  <2> DEFINE rec == [[ledger["indexing"] EXCEPT !.fresh = TRUE] EXCEPT !.reconciling = FALSE]
  <2>1. ledger' = [ledger EXCEPT !["indexing"] = rec]
    BY <1>3 DEF HeartbeatJob, WatchInv, WatchTypes, Kinds
  <2>2. QED
    BY <2>1
<1>4. ASSUME StartJob("indexing", r, FALSE) \/ FinishJob("indexing")
      PROVE  \E rec : ledger' = [ledger EXCEPT !["indexing"] = rec]
  BY <1>4 DEF StartJob, FinishJob
<1>5. HeartbeatJob("indexing", r) /\ ledger["indexing"] = None
          => StartJob("indexing", r, FALSE)
  BY DEF HeartbeatJob
<1>6. \/ UNCHANGED ledger
      \/ \E rec : ledger' = [ledger EXCEPT !["indexing"] = rec]
      \/ ledger' = [k \in Kinds |-> None]
  BY <1>2, <1>3, <1>4, <1>5
<1>7. QED
  BY <1>1, <1>6, IndexingReconciles

\* Every step keeps the invariant of the watchers' record.
LEMMA NextReconciles == WatchInv /\ [Next]_vars => WatchInv'
<1> SUFFICES ASSUME WatchInv, [Next]_vars
             PROVE  WatchInv'
  OBVIOUS
<1>1. CASE \E r \in Runs : RunStep(r)
  BY <1>1, RunReconciles
<1>2. CASE \E w \in Watches : WatchStep(w)
  BY <1>2, WatchReconciles
<1>3. CASE \E k \in Kinds : Lapse(k)
  <2>1. PICK k \in Kinds : Lapse(k)
    BY <1>3
  <2> DEFINE old == ledger[k]
             rec == [old EXCEPT !.fresh = FALSE]
  <2>2. /\ ledger' = [ledger EXCEPT ![k] = rec] /\ old # None
        /\ UNCHANGED <<ready, jobNonce, task>>
    BY <2>1 DEF Lapse, watchVars
  <2>3. CASE k = "watcher"
    <3>1. Fields(old) /\ Believed(old, ready)
      BY <2>2, <2>3 DEF WatchInv, Believed
    <3>2. Fields(rec) /\ rec.active = old.active /\ rec.owner = old.owner
      BY <3>1, RefreshOwned
    <3>3. rec.nonce = old.nonce /\ rec.reconciling = old.reconciling
      BY <3>1, SetField
    <3> HIDE DEF rec
    <3>4. Believed(rec, ready)
      BY <2>2, <3>1, <3>2, <3>3 DEF Believed
    <3>5. QED
      BY <2>2, <2>3, <3>2, <3>3, <3>4, RecordStep
  <2>4. CASE k = "indexing"
    BY <2>2, <2>4, IndexingReconciles
  <2>5. QED
    BY <2>3, <2>4 DEF Kinds
<1>4. CASE RegistrationFails
  <2>1. /\ ledger' = [ledger EXCEPT !["watcher"] = Finished]
        /\ UNCHANGED <<ready, jobNonce, task>>
    BY <1>4 DEF RegistrationFails, FinishJob, watchVars
  <2>2. Believed(Finished, ready) /\ Finished.nonce = 0
    BY DEF Believed, Finished, Fields
  <2>3. QED
    BY <2>1, <2>2, RecordStep
<1>5. CASE KillDaemon
  <2>1. /\ UNCHANGED <<ledger, ready>>
        /\ jobNonce' = [w \in Watches |-> 0]
        /\ task' = [t \in Tasks |-> Idle]
    BY <1>5 DEF KillDaemon
  <2>2. jobNonce' \in [Watches -> Nonces \cup {0}] /\ Remembers(ledger["watcher"], jobNonce')
    BY <2>1 DEF Remembers, Names
  <2>3. task' \in [Tasks -> TaskStates] /\ Carrying(ledger["watcher"], task', ready)
    BY <2>1, IdleTask DEF Carrying, Tasks, Titles
  <2>4. QED
    BY <2>1, <2>2, <2>3 DEF WatchInv, WatchTypes
<1>6. CASE UNCHANGED vars
  BY <1>6 DEF vars, WatchInv, WatchTypes
<1>7. QED
  BY <1>1, <1>2, <1>3, <1>4, <1>5, <1>6 DEF Next

\* Nobody remembers a nonce at first.
LEMMA InitWatch == Init => WatchInv
<1> SUFFICES ASSUME Init
             PROVE  WatchInv
  OBVIOUS
<1>1. /\ ledger = [k \in Kinds |-> None]
      /\ ready = [w \in Watches |-> FALSE]
      /\ jobNonce = [w \in Watches |-> 0]
      /\ task = [t \in Tasks |-> Idle]
  BY DEF Init
<1>2. ledger["watcher"] = None
  BY <1>1 DEF Kinds
<1>3. WatchTypes
  BY <1>1, IdleTask DEF WatchTypes
<1>4. Believed(None, ready) /\ Remembers(None, jobNonce)
  BY DEF Believed, Remembers, Names
<1>5. Carrying(None, task, ready)
  BY <1>1, IdleTask DEF Carrying, Tasks, Titles
<1>6. QED
  BY <1>2, <1>3, <1>4, <1>5 DEF WatchInv

\* TrustedIsReconciled: however wipes, failed registrations, lost and
\* recreated records and late updates of any number of watchers and tasks
\* interleave, a watcher that the ledger shows as alive has reconciled its
\* initial snapshot.
THEOREM TrustedOnlyWhenReady == Spec => []TrustedIsReconciled
<1>1. WatchInv => TrustedIsReconciled
  BY DEF WatchInv, Believed, TrustedIsReconciled, WatcherAlive, Active
<1>2. QED
  BY <1>1, InitWatch, NextReconciles, PTL DEF Spec
================================================================================
