------------------------------- MODULE JobLedger -------------------------------
(***************************************************************************)
(* job.json: what the processes of a workspace say about their index runs  *)
(* and watchers, and what others conclude from it.  (src/src/jobs.rs; its  *)
(* users in indexer.rs and daemon.rs.)                                     *)
(*                                                                         *)
(* There is one record per kind of job.  Every operation on the file holds *)
(* job.lock and is one action.  An index run never names its record; a     *)
(* watcher names it by nonce and makes a new one when it is gone.  Several *)
(* tasks of the daemon update the record of one watcher.                   *)
(***************************************************************************)
EXTENDS Naturals, FiniteSets

CONSTANTS
    Runs,       \* index runs, each in a process of its own
    Watches,    \* watch registrations (WatchControl), in the order of need
    Updaters,   \* tasks of a watcher that update its record: heartbeat, worker
    MaxFaults,  \* bound: wipes of the directory, failed registrations, crashes
    None

ASSUME LedgerAssumption ==
    /\ None \notin Runs \cup Watches
    /\ Runs \cap Watches = {}
    /\ "publisher" \notin Updaters
    /\ IsFiniteSet(Watches) /\ IsFiniteSet(Updaters)
    /\ MaxFaults \in Nat

VARIABLES
    ledger,      \* the record of each kind
    lock,        \* the index run that holds index.lock
    run,         \* where each index run is
    watch,       \* where each registration is
    registered,  \* the entry of the workspace in `watchers`
    ready,       \* ~initial_reconciliation_pending
    jobNonce,    \* WatchControl::job_nonce
    task,        \* what the tasks of each watcher are doing
    faults

vars == <<ledger, lock, run, watch, registered, ready, jobNonce, task, faults>>
runVars == <<lock, run>>
watchVars == <<watch, registered, ready, jobNonce, task>>

\* As many nonces as there are places that remember one.
Nonces == 1 .. 3 + Cardinality(Watches) * (2 + Cardinality(Updaters))

Actors == Runs \cup Watches
Kinds == {"indexing", "watcher"}

\* The fields that decide what others conclude: `owner` stands for the pid
\* and its start time, `fresh` for a heartbeat younger than the limit, nonce
\* 0 for none.
Records == [owner : Actors \cup {None}, nonce : Nonces \cup {0}, active : BOOLEAN,
            fresh : BOOLEAN, reconciling : BOOLEAN]

\* The calls of update_watcher_job in progress; the publisher is the one that
\* registers the watcher or declares it ready.  `live` and `reconciling` are
\* the update it carries.
Tasks == Watches \X (Updaters \cup {"publisher"})
TaskStates == [at : {"idle", "begin", "read", "apply", "lost", "create", "mark"},
               live : BOOLEAN, reconciling : BOOLEAN, nonce : Nonces \cup {0}]

Idle == [at |-> "idle", live |-> FALSE, reconciling |-> FALSE, nonce |-> 0]

Init ==
    /\ ledger = [k \in Kinds |-> None]
    /\ lock = None
    /\ run = [r \in Runs |-> "new"]
    /\ watch = [w \in Watches |-> "new"]
    /\ registered = None
    /\ ready = [w \in Watches |-> FALSE]
    /\ jobNonce = [w \in Watches |-> 0]
    /\ task = [t \in Tasks |-> Idle]
    /\ faults = MaxFaults

-----------------------------------------------------------------------------
(* The operations of jobs.rs.                                              *)

\* Uuid::new_v4: a nonce that nobody remembers.
NonceInUse(n) ==
    \/ \E k \in Kinds : ledger[k] # None /\ ledger[k].nonce = n
    \/ \E w \in Watches : jobNonce[w] = n
    \/ \E t \in Tasks : task[t].nonce = n

FreshNonce == CHOOSE n \in Nonces : ~NonceInUse(n)

\* start_job: a new record with a fresh nonce, whatever was there.
StartJob(k, who, reconciling) ==
    ledger' = [ledger EXCEPT ![k] =
       [owner |-> who, nonce |-> FreshNonce, active |-> TRUE, fresh |-> TRUE,
        reconciling |-> reconciling]]

\* heartbeat_job: whatever record is there, or a new one.
HeartbeatJob(k, who) ==
    IF ledger[k] = None
    THEN StartJob(k, who, FALSE)
    ELSE ledger' = [ledger EXCEPT ![k].fresh = TRUE, ![k].reconciling = FALSE]

\* The test of the operations that are given a nonce.
Current(k, n) == ledger[k] # None /\ n # 0 /\ ledger[k].nonce = n

\* heartbeat_job_if_current, for a record that is current.
Heartbeat(k, live, reconciling) ==
    ledger' = [ledger EXCEPT ![k].fresh = TRUE, ![k].active = live,
                             ![k].reconciling = reconciling]

Finished == [owner |-> None, nonce |-> 0, active |-> FALSE, fresh |-> TRUE,
             reconciling |-> FALSE]

\* finish_job: whatever record is there.
FinishJob(k) == ledger' = [ledger EXCEPT ![k] = Finished]

\* finish_job_if_current.
FinishJobIfCurrent(k, n) ==
    ledger' = [ledger EXCEPT ![k] = IF Current(k, n) THEN Finished ELSE @]

\* process_is_alive.
Alive(who) ==
    \/ who \in Runs /\ run[who] # "dead"
    \/ who \in Watches /\ watch[who] # "dead"

\* JobStatus::active.
Active(k) ==
    ledger[k] # None /\ ledger[k].active /\ ledger[k].fresh /\ Alive(ledger[k].owner)

\* is_watcher_alive.
WatcherAlive == Active("watcher") /\ ~ledger["watcher"].reconciling

\* No heartbeat for longer than the limit.
Lapse(k) ==
    /\ ledger[k] # None /\ ledger[k].fresh
    /\ ledger' = [ledger EXCEPT ![k].fresh = FALSE]
    /\ UNCHANGED <<runVars, watchVars, faults>>

-----------------------------------------------------------------------------
(* An index run.                                                           *)

At(r, from, to) == run[r] = from /\ run' = [run EXCEPT ![r] = to]

Acquire(r) ==
    /\ lock = None /\ lock' = r
    /\ At(r, "new", "locked")
    /\ UNCHANGED <<ledger, watchVars, faults>>

\* remove_workspace_index_contents, before a rebuild or for a removal.
Wipe(r) ==
    /\ run[r] = "locked" /\ faults > 0
    /\ ledger' = [k \in Kinds |-> None]
    /\ faults' = faults - 1
    /\ UNCHANGED <<runVars, watchVars>>

BeginRun(r) ==
    /\ At(r, "locked", "running")
    /\ StartJob("indexing", r, FALSE)
    /\ UNCHANGED <<lock, watchVars, faults>>

\* Mutant: the heartbeat thread is told to stop and not joined.
BeatRunUnjoined(r) ==
    /\ run[r] \in {"running", "unlocked", "joined", "done"}
    /\ HeartbeatJob("indexing", r)
    /\ UNCHANGED <<runVars, watchVars, faults>>

\* The heartbeat thread, until it is joined.
BeatRun(r) ==
    /\ run[r] \in {"running", "unlocked"}
    /\ HeartbeatJob("indexing", r)
    /\ UNCHANGED <<runVars, watchVars, faults>>

UnlockRun(r) ==
    /\ At(r, "running", "unlocked")
    /\ lock' = None
    /\ UNCHANGED <<ledger, watchVars, faults>>

JoinHeartbeat(r) ==
    /\ At(r, "unlocked", "joined")
    /\ UNCHANGED <<ledger, lock, watchVars, faults>>

FinishRun(r) ==
    /\ At(r, "joined", "done")
    /\ FinishJob("indexing")
    /\ UNCHANGED <<lock, watchVars, faults>>

\* A removal ends without a job.
LeaveRun(r) ==
    /\ At(r, "locked", "done")
    /\ lock' = None
    /\ UNCHANGED <<ledger, watchVars, faults>>

KillRun(r) ==
    /\ run[r] \notin {"new", "done", "dead"} /\ faults > 0
    /\ run' = [run EXCEPT ![r] = "dead"]
    /\ lock' = IF lock = r THEN None ELSE lock
    /\ faults' = faults - 1
    /\ UNCHANGED <<ledger, watchVars>>

-----------------------------------------------------------------------------
(* A watcher.                                                              *)

Watching(w) == watch[w] \in {"registering", "watching"}

\* register_resolved_watcher, which goes on with update_watcher_job ...
Register(w) ==
    /\ watch[w] = "new" /\ registered = None
    /\ registered' = w
    /\ watch' = [watch EXCEPT ![w] = "registering"]
    /\ StartJob("watcher", w, TRUE)
    /\ jobNonce' = [jobNonce EXCEPT ![w] = FreshNonce]
    /\ task' = [task EXCEPT ![<<w, "publisher">>] =
                   [Idle EXCEPT !.at = "apply", !.reconciling = TRUE,
                                !.nonce = FreshNonce]]
    /\ UNCHANGED <<runVars, ready, faults>>

\* ... and then starts the watcher's tasks.
Registered(w) ==
    /\ watch[w] = "registering" /\ task[<<w, "publisher">>] = Idle
    /\ watch' = [watch EXCEPT ![w] = "watching"]
    /\ UNCHANGED <<ledger, runVars, registered, ready, jobNonce, task, faults>>

\* A registration, or the refresh of one, has failed and released `watchers`:
\* ensure_watcher says so.
RegistrationFails ==
    /\ faults > 0 /\ faults' = faults - 1
    /\ Watches # {}
    /\ FinishJob("watcher")
    /\ UNCHANGED <<runVars, watchVars>>

\* The heartbeat task's loop, or an event in the worker.
Wake(w, t) ==
    /\ t \in Updaters
    /\ task[<<w, t>>] = Idle /\ watch[w] = "watching"
    /\ task' = [task EXCEPT ![<<w, t>>].at = "begin"]
    /\ UNCHANGED <<ledger, runVars, watch, registered, ready, jobNonce, faults>>

\* update_watcher_job reads the flags,
Read(w, t) ==
    /\ task[<<w, t>>].at = "begin"
    /\ task' = [task EXCEPT ![<<w, t>>] =
                   [at |-> "read", live |-> Watching(w) /\ ready[w],
                    reconciling |-> ~ready[w], nonce |-> 0]]
    /\ UNCHANGED <<ledger, runVars, watch, registered, ready, jobNonce, faults>>

\* then the nonce,
ReadNonce(w, t) ==
    /\ task[<<w, t>>].at = "read"
    /\ task' = [task EXCEPT ![<<w, t>>].at = "apply", ![<<w, t>>].nonce = jobNonce[w]]
    /\ UNCHANGED <<ledger, runVars, watch, registered, ready, jobNonce, faults>>

\* refreshes the record, if it is still its own,
Apply(w, t) ==
    LET mine == task[<<w, t>>]
    IN  /\ mine.at = "apply"
        /\ IF Current("watcher", mine.nonce)
           THEN /\ Heartbeat("watcher", mine.live, mine.reconciling)
                /\ task' = [task EXCEPT ![<<w, t>>] = Idle]
           ELSE /\ task' = [task EXCEPT ![<<w, t>>].at = "lost"]
                /\ UNCHANGED ledger
        /\ UNCHANGED <<runVars, watch, registered, ready, jobNonce, faults>>

\* Mutant: a record that is gone stays gone.
CheckNever(w, t) ==
    /\ task[<<w, t>>].at = "lost"
    /\ task' = [task EXCEPT ![<<w, t>>] = Idle]
    /\ UNCHANGED <<ledger, runVars, watch, registered, ready, jobNonce, faults>>

\* otherwise looks whether the watcher still runs,
Check(w, t) ==
    /\ task[<<w, t>>].at = "lost"
    /\ task' = [task EXCEPT ![<<w, t>>] =
                   IF Watching(w) THEN [@ EXCEPT !.at = "create"] ELSE Idle]
    /\ UNCHANGED <<ledger, runVars, watch, registered, ready, jobNonce, faults>>

\* Mutant: the record that replaces a lost one does not say it reconciles.
CreateIdle(w, t) ==
    /\ task[<<w, t>>].at = "create"
    /\ StartJob("watcher", w, FALSE)
    /\ task' = [task EXCEPT ![<<w, t>>].at = "mark", ![<<w, t>>].nonce = FreshNonce]
    /\ UNCHANGED <<runVars, watch, registered, ready, jobNonce, faults>>

\* makes a new record,
Create(w, t) ==
    /\ task[<<w, t>>].at = "create"
    /\ StartJob("watcher", w, task[<<w, t>>].reconciling)
    /\ task' = [task EXCEPT ![<<w, t>>].at = "mark", ![<<w, t>>].nonce = FreshNonce]
    /\ UNCHANGED <<runVars, watch, registered, ready, jobNonce, faults>>

\* and repeats the update on it.
Mark(w, t) ==
    LET mine == task[<<w, t>>]
    IN  /\ mine.at = "mark"
        /\ IF Current("watcher", mine.nonce)
           THEN Heartbeat("watcher", mine.live, mine.reconciling)
           ELSE UNCHANGED ledger
        /\ jobNonce' = [jobNonce EXCEPT ![w] = mine.nonce]
        /\ task' = [task EXCEPT ![<<w, t>>] = Idle]
        /\ UNCHANGED <<runVars, watch, registered, ready, faults>>

\* publish_initial_watch_readiness_if_caught_up, up to its update, which is
\* made under pending_work.
Publish(w) ==
    /\ watch[w] = "watching" /\ ~ready[w] /\ task[<<w, "publisher">>] = Idle
    /\ ready' = [ready EXCEPT ![w] = TRUE]
    /\ task' = [task EXCEPT ![<<w, "publisher">>].at = "begin"]
    /\ UNCHANGED <<ledger, runVars, watch, registered, jobNonce, faults>>

\* stop_watcher, under pending_work: the flag goes down ...
Stop(w) ==
    /\ registered = w /\ watch[w] = "watching"
    /\ task[<<w, "publisher">>] = Idle
    /\ registered' = None
    /\ watch' = [watch EXCEPT ![w] = "stopping"]
    /\ UNCHANGED <<ledger, runVars, ready, jobNonce, task, faults>>

\* ... and then the record ends, if it is still the watcher's.
Stopped(w) ==
    /\ watch[w] = "stopping"
    /\ watch' = [watch EXCEPT ![w] = "stopped"]
    /\ FinishJobIfCurrent("watcher", jobNonce[w])
    /\ UNCHANGED <<runVars, registered, ready, jobNonce, task, faults>>

\* The daemon is killed; another one registers the watches that are left.
KillDaemon ==
    /\ faults > 0 /\ faults' = faults - 1
    /\ \E w \in Watches : Watching(w)
    /\ watch' = [w \in Watches |-> IF watch[w] = "new" THEN "new" ELSE "dead"]
    /\ registered' = None
    /\ jobNonce' = [w \in Watches |-> 0]
    /\ task' = [t \in Tasks |-> Idle]
    /\ UNCHANGED <<ledger, runVars, ready>>

-----------------------------------------------------------------------------
RunStep(r) ==
    \/ Acquire(r) \/ Wipe(r) \/ BeginRun(r) \/ BeatRun(r) \/ UnlockRun(r)
    \/ JoinHeartbeat(r) \/ FinishRun(r) \/ LeaveRun(r) \/ KillRun(r)

TaskStep(w, t) ==
    \/ Wake(w, t) \/ Read(w, t) \/ ReadNonce(w, t) \/ Apply(w, t)
    \/ Check(w, t) \/ Create(w, t) \/ Mark(w, t)

WatchStep(w) ==
    \/ Register(w) \/ Registered(w) \/ Publish(w) \/ Stop(w) \/ Stopped(w)
    \/ \E t \in Updaters \cup {"publisher"} : TaskStep(w, t)

Next ==
    \/ \E r \in Runs : RunStep(r)
    \/ \E w \in Watches : WatchStep(w)
    \/ \E k \in Kinds : Lapse(k)
    \/ RegistrationFails
    \/ KillDaemon

Spec == Init /\ [][Next]_vars

\* The daemon's tasks run, a reconciliation ends, and time passes.
Fairness ==
    /\ \A w \in Watches :
          /\ WF_vars(Registered(w)) /\ WF_vars(Publish(w)) /\ WF_vars(Stopped(w))
          /\ \A t \in Updaters \cup {"publisher"} : WF_vars(TaskStep(w, t))
    /\ \A k \in Kinds : WF_vars(Lapse(k))

FairSpec == Spec /\ Fairness

-----------------------------------------------------------------------------
(* Properties.                                                             *)

\* Records, places and bounds have their types, and a run that holds
\* index.lock is one that is inside it.
TypeOK ==
    /\ ledger \in [Kinds -> Records \cup {None}]
    /\ lock \in Runs \cup {None}
    /\ run \in [Runs -> {"new", "locked", "running", "unlocked", "joined", "done", "dead"}]
    /\ watch \in [Watches -> {"new", "registering", "watching", "stopping", "stopped", "dead"}]
    /\ registered \in Watches \cup {None}
    /\ ready \in [Watches -> BOOLEAN]
    /\ jobNonce \in [Watches -> Nonces \cup {0}]
    /\ task \in [Tasks -> TaskStates]
    /\ faults \in 0 .. MaxFaults
    /\ \A r \in Runs : lock = r <=> run[r] \in {"locked", "running"}

\* A run that is reported active has started and not yet been finished, in
\* spite of heartbeats and finishes that do not say whose record they mean.
NoPhantomRun ==
    Active("indexing") =>
        run[ledger["indexing"].owner] \in {"running", "unlocked", "joined"}

\* "A live watcher is trusted only after reconciling its initial snapshot":
\* no interleaving of lost and recreated records shows one too early.
TrustedIsReconciled ==
    WatcherAlive => ready[ledger["watcher"].owner]

\* A watcher that goes on running is shown as alive again, whatever was
\* wiped, failed or overwritten.
RunningWatcherShown ==
    \A w \in Watches :
        registered = w ~> (WatcherAlive /\ ledger["watcher"].owner = w) \/ registered # w

\* Whatever a watcher left in the ledger is not believed for ever.
PhantomExpires ==
    Watches # {} /\ registered = None ~> ~WatcherAlive \/ registered # None
================================================================================
