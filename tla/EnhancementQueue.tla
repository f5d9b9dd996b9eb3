---------------------------- MODULE EnhancementQueue ----------------------------
(***************************************************************************)
(* Who builds vectors, and when: the daemon's queue of requests            *)
(* (src/src/enhancement_queue.rs), the command that starts a worker        *)
(* process (src/src/workspace.rs), the places of a lane that workers of    *)
(* every process share (src/src/indexer/enhancement.rs) and the life of a  *)
(* worker (src/src/cli.rs).                                                *)
(*                                                                         *)
(* A dispatch holds the queue's mutex from beginning to end, but it looks  *)
(* at the file system and starts processes meanwhile, and those change     *)
(* under its feet; so a dispatch is one action per request it looks at,    *)
(* and starting a worker is one action per file operation.  What a pass    *)
(* computes is VectorEnhancement's subject; here a pass leaves the tier    *)
(* current unless the index moved on.                                      *)
(***************************************************************************)
EXTENDS Naturals, Sequences, FiniteSets, SequencesExt

CONSTANTS
    Workspaces,
    BaseOf,      \* the main checkout whose vectors an overlay shares, or None
    Processes,   \* worker processes that can live at once
    Places,      \* IVYGREP_ENHANCE_MAX_WORKERS
    Budgets,     \* bounds: MAX_PENDING, what the world may do and to which
                 \* workspaces; how it starts: whether they are freshly indexed
                 \* or have their vectors, and whether the battery is low
    None

ASSUME QueueAssumption ==
    /\ BaseOf \in [Workspaces -> Workspaces \cup {None}]
    /\ \A w \in Workspaces : BaseOf[w] # None => BaseOf[BaseOf[w]] = None
    /\ Places \in Nat \ {0}
    /\ Budgets \subseteq [on : SUBSET Workspaces, fresh : BOOLEAN, held : BOOLEAN,
                          maxPending : Nat \ {0}, requests : Nat, commands : Nat,
                          edits : Nat, faults : Nat]

VARIABLES
    lag,        \* per workspace: what its vectors lack
    root,       \* whether its directory exists
    pending,    \* the waiting requests, least recent first
    started,    \* the workers this queue started
    dispatch,   \* the dispatch in progress
    awake,      \* whether somebody is to dispatch, or `wake` is notified
    pidfile,    \* .enhancing.pid
    queued,     \* .queued_neural: a neural run is wanted after this worker
    job,        \* the process of the active enhancement record in job.json
    starter,    \* calls of trigger_background_enhancement_command
    worker,     \* worker processes
    held,       \* whether a guard holds the neural pass back (battery, heat)
    updated,    \* workspaces whose update the watcher has indexed, not requested
    excused,    \* history: why the work of a workspace may stay undone
    left        \* what is left of the budget

queueVars == <<pending, started, dispatch, awake>>
fileVars == <<pidfile, queued, job>>
worldVars == <<lag, root, held, updated, excused, left>>
vars == <<queueVars, fileVars, worldVars, starter, worker>>

\* MAX_PENDING: how many requests may wait.
MaxPending == left.maxPending

Lanes == {"hash", "neural"}

\* EnhancementPolicy, in its order.
HashOnly == 1
MaintainExisting == 2
Neural == 3

Requests == [w : Workspaces, policy : HashOnly .. Neural, lane : Lanes,
             hashFirst : BOOLEAN]

\* `Dead` is the pid of a process that has ended: nothing compares it with
\* anything but a live one.
Dead == "dead"
Empty == "empty"
Pids == Processes \cup {Dead}

Starters == {"daemon", "command"} \cup Processes
Idle == [at |-> "idle", w |-> None, lane |-> "hash", child |-> None]
Ended == [at |-> "ended", w |-> None, lane |-> "hash", current |-> TRUE, ok |-> TRUE]

TypeOK ==
    /\ lag \in [Workspaces -> [hash : BOOLEAN, neural : BOOLEAN, store : BOOLEAN]]
    /\ root \in [Workspaces -> BOOLEAN]
    /\ Len(pending) <= MaxPending /\ Range(pending) \subseteq Requests
    /\ started \in [Workspaces -> [lane : Lanes, pid : Processes] \cup {None}]
    /\ dispatch \in [at : {"off", "next", "starting"}, todo : SeqOf(Workspaces, MaxPending),
                     w : Workspaces \cup {None}, lane : Lanes,
                     capacity : [Lanes -> 0 .. Places]]
    /\ awake \in BOOLEAN
    /\ pidfile \in [Workspaces -> Pids \cup {None, Empty}]
    /\ queued \in [Workspaces -> BOOLEAN]
    /\ job \in [Workspaces -> Pids \cup {None}]
    /\ starter \in [Starters ->
          [at : {"idle", "check", "create", "spawn", "write", "mark", "recheck",
                 "unmark", "base"},
           w : Workspaces \cup {None}, lane : Lanes, child : Pids \cup {None}]]
    /\ worker \in [Processes ->
          [at : {"ended", "admit", "begin", "hash", "readmit", "neural", "finish",
                 "unpid", "requeue"},
           w : Workspaces \cup {None}, lane : Lanes, current : BOOLEAN, ok : BOOLEAN]]
    /\ held \in BOOLEAN /\ updated \subseteq Workspaces
    /\ excused \in [Workspaces -> SUBSET {"fault", "evicted", "skipped"}]
    /\ left \in [on : SUBSET Workspaces, fresh : BOOLEAN, held : BOOLEAN,
                maxPending : Nat, requests : Nat, commands : Nat, edits : Nat,
                faults : Nat]

Init ==
    /\ left \in Budgets
    /\ lag = [w \in Workspaces |-> [hash |-> left.fresh, neural |-> left.fresh,
                                    store |-> ~left.fresh]]
    /\ root = [w \in Workspaces |-> TRUE]
    /\ pending = <<>>
    /\ started = [w \in Workspaces |-> None]
    /\ dispatch = [at |-> "off", todo |-> <<>>, w |-> None, lane |-> "hash",
                   capacity |-> [l \in Lanes |-> 0]]
    /\ awake = FALSE
    /\ pidfile = [w \in Workspaces |-> None]
    /\ queued = [w \in Workspaces |-> FALSE]
    /\ job = [w \in Workspaces |-> None]
    /\ starter = [a \in Starters |-> Idle]
    /\ worker = [p \in Processes |-> Ended]
    /\ held = left.held /\ updated = {}
    /\ excused = [w \in Workspaces |-> {}]

Excuse(w, why) == excused' = [excused EXCEPT ![w] = @ \cup {why}]
Spend(kind) == left[kind] > 0 /\ left' = [left EXCEPT ![kind] = @ - 1]
--------------------------------------------------------------------------------
(* What the files of a workspace say. *)

JobActive(w) == job[w] \in Processes
PidAlive(w) == pidfile[w] \in Processes \cup {Empty}
EnhancingActive(w) == JobActive(w) \/ PidAlive(w)

\* enhancement_worker_pid: an empty file is alive but names nobody.
WorkerPid(w) == IF pidfile[w] \in Processes THEN pidfile[w] ELSE None

NeedsHash(w) == lag[w].hash
NeedsNeural(w) == ~JobActive(w) /\ (lag[w].hash \/ lag[w].neural)
NeedsWork(lane, w) == IF lane = "hash" THEN NeedsHash(w) ELSE NeedsNeural(w)

HasNeuralVectors(w) ==
    lag[w].store \/ (BaseOf[w] # None /\ lag[BaseOf[w]].store)

\* The lane of a search on w: the neural one once a query has asked for it or
\* the vectors exist.  None when nothing is missing.
SearchLane(w, usesNeural) ==
    LET lane == IF usesNeural \/ HasNeuralVectors(w) THEN "neural" ELSE "hash"
    IN  IF NeedsWork(lane, w) THEN lane ELSE None

PolicyLane(policy, w) ==
    IF policy = HashOnly
    THEN IF NeedsHash(w) THEN "hash" ELSE None
    ELSE SearchLane(w, policy = Neural)

\* Places of a lane: a hash worker holds one from its admission to its end, a
\* neural worker until its passes are over, except while it is held back.
Holds(p, lane) ==
    /\ worker[p].lane = lane
    /\ worker[p].at \in {"begin", "hash", "neural"}
                         \cup (IF lane = "hash" THEN {"finish", "unpid", "requeue"} ELSE {})
FreePlaces(lane) == Places - Cardinality({p \in Processes : Holds(p, lane)})

--------------------------------------------------------------------------------
(* The queue. *)

PendingOf(w) == SelectSeq(pending, LAMBDA r : r.w = w)
IsPending(w) == PendingOf(w) # <<>>
Without(w) == SelectSeq(pending, LAMBDA r : r.w # w)
Put(r) == pending' = [i \in DOMAIN pending |-> IF pending[i].w = r.w THEN r ELSE pending[i]]

\* EnhancementQueue::touch: skipped when a dispatch has the mutex.
Touch(w) ==
    /\ dispatch.at = "off" /\ IsPending(w)
    /\ pending' = Without(w) \o PendingOf(w)
    /\ UNCHANGED <<started, dispatch, awake, fileVars, worldVars,
                   starter, worker>>

\* Mutant: the newest request replaces the waiting one, stronger or not.
EnqueuedWeaker(w, policy) ==
    LET r == [w |-> w, hashFirst |-> TRUE, policy |-> policy,
              lane |-> PolicyLane(policy, w)]
        all == Append(Without(w), r)
    IN  IF Len(all) > MaxPending THEN Tail(all) ELSE all

\* The pending requests with a request for w added.  A later, weaker request
\* does not weaken the one that waits; the oldest goes when there are too many.
Enqueued(w, policy) ==
    LET waiting == PendingOf(w)
        keep == waiting # <<>> /\ waiting[1].policy > policy
        r == [w |-> w, hashFirst |-> TRUE,
              policy |-> IF keep THEN waiting[1].policy ELSE policy,
              lane |-> IF keep THEN waiting[1].lane ELSE PolicyLane(policy, w)]
        all == Append(Without(w), r)
    IN  IF Len(all) > MaxPending THEN Tail(all) ELSE all

\* EnhancementQueue::request.
Enqueue(w, policy) ==
    IF PolicyLane(policy, w) = None
    THEN UNCHANGED <<pending, awake>>
    ELSE dispatch.at = "off" /\ pending' = Enqueued(w, policy) /\ awake' = TRUE

Evicts(w) == Len(Without(w)) >= MaxPending

\* A search on w, or an `ig --add` that wants hash vectors.
Request(w, policy) ==
    /\ w \in left.on /\ PolicyLane(policy, w) # None /\ Spend("requests")
    /\ Enqueue(w, policy)
    /\ IF Evicts(w) THEN Excuse(pending[1].w, "evicted") ELSE UNCHANGED excused
    /\ UNCHANGED <<started, dispatch, fileVars, lag, root, held, updated, starter, worker>>

\* The watcher has indexed an update of w and asks for its vectors.
WatchRequest(w) ==
    /\ w \in updated /\ updated' = updated \ {w}
    /\ Enqueue(w, MaintainExisting)
    /\ IF PolicyLane(MaintainExisting, w) = None
       THEN Excuse(w, "skipped")
       ELSE IF Evicts(w) THEN Excuse(pending[1].w, "evicted") ELSE UNCHANGED excused
    /\ UNCHANGED <<started, dispatch, fileVars, lag, root, held, left, starter, worker>>

\* The beginning of EnhancementQueue::dispatch.  The thread that made a request
\* calls it, and so does the daemon's task, every second while requests wait;
\* with none it sleeps in wait_for_requests until the next one notifies it.
BeginDispatch ==
    /\ dispatch.at = "off" /\ awake
    /\ LET mine == [w \in Workspaces |->
              IF started[w] # None /\ WorkerPid(w) = started[w].pid
              THEN started[w] ELSE None]
           live == SelectSeq(pending, LAMBDA r : root[r.w])
           Mine(lane) == Cardinality({w \in Workspaces :
                                        mine[w] # None /\ mine[w].lane = lane})
           Spare(lane) == IF Places > Mine(lane) THEN Places - Mine(lane) ELSE 0
           Least(a, b) == IF a < b THEN a ELSE b
       IN  /\ started' = mine
           /\ pending' = live
           /\ dispatch' = [at |-> "next", w |-> None, lane |-> "hash",
                           todo |-> Reverse([i \in DOMAIN live |-> live[i].w]),
                           capacity |-> [l \in Lanes |-> Least(FreePlaces(l), Spare(l))]]
    /\ UNCHANGED <<awake, fileVars, worldVars, starter, worker>>

Capacity(lane) == dispatch.capacity[lane]

\* The request asks for a neural place and none is free: its hash vectors are
\* tried once meanwhile.
HashWhileWaiting(r) ==
    Capacity(r.lane) = 0 /\ r.lane = "neural" /\ r.hashFirst /\ Capacity("hash") > 0

\* The dispatch stays with the next request or starts a worker for this one.
Skip == dispatch' = [dispatch EXCEPT !.todo = Tail(@)]
Start(w, lane) ==
    /\ dispatch' = [dispatch EXCEPT !.at = "starting", !.w = w, !.lane = lane,
                                    !.todo = Tail(@)]
    /\ starter' = [starter EXCEPT !["daemon"] =
                     [Idle EXCEPT !.at = "check", !.w = w, !.lane = lane]]

\* One request of a dispatch.
DispatchRequest ==
    /\ dispatch.at = "next" /\ dispatch.todo # <<>>
    /\ \E l \in Lanes : Capacity(l) > 0
    /\ LET w == Head(dispatch.todo)
           r == PendingOf(w)[1]
           lane == PolicyLane(r.policy, w)
       IN  \/ /\ Capacity(r.lane) = 0 /\ ~HashWhileWaiting(r)
              /\ Skip /\ UNCHANGED <<pending, starter>>
           \/ /\ Capacity(r.lane) > 0 \/ HashWhileWaiting(r)
              /\ WorkerPid(w) # None
              /\ Skip /\ UNCHANGED <<pending, starter>>
           \/ /\ HashWhileWaiting(r) /\ WorkerPid(w) = None
              /\ Put([r EXCEPT !.hashFirst = FALSE])
              /\ IF NeedsHash(w) THEN Start(w, "hash")
                 ELSE Skip /\ UNCHANGED starter
           \/ /\ Capacity(r.lane) > 0 /\ WorkerPid(w) = None
              /\ CASE lane = None -> pending' = Without(w) /\ Skip /\ UNCHANGED starter
                   [] lane # None /\ Capacity(lane) = 0 ->
                        Put([r EXCEPT !.lane = lane]) /\ Skip /\ UNCHANGED starter
                   [] OTHER -> pending' = Without(w) /\ Start(w, lane)
    /\ UNCHANGED <<started, awake, fileVars, worldVars, worker>>

\* The start returned: the worker, if one is there, takes a place.
NoteStarted ==
    /\ dispatch.at = "starting" /\ starter["daemon"].at = "idle"
    /\ LET w == dispatch.w
           failed == starter["daemon"].child = Dead
       IN  IF WorkerPid(w) # None /\ ~failed
           THEN /\ started' = [started EXCEPT ![w] =
                                 [lane |-> dispatch.lane, pid |-> WorkerPid(w)]]
                /\ dispatch' = [dispatch EXCEPT !.at = "next", !.w = None,
                                  !.capacity[dispatch.lane] = @ - 1]
           ELSE /\ dispatch' = [dispatch EXCEPT !.at = "next", !.w = None]
                /\ UNCHANGED started
    /\ starter' = [starter EXCEPT !["daemon"] = Idle]
    /\ UNCHANGED <<pending, awake, fileVars, worldVars, worker>>

\* Mutant: the task goes to sleep although requests wait.
EndDispatchParked ==
    /\ dispatch.at = "next"
    /\ dispatch.todo = <<>> \/ \A l \in Lanes : Capacity(l) = 0
    /\ dispatch' = [at |-> "off", todo |-> <<>>, w |-> None, lane |-> "hash",
                    capacity |-> [l \in Lanes |-> 0]]
    /\ awake' = FALSE
    /\ UNCHANGED <<pending, started, fileVars, worldVars, starter, worker>>

EndDispatch ==
    /\ dispatch.at = "next"
    /\ dispatch.todo = <<>> \/ \A l \in Lanes : Capacity(l) = 0
    /\ dispatch' = [at |-> "off", todo |-> <<>>, w |-> None, lane |-> "hash",
                    capacity |-> [l \in Lanes |-> 0]]
    /\ awake' = (pending # <<>>)
    /\ UNCHANGED <<pending, started, fileVars, worldVars, starter, worker>>

--------------------------------------------------------------------------------
(* trigger_background_enhancement_command, for the daemon's queue, for a     *)
(* command or session without a daemon, and for a worker that ends.          *)

Go(a, at) == starter' = [starter EXCEPT ![a].at = at]

\* Return with or without an error; the daemon's queue looks at the result.
Return(a, failed) ==
    starter' = [starter EXCEPT ![a] = [Idle EXCEPT !.child = IF failed THEN Dead ELSE None]]

\* trigger_background_search_enhancement by a command (run_query, MCP, TUI).
Command(w, usesNeural) ==
    /\ w \in left.on /\ Spend("commands")
    /\ starter["command"].at = "idle"
    /\ SearchLane(w, usesNeural) # None
    /\ starter' = [starter EXCEPT !["command"] =
                     [Idle EXCEPT !.at = "check", !.w = w,
                                  !.lane = SearchLane(w, usesNeural)]]
    /\ UNCHANGED <<queueVars, fileVars, lag, root, held, updated, excused, worker>>

\* An active job: only a neural run has anything to add.  A stalled job is
\* closed and its pid file goes, and so does the pid file of a dead process.
CheckActive(a) ==
    /\ starter[a].at = "check"
    /\ LET w == starter[a].w
       IN  IF JobActive(w)
           THEN /\ IF starter[a].lane = "neural" THEN Go(a, "mark") ELSE Return(a, FALSE)
                /\ UNCHANGED fileVars
           ELSE /\ Go(a, "create")
                /\ pidfile' = [pidfile EXCEPT ![w] =
                                 IF job[w] = Dead \/ @ = Dead THEN None ELSE @]
                /\ job' = [job EXCEPT ![w] = None]
                /\ UNCHANGED queued
    /\ UNCHANGED <<queueVars, worldVars, worker>>

\* create_new on the pid file.
CreatePidFile(a) ==
    /\ starter[a].at = "create"
    /\ LET w == starter[a].w
       IN  IF pidfile[w] = None
           THEN pidfile' = [pidfile EXCEPT ![w] = Empty] /\ Go(a, "spawn")
           ELSE /\ Go(a, IF starter[a].lane = "neural" THEN "mark" ELSE "base")
                /\ UNCHANGED pidfile
    /\ UNCHANGED <<queueVars, queued, job, worldVars, worker>>

\* Which of the unused pids the child gets does not matter.
Spawn(a) ==
    /\ starter[a].at = "spawn"
    /\ \E p \in Processes : worker[p].at = "ended"
    /\ LET p == CHOOSE p \in Processes : worker[p].at = "ended"
       IN  /\ worker' = [worker EXCEPT ![p] =
                           [Ended EXCEPT !.at = "admit", !.w = starter[a].w,
                                         !.lane = starter[a].lane]]
           /\ starter' = [starter EXCEPT ![a].at = "write", ![a].child = p]
    /\ UNCHANGED <<queueVars, fileVars, worldVars>>

\* The parent fills the pid file, however far the child has come by then; a
\* child that has already removed the file leaves a claim nobody takes back.
WritePid(a) ==
    /\ starter[a].at = "write"
    /\ LET w == starter[a].w
           child == starter[a].child
       IN  /\ pidfile' = [pidfile EXCEPT ![w] = child]
           /\ IF child = Dead \/ worker[child].at \in {"finish", "unpid", "requeue"}
              THEN Excuse(w, "fault") ELSE UNCHANGED excused
    /\ starter' = [starter EXCEPT ![a].at = "base", ![a].child = None]
    /\ UNCHANGED <<queueVars, queued, job, lag, root, held, updated, left,
                   worker>>

\* Mutant: the worker is not looked at again once the marker is written.
MarkQueuedOnly(a) ==
    /\ starter[a].at = "mark"
    /\ queued' = [queued EXCEPT ![starter[a].w] = TRUE]
    /\ Go(a, "base")
    /\ UNCHANGED <<queueVars, pidfile, job, worldVars, worker>>

\* queue_neural_enhancement_after_active.
MarkQueued(a) ==
    /\ starter[a].at = "mark"
    /\ queued' = [queued EXCEPT ![starter[a].w] = TRUE]
    /\ Go(a, "recheck")
    /\ UNCHANGED <<queueVars, pidfile, job, worldVars, worker>>

RecheckActive(a) ==
    /\ starter[a].at = "recheck"
    /\ LET w == starter[a].w
       IN  /\ pidfile' = [pidfile EXCEPT ![w] = IF ~JobActive(w) /\ @ = Dead THEN None ELSE @]
           /\ Go(a, IF EnhancingActive(w) THEN "base" ELSE "unmark")
    /\ UNCHANGED <<queueVars, queued, job, worldVars, worker>>

\* trigger_queued_neural_enhancement.
TakeQueued(a) ==
    /\ starter[a].at = "unmark"
    /\ LET w == starter[a].w
       IN  /\ queued' = [queued EXCEPT ![w] = FALSE]
           /\ IF queued[w] /\ NeedsNeural(w)
              THEN starter' = [starter EXCEPT ![a].at = "check", ![a].lane = "neural"]
              ELSE IF a \in Processes THEN Return(a, FALSE) ELSE Go(a, "base")
    /\ UNCHANGED <<queueVars, pidfile, job, worldVars, worker>>

\* An overlay shares the vectors of its base, which may lack some too.
TriggerBase(a) ==
    /\ starter[a].at = "base"
    /\ LET base == BaseOf[starter[a].w]
       IN  IF base # None /\ NeedsWork(starter[a].lane, base)
           THEN starter' = [starter EXCEPT ![a].at = "check", ![a].w = base]
           ELSE Return(a, FALSE)
    /\ UNCHANGED <<queueVars, fileVars, worldVars, worker>>

Starting(a) ==
    \/ CheckActive(a) \/ CreatePidFile(a) \/ Spawn(a) \/ WritePid(a)
    \/ MarkQueued(a) \/ RecheckActive(a) \/ TakeQueued(a) \/ TriggerBase(a)
--------------------------------------------------------------------------------
(* A worker process: --enhance-hash-internal or --enhance-internal. *)

At(p, at) == worker[p].at = at
Step(p, at) == worker' = [worker EXCEPT ![p].at = at]

\* The process ends: its lock on a place goes with it, and wherever its pid is
\* written it now names a dead process.
Gone(p, of) == [w \in Workspaces |-> IF of[w] = p THEN Dead ELSE of[w]]
Exit(p) ==
    /\ worker' = [worker EXCEPT ![p] = Ended]
    /\ starter' = [a \in Starters |->
                     IF a = p THEN Idle
                     ELSE IF starter[a].child = p THEN [starter[a] EXCEPT !.child = Dead]
                     ELSE starter[a]]
    /\ started' = [w \in Workspaces |->
                     IF started[w] # None /\ started[w].pid = p THEN None ELSE started[w]]

\* admit_worker: the root vanished while it waited, or a place is free.
GiveUpWaiting(p) ==
    /\ At(p, "admit") /\ ~root[worker[p].w]
    /\ LET w == worker[p].w
           file == [pidfile EXCEPT ![w] = IF @ = p THEN None ELSE @]
       IN  pidfile' = Gone(p, file) /\ job' = Gone(p, job)
    /\ Exit(p)
    /\ UNCHANGED <<pending, dispatch, awake, queued, worldVars>>

Admit(p) ==
    /\ At(p, "admit") /\ root[worker[p].w]
    /\ FreePlaces(worker[p].lane) > 0
    /\ Step(p, IF worker[p].lane = "neural" THEN "begin" ELSE "hash")
    /\ UNCHANGED <<queueVars, fileVars, worldVars, starter>>

\* A neural worker names itself in the pid file and in the ledger.
BeginJob(p) ==
    /\ At(p, "begin")
    /\ pidfile' = [pidfile EXCEPT ![worker[p].w] = p]
    /\ job' = [job EXCEPT ![worker[p].w] = p]
    /\ Step(p, "hash")
    /\ UNCHANGED <<queueVars, queued, worldVars, starter>>

\* The hash pass leaves the tier current unless the index moved on meanwhile.
HashPass(p) ==
    /\ At(p, "hash")
    /\ lag' = [lag EXCEPT ![worker[p].w].hash = @ /\ ~worker[p].current]
    /\ worker' = [worker EXCEPT ![p].current = TRUE,
                    ![p].at = IF worker[p].lane = "hash" THEN "finish"
                              ELSE IF held THEN "readmit" ELSE "neural"]
    /\ UNCHANGED <<queueVars, fileVars, root, held, updated, excused, left, starter>>

\* readmit_for_neural_pass: a worker the guard holds back gave up its place.
Readmit(p) ==
    /\ At(p, "readmit")
    /\ \/ ~root[worker[p].w] /\ Step(p, "finish")
       \/ /\ root[worker[p].w] /\ ~held /\ FreePlaces("neural") > 0
          /\ Step(p, "neural")
    /\ UNCHANGED <<queueVars, fileVars, worldVars, starter>>

NeuralPass(p) ==
    /\ At(p, "neural")
    /\ lag' = [lag EXCEPT ![worker[p].w].neural = @ /\ ~worker[p].current,
                          ![worker[p].w].store = TRUE]
    /\ worker' = [worker EXCEPT ![p].at = "finish", ![p].current = TRUE]
    /\ UNCHANGED <<queueVars, fileVars, root, held, updated, excused, left, starter>>

\* A pass fails; the worker still cleans up.
PassFails(p) ==
    /\ worker[p].at \in {"hash", "neural"}
    /\ Spend("faults")
    /\ worker' = [worker EXCEPT ![p].at = "finish", ![p].ok = FALSE]
    /\ Excuse(worker[p].w, "fault")
    /\ UNCHANGED <<queueVars, fileVars, lag, root, held, updated, starter>>

\* The progress files belong to another worker: a hash worker looks at the pid
\* file, a neural one at the nonce of the job.
Disowned(p) ==
    LET w == worker[p].w
    IN  IF worker[p].lane = "hash" THEN pidfile[w] \notin {p, None} ELSE job[w] # p

FinishJob(p) ==
    /\ At(p, "finish") /\ ~Disowned(p)
    /\ job' = [job EXCEPT ![worker[p].w] = None]
    /\ Step(p, "unpid")
    /\ UNCHANGED <<queueVars, pidfile, queued, worldVars, starter>>

Leave(p) ==
    /\ At(p, "finish") /\ Disowned(p)
    /\ pidfile' = Gone(p, pidfile) /\ job' = Gone(p, job)
    /\ Excuse(worker[p].w, "fault")
    /\ Exit(p)
    /\ UNCHANGED <<pending, dispatch, awake, queued, lag, root,
                   held, updated, left>>

\* The pid file goes; a worker that ended well then starts what was queued.
RemovePid(p) ==
    /\ At(p, "unpid")
    /\ pidfile' = [pidfile EXCEPT ![worker[p].w] = None]
    /\ Step(p, "requeue")
    /\ starter' = [starter EXCEPT ![p] =
                     [Idle EXCEPT !.w = worker[p].w, !.lane = "neural",
                        !.at = IF worker[p].ok THEN "unmark" ELSE "idle"]]
    /\ UNCHANGED <<queueVars, queued, job, worldVars>>

EndWorker(p) ==
    /\ At(p, "requeue") /\ starter[p].at = "idle"
    /\ pidfile' = Gone(p, pidfile) /\ job' = Gone(p, job)
    /\ Exit(p)
    /\ UNCHANGED <<pending, dispatch, awake, queued, worldVars>>

Working(p) ==
    \/ GiveUpWaiting(p) \/ Admit(p) \/ BeginJob(p) \/ HashPass(p) \/ Readmit(p)
    \/ NeuralPass(p) \/ FinishJob(p) \/ Leave(p) \/ RemovePid(p) \/ EndWorker(p)
--------------------------------------------------------------------------------
(* The world. *)

\* A worker is killed, or its index was replaced (EnhancementSuperseded).
Kill(p) ==
    /\ worker[p].at # "ended" /\ starter[p].at = "idle"
    /\ Spend("faults")
    /\ pidfile' = Gone(p, pidfile) /\ job' = Gone(p, job)
    /\ Excuse(worker[p].w, "fault")
    /\ Exit(p)
    /\ UNCHANGED <<pending, dispatch, awake, queued, lag, root,
                   held, updated>>

\* The process cannot be spawned: the pid file is removed again.
SpawnFails(a) ==
    /\ starter[a].at = "spawn"
    /\ Spend("faults")
    /\ pidfile' = [pidfile EXCEPT ![starter[a].w] = None]
    /\ Excuse(starter[a].w, "fault")
    /\ Return(a, TRUE)
    /\ UNCHANGED <<queueVars, queued, job, lag, root, held, updated, worker>>

\* A command is killed.
CommandDies ==
    /\ starter["command"].at # "idle" /\ Spend("faults")
    /\ Excuse(starter["command"].w, "fault")
    /\ starter' = [starter EXCEPT !["command"] = Idle]
    /\ UNCHANGED <<queueVars, fileVars, lag, root, held, updated, worker>>

\* The watcher indexes an update: both tiers lag, passes in progress end stale.
Edit(w) ==
    /\ w \in left.on /\ Spend("edits")
    /\ updated' = updated \cup {w}
    /\ lag' = [lag EXCEPT ![w].hash = TRUE, ![w].neural = TRUE]
    /\ worker' = [p \in Processes |->
                    IF worker[p].w = w THEN [worker[p] EXCEPT !.current = FALSE]
                    ELSE worker[p]]
    /\ UNCHANGED <<queueVars, fileVars, root, held, excused, starter>>

RootVanishes(w) ==
    /\ root[w] /\ Spend("faults")
    /\ root' = [root EXCEPT ![w] = FALSE]
    /\ UNCHANGED <<queueVars, fileVars, lag, held, updated, excused, starter, worker>>

\* The machine is plugged in.
GuardLifts ==
    /\ held /\ held' = FALSE
    /\ UNCHANGED <<queueVars, fileVars, lag, root, updated, excused, left, starter,
                   worker>>

DaemonStep ==
    \/ BeginDispatch \/ DispatchRequest \/ NoteStarted \/ EndDispatch

Next ==
    \/ \E w \in Workspaces : Touch(w) \/ Edit(w) \/ WatchRequest(w) \/ RootVanishes(w)
    \/ \E w \in Workspaces, policy \in HashOnly .. Neural : Request(w, policy)
    \/ \E w \in Workspaces, q \in BOOLEAN : Command(w, q)
    \/ DaemonStep
    \/ \E a \in Starters : Starting(a) \/ SpawnFails(a)
    \/ \E p \in Processes : Working(p) \/ Kill(p) \/ PassFails(p)
    \/ GuardLifts \/ CommandDies

Spec == Init /\ [][Next]_vars

\* The daemon dispatches, somebody who can go on starting a worker does, some
\* worker that can go on does, and the battery is charged in the end.
FairSpec ==
    /\ Spec
    /\ WF_vars(DaemonStep) /\ WF_vars(GuardLifts)
    /\ \A w \in Workspaces : SF_vars(WatchRequest(w))
    /\ WF_vars(\E a \in Starters : Starting(a))
    /\ WF_vars(\E p \in Processes : Working(p))
--------------------------------------------------------------------------------
(* Properties. *)

\* "Never more than `places` per lane", for the workers that hold a place and
\* for those the queue believes it has started and not yet seen end.
WithinPlaces ==
    \A l \in Lanes :
        /\ FreePlaces(l) >= 0
        /\ Cardinality({w \in Workspaces : started[w] # None /\ started[w].lane = l})
              <= Places

\* A request is given up only when a worker is started for it, nothing is
\* missing any more, its root is gone, or the queue is full of newer ones; and
\* while it waits it is never weakened.
RequestKept ==
    [][\A w \in Workspaces : IsPending(w) =>
          IF IsPending(w)'
          THEN PendingOf(w)[1].policy <= PendingOf(w)'[1].policy
          ELSE \/ starter'["daemon"].w = w
               \/ PolicyLane(PendingOf(w)[1].policy, w) = None
               \/ ~root[w]
               \/ Len(pending) = MaxPending /\ pending[1].w = w]_vars

\* A request that waits is followed by hash vectors as new as the index, for
\* every order of searches, edits, commands and workers: unless it is evicted,
\* a process dies or fails, the root vanishes, or an update was indexed while
\* the neural job was active and its request was therefore dropped.
RequestServed ==
    \A w \in Workspaces :
        IsPending(w) ~> ~lag[w].hash \/ excused[w] # {} \/ ~root[w]

\* A neural run wanted while another worker is active is not forgotten if
\* that worker ends well and the workspace stays.
QueuedNeuralRuns ==
    \A w \in Workspaces : queued[w] ~> ~queued[w] \/ "fault" \in excused[w] \/ ~root[w]

\* "Once a neural store exists, keep it current for all later index updates"
\* (search_enhancement_uses_neural).
StoreKeptCurrent ==
    \A w \in Workspaces :
        lag[w].store /\ lag[w].neural ~>
            ~lag[w].neural \/ excused[w] \cap {"fault", "evicted"} # {} \/ ~root[w]
================================================================================
