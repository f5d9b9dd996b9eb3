---------------------------- MODULE WorkspaceLeases ----------------------------
(***************************************************************************)
(* How the daemon's requests share a workspace: the mode coordinator, with *)
(* its mutex and condition variable, the ordered acquisition of the leases *)
(* of several workspaces, cancellation, and the CPU permits taken after    *)
(* the leases.  (src/src/daemon.rs.)                                       *)
(*                                                                         *)
(* A search takes a shared lease in its mode (with or without gitignored   *)
(* files), and an exclusive one where the index needs repair.  An index    *)
(* run, a watcher update, a removal and the collector take exclusive ones. *)
(* Each step that holds a coordinator's mutex is one action.               *)
(***************************************************************************)
EXTENDS Integers, FiniteSets

CONSTANTS
    Requests,           \* tasks of the daemon, each runs once
    Workspaces,         \* workspace ids, ordered
    Modes,              \* the values of skip_gitignore
    Loads,              \* the loads to consider: what each request asks for, and
                        \* how often an acquisition may start over (a bound)
    CpuPermits,         \* capacity of cpu_permits
    BackgroundPermits,  \* capacity of background_cpu_permits
    None                \* no mode

ASSUME CapacityAssumption ==
    /\ CpuPermits \in Nat \ {0}
    /\ BackgroundPermits \in Nat \ {0}

ASSUME NamesAssumption ==
    /\ IsFiniteSet(Requests)
    /\ Workspaces \subseteq Nat
    /\ None \notin Modes

VARIABLES
    \* WorkspaceModeCoordinatorState, for every workspace
    activeMode, activeLeases, nextMode, nextModeGeneration, nextModeWaiters,
    exclusiveActive, exclusiveWaiters,
    \* what every request is doing
    pc,           \* its place in the code
    job,          \* what it asked for
    shared,       \* workspaces whose shared lease it holds
    exclusive,    \* workspaces whose exclusive lease it holds
    reserved,     \* reserved_next_mode_generation, 0 for none
    cancelled,    \* its cancellation flag
    \* the semaphores
    cpu, background,
    retries       \* restarts left

coordinator == <<activeMode, activeLeases, nextMode, nextModeGeneration,
                 nextModeWaiters, exclusiveActive, exclusiveWaiters>>
leases == <<shared, exclusive>>
permits == <<cpu, background>>
vars == <<coordinator, pc, job, leases, reserved, cancelled, permits, retries>>

\* A request for the leases of `needs`, those of `must` exclusively; `then`
\* is where it goes after it has dropped its leases.
Jobs == [kind : {"search", "index", "remove", "none"}, mode : Modes \cup {None}, needs : SUBSET Workspaces,
         must : SUBSET Workspaces, cancellable : BOOLEAN,
         then : {"inline", "plan", "acquire", "release", "done"}]

NoJob == [kind |-> "none", mode |-> None, needs |-> {}, must |-> {},
          cancellable |-> FALSE, then |-> "done"]

\* What a request may ask for; a search may carry an id to be cancelled by.
Asked == {j \in Jobs : /\ j.kind # "none" /\ j.mode # None /\ j.needs # {}
                       /\ j.must = {} /\ j.then = "done"
                       /\ j.cancellable => j.kind = "search"}

ASSUME LoadsAssumption ==
    Loads \subseteq [asked : [Requests -> Asked \cup {NoJob}], retries : Nat]

Waiting == {"asleep", "awake"}
Granted == {"inlined", "granted"}
Labels == {"new", "inline", "plan", "acquire", "background", "cpu", "running",
           "drop", "release", "done"} \cup Waiting \cup Granted

Init ==
    /\ activeMode = [w \in Workspaces |-> None]
    /\ activeLeases = [w \in Workspaces |-> 0]
    /\ nextMode = [w \in Workspaces |-> None]
    /\ nextModeGeneration = [w \in Workspaces |-> 0]
    /\ nextModeWaiters = [w \in Workspaces |-> 0]
    /\ exclusiveActive = [w \in Workspaces |-> FALSE]
    /\ exclusiveWaiters = [w \in Workspaces |-> 0]
    /\ \E load \in Loads : job = load.asked /\ retries = load.retries
    /\ pc = [r \in Requests |-> IF job[r] = NoJob THEN "done" ELSE "new"]
    /\ shared = [r \in Requests |-> {}]
    /\ exclusive = [r \in Requests |-> {}]
    /\ reserved = [r \in Requests |-> 0]
    /\ cancelled = [r \in Requests |-> FALSE]
    /\ cpu = CpuPermits
    /\ background = BackgroundPermits

-----------------------------------------------------------------------------
Held(r) == shared[r] \cup exclusive[r]
Lacks(r) == job[r].needs \ Held(r)

\* Leases are taken in the order of the workspace ids.
Turn(r, w) == w \in Lacks(r) /\ \A v \in Lacks(r) : w <= v

Goto(r, label) == pc' = [pc EXCEPT ![r] = label]

\* notify_all on the coordinator of w, by r, which goes on at label.
NotifyAndGoto(w, r, label) ==
    pc' = [q \in Requests |->
              IF q = r THEN label
              ELSE IF pc[q] = "asleep" /\ Turn(q, w) THEN "awake" ELSE pc[q]]

\* Where a request is once it has been given the lease of w.
After(r, w, label) ==
    IF Lacks(r) # {w} THEN label
    ELSE IF label = "inline" THEN "inlined" ELSE "granted"

Open(w) == ~exclusiveActive[w] /\ exclusiveWaiters[w] = 0

CanBegin(m, w) ==
    Open(w) /\ activeLeases[w] = 0 /\ nextMode[w] \in {None, m}

CanJoin(m, w) ==
    Open(w) /\ activeMode[w] = m /\ nextMode[w] = None

Busy(w) == exclusiveActive[w] \/ activeLeases[w] > 0

\* The first lease of a mode, or one more of the active mode.
TakeShared(m, w) ==
    \/ /\ CanBegin(m, w)
       /\ activeMode' = [activeMode EXCEPT ![w] = m]
       /\ activeLeases' = [activeLeases EXCEPT ![w] = 1]
       /\ nextMode' = [nextMode EXCEPT ![w] = None]
       /\ nextModeWaiters' = [nextModeWaiters EXCEPT ![w] = 0]
       /\ UNCHANGED <<nextModeGeneration, exclusiveActive, exclusiveWaiters>>
    \/ /\ ~CanBegin(m, w) /\ CanJoin(m, w)
       /\ activeLeases' = [activeLeases EXCEPT ![w] = @ + 1]
       /\ UNCHANGED <<activeMode, nextMode, nextModeGeneration,
                      nextModeWaiters, exclusiveActive, exclusiveWaiters>>

-----------------------------------------------------------------------------
(* acquire_search_leases and acquire_workspace_leases.                     *)

Arrive(r) ==
    /\ pc[r] = "new"
    /\ Goto(r, IF job[r].kind = "search" THEN "inline" ELSE "plan")
    /\ UNCHANGED <<coordinator, job, leases, reserved, cancelled, permits, retries>>

\* try_acquire_shared: granted at once ...
TryShared(r) ==
    /\ pc[r] = "inline"
    /\ Held(r) = {} => ~cancelled[r]
    /\ \E w \in Workspaces :
          /\ Turn(r, w)
          /\ TakeShared(job[r].mode, w)
          /\ shared' = [shared EXCEPT ![r] = @ \cup {w}]
          /\ Goto(r, After(r, w, "inline"))
    /\ UNCHANGED <<job, exclusive, reserved, cancelled, permits, retries>>

\* ... or not at all: what was taken goes back.
TrySharedContended(r) ==
    /\ pc[r] = "inline"
    /\ \E w \in Workspaces :
          Turn(r, w) /\ ~CanBegin(job[r].mode, w) /\ ~CanJoin(job[r].mode, w)
    /\ job' = [job EXCEPT ![r].then = "plan"]
    /\ Goto(r, "drop")
    /\ UNCHANGED <<coordinator, leases, reserved, cancelled, permits, retries>>

\* A worktree, an unfinished publication or a cancelled request never tries.
DeclineInline(r) ==
    /\ pc[r] = "inline" /\ Held(r) = {}
    /\ Goto(r, "plan")
    /\ UNCHANGED <<coordinator, job, leases, reserved, cancelled, permits, retries>>

\* A mutation needs every lease exclusively, a search those of workspaces
\* whose publication is unfinished or whose base is not ready.
Plan(r) ==
    /\ pc[r] = "plan"
    /\ \E must \in SUBSET job[r].needs :
          /\ job[r].kind # "search" => must = job[r].needs
          /\ job' = [job EXCEPT ![r].must = must]
    /\ Goto(r, "acquire")
    /\ UNCHANGED <<coordinator, leases, reserved, cancelled, permits, retries>>

WantsShared(r, w) == Turn(r, w) /\ w \notin job[r].must
WantsExclusive(r, w) == Turn(r, w) /\ w \in job[r].must

\* One iteration of acquire_shared, under the mutex: the lease ...
AcquireShared(r) ==
    /\ pc[r] \in {"acquire", "awake"} /\ ~cancelled[r]
    /\ \E w \in Workspaces :
          /\ WantsShared(r, w)
          /\ TakeShared(job[r].mode, w)
          /\ shared' = [shared EXCEPT ![r] = @ \cup {w}]
          /\ Goto(r, After(r, w, "acquire"))
    /\ reserved' = [reserved EXCEPT ![r] = 0]
    /\ UNCHANGED <<job, exclusive, cancelled, permits, retries>>

\* A waiter for the mode that is not active books the next turn for its
\* mode, or joins the booking, once per booking.
Reserve(r, w, m) ==
    IF ~Open(w) \/ activeMode[w] = m \/ nextMode[w] \notin {None, m}
    THEN UNCHANGED <<nextMode, nextModeGeneration, nextModeWaiters, reserved>>
    ELSE IF nextMode[w] = None
    THEN /\ nextMode' = [nextMode EXCEPT ![w] = m]
         /\ nextModeGeneration' = [nextModeGeneration EXCEPT ![w] = @ + 1]
         /\ nextModeWaiters' = [nextModeWaiters EXCEPT ![w] = 1]
         /\ reserved' = [reserved EXCEPT ![r] = nextModeGeneration[w] + 1]
    ELSE /\ nextModeWaiters' = [nextModeWaiters EXCEPT ![w] =
               IF reserved[r] = nextModeGeneration[w] THEN @ ELSE @ + 1]
         /\ reserved' = [reserved EXCEPT ![r] = nextModeGeneration[w]]
         /\ UNCHANGED <<nextMode, nextModeGeneration>>

\* ... or a reservation, and the wait, which lets go of the mutex.
WaitShared(r) ==
    /\ pc[r] \in {"acquire", "awake"} /\ ~cancelled[r]
    /\ \E w \in Workspaces :
          /\ WantsShared(r, w)
          /\ ~CanBegin(job[r].mode, w) /\ ~CanJoin(job[r].mode, w)
          /\ Reserve(r, w, job[r].mode)
    /\ Goto(r, "asleep")
    /\ UNCHANGED <<activeMode, activeLeases, exclusiveActive, exclusiveWaiters,
                   job, leases, cancelled, permits, retries>>

HasBooking(r, w) ==
    nextMode[w] = job[r].mode /\ reserved[r] = nextModeGeneration[w]

\* Mutant: a cancelled booking wakes nobody.
CancelSharedSilently(r) ==
    /\ pc[r] \in {"acquire", "awake"} /\ cancelled[r]
    /\ \E w \in Workspaces :
          /\ WantsShared(r, w)
          /\ IF HasBooking(r, w)
             THEN /\ nextModeWaiters' = [nextModeWaiters EXCEPT ![w] = @ - 1]
                  /\ nextMode' = [nextMode EXCEPT ![w] =
                        IF nextModeWaiters[w] = 1 THEN None ELSE @]
             ELSE UNCHANGED <<nextMode, nextModeWaiters>>
    /\ Goto(r, "drop")
    /\ reserved' = [reserved EXCEPT ![r] = 0]
    /\ job' = [job EXCEPT ![r].then = "done"]
    /\ UNCHANGED <<activeMode, activeLeases, nextModeGeneration,
                   exclusiveActive, exclusiveWaiters, leases, cancelled,
                   permits, retries>>

\* A cancelled waiter gives its booking back; the leases it has are dropped.
CancelShared(r) ==
    /\ pc[r] \in {"acquire", "awake"} /\ cancelled[r]
    /\ \E w \in Workspaces :
          /\ WantsShared(r, w)
          /\ IF HasBooking(r, w)
             THEN /\ nextModeWaiters' = [nextModeWaiters EXCEPT ![w] = @ - 1]
                  /\ nextMode' = [nextMode EXCEPT ![w] =
                        IF nextModeWaiters[w] = 1 THEN None ELSE @]
                  /\ NotifyAndGoto(w, r, "drop")
             ELSE /\ Goto(r, "drop")
                  /\ UNCHANGED <<nextMode, nextModeWaiters>>
    /\ reserved' = [reserved EXCEPT ![r] = 0]
    /\ job' = [job EXCEPT ![r].then = "done"]
    /\ UNCHANGED <<activeMode, activeLeases, nextModeGeneration,
                   exclusiveActive, exclusiveWaiters, leases, cancelled,
                   permits, retries>>

\* Mutant: only another exclusive lease is waited for.
AcquireExclusiveAmongReaders(r) ==
    /\ pc[r] \in {"acquire", "awake"} /\ ~cancelled[r]
    /\ \E w \in Workspaces :
          /\ WantsExclusive(r, w)
          /\ ~exclusiveActive[w]
          /\ exclusiveActive' = [exclusiveActive EXCEPT ![w] = TRUE]
          /\ exclusiveWaiters' = [exclusiveWaiters EXCEPT ![w] =
                IF pc[r] = "awake" THEN @ - 1 ELSE @]
          /\ exclusive' = [exclusive EXCEPT ![r] = @ \cup {w}]
          /\ Goto(r, After(r, w, "acquire"))
    /\ UNCHANGED <<activeMode, activeLeases, nextMode, nextModeGeneration,
                   nextModeWaiters, job, shared, reserved, cancelled, permits,
                   retries>>

\* acquire_exclusive: at once, or after the wait in which it is counted.
AcquireExclusive(r) ==
    /\ pc[r] \in {"acquire", "awake"} /\ ~cancelled[r]
    /\ \E w \in Workspaces :
          /\ WantsExclusive(r, w)
          /\ ~Busy(w)
          /\ exclusiveActive' = [exclusiveActive EXCEPT ![w] = TRUE]
          /\ exclusiveWaiters' = [exclusiveWaiters EXCEPT ![w] =
                IF pc[r] = "awake" THEN @ - 1 ELSE @]
          /\ exclusive' = [exclusive EXCEPT ![r] = @ \cup {w}]
          /\ Goto(r, After(r, w, "acquire"))
    /\ UNCHANGED <<activeMode, activeLeases, nextMode, nextModeGeneration,
                   nextModeWaiters, job, shared, reserved, cancelled, permits,
                   retries>>

WaitExclusive(r) ==
    /\ pc[r] \in {"acquire", "awake"} /\ ~cancelled[r]
    /\ \E w \in Workspaces :
          /\ WantsExclusive(r, w)
          /\ Busy(w)
          /\ exclusiveWaiters' = [exclusiveWaiters EXCEPT ![w] =
                IF pc[r] = "acquire" THEN @ + 1 ELSE @]
    /\ Goto(r, "asleep")
    /\ UNCHANGED <<activeMode, activeLeases, nextMode, nextModeGeneration,
                   nextModeWaiters, exclusiveActive, job, leases, reserved,
                   cancelled, permits, retries>>

CancelExclusive(r) ==
    /\ pc[r] \in {"acquire", "awake"} /\ cancelled[r]
    /\ \E w \in Workspaces :
          /\ WantsExclusive(r, w)
          /\ IF pc[r] = "awake"
             THEN /\ exclusiveWaiters' = [exclusiveWaiters EXCEPT ![w] = @ - 1]
                  /\ NotifyAndGoto(w, r, "drop")
             ELSE /\ Goto(r, "drop")
                  /\ UNCHANGED exclusiveWaiters
    /\ job' = [job EXCEPT ![r].then = "done"]
    /\ UNCHANGED <<activeMode, activeLeases, nextMode, nextModeGeneration,
                   nextModeWaiters, exclusiveActive, leases, reserved,
                   cancelled, permits, retries>>

\* A cancellable wait polls its flag every 10 ms.
Poll(r) ==
    /\ pc[r] = "asleep" /\ job[r].cancellable
    /\ Goto(r, "awake")
    /\ UNCHANGED <<coordinator, job, leases, reserved, cancelled, permits, retries>>

-----------------------------------------------------------------------------
(* With every lease in hand.                                               *)

Proceed(r) ==
    /\ pc[r] \in Granted
    /\ Goto(r, CASE job[r].kind = "search" -> "cpu"
                 [] job[r].kind = "index"  -> "background"
                 [] OTHER                  -> "running")
    /\ UNCHANGED <<coordinator, job, leases, reserved, cancelled, permits, retries>>

\* A shared base turned out not to be ready: start over, all exclusive.
\* (Leases granted inline have no base.)
Escalate(r) ==
    /\ pc[r] = "granted" /\ job[r].kind = "search"
    /\ job[r].must # job[r].needs
    /\ retries > 0 /\ retries' = retries - 1
    /\ job' = [job EXCEPT ![r].must = job[r].needs, ![r].then = "acquire"]
    /\ Goto(r, "drop")
    /\ UNCHANGED <<coordinator, leases, reserved, cancelled, permits>>

\* The checkout at the root was replaced: start over with its identity.
Reidentify(r) ==
    /\ pc[r] \in Granted /\ job[r].kind # "remove"
    /\ retries > 0 /\ retries' = retries - 1
    /\ job' = [job EXCEPT ![r].then =
                  IF job[r].kind = "search" THEN "inline" ELSE "plan"]
    /\ Goto(r, "drop")
    /\ UNCHANGED <<coordinator, leases, reserved, cancelled, permits>>

\* Forced neural search without vectors, or an identity that fails to resolve.
GiveUp(r) ==
    /\ pc[r] \in Granted /\ job[r].kind # "remove"
    /\ job' = [job EXCEPT ![r].then = "done"]
    /\ Goto(r, "drop")
    /\ UNCHANGED <<coordinator, leases, reserved, cancelled, permits, retries>>

\* acquire_background_cpu_permit takes the scarcer permit first.
TakeBackground(r) ==
    /\ pc[r] = "background" /\ background > 0
    /\ background' = background - 1
    /\ Goto(r, "cpu")
    /\ UNCHANGED <<coordinator, job, leases, reserved, cancelled, cpu, retries>>

TakeCpu(r) ==
    /\ pc[r] = "cpu" /\ ~cancelled[r] /\ cpu > 0
    /\ cpu' = cpu - 1
    /\ Goto(r, "running")
    /\ UNCHANGED <<coordinator, job, leases, reserved, cancelled, background, retries>>

\* acquire_search_permit: the cancellation is looked at first.
CancelCpu(r) ==
    /\ pc[r] = "cpu" /\ cancelled[r]
    /\ job' = [job EXCEPT ![r].then = "done"]
    /\ Goto(r, "drop")
    /\ UNCHANGED <<coordinator, leases, reserved, cancelled, permits, retries>>

\* The blocking task ends: its leases are dropped before its permits.
Finish(r) ==
    /\ pc[r] = "running"
    /\ job' = [job EXCEPT ![r].then =
                  IF job[r].kind = "remove" THEN "done" ELSE "release"]
    /\ Goto(r, "drop")
    /\ UNCHANGED <<coordinator, leases, reserved, cancelled, permits, retries>>

FirstHeld(r, w) == w \in Held(r) /\ \A v \in Held(r) : w <= v

\* WorkspaceModeLease::drop, one lease after the other.
DropShared(r) ==
    /\ pc[r] = "drop"
    /\ \E w \in shared[r] :
          /\ FirstHeld(r, w)
          /\ shared' = [shared EXCEPT ![r] = @ \ {w}]
          /\ activeLeases' = [activeLeases EXCEPT ![w] = @ - 1]
          /\ IF activeLeases[w] = 1 THEN NotifyAndGoto(w, r, "drop")
                                    ELSE UNCHANGED pc
    /\ UNCHANGED <<activeMode, nextMode, nextModeGeneration, nextModeWaiters,
                   exclusiveActive, exclusiveWaiters, job, exclusive, reserved,
                   cancelled, permits, retries>>

DropExclusive(r) ==
    /\ pc[r] = "drop"
    /\ \E w \in exclusive[r] :
          /\ FirstHeld(r, w)
          /\ exclusive' = [exclusive EXCEPT ![r] = @ \ {w}]
          /\ exclusiveActive' = [exclusiveActive EXCEPT ![w] = FALSE]
          /\ NotifyAndGoto(w, r, "drop")
    /\ UNCHANGED <<activeMode, activeLeases, nextMode, nextModeGeneration,
                   nextModeWaiters, exclusiveWaiters, job, shared, reserved,
                   cancelled, permits, retries>>

Dropped(r) ==
    /\ pc[r] = "drop" /\ Held(r) = {} /\ job[r].then # "done"
    /\ Goto(r, job[r].then)
    /\ UNCHANGED <<coordinator, job, leases, reserved, cancelled, permits, retries>>

\* The response is sent; nothing of the request stays.
Forget(r) ==
    /\ Goto(r, "done")
    /\ job' = [job EXCEPT ![r] = NoJob]
    /\ cancelled' = [cancelled EXCEPT ![r] = FALSE]

\* Mutant: an acquisition that was cancelled is tried again.
AnswerRetries(r) ==
    /\ pc[r] = "drop" /\ Held(r) = {} /\ job[r].then = "done"
    /\ Goto(r, IF cancelled[r] THEN "plan" ELSE "done")
    /\ UNCHANGED <<coordinator, job, leases, reserved, cancelled, permits, retries>>

Answer(r) ==
    /\ pc[r] = "drop" /\ Held(r) = {} /\ job[r].then = "done"
    /\ Forget(r)
    /\ UNCHANGED <<coordinator, leases, reserved, permits, retries>>

Release(r) ==
    /\ pc[r] = "release"
    /\ cpu' = cpu + 1
    /\ background' = IF job[r].kind = "index" THEN background + 1 ELSE background
    /\ Forget(r)
    /\ UNCHANGED <<coordinator, leases, reserved, retries>>

\* The client cancels, or the request's deadline passes.
Cancel(r) ==
    /\ pc[r] # "new" /\ job[r].cancellable /\ ~cancelled[r]
    /\ cancelled' = [cancelled EXCEPT ![r] = TRUE]
    /\ UNCHANGED <<coordinator, pc, job, leases, reserved, permits, retries>>

-----------------------------------------------------------------------------
Step(r) ==
    \/ TryShared(r) \/ TrySharedContended(r) \/ DeclineInline(r) \/ Plan(r)
    \/ AcquireShared(r) \/ WaitShared(r) \/ CancelShared(r)
    \/ AcquireExclusive(r) \/ WaitExclusive(r) \/ CancelExclusive(r)
    \/ Proceed(r) \/ TakeBackground(r) \/ TakeCpu(r) \/ CancelCpu(r)
    \/ Finish(r) \/ DropShared(r) \/ DropExclusive(r) \/ Dropped(r)
    \/ Answer(r) \/ Release(r)

Surprise(r) == Escalate(r) \/ Reidentify(r) \/ GiveUp(r) \/ Cancel(r)

Finished == \A r \in Requests : pc[r] = "done"

Next ==
    \/ \E r \in Requests : Arrive(r) \/ Step(r) \/ Poll(r) \/ Surprise(r)
    \/ Finished /\ UNCHANGED vars

Spec == Init /\ [][Next]_vars

\* Every thread runs, every timer fires, every search and index run ends.
Fairness == \A r \in Requests : WF_vars(Step(r)) /\ WF_vars(Poll(r))

FairSpec == Spec /\ Fairness

-----------------------------------------------------------------------------
(* Properties.                                                             *)

Readers(w) == {r \in Requests : w \in shared[r]}
Writers(w) == {r \in Requests : w \in exclusive[r]}

\* Every field has its type, and no permit is returned that was not taken:
\* the semaphores never hold more than they were made with.
TypeOK ==
    /\ activeMode \in [Workspaces -> Modes \cup {None}]
    /\ activeLeases \in [Workspaces -> Nat]
    /\ nextMode \in [Workspaces -> Modes \cup {None}]
    /\ nextModeGeneration \in [Workspaces -> Nat]
    /\ nextModeWaiters \in [Workspaces -> Nat]
    /\ exclusiveActive \in [Workspaces -> BOOLEAN]
    /\ exclusiveWaiters \in [Workspaces -> Nat]
    /\ pc \in [Requests -> Labels]
    /\ job \in [Requests -> Jobs]
    /\ shared \in [Requests -> SUBSET Workspaces]
    /\ exclusive \in [Requests -> SUBSET Workspaces]
    /\ reserved \in [Requests -> Nat]
    /\ cancelled \in [Requests -> BOOLEAN]
    /\ cpu \in 0 .. CpuPermits
    /\ background \in 0 .. BackgroundPermits
    /\ retries \in Nat

\* A mutation never shares a workspace with anyone, and the searches that
\* share one all see the same file set.
Exclusion ==
    \A w \in Workspaces :
        \A r, q \in Requests :
            /\ w \in exclusive[r] /\ w \in Held(q) => r = q
            /\ w \in shared[r] /\ w \in shared[q] => job[r].mode = job[q].mode

\* The waiters a coordinator counts are the requests that do wait: a count
\* too high would keep everyone else out for ever.
WaitersCounted ==
    \A w \in Workspaces :
        /\ exclusiveWaiters[w] =
              Cardinality({r \in Requests :
                              pc[r] \in Waiting /\ WantsExclusive(r, w)})
        /\ nextMode[w] # None =>
              nextModeWaiters[w] =
                 Cardinality({r \in Requests : /\ pc[r] \in Waiting
                                               /\ WantsShared(r, w)
                                               /\ HasBooking(r, w)})
        /\ nextMode[w] = None <=> nextModeWaiters[w] = 0

\* No wakeup is lost: whoever sleeps could not be granted its lease now.
NoLostWakeup ==
    \A r \in Requests, w \in Workspaces :
        pc[r] = "asleep" =>
            /\ WantsShared(r, w) =>
                  ~CanBegin(job[r].mode, w) /\ ~CanJoin(job[r].mode, w)
            /\ WantsExclusive(r, w) => Busy(w)

\* Nobody waits on anybody for ever: every request that arrives ends (there
\* are finitely many).
EveryRequestEnds == <>[](\A r \in Requests : pc[r] \in {"new", "done"})
================================================================================
