--------------------------- MODULE IndexCollector ---------------------------
(***************************************************************************)
(* Garbage collection of the indexes whose workspace root no longer        *)
(* exists (src/index_gc.rs), as the daemon runs it: one pass at a time,    *)
(* beside requests of the same daemon and beside index runs and            *)
(* enhancement workers of other processes, which it meets only at the lock *)
(* files.                                                                  *)
(*                                                                         *)
(* An index directory is the set of entries it holds; the value of the     *)
(* marker entry is its age, which Tick advances.  Lock files are told      *)
(* apart by inode: a run that opened a file keeps locking that inode after *)
(* the file has been unlinked.                                             *)
(***************************************************************************)
EXTENDS Integers, FiniteSets, FiniteSetsExt

CONSTANTS
    Indexes,      \* the index directories
    BaseOf,       \* overlay -> the index it reads as its base
    Runs,         \* runs of other processes
    LockOf,       \* run -> the lock file it takes
    Grace,        \* ticks a root has to be missing
    ShortGrace,   \* the same for a worktree Git no longer lists
    Budgets       \* how often roots move, runs and requests start, passes fail

LockFiles == {"index.lock", "enhancement.lock"}
Overlays == DOMAIN BaseOf
Bases == {BaseOf[o] : o \in Overlays}

ASSUME CollectorAssumption ==
    /\ IsFiniteSet(Indexes) /\ IsFiniteSet(Runs)
    /\ Overlays \subseteq Indexes /\ Bases \subseteq Indexes \ Overlays
    /\ LockOf \in [Runs -> LockFiles]
    /\ Grace \in Nat /\ ShortGrace \in 1..Grace
    /\ Budgets \subseteq [roots : Nat, runs : Nat, faults : Nat, requests : Nat]

(***************************************************************************)
(* Entries of an index directory besides the two lock files.               *)
(***************************************************************************)
Entries(i) ==
    {"workspace.json", "stores"} \cup (IF i \in Overlays THEN {"base_ref.json"} ELSE {})
Marker == ".root_missing_since"

NoInode == 0
Inodes == 1..(Cardinality(Runs) + 1)
Unasked == {"unasked"}

VARIABLES
    root,      \* whether each root exists
    listed,    \* the worktrees `git worktree list` reports
    dir,       \* each index directory: [exists, files, age, lock]
    readers,   \* indexes a daemon request holds a lease on
    cached,    \* indexes the daemon keeps readers or a watcher of
    pass,      \* the collector
    run,       \* the runs of other processes
    budget,
    steady,    \* history: overlays that lived through the whole pass so far
    slipped,   \* history: roots whose marker outlived their return
    late,      \* history: runs that took a lock the pass had already looked at
    absence    \* history: how long each root has really been missing

vars == <<root, listed, dir, readers, cached, pass, run, budget,
          steady, slipped, late, absence>>
history == <<steady, slipped, late, absence>>
world == <<root, listed, readers, cached, run, budget>>

Spend(kind) == budget[kind] > 0 /\ budget' = [budget EXCEPT ![kind] = @ - 1]

Gone(i) == ~root[i]
Grown(n) == IF n < Grace THEN n + 1 ELSE n

-----------------------------------------------------------------------------
(* Locks. *)

RunHolds(i, name, inode) ==
    \E r \in Runs : /\ run[r].pc \in {"locked", "writing"} /\ run[r].index = i
                    /\ LockOf[r] = name /\ run[r].inode = inode

PassHolds(i, name, inode) == pass.cur = i /\ <<name, inode>> \in pass.held

(* The inodes a lock file may get: the one it has, or one nobody has open. *)
InodesFor(i, name) ==
    IF dir[i].lock[name] # NoInode THEN {dir[i].lock[name]}
    ELSE Inodes \ ({run[r].inode : r \in {q \in Runs : run[q].index = i /\ LockOf[q] = name}}
                   \cup {h[2] : h \in {k \in pass.held : k[1] = name}})

-----------------------------------------------------------------------------
(* One pass. *)

Idle ==
    [pc |-> "idle", todo |-> {}, bases |-> {}, git |-> [b \in Bases |-> Unasked],
     cur |-> CHOOSE i \in Indexes : TRUE, short |-> FALSE, held |-> {}]

Goto(pc) == pass' = [pass EXCEPT !.pc = pc]

(* The next entry of the loop: whatever is held of this one is let go. *)
Proceed == pass' = [pass EXCEPT !.pc = "next", !.held = {}, !.short = FALSE]

(***************************************************************************)
(* The registry: directories with metadata.  The list is read before       *)
(* anything is locked.                                                     *)
(***************************************************************************)
ListEntries ==
    /\ pass.pc = "idle"
    /\ pass' = [Idle EXCEPT !.pc = "bases",
                            !.todo = {i \in Indexes : "workspace.json" \in dir[i].files}]
    /\ steady' = {o \in Overlays : /\ root[o]
                                   /\ {"workspace.json", "base_ref.json"} \subseteq dir[o].files}
    /\ late' = {}
    /\ UNCHANGED <<world, dir, slipped, absence>>

\* Mutant: only overlays whose root is gone keep their base.
LiveBasesInverted(todo) ==
    {BaseOf[o] : o \in {p \in todo \cap Overlays : Gone(p) /\ "base_ref.json" \in dir[p].files}}

LiveBases(todo) ==
    {BaseOf[o] : o \in {p \in todo \cap Overlays : ~Gone(p) /\ "base_ref.json" \in dir[p].files}}

(* The bases that overlays with a live root read. *)
ReadBases ==
    /\ pass.pc = "bases"
    /\ pass' = [pass EXCEPT !.pc = "next", !.bases = LiveBases(pass.todo)]
    /\ UNCHANGED <<world, dir, history>>

\* Mutant: the marker of a root that is back stays.
SeenHereKeepsMarker(i) ==
    /\ ~Gone(i)
    /\ pass' = [pass EXCEPT !.todo = @ \ {i}]
    /\ slipped' = slipped \ {i}
    /\ UNCHANGED <<dir, budget>>

(* A root that is there clears the marker; that this may fail is ignored. *)
SeenHere(i) ==
    /\ ~Gone(i)
    /\ pass' = [pass EXCEPT !.todo = @ \ {i}]
    /\ \/ /\ dir' = [dir EXCEPT ![i].files = @ \ {Marker}]
          /\ slipped' = slipped \ {i}
          /\ UNCHANGED budget
       \/ /\ Marker \in dir[i].files /\ Spend("faults")
          /\ UNCHANGED <<dir, slipped>>

\* Mutant: every pass writes the marker anew.
SeenGoneAgain(i) ==
    /\ Gone(i)
    /\ pass' = [pass EXCEPT !.todo = @ \ {i}, !.cur = i, !.pc = "judge"]
    /\ dir' = [dir EXCEPT ![i].files = @ \cup {Marker}, ![i].age = 0]
    /\ slipped' = slipped \ {i}
    /\ UNCHANGED budget

(* A root that is gone gets a marker, unless it has one or it cannot be written. *)
SeenGone(i) ==
    /\ Gone(i)
    /\ pass' = [pass EXCEPT !.todo = @ \ {i}, !.cur = i, !.pc = "judge"]
    /\ \/ /\ dir' = IF Marker \in dir[i].files \/ ~dir[i].exists THEN dir
                    ELSE [dir EXCEPT ![i].files = @ \cup {Marker}, ![i].age = 0]
          /\ slipped' = IF Marker \in dir[i].files THEN slipped ELSE slipped \ {i}
          /\ UNCHANGED budget
       \/ /\ Marker \notin dir[i].files /\ Spend("faults")
          /\ UNCHANGED <<dir, slipped>>

Examine(i) ==
    /\ pass.pc = "next" /\ i \in pass.todo
    /\ SeenHere(i) \/ SeenGone(i)
    /\ UNCHANGED <<root, listed, readers, cached, run, steady, late, absence>>

EndPass ==
    /\ pass.pc = "next" /\ pass.todo = {}
    /\ pass' = Idle
    /\ UNCHANGED <<world, dir, history>>

(***************************************************************************)
(* What Git says of the worktrees of a base: nothing when the base's own   *)
(* root is missing.  One answer serves the whole pass.                     *)
(***************************************************************************)
AskGit(b) == IF Gone(b) THEN Overlays ELSE listed

Answer(b) == IF pass.git[b] = Unasked THEN AskGit(b) ELSE pass.git[b]

Unregistered(i, answer) ==
    i \in Overlays /\ "base_ref.json" \in dir[i].files /\ i \notin answer

EffectiveGrace(i, answer) == IF Unregistered(i, answer) THEN ShortGrace ELSE Grace

(* A marker that could not be written counts as one written now. *)
Age(i) == IF Marker \in dir[i].files THEN dir[i].age ELSE 0

(* The grace has passed and no live overlay reads this base. *)
Judge ==
    /\ pass.pc = "judge"
    /\ LET i == pass.cur
           git == IF i \in Overlays /\ "base_ref.json" \in dir[i].files
                  THEN [pass.git EXCEPT ![BaseOf[i]] = Answer(BaseOf[i])] ELSE pass.git
           answer == IF i \in Overlays THEN git[BaseOf[i]] ELSE {}
           due == Age(i) >= EffectiveGrace(i, answer) /\ i \notin pass.bases
       IN pass' = [pass EXCEPT !.git = git, !.pc = IF due THEN "reserve" ELSE "next",
                               !.short = due /\ Age(i) < Grace]
    /\ UNCHANGED <<world, dir, history>>

(***************************************************************************)
(* The exclusive lease of the daemon: it waits for the requests that hold  *)
(* the workspace, and none starts while it waits.                          *)
(***************************************************************************)
Reserve ==
    /\ pass.pc = "reserve" /\ pass.cur \notin readers
    /\ Goto("jobs")
    /\ UNCHANGED <<world, dir, history>>

(***************************************************************************)
(* The job ledger.  A heartbeat older than its limit does not count, so a  *)
(* run that hangs may look inactive; the locks decide then.                *)
(***************************************************************************)
JobActive(i) == \E r \in Runs : run[r].pc = "writing" /\ run[r].index = i

CheckJobs ==
    /\ pass.pc = "jobs"
    /\ \/ JobActive(pass.cur) /\ Proceed
       \/ Goto("index.lock")
    /\ UNCHANGED <<world, dir, history>>

(* Where the pass has looked at a lock file of the index in hand. *)
Past(name) ==
    {"recheck", "release", "removing", "unlinking"} \cup
    (IF name = "index.lock" THEN {"enhancement.lock"} ELSE {})

NextStep(name) == IF name = "index.lock" THEN "enhancement.lock" ELSE "recheck"

(* A lock file that does not exist is skipped. *)
SkipLock(name) ==
    /\ dir[pass.cur].lock[name] = NoInode
    /\ Goto(NextStep(name))

TakeLock(name) ==
    LET inode == dir[pass.cur].lock[name]
    IN /\ inode # NoInode /\ ~RunHolds(pass.cur, name, inode)
       /\ pass' = [pass EXCEPT !.pc = NextStep(name), !.held = @ \cup {<<name, inode>>}]

\* Mutant: a failed try-lock does not stop the pass.
FindLockedGoesOn(name) ==
    LET inode == dir[pass.cur].lock[name]
    IN inode # NoInode /\ RunHolds(pass.cur, name, inode) /\ Goto(NextStep(name))

FindLocked(name) ==
    LET inode == dir[pass.cur].lock[name]
    IN inode # NoInode /\ RunHolds(pass.cur, name, inode) /\ Proceed

TryLock(name) ==
    /\ pass.pc = name
    /\ SkipLock(name) \/ TakeLock(name) \/ FindLocked(name)
    /\ UNCHANGED <<world, dir, history>>

(***************************************************************************)
(* Under the locks: the root is still gone, and Git still does not list    *)
(* the worktree when only the short grace made it due.                     *)
(***************************************************************************)
StillGone(i) ==
    Gone(i) /\ (pass.short => Unregistered(i, AskGit(BaseOf[i])))

Recheck ==
    /\ pass.pc = "recheck"
    /\ IF StillGone(pass.cur) THEN Goto("release") ELSE Proceed
    /\ UNCHANGED <<world, dir, history>>

(* The daemon stops its watcher and drops its readers of the index. *)
Release ==
    /\ pass.pc = "release"
    /\ cached' = cached \ {pass.cur}
    /\ Goto("removing")
    /\ UNCHANGED <<root, listed, dir, readers, run, budget, history>>

(* Entries go one at a time, in whatever order the directory lists them. *)
RemoveEntry(f) ==
    /\ pass.pc = "removing" /\ f \in dir[pass.cur].files
    /\ dir' = [dir EXCEPT ![pass.cur].files = @ \ {f}]
    /\ UNCHANGED <<world, pass, history>>

DropLocks ==
    /\ pass.pc = "removing" /\ dir[pass.cur].files = {}
    /\ pass' = [pass EXCEPT !.pc = "unlinking", !.held = {}]
    /\ UNCHANGED <<world, dir, history>>

Nothing == [exists |-> FALSE, files |-> {}, age |-> 0, lock |-> [n \in LockFiles |-> NoInode]]

RemoveDir ==
    /\ pass.pc = "unlinking"
    /\ dir' = [dir EXCEPT ![pass.cur] = Nothing]
    /\ Proceed
    /\ UNCHANGED <<world, history>>

(***************************************************************************)
(* An error ends the whole pass where it stands, and so does a daemon that *)
(* dies: locks and leases go, entries already removed stay removed.  The   *)
(* next pass starts over.                                                  *)
(***************************************************************************)
PassFails ==
    /\ pass.pc # "idle"
    /\ Spend("faults")
    /\ pass' = Idle
    /\ UNCHANGED <<root, listed, dir, readers, cached, run, history>>

-----------------------------------------------------------------------------
(* Requests of the daemon itself. *)

Reserved(i) ==
    /\ pass.cur = i
    /\ pass.pc \in {"reserve", "jobs", "recheck", "release", "removing", "unlinking"} \cup LockFiles

StartRequest(i) ==
    /\ i \notin readers /\ ~Reserved(i) /\ "stores" \in dir[i].files
    /\ Spend("requests")
    /\ readers' = readers \cup {i} /\ cached' = cached \cup {i}
    /\ UNCHANGED <<root, listed, dir, pass, run, history>>

EndRequest(i) ==
    /\ i \in readers
    /\ readers' = readers \ {i}
    /\ UNCHANGED <<root, listed, dir, cached, pass, run, budget, history>>

-----------------------------------------------------------------------------
(* Runs of other processes: index runs and enhancement workers. *)

RunStep(r, pc) == run' = [run EXCEPT ![r].pc = pc]

(* The root is validated and the directory created before the lock. *)
StartRun(r, i) ==
    /\ run[r].pc = "idle" /\ root[i]
    /\ LockOf[r] = "enhancement.lock" => "stores" \in dir[i].files
    /\ Spend("runs")
    /\ run' = [run EXCEPT ![r] = [pc |-> "resolved", index |-> i, inode |-> NoInode]]
    /\ dir' = [dir EXCEPT ![i].exists = TRUE]
    /\ UNCHANGED <<root, listed, readers, cached, pass, history>>

OpenLock(r) ==
    LET i == run[r].index
    IN /\ run[r].pc = "resolved"
       /\ \/ /\ dir[i].exists
             /\ \E inode \in InodesFor(i, LockOf[r]) :
                   /\ dir' = [dir EXCEPT ![i].lock[LockOf[r]] = inode]
                   /\ run' = [run EXCEPT ![r].pc = "opened", ![r].inode = inode]
          \/ /\ ~dir[i].exists
             /\ RunStep(r, "idle") /\ UNCHANGED dir
       /\ UNCHANGED <<root, listed, readers, cached, pass, budget, history>>

LockRun(r) ==
    /\ run[r].pc = "opened"
    /\ ~RunHolds(run[r].index, LockOf[r], run[r].inode)
    /\ ~PassHolds(run[r].index, LockOf[r], run[r].inode)
    /\ RunStep(r, "locked")
    /\ late' = IF run[r].index = pass.cur /\ pass.pc \in Past(LockOf[r])
                 THEN late \cup {r} ELSE late \ {r}
    /\ UNCHANGED <<root, listed, dir, readers, cached, pass, budget, steady, slipped, absence>>

(* The job starts under the lock; an index run builds what is missing. *)
WriteRun(r) ==
    /\ run[r].pc = "locked"
    /\ IF dir[run[r].index].exists
       THEN /\ RunStep(r, "writing")
            /\ dir' = IF LockOf[r] = "index.lock"
                      THEN [dir EXCEPT ![run[r].index].files = @ \cup Entries(run[r].index)]
                      ELSE dir
       ELSE RunStep(r, "idle") /\ UNCHANGED dir
    /\ UNCHANGED <<root, listed, readers, cached, pass, budget, history>>

FinishRun(r) ==
    /\ run[r].pc = "writing"
    /\ RunStep(r, "idle")
    /\ UNCHANGED <<root, listed, dir, readers, cached, pass, budget, history>>

-----------------------------------------------------------------------------
(* The file system, Git and the clock. *)

RootGoes(i) ==
    /\ root[i] /\ Spend("roots")
    /\ root' = [root EXCEPT ![i] = FALSE]
    /\ \/ UNCHANGED listed
       \/ i \in Overlays /\ listed' = listed \ {i}
    /\ steady' = steady \ {i}
    /\ absence' = [absence EXCEPT ![i] = 0]
    /\ UNCHANGED <<dir, readers, cached, pass, run, slipped, late>>

RootReturns(i) ==
    /\ ~root[i] /\ Spend("roots")
    /\ root' = [root EXCEPT ![i] = TRUE]
    /\ listed' = IF i \in Overlays THEN listed \cup {i} ELSE listed
    /\ slipped' = slipped \cup {i}
    /\ UNCHANGED <<dir, readers, cached, pass, run, steady, late, absence>>

(***************************************************************************)
(* A pass reads the clock once, when it starts, so ages change between     *)
(* passes.  They do so under runs at any stage: the grace may be a second, *)
(* and a run may wait for its lock as long as others hold it.              *)
(***************************************************************************)
Tick ==
    /\ pass.pc = "idle"
    /\ dir' = [i \in Indexes |-> [dir[i] EXCEPT !.age = IF Marker \in dir[i].files THEN Grown(@) ELSE @]]
    /\ absence' = [i \in Indexes |-> IF Gone(i) THEN Grown(absence[i]) ELSE 0]
    /\ <<dir, absence>>' # <<dir, absence>>
    /\ UNCHANGED <<world, pass, steady, slipped, late>>

Init ==
    /\ root = [i \in Indexes |-> TRUE]
    /\ listed = Overlays
    /\ dir = [i \in Indexes |->
                 [exists |-> TRUE, files |-> Entries(i), age |-> 0,
                  lock |-> [n \in LockFiles |-> IF n = "index.lock" THEN 1 ELSE NoInode]]]
    /\ readers = {} /\ cached = {}
    /\ pass = Idle
    /\ run = [r \in Runs |-> [pc |-> "idle", index |-> CHOOSE i \in Indexes : TRUE, inode |-> NoInode]]
    /\ budget \in Budgets
    /\ steady = {} /\ slipped = {} /\ late = {} /\ absence = [i \in Indexes |-> 0]

PassStep ==
    \/ ListEntries \/ ReadBases \/ (\E i \in Indexes : Examine(i)) \/ EndPass
    \/ Judge \/ Reserve \/ CheckJobs \/ (\E n \in LockFiles : TryLock(n))
    \/ Recheck \/ Release \/ DropLocks \/ RemoveDir
    \/ \E i \in Indexes : \E f \in Entries(i) \cup {Marker} : pass.cur = i /\ RemoveEntry(f)

RunProgress(r) == OpenLock(r) \/ LockRun(r) \/ WriteRun(r) \/ FinishRun(r)

Next ==
    \/ PassStep \/ PassFails \/ Tick
    \/ \E i \in Indexes : StartRequest(i) \/ EndRequest(i) \/ RootGoes(i) \/ RootReturns(i)
    \/ \E r \in Runs : RunProgress(r) \/ \E i \in Indexes : StartRun(r, i)

Spec == Init /\ [][Next]_vars

(***************************************************************************)
(* The daemon starts a pass every quarter of the grace period and works    *)
(* through it, time passes between passes, and requests and runs end.      *)
(***************************************************************************)
Fairness ==
    /\ WF_vars(PassStep) /\ SF_vars(Tick)
    /\ \A i \in Indexes : WF_vars(EndRequest(i))
    /\ \A r \in Runs : WF_vars(RunProgress(r))

FairSpec == Spec /\ Fairness

-----------------------------------------------------------------------------
TypeOK ==
    /\ root \in [Indexes -> BOOLEAN] /\ listed \subseteq Overlays
    /\ \A i \in Indexes :
          /\ dir[i].files \subseteq Entries(i) \cup {Marker}
          /\ dir[i].age \in 0..Grace
          /\ dir[i].lock \in [LockFiles -> Inodes \cup {NoInode}]
    /\ readers \subseteq Indexes /\ cached \subseteq Indexes

Taking == pass.pc \in {"removing", "unlinking"}

(***************************************************************************)
(* While an index is taken apart, until its directory is gone, no request  *)
(* of the daemon reads it and the daemon keeps nothing of it open.         *)
(***************************************************************************)
ReadersAreOut == Taking => pass.cur \notin readers \cup cached

(***************************************************************************)
(* The grace is real time: an index is only taken when its root has been   *)
(* missing for the grace period, or for the short one when Git dropped the *)
(* worktree.  Excepted is a root whose marker has outlived its return: it  *)
(* was back between two passes only, which no pass can see, or the marker  *)
(* could not be removed (slipped).                                         *)
(***************************************************************************)
GraceIsWaited ==
    Taking /\ pass.cur \notin slipped =>
        absence[pass.cur] >= IF pass.cur \in Overlays \ listed THEN ShortGrace ELSE Grace

(***************************************************************************)
(* A run whose lock file was unlinked under it: the directory is gone, or  *)
(* another run has made it anew with lock files of its own.                *)
(***************************************************************************)
Unlinked(r) ==
    LET inode == dir[run[r].index].lock[LockOf[r]]
    IN  run[r].pc \in {"opened", "locked", "writing"} /\ inode \notin {run[r].inode} \ {NoInode}

(* A run that holds the lock file which is in the directory. *)
AtWork(r) == run[r].pc \in {"locked", "writing"} /\ ~Unlinked(r)

(***************************************************************************)
(* A run that had its lock when the pass looked keeps its index: whoever   *)
(* is at work on an index that is taken apart has come later, and while    *)
(* the entries go, with a lock file that was missing when the pass looked. *)
(* What becomes of those is NoJobInBetween.                                *)
(***************************************************************************)
RunsKeepTheirIndex ==
    Taking => \A r \in Runs : run[r].index = pass.cur /\ AtWork(r) =>
                 r \in late /\ \A h \in pass.held : h[1] # LockOf[r]

(***************************************************************************)
(* Stronger than the code: "A root that is gone cannot start a job in      *)
(* between" (remove_unused_index).  A run that found the root and then     *)
(* waited, for its lock or for the processor, takes a lock file that the   *)
(* pass did not find, or the one that it has dropped, and loses its        *)
(* directory.  The grace does not rule it out: it may be a second.         *)
(***************************************************************************)
NoJobInBetween ==
    Taking /\ pass.cur \notin slipped =>
        \A r \in Runs : run[r].index = pass.cur => ~AtWork(r)

(***************************************************************************)
(* A worktree that was there when the pass started, and has been since,    *)
(* does not lose the base it reads.                                        *)
(***************************************************************************)
LiveOverlayKeepsBase ==
    Taking => \A o \in steady : BaseOf[o] # pass.cur

(***************************************************************************)
(* An index whose root stays gone, and which no live overlay reads, is not *)
(* registered for ever: some pass collects it, whatever failed before.     *)
(***************************************************************************)
GoneIsCollected ==
    <>[](\A i \in Indexes :
            Gone(i) /\ (\A o \in Overlays : BaseOf[o] = i => Gone(o))
                => "workspace.json" \notin dir[i].files)

(***************************************************************************)
(* Stronger than the code: the directory is gone as well.  A pass that     *)
(* dies after it removed the metadata leaves what the registry no longer   *)
(* lists.                                                                  *)
(***************************************************************************)
NothingIsLeft ==
    <>[](\A i \in Indexes :
            Gone(i) /\ (\A o \in Overlays : BaseOf[o] = i => Gone(o)) => dir[i].files = {})

(***************************************************************************)
(* Stronger than the code: a run whose lock file was unlinked keeps its    *)
(* index as well.  A run that opens the old lock file while its index is   *)
(* taken lives on when a second run makes the directory anew; no later     *)
(* pass sees its lock.                                                     *)
(***************************************************************************)
NoRunAtWork ==
    Taking => \A r \in Runs :
        run[r].index = pass.cur /\ run[r].pc \in {"locked", "writing"} => r \in late

(***************************************************************************)
(* Stronger than the code: "a root that comes back clears it"              *)
(* (docs/architecture.md), also between two passes.                        *)
(***************************************************************************)
MissingForGrace ==
    Taking /\ Gone(pass.cur) =>
        absence[pass.cur] >= IF pass.cur \in Overlays \ listed THEN ShortGrace ELSE Grace
=============================================================================
