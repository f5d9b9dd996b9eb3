-------------------------- MODULE IndexCollectorProofs --------------------------
(***************************************************************************)
(* GraceIsWaited, RunsKeepTheirIndex and LiveOverlayKeepsBase of           *)
(* IndexCollector, for any number of indexes, overlays and runs, any grace *)
(* and any budget of moving roots, dying passes, runs and requests.        *)
(***************************************************************************)
EXTENDS IndexCollector, TLAPS

(* Where the pass has an index in hand, where it has judged that it is due, *)
(* and where it has looked at its root again.                               *)
Sure == {"release", "removing", "unlinking"}
Due == {"reserve", "jobs", "index.lock", "enhancement.lock", "recheck"} \cup Sure
Named == {"judge"} \cup Due

PassFields(p) ==
    p = [pc |-> p.pc, todo |-> p.todo, bases |-> p.bases, git |-> p.git, cur |-> p.cur,
         short |-> p.short, held |-> p.held]
DirFields(d) ==
    /\ d = [exists |-> d.exists, files |-> d.files, age |-> d.age, lock |-> d.lock]
    /\ DOMAIN d.lock = LockFiles
RunFields(q) == q = [pc |-> q.pc, index |-> q.index, inode |-> q.inode]

RunPlaced(q) ==
    /\ q.pc \in {"idle", "resolved", "opened", "locked", "writing"}
    /\ q.pc # "idle" => q.index \in Indexes

Shapes ==
    /\ root \in [Indexes -> BOOLEAN]
    /\ absence \in [Indexes -> Nat]
    /\ PassFields(pass) /\ pass.short \in BOOLEAN
    /\ dir = [i \in Indexes |-> dir[i]]
    /\ \A i \in Indexes : DirFields(dir[i]) /\ dir[i].age \in Nat
    /\ run = [r \in Runs |-> run[r]]
    /\ \A r \in Runs : RunFields(run[r]) /\ RunPlaced(run[r])

\* The marker of a root that no pass has missed is no older than the absence.
MarkerIsYoung ==
    \A i \in Indexes : i \notin slipped /\ Marker \in dir[i].files =>
        Gone(i) /\ dir[i].age <= absence[i]

\* What the pass knows of the index in hand, unless its root has come back.
InHand ==
    /\ pass.pc \in Named => pass.cur \in Indexes
    /\ pass.pc \in Named /\ pass.cur \notin slipped => Gone(pass.cur)
    /\ pass.pc \in Due /\ pass.cur \notin slipped =>
          absence[pass.cur] >= IF pass.short THEN ShortGrace ELSE Grace
    /\ pass.pc \in Sure /\ pass.cur \notin slipped /\ pass.short =>
          pass.cur \in Overlays \ listed

\* Past a lock, whoever is at work with that lock file came later.
OnlyLate ==
    \A r \in Runs : pass.pc \in Past(LockOf[r]) /\ run[r].index = pass.cur /\ AtWork(r) =>
        r \in late

\* A lock file that the pass holds is the one in the directory, and no run's.
HeldAlone ==
    /\ pass.held # {} => pass.pc \in Due
    /\ \A h \in pass.held :
          /\ h = <<h[1], h[2]>> /\ h[1] \in LockFiles /\ h[2] # NoInode
          /\ dir[pass.cur].lock[h[1]] = h[2]
          /\ ~RunHolds(pass.cur, h[1], h[2])

LocksTaken == OnlyLate /\ HeldAlone

\* The bases of the overlays that have been there all along are known and
\* never due.
BasesKnown ==
    /\ steady \subseteq Overlays
    /\ \A o \in steady :
          /\ root[o]
          /\ pass.pc = "bases" => o \in pass.todo /\ "base_ref.json" \in dir[o].files
          /\ pass.pc \notin {"idle", "bases"} => BaseOf[o] \in pass.bases
    /\ pass.pc \in Due => pass.cur \notin pass.bases

CollectorInv ==
    /\ Shapes /\ MarkerIsYoung
    /\ InHand /\ LocksTaken /\ BasesKnown

-----------------------------------------------------------------------------
\* The invariant implies that the grace is waited for: an index that is only
\* due by the short grace is a worktree that Git does not list.
LEMMA InvImpliesGrace == CollectorInv => GraceIsWaited
<1> SUFFICES ASSUME CollectorInv, Taking, pass.cur \notin slipped
             PROVE  absence[pass.cur] >= IF pass.cur \in Overlays \ listed
                                         THEN ShortGrace ELSE Grace
  BY DEF GraceIsWaited
<1>1. pass.pc \in Sure /\ pass.pc \in Due /\ pass.pc \in Named
  BY DEF Taking, Sure, Due, Named
<1>2. pass.cur \in Indexes
  BY <1>1 DEF CollectorInv, InHand
<1>3. absence[pass.cur] \in Nat /\ pass.short \in BOOLEAN
  BY <1>2 DEF CollectorInv, Shapes
<1>4. absence[pass.cur] >= IF pass.short THEN ShortGrace ELSE Grace
  BY <1>1 DEF CollectorInv, InHand
<1>5. pass.short => pass.cur \in Overlays \ listed
  BY <1>1 DEF CollectorInv, InHand
<1>6. Grace \in Nat /\ ShortGrace \in Nat /\ ShortGrace <= Grace
  BY CollectorAssumption
<1>7. QED
  BY <1>3, <1>4, <1>5, <1>6

\* It implies that runs keep their index: both locks are behind the pass, and
\* a run at work with a lock file of the directory has none that is held.
LEMMA InvImpliesRuns == CollectorInv => RunsKeepTheirIndex
<1> SUFFICES ASSUME CollectorInv, Taking, NEW r \in Runs, run[r].index = pass.cur, AtWork(r)
             PROVE  r \in late /\ \A h \in pass.held : h[1] # LockOf[r]
  BY DEF RunsKeepTheirIndex
<1>1. pass.pc \in Past(LockOf[r])
  BY DEF Taking, Past
<1>2. r \in late
  BY <1>1 DEF CollectorInv, LocksTaken, OnlyLate
<1>3. ASSUME NEW h \in pass.held, h[1] = LockOf[r] PROVE FALSE
  <2>1. dir[pass.cur].lock[h[1]] = h[2] /\ ~RunHolds(pass.cur, h[1], h[2])
    BY DEF CollectorInv, LocksTaken, HeldAlone
  <2>2. run[r].pc \in {"locked", "writing"} /\ dir[pass.cur].lock[LockOf[r]] = run[r].inode
    BY DEF AtWork, Unlinked
  <2>3. QED
    BY <1>3, <2>1, <2>2 DEF RunHolds
<1>4. QED
  BY <1>2, <1>3

\* It implies that a living overlay keeps its base.
LEMMA InvImpliesBases == CollectorInv => LiveOverlayKeepsBase
<1> SUFFICES ASSUME CollectorInv, Taking, NEW o \in steady
             PROVE  BaseOf[o] # pass.cur
  BY DEF LiveOverlayKeepsBase
<1>1. pass.pc \in Due /\ pass.pc \notin {"idle", "bases"}
  BY DEF Taking, Due, Sure
<1>2. QED
  BY <1>1 DEF CollectorInv, BasesKnown

-----------------------------------------------------------------------------
(* Steps that leave most of the state alone.                               *)

\* Every index is as its root, its runs and its marker say, and the pass
\* moves without learning anything or with what it may.
LEMMA PassMoves ==
    ASSUME CollectorInv,
           UNCHANGED <<root, listed, dir, run, slipped, absence>>,
           PassFields(pass'), pass'.short \in BOOLEAN,
           InHand', LocksTaken', BasesKnown'
    PROVE  CollectorInv'
<1>1. Shapes'
  BY DEF CollectorInv, Shapes
<1>2. MarkerIsYoung'
  BY DEF CollectorInv, MarkerIsYoung, Gone
<1>3. QED
  BY <1>1, <1>2 DEF CollectorInv

\* Before the pass has an index in hand it knows nothing of one.
LEMMA NothingInHand ==
    ASSUME pass'.pc \in {"idle", "bases", "next"}, pass'.held = {}
    PROVE  InHand' /\ LocksTaken'
<1>1. pass'.pc \notin Named /\ pass'.pc \notin Due /\ pass'.pc \notin Sure
  BY DEF Named, Due, Sure
<1>2. \A name : pass'.pc \notin Past(name)
  BY DEF Past
<1>3. QED
  BY <1>1, <1>2 DEF InHand, LocksTaken, OnlyLate, HeldAlone

\* The pass lets go of an index, or ends: nothing is in hand.
LEMMA PassLetsGo ==
    ASSUME CollectorInv,
           UNCHANGED <<root, listed, dir, run, slipped, absence, steady>>,
           PassFields(pass'), pass'.short \in BOOLEAN, pass'.held = {},
           \/ pass'.pc = "idle"
           \/ pass'.pc = "next" /\ pass.pc \notin {"idle", "bases"} /\ pass'.bases = pass.bases
    PROVE  CollectorInv'
<1>1. pass'.pc \notin Named /\ pass'.pc \notin Due /\ pass'.pc \notin Sure
  BY DEF Named, Due, Sure
<1>3. InHand' /\ LocksTaken'
  BY NothingInHand
<1>4. BasesKnown'
  BY <1>1 DEF CollectorInv, BasesKnown
<1>5. QED
  BY <1>3, <1>4, PassMoves

\* Proceed goes on to the next entry.
LEMMA ProceedShape ==
    ASSUME PassFields(pass), Proceed
    PROVE  /\ PassFields(pass') /\ pass'.pc = "next" /\ pass'.short = FALSE
           /\ pass'.bases = pass.bases /\ pass'.cur = pass.cur /\ pass'.held = {}
BY DEF Proceed, PassFields

\* Goto changes the place alone.
LEMMA GotoShape ==
    ASSUME PassFields(pass), NEW pc, Goto(pc)
    PROVE  /\ PassFields(pass') /\ pass'.pc = pc /\ pass'.short = pass.short
           /\ pass'.bases = pass.bases /\ pass'.cur = pass.cur /\ pass'.held = pass.held
BY DEF Goto, PassFields

\* Idle is a pass with nothing in hand.
LEMMA IdleShape ==
    PassFields(Idle) /\ Idle.pc = "idle" /\ Idle.short = FALSE /\ Idle.held = {}
BY DEF Idle, PassFields

\* The pass goes on with the index in hand.
LEMMA PassAdvances ==
    ASSUME CollectorInv,
           UNCHANGED <<root, listed, dir, run, slipped, absence, steady>>,
           PassFields(pass'), pass'.cur = pass.cur, pass'.short = pass.short,
           pass'.bases = pass.bases, pass.pc \in Due, pass'.pc \in Due,
           pass'.pc \in Sure /\ pass.cur \notin slipped /\ pass.short =>
               pass.cur \in Overlays \ listed,
           LocksTaken'
    PROVE  CollectorInv'
<1>1. pass.pc \in Named /\ pass'.pc \in Named /\ pass'.pc # "bases"
      /\ pass.pc \notin {"idle", "bases"} /\ pass'.pc \notin {"idle", "bases"}
  BY DEF Named, Due, Sure
<1>2. InHand'
  BY <1>1 DEF CollectorInv, InHand, Gone
<1>3. BasesKnown'
  BY <1>1 DEF CollectorInv, BasesKnown
<1>4. pass'.short \in BOOLEAN
  BY DEF CollectorInv, Shapes
<1>5. QED
  BY <1>2, <1>3, <1>4, PassMoves

\* What is known of the locks behind the pass is still known.
LEMMA LocksKept ==
    ASSUME CollectorInv, UNCHANGED <<dir, run, late>>, pass'.cur = pass.cur,
           pass'.held \in {pass.held, {}}, pass'.pc \in Due,
           \A r \in Runs : pass'.pc \in Past(LockOf[r]) => pass.pc \in Past(LockOf[r])
    PROVE  LocksTaken'
<1>1. OnlyLate'
  BY DEF CollectorInv, LocksTaken, OnlyLate, AtWork, Unlinked
<1>2. HeldAlone'
  BY DEF CollectorInv, LocksTaken, HeldAlone, RunHolds
<1>3. QED
  BY <1>1, <1>2 DEF LocksTaken

\* Lock files stay as they are, and no run comes to hold one.
LEMMA LocksStay ==
    ASSUME CollectorInv, UNCHANGED <<pass, late>>,
           \A i \in Indexes : dir'[i].lock = dir[i].lock,
           \A q \in Runs : run'[q].pc \in {"locked", "writing"} =>
               /\ run[q].pc \in {"locked", "writing"}
               /\ run'[q].index = run[q].index /\ run'[q].inode = run[q].inode
    PROVE  LocksTaken'
<1>1. \A q \in Runs : run[q].pc \in {"locked", "writing"} => run[q].index \in Indexes
  BY DEF CollectorInv, Shapes, RunPlaced
<1>2. OnlyLate'
  BY <1>1 DEF CollectorInv, LocksTaken, OnlyLate, AtWork, Unlinked
<1>3. pass.held # {} => pass.cur \in Indexes
  BY DEF CollectorInv, LocksTaken, HeldAlone, InHand, Named
<1>4. HeldAlone'
  BY <1>3 DEF CollectorInv, LocksTaken, HeldAlone, RunHolds
<1>5. QED
  BY <1>2, <1>4 DEF LocksTaken

\* The lease, the ledger, the second look, the daemon's readers.
LEMMA HandKeeps ==
    ASSUME CollectorInv, Reserve \/ CheckJobs \/ Recheck \/ Release \/ DropLocks
    PROVE  CollectorInv'
<1>0. PassFields(pass) /\ pass.short \in BOOLEAN
  BY DEF CollectorInv, Shapes
<1>1. UNCHANGED <<root, listed, dir, run, slipped, late, absence, steady>>
  BY DEF Reserve, CheckJobs, Recheck, Release, DropLocks, world, history
<1>2. pass.pc \in {"reserve", "jobs", "recheck", "release", "removing"}
  BY DEF Reserve, CheckJobs, Recheck, Release, DropLocks
<1>3. pass.pc \in Due /\ pass.pc \notin {"idle", "bases"}
  BY <1>2 DEF Due, Sure
<1>4. CASE Proceed
  <2>1. PassFields(pass') /\ pass'.pc = "next" /\ pass'.short = FALSE /\ pass'.bases = pass.bases
        /\ pass'.held = {}
    BY <1>0, <1>4, ProceedShape
  <2>2. QED
    BY <1>1, <1>3, <2>1, PassLetsGo
<1>5. CASE Reserve \/ (CheckJobs /\ Goto("index.lock"))
  <2>1. PICK pc \in {"jobs", "index.lock"} : Goto(pc)
    BY <1>5 DEF Reserve
  <2>2. /\ PassFields(pass') /\ pass'.pc = pc /\ pass'.short = pass.short
        /\ pass'.bases = pass.bases /\ pass'.cur = pass.cur /\ pass'.held = pass.held
    BY <1>0, <2>1, GotoShape
  <2>3. pc \in Due /\ pc \notin Sure /\ \A name : pc \notin Past(name)
    BY DEF Due, Sure, Past, LockFiles
  <2>4. LocksTaken'
    BY <1>1, <2>2, <2>3, LocksKept DEF Due, Sure
  <2>5. QED
    BY <1>1, <1>3, <2>2, <2>3, <2>4, PassAdvances
<1>6. CASE Recheck /\ Goto("release")
  <2>1. /\ PassFields(pass') /\ pass'.pc = "release" /\ pass'.short = pass.short
        /\ pass'.bases = pass.bases /\ pass'.cur = pass.cur /\ pass'.held = pass.held
    BY <1>0, <1>6, GotoShape
  <2>2. pass.pc = "recheck"
    BY <1>6 DEF Recheck
  <2>3. \A name : pass.pc \in Past(name)
    BY <2>2 DEF Past
  <2>4. LocksTaken'
    BY <1>1, <2>1, <2>3, LocksKept DEF Due, Sure
  <2>5. ~StillGone(pass.cur) => Proceed
    BY <1>6 DEF Recheck
  <2>6. StillGone(pass.cur)
    <3>1. ASSUME Proceed PROVE FALSE
      BY <1>0, <2>1, <3>1, ProceedShape
    <3>2. QED
      BY <2>5, <3>1
  <2>7. pass.short => pass.cur \in Overlays \ listed
    BY <2>6 DEF StillGone, Unregistered, AskGit
  <2>8. "release" \in Due
    BY DEF Due, Sure
  <2>9. QED
    BY <1>1, <1>3, <2>1, <2>4, <2>7, <2>8, PassAdvances
<1>7. CASE Release
  <2>1. Goto("removing") /\ pass.pc = "release"
    BY <1>7 DEF Release
  <2>2. /\ PassFields(pass') /\ pass'.pc = "removing" /\ pass'.short = pass.short
        /\ pass'.bases = pass.bases /\ pass'.cur = pass.cur /\ pass'.held = pass.held
    BY <1>0, <2>1, GotoShape
  <2>3. \A name : pass.pc \in Past(name)
    BY <2>1 DEF Past, Sure
  <2>4. LocksTaken'
    BY <1>1, <2>2, <2>3, LocksKept DEF Due, Sure
  <2>5. "removing" \in Due /\ pass.pc \in Sure
    BY <2>1 DEF Due, Sure
  <2>6. pass.cur \notin slipped /\ pass.short => pass.cur \in Overlays \ listed
    BY <2>5 DEF CollectorInv, InHand
  <2>7. QED
    BY <1>1, <1>3, <2>2, <2>4, <2>5, <2>6, PassAdvances
<1>8. CASE DropLocks
  <2>1. pass' = [pass EXCEPT !.pc = "unlinking", !.held = {}] /\ pass.pc = "removing"
    BY <1>8 DEF DropLocks
  <2>2. /\ PassFields(pass') /\ pass'.pc = "unlinking" /\ pass'.short = pass.short
        /\ pass'.bases = pass.bases /\ pass'.cur = pass.cur /\ pass'.held = {}
    BY <1>0, <2>1 DEF PassFields
  <2>3. \A name : pass.pc \in Past(name)
    BY <2>1 DEF Past, Sure
  <2>4. LocksTaken'
    BY <1>1, <2>2, <2>3, LocksKept DEF Due, Sure
  <2>5. "unlinking" \in Due /\ pass.pc \in Sure
    BY <2>1 DEF Due, Sure
  <2>6. pass.cur \notin slipped /\ pass.short => pass.cur \in Overlays \ listed
    BY <2>5 DEF CollectorInv, InHand
  <2>7. QED
    BY <1>1, <1>3, <2>2, <2>4, <2>5, <2>6, PassAdvances
<1>9. QED
  BY <1>4, <1>5, <1>6, <1>7, <1>8 DEF CheckJobs, Recheck

\* A lock file: the pass goes on when it is missing, so that nobody has the
\* one in the directory, or when the pass has got it.
LEMMA LockKeeps ==
    ASSUME CollectorInv, NEW name \in LockFiles, TryLock(name)
    PROVE  CollectorInv'
<1>0. PassFields(pass) /\ pass.short \in BOOLEAN /\ pass.pc = name
  BY DEF CollectorInv, Shapes, TryLock
<1>1. UNCHANGED <<root, listed, dir, run, slipped, late, absence, steady>>
  BY DEF TryLock, world, history
<1>2. pass.pc \in Due /\ pass.pc \notin {"idle", "bases"}
  BY <1>0 DEF Due, Sure, LockFiles
<1>3. CASE FindLocked(name)
  <2>1. PassFields(pass') /\ pass'.pc = "next" /\ pass'.short = FALSE /\ pass'.bases = pass.bases
        /\ pass'.held = {}
    BY <1>0, <1>3, ProceedShape DEF FindLocked
  <2>2. QED
    BY <1>1, <1>2, <2>1, PassLetsGo
<1>4. CASE SkipLock(name) \/ TakeLock(name)
  <2> DEFINE inode == dir[pass.cur].lock[name]
  <2>1. /\ PassFields(pass') /\ pass'.pc = NextStep(name) /\ pass'.short = pass.short
        /\ pass'.bases = pass.bases /\ pass'.cur = pass.cur
        /\ \/ pass'.held = pass.held /\ inode = NoInode
           \/ /\ pass'.held = pass.held \cup {<<name, inode>>}
              /\ inode # NoInode /\ ~RunHolds(pass.cur, name, inode)
    <3>1. CASE SkipLock(name)
      BY <1>0, <3>1, GotoShape DEF SkipLock
    <3>2. CASE TakeLock(name)
      BY <1>0, <3>2 DEF TakeLock, PassFields
    <3>3. QED
      BY <1>4, <3>1, <3>2
  <2>2. NextStep(name) \in Due /\ NextStep(name) \notin Sure
    BY DEF NextStep, Due, Sure, LockFiles
  <2>3. OnlyLate'
    <3> SUFFICES ASSUME NEW r \in Runs, NextStep(name) \in Past(LockOf[r]),
                        run[r].index = pass.cur, AtWork(r)
                 PROVE  r \in late
      BY <1>1, <2>1 DEF OnlyLate, AtWork, Unlinked
    <3>1. CASE LockOf[r] # name
      <4>1. LockOf[r] \in LockFiles
        BY CollectorAssumption
      <4>2. pass.pc \in Past(LockOf[r])
        BY <1>0, <3>1, <4>1 DEF NextStep, Past, LockFiles
      <4>3. QED
        BY <4>2 DEF CollectorInv, LocksTaken, OnlyLate
    <3>2. CASE LockOf[r] = name
      <4>1. run[r].pc \in {"locked", "writing"} /\ inode = run[r].inode /\ inode # NoInode
        BY <3>2 DEF AtWork, Unlinked
      <4>2. QED
        BY <2>1, <3>2, <4>1 DEF RunHolds
    <3>3. QED
      BY <3>1, <3>2
  <2>4. HeldAlone'
    <3> SUFFICES ASSUME NEW h \in pass'.held
                 PROVE  /\ h = <<h[1], h[2]>> /\ h[1] \in LockFiles /\ h[2] # NoInode
                        /\ dir[pass.cur].lock[h[1]] = h[2]
                        /\ ~RunHolds(pass.cur, h[1], h[2])
      BY <1>1, <2>1, <2>2 DEF HeldAlone, RunHolds
    <3>1. CASE h \in pass.held
      BY <3>1 DEF CollectorInv, LocksTaken, HeldAlone
    <3>2. CASE h \notin pass.held
      <4>1. h = <<name, inode>> /\ inode # NoInode /\ ~RunHolds(pass.cur, name, inode)
        BY <2>1, <3>2
      <4> HIDE DEF inode
      <4>2. h[1] = name /\ h[2] = inode
        BY <4>1
      <4>3. QED
        BY <4>1, <4>2 DEF inode
    <3>3. QED
      BY <3>1, <3>2
  <2>5. QED
    BY <1>1, <1>2, <2>1, <2>2, <2>3, <2>4, PassAdvances DEF LocksTaken
<1>5. QED
  BY <1>3, <1>4 DEF TryLock

\* An error or a death ends the pass, and so does the end of the list.
LEMMA EndKeeps ==
    ASSUME CollectorInv, EndPass \/ PassFails
    PROVE  CollectorInv'
<1>1. UNCHANGED <<root, listed, dir, run, slipped, absence, steady>> /\ pass' = Idle
  BY DEF EndPass, PassFails, world, history
<1>2. PassFields(pass') /\ pass'.short \in BOOLEAN /\ pass'.pc = "idle" /\ pass'.held = {}
  BY <1>1, IdleShape
<1>3. QED
  BY <1>1, <1>2, PassLetsGo

\* One directory changes.
LEMMA DirSet ==
    ASSUME Shapes, NEW i \in Indexes, NEW d, DirFields(d), d.age \in Nat,
           dir' = [dir EXCEPT ![i] = d]
    PROVE  /\ dir' = [j \in Indexes |-> dir'[j]]
           /\ \A j \in Indexes : DirFields(dir'[j]) /\ dir'[j].age \in Nat
           /\ dir'[i] = d /\ \A j \in Indexes \ {i} : dir'[j] = dir[j]
<1>1. dir = [j \in Indexes |-> dir[j]]
      /\ \A j \in Indexes : DirFields(dir[j]) /\ dir[j].age \in Nat
  BY DEF Shapes
<1>2. dir'[i] = d /\ \A j \in Indexes \ {i} : dir'[j] = dir[j]
  BY <1>1
<1>3. dir' = [j \in Indexes |-> dir'[j]]
  BY <1>1
<1>4. \A j \in Indexes : DirFields(dir'[j]) /\ dir'[j].age \in Nat
  <2> SUFFICES ASSUME NEW j \in Indexes PROVE DirFields(dir'[j]) /\ dir'[j].age \in Nat
    OBVIOUS
  <2>1. CASE j = i
    BY <1>2, <2>1
  <2>2. CASE j # i
    <3>1. dir'[j] = dir[j]
      BY <1>2, <2>2
    <3>2. QED
      BY <1>1, <3>1
  <2>3. QED
    BY <2>1, <2>2
<1>5. QED
  BY <1>2, <1>3, <1>4

\* The list of a pass.
LEMMA ListKeeps ==
    ASSUME CollectorInv, ListEntries
    PROVE  CollectorInv'
<1>1. UNCHANGED <<root, listed, dir, run, slipped, absence>>
  BY DEF ListEntries, world
<1>2. PassFields(pass') /\ pass'.short = FALSE /\ pass'.pc = "bases"
      /\ pass'.todo = {i \in Indexes : "workspace.json" \in dir[i].files} /\ pass'.held = {}
  BY IdleShape DEF ListEntries, PassFields
<1>3. InHand' /\ LocksTaken'
  BY <1>2, NothingInHand
<1>4. steady' = {o \in Overlays : /\ root[o]
                                  /\ {"workspace.json", "base_ref.json"} \subseteq dir[o].files}
  BY DEF ListEntries
<1>5. Overlays \subseteq Indexes
  BY CollectorAssumption
<1>6. "bases" \notin Due
  BY DEF Due, Sure
<1>7. BasesKnown'
  BY <1>1, <1>2, <1>4, <1>5, <1>6 DEF BasesKnown
<1>8. QED
  BY <1>1, <1>2, <1>3, <1>7, PassMoves

\* The bases that live overlays read: those of every overlay that was there
\* when the pass started and still is.
LEMMA BasesKeep ==
    ASSUME CollectorInv, ReadBases
    PROVE  CollectorInv'
<1>1. UNCHANGED <<root, listed, dir, run, slipped, absence, steady>> /\ pass.pc = "bases"
  BY DEF ReadBases, world, history
<1>2. PassFields(pass)
  BY DEF CollectorInv, Shapes
<1>3. PassFields(pass') /\ pass'.short = pass.short /\ pass'.pc = "next"
      /\ pass'.bases = LiveBases(pass.todo) /\ pass'.held = pass.held
  BY <1>2 DEF ReadBases, PassFields
<1> pass.held = {}
  BY <1>1 DEF CollectorInv, LocksTaken, HeldAlone, Due, Sure
<1>4. InHand' /\ LocksTaken'
  BY <1>3, NothingInHand
<1>5. "next" \notin Due
  BY DEF Due, Sure
<1>6. BasesKnown'
  <2>1. \A o \in steady : BaseOf[o] \in LiveBases(pass.todo)
    BY <1>1 DEF CollectorInv, BasesKnown, LiveBases, Gone
  <2>2. QED
    BY <1>1, <1>3, <1>5, <2>1 DEF CollectorInv, BasesKnown
<1>7. pass'.short \in BOOLEAN
  BY <1>3 DEF CollectorInv, Shapes
<1>8. QED
  BY <1>1, <1>3, <1>4, <1>6, <1>7, PassMoves

\* A directory whose entries change.
LEMMA FilesShape ==
    ASSUME NEW e, DirFields(e), NEW files
    PROVE  LET d == [e EXCEPT !.files = files]
           IN  DirFields(d) /\ d.age = e.age /\ d.lock = e.lock /\ d.files = files
BY DEF DirFields

\* A directory that is there or is not.
LEMMA ExistsShape ==
    ASSUME NEW e, DirFields(e), NEW there
    PROVE  LET d == [e EXCEPT !.exists = there]
           IN  DirFields(d) /\ d.age = e.age /\ d.files = e.files /\ d.lock = e.lock
BY DEF DirFields

\* A directory whose marker ages.
LEMMA AgeShape ==
    ASSUME NEW e, DirFields(e), NEW age
    PROVE  LET d == [e EXCEPT !.age = age]
           IN  DirFields(d) /\ d.age = age /\ d.files = e.files /\ d.lock = e.lock
BY DEF DirFields

\* A directory whose lock files change.
LEMMA LockShape ==
    ASSUME NEW e, DirFields(e), NEW lock, DOMAIN lock = LockFiles
    PROVE  LET d == [e EXCEPT !.lock = lock]
           IN  DirFields(d) /\ d.age = e.age /\ d.files = e.files /\ d.lock = lock
BY DEF DirFields

\* A run that opens its lock file.
LEMMA OpenedShape ==
    ASSUME NEW e, RunFields(e), NEW inode
    PROVE  LET q == [e EXCEPT !.pc = "opened", !.inode = inode]
           IN  RunFields(q) /\ q.pc = "opened" /\ q.index = e.index
<1> DEFINE q == [e EXCEPT !.pc = "opened", !.inode = inode]
<1>1. DOMAIN e = {"pc", "index", "inode"}
  <2>1. e = [pc |-> e.pc, index |-> e.index, inode |-> e.inode]
    BY DEF RunFields
  <2>2. QED
    BY <2>1
<1>2. q = [f \in {"pc", "index", "inode"} |->
             IF f = "inode" THEN inode ELSE IF f = "pc" THEN "opened" ELSE e[f]]
  BY <1>1
<1>3. QED
  BY <1>2 DEF RunFields

\* The marker of an index is written or cleared: roots, runs and the locks
\* stay as they are.
LEMMA MarkerShapes ==
    ASSUME CollectorInv, UNCHANGED <<root, run, absence>>, PassFields(pass'), pass'.short \in BOOLEAN,
           dir' = [j \in Indexes |-> dir'[j]],
           \A j \in Indexes : DirFields(dir'[j]) /\ dir'[j].age \in Nat
    PROVE  Shapes'
BY DEF CollectorInv, Shapes

\* The pass has looked at a root: it goes on, or has that index in hand.
LEMMA LookedAt ==
    ASSUME CollectorInv, pass.pc = "next", UNCHANGED <<root, steady>>,
           pass'.bases = pass.bases, pass'.held = pass.held, pass'.pc \in {"next", "judge"}
    PROVE  LocksTaken' /\ BasesKnown'
<1>1. "judge" \notin Due /\ "next" \notin Due /\ \A name : pass'.pc \notin Past(name)
  BY DEF Due, Sure, Past
<1>2. pass'.held = {}
  BY <1>1 DEF CollectorInv, LocksTaken, HeldAlone
<1>3. LocksTaken'
  BY <1>1, <1>2 DEF LocksTaken, OnlyLate, HeldAlone
<1>4. BasesKnown'
  BY <1>1 DEF CollectorInv, BasesKnown
<1>5. QED
  BY <1>3, <1>4

\* A root that is there has no marker afterwards, or keeps the one that
\* could not be removed.
LEMMA HereKeeps ==
    ASSUME CollectorInv, NEW i \in Indexes, pass.pc = "next", SeenHere(i),
           UNCHANGED <<root, listed, run, steady, absence>>
    PROVE  CollectorInv'
<1>1. Shapes /\ PassFields(pass) /\ pass.short \in BOOLEAN /\ DirFields(dir[i])
      /\ dir[i].age \in Nat
  BY DEF CollectorInv, Shapes
<1>2. PassFields(pass') /\ pass'.short = pass.short /\ pass'.pc = "next"
      /\ pass'.bases = pass.bases /\ pass'.held = pass.held
  BY <1>1 DEF SeenHere, PassFields
<1>3. LocksTaken' /\ BasesKnown'
  BY <1>2, LookedAt
<1>4. InHand'
  BY <1>2 DEF InHand, Named, Due, Sure
<1>5. CASE UNCHANGED <<dir, slipped>>
  <2>1. pass'.short \in BOOLEAN
    BY <1>1, <1>2
  <2>2. QED
    BY <1>2, <1>3, <1>4, <1>5, <2>1, PassMoves
<1>6. CASE dir' = [dir EXCEPT ![i].files = @ \ {Marker}] /\ slipped' = slipped \ {i}
  <2> DEFINE d == [dir[i] EXCEPT !.files = @ \ {Marker}]
  <2>1. DirFields(d) /\ d.age \in Nat /\ d.files = dir[i].files \ {Marker}
    BY <1>1, FilesShape
  <2>2. dir' = [dir EXCEPT ![i] = d]
    BY <1>6
  <2> HIDE DEF d
  <2>3. /\ dir' = [j \in Indexes |-> dir'[j]]
        /\ \A j \in Indexes : DirFields(dir'[j]) /\ dir'[j].age \in Nat
        /\ dir'[i] = d /\ \A j \in Indexes \ {i} : dir'[j] = dir[j]
    BY <1>1, <2>1, <2>2, DirSet
  <2>4. Shapes'
    BY <1>1, <1>2, <2>3, MarkerShapes
  <2>5. MarkerIsYoung'
    <3>1. Marker \notin dir'[i].files
      BY <2>1, <2>3
    <3>2. QED
      BY <1>6, <2>3, <3>1 DEF CollectorInv, MarkerIsYoung, Gone
  <2>6. QED
    BY <1>3, <1>4, <2>4, <2>5 DEF CollectorInv
<1>7. QED
  BY <1>5, <1>6 DEF SeenHere

\* A directory with a new marker.
LEMMA MarkedShape ==
    ASSUME NEW e, DirFields(e)
    PROVE  LET d == [e EXCEPT !.files = @ \cup {Marker}, !.age = 0]
           IN  DirFields(d) /\ d.age = 0
<1> DEFINE d == [e EXCEPT !.files = @ \cup {Marker}, !.age = 0]
<1>1. e = [exists |-> e.exists, files |-> e.files, age |-> e.age, lock |-> e.lock]
  BY DEF DirFields
<1>2. DOMAIN e = {"exists", "files", "age", "lock"}
  BY <1>1
<1>3. d = [f \in {"exists", "files", "age", "lock"} |->
             IF f = "age" THEN 0 ELSE IF f = "files" THEN e.files \cup {Marker} ELSE e[f]]
  BY <1>2
<1>4. QED
  BY <1>3 DEF DirFields

\* A root that is gone has a marker no older than its absence, or none.
LEMMA GoneKeeps ==
    ASSUME CollectorInv, NEW i \in Indexes, pass.pc = "next", SeenGone(i),
           UNCHANGED <<root, listed, run, steady, absence>>
    PROVE  CollectorInv'
<1>1. PassFields(pass) /\ pass.short \in BOOLEAN /\ DirFields(dir[i]) /\ dir[i].age \in Nat
      /\ Shapes /\ absence[i] \in Nat
  BY DEF CollectorInv, Shapes
<1>2. PassFields(pass') /\ pass'.short = pass.short /\ pass'.pc = "judge"
      /\ pass'.bases = pass.bases /\ pass'.cur = i /\ pass'.held = pass.held
  BY <1>1 DEF SeenGone, PassFields
<1>3. Gone(i) /\ Gone(i)'
  BY DEF SeenGone, Gone
<1>4. /\ dir' = [j \in Indexes |-> dir'[j]]
      /\ \A j \in Indexes : DirFields(dir'[j]) /\ dir'[j].age \in Nat
      /\ \A j \in Indexes \ {i} : dir'[j] = dir[j]
      /\ dir'[i] = dir[i] \/ (dir'[i].age = 0 /\ Marker \notin dir[i].files)
  <2>1. CASE dir' = dir
    BY <1>1, <2>1 DEF Shapes
  <2>2. CASE dir' = [dir EXCEPT ![i].files = @ \cup {Marker}, ![i].age = 0]
             /\ Marker \notin dir[i].files
    <3> DEFINE d == [dir[i] EXCEPT !.files = @ \cup {Marker}, !.age = 0]
    <3>1. DirFields(d) /\ d.age = 0
      BY <1>1, MarkedShape
    <3>2. dir' = [dir EXCEPT ![i] = d]
      <4>1. i \in DOMAIN dir
        BY <1>1 DEF Shapes
      <4>2. QED
        BY <2>2, <4>1
    <3> HIDE DEF d
    <3>3. d.age \in Nat
      BY <3>1
    <3>4. QED
      BY <1>1, <2>2, <3>1, <3>2, <3>3, DirSet
  <2>3. QED
    BY <2>1, <2>2 DEF SeenGone
<1>5. Shapes'
  BY <1>1, <1>2, <1>4, MarkerShapes
<1>6. MarkerIsYoung'
  <2>1. slipped' = slipped \/ (slipped' = slipped \ {i} /\ Marker \notin dir[i].files)
    BY DEF SeenGone
  <2> SUFFICES ASSUME NEW j \in Indexes, j \notin slipped', Marker \in dir'[j].files
               PROVE  Gone(j)' /\ dir'[j].age <= absence'[j]
    BY DEF MarkerIsYoung
  <2>2. CASE dir'[j] = dir[j] /\ Marker \in dir[j].files
    <3>1. j \notin slipped
      BY <2>1, <2>2
    <3>2. QED
      BY <2>2, <3>1 DEF CollectorInv, MarkerIsYoung, Gone
  <2>3. CASE j = i /\ dir'[i].age = 0
    BY <1>1, <1>3, <2>3
  <2>4. QED
    BY <1>4, <2>2, <2>3
<1>7. InHand'
  <2>1. "judge" \notin Due /\ "judge" \notin Sure
    BY DEF Due, Sure
  <2>2. QED
    BY <1>2, <1>3, <2>1 DEF InHand
<1>8. LocksTaken' /\ BasesKnown'
  BY <1>2, LookedAt
<1>9. QED
  BY <1>5, <1>6, <1>7, <1>8 DEF CollectorInv

\* An index that is due has been missing as long as the judgement says: its
\* marker is no older than the absence.
LEMMA JudgeKeeps ==
    ASSUME CollectorInv, Judge
    PROVE  CollectorInv'
<1> DEFINE i == pass.cur
           git == IF i \in Overlays /\ "base_ref.json" \in dir[i].files
                  THEN [pass.git EXCEPT ![BaseOf[i]] = Answer(BaseOf[i])] ELSE pass.git
           answer == IF i \in Overlays THEN git[BaseOf[i]] ELSE {}
           due == Age(i) >= EffectiveGrace(i, answer) /\ i \notin pass.bases
<1>1. UNCHANGED <<root, listed, dir, run, slipped, absence, steady>> /\ pass.pc = "judge"
  BY DEF Judge, world, history
<1>2. pass' = [pass EXCEPT !.git = git, !.pc = IF due THEN "reserve" ELSE "next",
                           !.short = due /\ Age(i) < Grace]
  BY DEF Judge
<1>3. PassFields(pass)
  BY DEF CollectorInv, Shapes
<1>4. i \in Indexes /\ (i \notin slipped => Gone(i))
  BY <1>1 DEF CollectorInv, InHand, Named
<1>5. EffectiveGrace(i, answer) \in {ShortGrace, Grace}
  BY DEF EffectiveGrace
<1>6. PICK d \in BOOLEAN : d = due
  OBVIOUS
<1>7. PICK short \in BOOLEAN : short = (due /\ Age(i) < Grace)
  OBVIOUS
<1> HIDE DEF git, answer
<1>8. PassFields(pass') /\ pass'.bases = pass.bases /\ pass'.cur = pass.cur
      /\ pass'.pc = (IF d THEN "reserve" ELSE "next") /\ pass'.short = short /\ pass'.held = pass.held
  <2>1. pass' = [pass EXCEPT !.git = git, !.pc = IF d THEN "reserve" ELSE "next",
                             !.short = short]
    BY <1>2, <1>6, <1>7
  <2>2. QED
    BY <1>3, <2>1 DEF PassFields
<1> pass.held = {}
  BY <1>1 DEF CollectorInv, LocksTaken, HeldAlone, Due, Sure
<1>9. CASE ~d
  BY <1>1, <1>8, <1>9, PassLetsGo
<1>10. CASE d
  <2>1. Age(i) >= EffectiveGrace(i, answer) /\ i \notin pass.bases
    BY <1>6, <1>10
  <2>2. short <=> Age(i) < Grace
    BY <1>6, <1>7, <1>10
  <2>3. "reserve" \in Due /\ "reserve" \in Named /\ "reserve" \notin Sure
        /\ \A name : "reserve" \notin Past(name)
    BY DEF Due, Named, Sure, Past
  <2>4. Grace \in Nat /\ ShortGrace \in Nat /\ 1 <= ShortGrace /\ ShortGrace <= Grace
    BY CollectorAssumption
  <2>5. absence[i] \in Nat /\ dir[i].age \in Nat
    BY <1>4 DEF CollectorInv, Shapes
  <2>6. Marker \in dir[i].files /\ Age(i) = dir[i].age
    BY <1>5, <2>1, <2>4 DEF Age
  <2>7. i \notin slipped => absence[i] >= IF short THEN ShortGrace ELSE Grace
    <3> SUFFICES ASSUME i \notin slipped
                 PROVE  absence[i] >= IF short THEN ShortGrace ELSE Grace
      OBVIOUS
    <3>1. dir[i].age <= absence[i]
      BY <1>4, <2>6 DEF CollectorInv, MarkerIsYoung
    <3>2. QED
      BY <1>5, <2>1, <2>2, <2>4, <2>5, <2>6, <3>1
  <2>8. InHand'
    BY <1>1, <1>4, <1>8, <1>10, <2>3, <2>7 DEF InHand, Gone
  <2>9. LocksTaken'
    BY <1>8, <1>10, <2>3 DEF LocksTaken, OnlyLate, HeldAlone
  <2>10. BasesKnown'
    BY <1>1, <1>8, <1>10, <2>1 DEF CollectorInv, BasesKnown
  <2>11. QED
    BY <1>1, <1>8, <2>8, <2>9, <2>10, PassMoves
<1>11. QED
  BY <1>9, <1>10

\* The entries of an index go, or all that is left of it.
LEMMA RemovalShapes ==
    ASSUME CollectorInv, NEW i \in Indexes,
           dir' = [j \in Indexes |-> dir'[j]],
           \A j \in Indexes : DirFields(dir'[j]) /\ dir'[j].age \in Nat,
           \A j \in Indexes \ {i} : dir'[j] = dir[j],
           dir'[i].files \subseteq dir[i].files, dir'[i].age \in {0, dir[i].age},
           UNCHANGED <<root, run, absence, slipped>>, PassFields(pass'), pass'.short \in BOOLEAN
    PROVE  Shapes' /\ MarkerIsYoung'
<1>1. Shapes'
  BY MarkerShapes
<1>2. MarkerIsYoung'
  <2> SUFFICES ASSUME NEW j \in Indexes, j \notin slipped, Marker \in dir'[j].files
               PROVE  Gone(j) /\ dir'[j].age <= absence[j]
    BY DEF MarkerIsYoung, Gone
  <2>1. Marker \in dir[j].files
    BY Zenon
  <2>2. Gone(j) /\ dir[j].age <= absence[j] /\ absence[j] \in Nat
    BY <2>1 DEF CollectorInv, MarkerIsYoung, Shapes
  <2>3. dir'[j].age \in {0, dir[j].age}
    BY Zenon
  <2>4. QED
    BY <2>2, <2>3
<1>3. QED
  BY <1>1, <1>2

LEMMA EntryKeeps ==
    ASSUME CollectorInv, NEW f, RemoveEntry(f)
    PROVE  CollectorInv'
<1>1. UNCHANGED <<root, listed, run, pass, slipped, late, absence, steady>> /\ pass.pc = "removing"
  BY DEF RemoveEntry, world, history
<1>2. PassFields(pass) /\ pass.short \in BOOLEAN /\ pass.cur \in Indexes
  BY <1>1 DEF CollectorInv, Shapes, InHand, Named, Due, Sure
<1>3. DirFields(dir[pass.cur]) /\ dir[pass.cur].age \in Nat
  BY <1>2 DEF CollectorInv, Shapes
<1> DEFINE d == [dir[pass.cur] EXCEPT !.files = @ \ {f}]
<1>4. DirFields(d) /\ d.age = dir[pass.cur].age /\ d.lock = dir[pass.cur].lock
      /\ d.files = dir[pass.cur].files \ {f}
  BY <1>3, FilesShape
<1>5. dir' = [dir EXCEPT ![pass.cur] = d]
  BY DEF RemoveEntry
<1> HIDE DEF d
<1>6. Shapes' /\ MarkerIsYoung' /\ \A j \in Indexes : dir'[j].lock = dir[j].lock
  <2>1. Shapes
    BY DEF CollectorInv
  <2>2. /\ dir' = [j \in Indexes |-> dir'[j]]
        /\ \A j \in Indexes : DirFields(dir'[j]) /\ dir'[j].age \in Nat
        /\ dir'[pass.cur] = d /\ \A j \in Indexes \ {pass.cur} : dir'[j] = dir[j]
    BY <1>2, <1>3, <1>4, <1>5, <2>1, DirSet
  <2>3. dir'[pass.cur].files \subseteq dir[pass.cur].files
        /\ dir'[pass.cur].age \in {0, dir[pass.cur].age}
    BY <1>4, <2>2
  <2>4. PassFields(pass') /\ pass'.short \in BOOLEAN
    BY <1>1, <1>2
  <2>5. Shapes' /\ MarkerIsYoung'
    BY <1>1, <1>2, <2>2, <2>3, <2>4, RemovalShapes
  <2>6. QED
    BY <1>4, <2>2, <2>5, Zenon
<1>7. InHand'
  BY <1>1 DEF CollectorInv, InHand, Gone
<1>8. LocksTaken'
  BY <1>1, <1>6, LocksStay
<1>9. BasesKnown'
  BY <1>1 DEF CollectorInv, BasesKnown
<1>10. QED
  BY <1>6, <1>7, <1>8, <1>9 DEF CollectorInv

LEMMA DirKeeps ==
    ASSUME CollectorInv, RemoveDir
    PROVE  CollectorInv'
<1>1. UNCHANGED <<root, listed, run, slipped, absence, steady>> /\ pass.pc = "unlinking"
  BY DEF RemoveDir, world, history
<1>2. PassFields(pass)
  BY DEF CollectorInv, Shapes
<1>3. PassFields(pass') /\ pass'.pc = "next" /\ pass'.short = FALSE /\ pass'.bases = pass.bases
      /\ pass'.held = {}
  BY <1>2, ProceedShape DEF RemoveDir
<1>4. DirFields(Nothing) /\ Nothing.age = 0 /\ Nothing.files = {}
  BY DEF DirFields, Nothing
<1>5. dir' = [dir EXCEPT ![pass.cur] = Nothing]
  BY DEF RemoveDir
<1>6. Shapes' /\ MarkerIsYoung'
  <2>1. Shapes /\ pass.cur \in Indexes
    BY <1>1 DEF CollectorInv, InHand, Named, Due, Sure
  <2>2. /\ dir' = [j \in Indexes |-> dir'[j]]
        /\ \A j \in Indexes : DirFields(dir'[j]) /\ dir'[j].age \in Nat
        /\ dir'[pass.cur] = Nothing /\ \A j \in Indexes \ {pass.cur} : dir'[j] = dir[j]
    <3>1. DirFields(Nothing) /\ Nothing.age \in Nat
      BY <1>4
    <3>2. Shapes /\ pass.cur \in Indexes /\ dir' = [dir EXCEPT ![pass.cur] = Nothing]
      BY <1>5, <2>1
    <3>3. QED
      BY <3>1, <3>2, DirSet
  <2>3. dir'[pass.cur].files \subseteq dir[pass.cur].files
        /\ dir'[pass.cur].age \in {0, dir[pass.cur].age}
    BY <1>4, <2>2
  <2>4. pass'.short \in BOOLEAN
    BY <1>3
  <2>5. QED
    BY <1>1, <1>3, <2>1, <2>2, <2>3, <2>4, RemovalShapes
<1>7. InHand' /\ LocksTaken'
  BY <1>3, NothingInHand
<1>8. BasesKnown'
  <2>1. "next" \notin Due
    BY DEF Due, Sure
  <2>2. QED
    BY <1>1, <1>3, <2>1 DEF CollectorInv, BasesKnown
<1>9. QED
  BY <1>6, <1>7, <1>8 DEF CollectorInv

\* Requests of the daemon touch none of this.
LEMMA RequestKeeps ==
    ASSUME CollectorInv, UNCHANGED <<root, listed, dir, pass, run, history>>
    PROVE  CollectorInv'
<1>1. UNCHANGED <<root, listed, dir, pass, run, steady, slipped, late, absence>>
  BY DEF history
<1>2. Shapes' /\ MarkerIsYoung'
  BY <1>1 DEF CollectorInv, Shapes, MarkerIsYoung, Gone
<1>3. InHand' /\ BasesKnown'
  BY <1>1 DEF CollectorInv, InHand, BasesKnown, Gone
<1>4. LocksTaken'
  BY <1>1, LocksStay
<1>5. QED
  BY <1>2, <1>3, <1>4 DEF CollectorInv

-----------------------------------------------------------------------------
(* Runs.                                                                   *)

\* One run moves, and may build what its directory misses.
LEMMA RunMoves ==
    ASSUME CollectorInv, UNCHANGED <<root, listed, pass, steady, slipped, absence>>,
           NEW r \in Runs,
           \A q \in Runs \ {r} : run'[q] = run[q],
           run' = [q \in Runs |-> run'[q]], RunFields(run'[r]), RunPlaced(run'[r]),
           dir' = [i \in Indexes |-> dir'[i]],
           \A i \in Indexes : /\ DirFields(dir'[i]) /\ dir'[i].age = dir[i].age
                              /\ dir[i].files \subseteq dir'[i].files
                              /\ Marker \in dir'[i].files => Marker \in dir[i].files,
           LocksTaken'
    PROVE  CollectorInv'
<1>1. Shapes'
  <2>1. \A i \in Indexes : dir'[i].age \in Nat
    BY DEF CollectorInv, Shapes
  <2>2. \A q \in Runs : RunFields(run'[q]) /\ RunPlaced(run'[q])
    <3> SUFFICES ASSUME NEW q \in Runs PROVE RunFields(run'[q]) /\ RunPlaced(run'[q])
      OBVIOUS
    <3>1. RunFields(run[q]) /\ RunPlaced(run[q])
      BY DEF CollectorInv, Shapes
    <3>2. QED
      BY <3>1, Zenon
  <2>3. QED
    BY <2>1, <2>2 DEF CollectorInv, Shapes
<1>2. MarkerIsYoung'
  BY DEF CollectorInv, MarkerIsYoung, Gone
<1>3. InHand'
  BY DEF CollectorInv, InHand, Gone
<1>4. BasesKnown'
  <2>1. Overlays \subseteq Indexes
    BY CollectorAssumption
  <2>2. QED
    BY <2>1 DEF CollectorInv, BasesKnown
<1>5. QED
  BY <1>1, <1>2, <1>3, <1>4 DEF CollectorInv

\* A run starts for a root that is there.
LEMMA StartKeeps ==
    ASSUME CollectorInv, NEW r \in Runs, NEW i \in Indexes, StartRun(r, i)
    PROVE  CollectorInv'
<1>1. UNCHANGED <<root, listed, pass, steady, slipped, late, absence>>
  BY DEF StartRun, history
<1>2. run = [q \in Runs |-> run[q]] /\ Shapes
  BY DEF CollectorInv, Shapes
<1> DEFINE new == [pc |-> "resolved", index |-> i, inode |-> NoInode]
<1>3. run' = [run EXCEPT ![r] = new]
  BY DEF StartRun
<1>4. RunFields(new) /\ RunPlaced(new) /\ new.pc = "resolved"
  BY DEF RunFields, RunPlaced
<1> HIDE DEF new
<1>5. run'[r] = new /\ \A q \in Runs \ {r} : run'[q] = run[q]
  BY <1>2, <1>3
<1>6. run' = [q \in Runs |-> run'[q]]
  BY <1>2, <1>3
<1> DEFINE d == [dir[i] EXCEPT !.exists = TRUE]
<1>7. dir' = [dir EXCEPT ![i] = d]
  BY DEF StartRun
<1>8. DirFields(d) /\ d.age = dir[i].age /\ d.files = dir[i].files /\ d.lock = dir[i].lock
  <2>1. DirFields(dir[i])
    BY <1>2 DEF Shapes
  <2>2. QED
    BY <2>1, ExistsShape
<1> HIDE DEF d
<1>9. /\ dir' = [j \in Indexes |-> dir'[j]]
      /\ \A j \in Indexes : DirFields(dir'[j]) /\ dir'[j].age \in Nat
      /\ dir'[i] = d /\ \A j \in Indexes \ {i} : dir'[j] = dir[j]
  <2>1. d.age \in Nat
    BY <1>2, <1>8 DEF Shapes
  <2>2. QED
    BY <1>2, <1>7, <1>8, <2>1, DirSet
<1>10. \A j \in Indexes : dir'[j].age = dir[j].age /\ dir'[j].files = dir[j].files
                          /\ dir'[j].lock = dir[j].lock
  BY <1>8, <1>9, Zenon
<1>11. LocksTaken'
  <2>1. run'[r].pc = "resolved"
    BY <1>4, <1>5
  <2>2. QED
    BY <1>1, <1>5, <1>10, <2>1, LocksStay
<1>12. \A j \in Indexes : /\ DirFields(dir'[j]) /\ dir'[j].age = dir[j].age
                          /\ dir[j].files \subseteq dir'[j].files
                          /\ Marker \in dir'[j].files => Marker \in dir[j].files
  BY <1>9, <1>10
<1>13. RunFields(run'[r]) /\ RunPlaced(run'[r])
  BY <1>4, <1>5
<1>14. QED
  BY <1>1, <1>5, <1>6, <1>9, <1>11, <1>12, <1>13, RunMoves

\* A run moves to another place and stays the run it was.
LEMMA RunStepShape ==
    ASSUME CollectorInv, NEW r \in Runs, NEW pc, RunStep(r, pc),
           pc \in {"idle", "locked", "writing"}, run[r].pc # "idle"
    PROVE  /\ run' = [q \in Runs |-> run'[q]] /\ \A q \in Runs \ {r} : run'[q] = run[q]
           /\ RunFields(run'[r]) /\ RunPlaced(run'[r]) /\ run'[r].pc = pc
           /\ run'[r].index = run[r].index /\ run'[r].inode = run[r].inode
<1>1. run = [q \in Runs |-> run[q]] /\ RunFields(run[r]) /\ RunPlaced(run[r])
  BY DEF CollectorInv, Shapes
<1> DEFINE new == [run[r] EXCEPT !.pc = pc]
<1>2. run' = [run EXCEPT ![r] = new]
  BY DEF RunStep
<1>3. RunFields(new) /\ new.pc = pc /\ new.index = run[r].index /\ new.inode = run[r].inode
  BY <1>1 DEF RunFields
<1> HIDE DEF new
<1>4. run' = [q \in Runs |-> run'[q]] /\ (\A q \in Runs \ {r} : run'[q] = run[q]) /\ run'[r] = new
  BY <1>1, <1>2
<1>5. RunPlaced(new)
  BY <1>1, <1>3 DEF RunPlaced
<1>6. QED
  BY <1>3, <1>4, <1>5

\* A run that moves on without coming to hold a lock.
LEMMA RunStepKeeps ==
    ASSUME CollectorInv, NEW r \in Runs, NEW pc, RunStep(r, pc),
           pc \in {"idle", "writing"}, run[r].pc # "idle", pc = "writing" => run[r].pc = "locked",
           UNCHANGED <<root, listed, pass, steady, slipped, late, absence>>,
           dir' = [i \in Indexes |-> dir'[i]],
           \A i \in Indexes : /\ DirFields(dir'[i]) /\ dir'[i].age = dir[i].age
                              /\ dir[i].files \subseteq dir'[i].files
                              /\ Marker \in dir'[i].files => Marker \in dir[i].files
                              /\ dir'[i].lock = dir[i].lock
    PROVE  CollectorInv'
<1>1. /\ run' = [q \in Runs |-> run'[q]] /\ \A q \in Runs \ {r} : run'[q] = run[q]
      /\ RunFields(run'[r]) /\ RunPlaced(run'[r]) /\ run'[r].pc = pc
      /\ run'[r].index = run[r].index /\ run'[r].inode = run[r].inode
  BY RunStepShape
<1>2. \A q \in Runs : run'[q].pc \in {"locked", "writing"} =>
          /\ run[q].pc \in {"locked", "writing"}
          /\ run'[q].index = run[q].index /\ run'[q].inode = run[q].inode
  <2> SUFFICES ASSUME NEW q \in Runs, run'[q].pc \in {"locked", "writing"}
               PROVE  /\ run[q].pc \in {"locked", "writing"}
                      /\ run'[q].index = run[q].index /\ run'[q].inode = run[q].inode
    OBVIOUS
  <2>1. CASE q = r
    BY <1>1, <2>1
  <2>2. CASE q # r
    <3>1. run'[q] = run[q]
      BY <1>1, <2>2
    <3>2. QED
      BY <3>1
  <2>3. QED
    BY <2>1, <2>2
<1>3. LocksTaken'
  BY <1>2, LocksStay
<1>4. QED
  BY <1>1, <1>3, RunMoves

\* A run takes its lock: late, if the pass has looked at it, and never one
\* that the pass holds.
LEMMA LockRunKeeps ==
    ASSUME CollectorInv, NEW r \in Runs, LockRun(r)
    PROVE  CollectorInv'
<1>1. UNCHANGED <<root, listed, pass, dir, steady, slipped, absence>> /\ run[r].pc = "opened"
      /\ RunStep(r, "locked") /\ ~PassHolds(run[r].index, LockOf[r], run[r].inode)
      /\ late' = IF run[r].index = pass.cur /\ pass.pc \in Past(LockOf[r])
                 THEN late \cup {r} ELSE late \ {r}
  BY DEF LockRun
<1>2. /\ run' = [q \in Runs |-> run'[q]] /\ \A q \in Runs \ {r} : run'[q] = run[q]
      /\ RunFields(run'[r]) /\ RunPlaced(run'[r]) /\ run'[r].pc = "locked"
      /\ run'[r].index = run[r].index /\ run'[r].inode = run[r].inode
  BY <1>1, RunStepShape
<1>3. OnlyLate'
  <2> SUFFICES ASSUME NEW q \in Runs, pass.pc \in Past(LockOf[q]), run'[q].index = pass.cur,
                      AtWork(q)'
               PROVE  q \in late'
    BY <1>1 DEF OnlyLate
  <2>1. CASE q = r
    BY <1>1, <1>2, <2>1
  <2>2. CASE q # r
    <3>1. run'[q] = run[q]
      BY <1>2, <2>2
    <3>2. AtWork(q)
      BY <1>1, <3>1 DEF AtWork, Unlinked
    <3>3. q \in late
      BY <3>1, <3>2 DEF CollectorInv, LocksTaken, OnlyLate
    <3>4. QED
      BY <1>1, <2>2, <3>3
  <2>3. QED
    BY <2>1, <2>2
<1>4. HeldAlone'
  <2> SUFFICES ASSUME NEW h \in pass.held, NEW q \in Runs,
                      run'[q].pc \in {"locked", "writing"}, run'[q].index = pass.cur,
                      LockOf[q] = h[1], run'[q].inode = h[2]
               PROVE  FALSE
    BY <1>1 DEF CollectorInv, LocksTaken, HeldAlone, RunHolds
  <2>1. h = <<h[1], h[2]>> /\ ~RunHolds(pass.cur, h[1], h[2])
    BY DEF CollectorInv, LocksTaken, HeldAlone
  <2>2. CASE q = r
    BY <1>1, <1>2, <2>1, <2>2 DEF PassHolds
  <2>3. CASE q # r
    <3>1. run'[q] = run[q]
      BY <1>2, <2>3
    <3>2. QED
      BY <2>1, <3>1 DEF RunHolds
  <2>4. QED
    BY <2>2, <2>3
<1>5. dir = [j \in Indexes |-> dir[j]] /\ \A j \in Indexes : DirFields(dir[j])
  BY DEF CollectorInv, Shapes
<1>6. QED
  BY <1>1, <1>2, <1>3, <1>4, <1>5, RunMoves DEF LocksTaken

\* A run starts its job, or ends.
LEMMA WorkKeeps ==
    ASSUME CollectorInv, NEW r \in Runs, WriteRun(r) \/ FinishRun(r)
    PROVE  CollectorInv'
<1>1. UNCHANGED <<root, listed, pass, steady, slipped, late, absence>>
  BY DEF WriteRun, FinishRun, history
<1>2. dir = [j \in Indexes |-> dir[j]] /\ Shapes
      /\ \A j \in Indexes : DirFields(dir[j]) /\ dir[j].age \in Nat
  BY DEF CollectorInv, Shapes
<1>3. run[r].pc \in {"locked", "writing"}
  BY DEF WriteRun, FinishRun
<1>4. RunPlaced(run[r])
  BY DEF CollectorInv, Shapes
<1>5. run[r].index \in Indexes
  BY <1>3, <1>4 DEF RunPlaced
<1>6. PICK pc \in {"idle", "writing"} :
          RunStep(r, pc) /\ (pc = "writing" => run[r].pc = "locked")
  BY DEF WriteRun, FinishRun
<1>7. CASE UNCHANGED dir
  BY <1>1, <1>2, <1>3, <1>6, <1>7, RunStepKeeps
<1>8. CASE dir' = [dir EXCEPT ![run[r].index].files = @ \cup Entries(run[r].index)]
  <2>1. PICK i \in Indexes : i = run[r].index
    BY <1>5
  <2> DEFINE d == [dir[i] EXCEPT !.files = @ \cup Entries(i)]
  <2>2. dir' = [dir EXCEPT ![i] = d]
    BY <1>8, <2>1
  <2>3. DirFields(d) /\ d.age = dir[i].age /\ d.lock = dir[i].lock
        /\ d.files = dir[i].files \cup Entries(i)
    BY <1>2, FilesShape
  <2> HIDE DEF d
  <2>4. d.age \in Nat
    BY <1>2, <2>3
  <2>5. /\ dir' = [j \in Indexes |-> dir'[j]]
        /\ \A j \in Indexes : DirFields(dir'[j]) /\ dir'[j].age \in Nat
        /\ dir'[i] = d /\ \A j \in Indexes \ {i} : dir'[j] = dir[j]
    BY <1>2, <2>2, <2>3, <2>4, DirSet
  <2>6. Marker \notin Entries(i)
    BY DEF Entries, Marker
  <2>7. \A j \in Indexes : /\ DirFields(dir'[j]) /\ dir'[j].age = dir[j].age
                           /\ dir[j].files \subseteq dir'[j].files
                           /\ Marker \in dir'[j].files => Marker \in dir[j].files
                           /\ dir'[j].lock = dir[j].lock
    <3> SUFFICES ASSUME NEW j \in Indexes
                 PROVE  /\ DirFields(dir'[j]) /\ dir'[j].age = dir[j].age
                        /\ dir[j].files \subseteq dir'[j].files
                        /\ Marker \in dir'[j].files => Marker \in dir[j].files
                        /\ dir'[j].lock = dir[j].lock
      OBVIOUS
    <3>1. CASE j = i
      BY <2>3, <2>5, <2>6, <3>1
    <3>2. CASE j # i
      <4>1. dir'[j] = dir[j] /\ DirFields(dir'[j])
        BY <2>5, <3>2
      <4>2. QED
        BY <4>1
    <3>3. QED
      BY <3>1, <3>2
  <2>8. QED
    BY <1>1, <1>3, <1>6, <2>5, <2>7, RunStepKeeps
<1>9. QED
  BY <1>7, <1>8 DEF WriteRun, FinishRun

\* A run opens its lock file, a new one perhaps: then its inode is nobody's.
LEMMA OpenKeeps ==
    ASSUME CollectorInv, NEW r \in Runs, OpenLock(r)
    PROVE  CollectorInv'
<1>1. UNCHANGED <<root, listed, pass, steady, slipped, late, absence>> /\ run[r].pc = "resolved"
  BY DEF OpenLock, history
<1>2. /\ dir = [j \in Indexes |-> dir[j]] /\ run = [q \in Runs |-> run[q]] /\ Shapes
      /\ \A j \in Indexes : DirFields(dir[j]) /\ dir[j].age \in Nat
      /\ RunFields(run[r]) /\ RunPlaced(run[r])
  BY DEF CollectorInv, Shapes
<1>3. PICK i \in Indexes : i = run[r].index
  BY <1>1, <1>2 DEF RunPlaced
<1>4. CASE RunStep(r, "idle") /\ UNCHANGED dir
  BY <1>1, <1>2, <1>4, RunStepKeeps
<1>5. ASSUME NEW inode \in InodesFor(i, LockOf[r]),
             dir' = [dir EXCEPT ![i].lock[LockOf[r]] = inode],
             run' = [run EXCEPT ![r].pc = "opened", ![r].inode = inode]
      PROVE  CollectorInv'
  <2> DEFINE lock == [dir[i].lock EXCEPT ![LockOf[r]] = inode]
             d == [dir[i] EXCEPT !.lock = lock]
             new == [run[r] EXCEPT !.pc = "opened", !.inode = inode]
  <2>1. dir' = [dir EXCEPT ![i] = d] /\ run' = [run EXCEPT ![r] = new]
    <3>1. r \in DOMAIN run
      BY <1>2
    <3>2. QED
      BY <1>5, <3>1
  <2>2. RunFields(new) /\ new.pc = "opened" /\ new.index = i
    BY <1>2, <1>3, OpenedShape
  <2>3. DOMAIN dir[i].lock = LockFiles /\ LockOf[r] \in LockFiles
    BY <1>2, CollectorAssumption DEF DirFields
  <2>4. DOMAIN lock = LockFiles /\ lock[LockOf[r]] = inode
        /\ \A n \in LockFiles \ {LockOf[r]} : lock[n] = dir[i].lock[n]
    BY <2>3
  <2> HIDE DEF lock
  <2>5. DirFields(d) /\ d.age = dir[i].age /\ d.files = dir[i].files /\ d.lock = lock
    BY <1>2, <2>4, LockShape
  <2>6. d.age \in Nat
    BY <1>2, <2>5
  <2> HIDE DEF d, new
  <2>7. /\ dir' = [j \in Indexes |-> dir'[j]]
        /\ \A j \in Indexes : DirFields(dir'[j]) /\ dir'[j].age \in Nat
        /\ dir'[i] = d /\ \A j \in Indexes \ {i} : dir'[j] = dir[j]
    BY <1>2, <2>1, <2>5, <2>6, DirSet
  <2>8. run' = [q \in Runs |-> run'[q]] /\ (\A q \in Runs \ {r} : run'[q] = run[q])
        /\ run'[r] = new
    BY <1>2, <2>1
  <2>9. RunFields(run'[r]) /\ RunPlaced(run'[r]) /\ run'[r].pc = "opened"
    BY <1>3, <2>2, <2>8 DEF RunPlaced
  <2>10. \A j \in Indexes : /\ DirFields(dir'[j]) /\ dir'[j].age = dir[j].age
                            /\ dir[j].files \subseteq dir'[j].files
                            /\ Marker \in dir'[j].files => Marker \in dir[j].files
    <3> SUFFICES ASSUME NEW j \in Indexes
                 PROVE  /\ DirFields(dir'[j]) /\ dir'[j].age = dir[j].age
                        /\ dir'[j].files = dir[j].files
      OBVIOUS
    <3>1. CASE j = i
      BY <2>5, <2>7, <3>1
    <3>2. CASE j # i
      BY <2>7, <3>2
    <3>3. QED
      BY <3>1, <3>2
  <2>11. \A j \in Indexes, n \in LockFiles :
             \/ dir'[j].lock[n] = dir[j].lock[n]
             \/ /\ j = i /\ n = LockOf[r] /\ dir[j].lock[n] = NoInode
                /\ \A q \in Runs : run[q].index = j /\ LockOf[q] = n =>
                       dir'[j].lock[n] # run[q].inode
    <3> SUFFICES ASSUME NEW j \in Indexes, NEW n \in LockFiles,
                        dir'[j].lock[n] # dir[j].lock[n]
                 PROVE  /\ j = i /\ n = LockOf[r] /\ dir[j].lock[n] = NoInode
                        /\ \A q \in Runs : run[q].index = j /\ LockOf[q] = n =>
                               dir'[j].lock[n] # run[q].inode
      OBVIOUS
    <3>1. j = i
      BY <2>7
    <3>2. dir'[j].lock = lock
      BY <2>5, <2>7, <3>1
    <3>3. n = LockOf[r] /\ dir'[j].lock[n] = inode
      BY <2>4, <3>1, <3>2
    <3>4. dir[i].lock[LockOf[r]] = NoInode
      BY <1>5, <3>1, <3>3 DEF InodesFor
    <3>5. \A q \in Runs : run[q].index = i /\ LockOf[q] = LockOf[r] => inode # run[q].inode
      BY <1>5, <3>4 DEF InodesFor
    <3>6. QED
      BY <3>1, <3>3, <3>4, <3>5
  <2>12. \A q \in Runs : run'[q].pc \in {"locked", "writing"} => run'[q] = run[q]
    BY <2>8, <2>9
  <2>13. \A q \in Runs : run[q].pc \in {"locked", "writing"} =>
             run[q].index \in Indexes /\ LockOf[q] \in LockFiles
    BY CollectorAssumption DEF CollectorInv, Shapes, RunPlaced
  <2>14. OnlyLate'
    <3> SUFFICES ASSUME NEW q \in Runs, pass.pc \in Past(LockOf[q]), run'[q].index = pass.cur,
                        AtWork(q)'
                 PROVE  q \in late
      BY <1>1 DEF OnlyLate
    <3>1. run'[q] = run[q] /\ run[q].pc \in {"locked", "writing"}
      BY <2>12 DEF AtWork
    <3>2. dir'[run[q].index].lock[LockOf[q]] = run[q].inode /\ run[q].inode # NoInode
      BY <3>1 DEF AtWork, Unlinked
    <3>3. dir[run[q].index].lock[LockOf[q]] = run[q].inode
      BY <2>11, <2>13, <3>1, <3>2
    <3>4. AtWork(q)
      BY <3>1, <3>2, <3>3 DEF AtWork, Unlinked
    <3>5. QED
      BY <3>1, <3>4 DEF CollectorInv, LocksTaken, OnlyLate
  <2>15. HeldAlone'
    <3>1. pass.held # {} => pass.cur \in Indexes
      BY DEF CollectorInv, LocksTaken, HeldAlone, InHand, Named
    <3>2. \A h \in pass.held : dir'[pass.cur].lock[h[1]] = h[2]
      BY <2>11, <3>1 DEF CollectorInv, LocksTaken, HeldAlone
    <3>3. \A h \in pass.held : ~RunHolds(pass.cur, h[1], h[2])'
      BY <1>1, <2>12 DEF CollectorInv, LocksTaken, HeldAlone, RunHolds
    <3>4. QED
      BY <1>1, <3>2, <3>3 DEF CollectorInv, LocksTaken, HeldAlone
  <2>16. QED
    BY <1>1, <2>7, <2>8, <2>9, <2>10, <2>14, <2>15, RunMoves DEF LocksTaken
<1>6. QED
  BY <1>3, <1>4, <1>5 DEF OpenLock

-----------------------------------------------------------------------------
(* Roots and the clock.                                                    *)

\* A root goes.
LEMMA GoesKeeps ==
    ASSUME CollectorInv, NEW i \in Indexes, RootGoes(i)
    PROVE  CollectorInv'
<1>1. UNCHANGED <<dir, pass, run, slipped, late>> /\ root[i]
      /\ root' = [root EXCEPT ![i] = FALSE] /\ absence' = [absence EXCEPT ![i] = 0]
      /\ steady' = steady \ {i} /\ listed' \subseteq listed
  BY DEF RootGoes
<1>2. root \in [Indexes -> BOOLEAN] /\ absence \in [Indexes -> Nat]
  BY DEF CollectorInv, Shapes
<1>3. root' \in [Indexes -> BOOLEAN] /\ absence' \in [Indexes -> Nat]
  BY <1>1, <1>2
<1>4. Shapes'
  BY <1>1, <1>3 DEF CollectorInv, Shapes
<1>5. absence'[i] = 0 /\ ~root'[i]
      /\ \A j \in Indexes \ {i} : absence'[j] = absence[j] /\ root'[j] = root[j]
  BY <1>1, <1>2
<1>6. MarkerIsYoung'
  BY <1>1, <1>5 DEF CollectorInv, MarkerIsYoung, Gone
<1>8. InHand'
  <2>1. pass.pc \in Due \/ pass.pc \in Sure => pass.pc \in Named
    BY DEF Named, Due
  <2>2. pass.pc \in Named /\ pass.cur \notin slipped =>
            absence'[pass.cur] = absence[pass.cur] /\ ~root'[pass.cur]
    BY <1>1, <1>5 DEF CollectorInv, InHand, Gone
  <2>3. QED
    BY <1>1, <2>1, <2>2 DEF CollectorInv, InHand, Gone
<1>9. LocksTaken'
  BY <1>1, LocksStay
<1>10. BasesKnown'
  BY <1>1, <1>5, CollectorAssumption DEF CollectorInv, BasesKnown
<1>11. QED
  BY <1>4, <1>6, <1>8, <1>9, <1>10 DEF CollectorInv

\* A root comes back, unseen by the pass until it looks.
LEMMA ReturnsKeeps ==
    ASSUME CollectorInv, NEW i \in Indexes, RootReturns(i)
    PROVE  CollectorInv'
<1>1. UNCHANGED <<dir, pass, run, steady, late, absence>> /\ ~root[i]
      /\ root' = [root EXCEPT ![i] = TRUE] /\ slipped' = slipped \cup {i}
      /\ listed' = IF i \in Overlays THEN listed \cup {i} ELSE listed
  BY DEF RootReturns
<1>2. root \in [Indexes -> BOOLEAN]
  BY DEF CollectorInv, Shapes
<1>3. root' \in [Indexes -> BOOLEAN]
  BY <1>1, <1>2
<1>4. Shapes'
  BY <1>1, <1>3 DEF CollectorInv, Shapes
<1>5. root'[i] /\ \A j \in Indexes \ {i} : root'[j] = root[j]
  BY <1>1, <1>2
<1>6. MarkerIsYoung'
  BY <1>1, <1>5 DEF CollectorInv, MarkerIsYoung, Gone
<1>8. InHand'
  BY <1>1, <1>5 DEF CollectorInv, InHand, Gone
<1>9. LocksTaken'
  BY <1>1, LocksStay
<1>10. BasesKnown'
  BY <1>1, <1>5, CollectorAssumption DEF CollectorInv, BasesKnown
<1>11. QED
  BY <1>4, <1>6, <1>8, <1>9, <1>10 DEF CollectorInv

\* The clock moves markers and absences alike, between passes.
LEMMA TickKeeps ==
    ASSUME CollectorInv, Tick
    PROVE  CollectorInv'
<1>1. UNCHANGED <<root, listed, pass, run, steady, slipped>> /\ pass.pc = "idle"
  BY DEF Tick, world
<1>2. dir' = [i \in Indexes |-> [dir[i] EXCEPT !.age = IF Marker \in dir[i].files THEN Grown(@) ELSE @]]
  BY DEF Tick
<1>3. absence' = [i \in Indexes |-> IF Gone(i) THEN Grown(absence[i]) ELSE 0]
  BY DEF Tick
<1>4. Grace \in Nat
  BY CollectorAssumption
<1>5. \A i \in Indexes : dir[i].age \in Nat /\ absence[i] \in Nat /\ DirFields(dir[i])
  BY DEF CollectorInv, Shapes
<1>6. \A n \in Nat : Grown(n) \in Nat
  BY <1>4 DEF Grown
<1>7. \A m, n \in Nat : m <= n => Grown(m) <= Grown(n)
  BY <1>4 DEF Grown
<1>8. \A i \in Indexes :
          /\ DirFields(dir'[i]) /\ dir'[i].files = dir[i].files
          /\ dir'[i].age = IF Marker \in dir[i].files THEN Grown(dir[i].age) ELSE dir[i].age
  <2> SUFFICES ASSUME NEW i \in Indexes
               PROVE  /\ DirFields(dir'[i]) /\ dir'[i].files = dir[i].files
                      /\ dir'[i].age = IF Marker \in dir[i].files THEN Grown(dir[i].age)
                                      ELSE dir[i].age
    OBVIOUS
  <2> DEFINE age == IF Marker \in dir[i].files THEN Grown(dir[i].age) ELSE dir[i].age
  <2>1. dir'[i] = [dir[i] EXCEPT !.age = age]
    BY <1>2
  <2> HIDE DEF age
  <2>2. DirFields(dir'[i]) /\ dir'[i].files = dir[i].files /\ dir'[i].age = age
    BY <1>5, <2>1, AgeShape
  <2>3. QED
    BY <2>2 DEF age
<1>9. absence' \in [Indexes -> Nat]
  BY <1>3, <1>5, <1>6
<1>10. Shapes'
  <2>1. \A i \in Indexes : dir'[i].age \in Nat
    BY <1>5, <1>6, <1>8
  <2>2. dir' = [i \in Indexes |-> dir'[i]]
    BY <1>2
  <2>3. QED
    BY <1>1, <1>8, <1>9, <2>1, <2>2 DEF CollectorInv, Shapes
<1>11. MarkerIsYoung'
  <2> SUFFICES ASSUME NEW i \in Indexes, i \notin slipped, Marker \in dir[i].files
               PROVE  Gone(i) /\ dir'[i].age <= absence'[i]
    BY <1>1, <1>8 DEF MarkerIsYoung, Gone
  <2>1. Gone(i) /\ dir[i].age <= absence[i]
    BY DEF CollectorInv, MarkerIsYoung
  <2>2. dir'[i].age = Grown(dir[i].age) /\ absence'[i] = Grown(absence[i])
    BY <1>3, <1>8, <2>1
  <2>3. QED
    BY <1>5, <1>7, <2>1, <2>2
<1>12. pass.held = {}
  BY <1>1 DEF CollectorInv, LocksTaken, HeldAlone, Due, Sure
<1>13. InHand' /\ LocksTaken'
  BY <1>1, <1>12, NothingInHand
<1>14. BasesKnown'
  <2>1. "idle" \notin Due
    BY DEF Due, Sure
  <2>2. QED
    BY <1>1, <2>1 DEF CollectorInv, BasesKnown
<1>15. QED
  BY <1>10, <1>11, <1>13, <1>14 DEF CollectorInv

-----------------------------------------------------------------------------
(* The theorems.                                                           *)

LEMMA CollectorStarts == Init => CollectorInv
<1> SUFFICES ASSUME Init PROVE CollectorInv
  OBVIOUS
<1>1. pass = Idle /\ root = [i \in Indexes |-> TRUE] /\ absence = [i \in Indexes |-> 0]
      /\ steady = {} /\ slipped = {}
  BY DEF Init
<1>2. pass.pc = "idle" /\ PassFields(pass) /\ pass.short = FALSE /\ pass.held = {}
  BY <1>1, IdleShape
<1>3. /\ dir = [i \in Indexes |->
                  [exists |-> TRUE, files |-> Entries(i), age |-> 0,
                   lock |-> [n \in LockFiles |-> IF n = "index.lock" THEN 1 ELSE NoInode]]]
      /\ run = [r \in Runs |-> [pc |-> "idle", index |-> CHOOSE i \in Indexes : TRUE,
                                inode |-> NoInode]]
  BY DEF Init
<1>4. \A i \in Indexes : DirFields(dir[i]) /\ dir[i].age = 0 /\ dir[i].files = Entries(i)
  BY <1>3 DEF DirFields
<1>5. \A r \in Runs : RunFields(run[r]) /\ RunPlaced(run[r]) /\ run[r].pc = "idle"
  BY <1>3 DEF RunFields, RunPlaced
<1>6. Shapes
  BY <1>1, <1>2, <1>3, <1>4, <1>5 DEF Shapes
<1>7. MarkerIsYoung
  BY <1>4 DEF MarkerIsYoung, Entries, Marker
<1>9. pass.pc \notin Named /\ pass.pc \notin Due /\ pass.pc \notin Sure
      /\ \A name : pass.pc \notin Past(name)
  BY <1>2 DEF Named, Due, Sure, Past
<1>10. InHand /\ LocksTaken /\ BasesKnown
  BY <1>1, <1>2, <1>9 DEF InHand, LocksTaken, OnlyLate, HeldAlone, BasesKnown
<1>11. QED
  BY <1>6, <1>7, <1>10 DEF CollectorInv

LEMMA CollectorSteps == CollectorInv /\ [Next]_vars => CollectorInv'
<1> SUFFICES ASSUME CollectorInv, [Next]_vars PROVE CollectorInv'
  OBVIOUS
<1>1. CASE PassStep
  <2>1. CASE ListEntries \/ ReadBases
    BY <2>1, ListKeeps, BasesKeep
  <2>2. ASSUME NEW i \in Indexes, Examine(i) PROVE CollectorInv'
    BY <2>2, HereKeeps, GoneKeeps DEF Examine
  <2>3. CASE EndPass
    BY <2>3, EndKeeps
  <2>4. CASE Judge
    BY <2>4, JudgeKeeps
  <2>5. CASE Reserve \/ CheckJobs \/ Recheck \/ Release \/ DropLocks
    BY <2>5, HandKeeps
  <2>6. ASSUME NEW n \in LockFiles, TryLock(n) PROVE CollectorInv'
    BY <2>6, LockKeeps
  <2>7. CASE RemoveDir
    BY <2>7, DirKeeps
  <2>8. ASSUME NEW f, RemoveEntry(f) PROVE CollectorInv'
    BY <2>8, EntryKeeps
  <2>9. QED
    BY <1>1, <2>1, <2>2, <2>3, <2>4, <2>5, <2>6, <2>7, <2>8 DEF PassStep
<1>2. CASE PassFails
  BY <1>2, EndKeeps
<1>3. CASE Tick
  BY <1>3, TickKeeps
<1>4. ASSUME NEW i \in Indexes, StartRequest(i) \/ EndRequest(i) PROVE CollectorInv'
  <2>1. UNCHANGED <<root, listed, dir, pass, run, history>>
    BY <1>4 DEF StartRequest, EndRequest
  <2>2. QED
    BY <2>1, RequestKeeps
<1>5. ASSUME NEW i \in Indexes, RootGoes(i) \/ RootReturns(i) PROVE CollectorInv'
  BY <1>5, GoesKeeps, ReturnsKeeps
<1>6. ASSUME NEW r \in Runs, RunProgress(r) PROVE CollectorInv'
  BY <1>6, OpenKeeps, LockRunKeeps, WorkKeeps DEF RunProgress
<1>7. ASSUME NEW r \in Runs, NEW i \in Indexes, StartRun(r, i) PROVE CollectorInv'
  BY <1>7, StartKeeps
<1>8. CASE UNCHANGED vars
  <2>1. UNCHANGED <<root, listed, dir, pass, run, history>>
    BY <1>8 DEF vars, history
  <2>2. QED
    BY <2>1, RequestKeeps
<1>9. QED
  BY <1>1, <1>2, <1>3, <1>4, <1>5, <1>6, <1>7, <1>8 DEF Next

LEMMA CollectorHolds == Spec => []CollectorInv
BY CollectorStarts, CollectorSteps, PTL DEF Spec

\* No index is taken before its root has been missing for the grace that
\* applies to it, whatever markers dying passes leave behind, unless the root
\* was back unseen or its marker could not be removed then
\* (index_gc.rs: collect_orphaned_indexes_at).
THEOREM GraceWaited == Spec => []GraceIsWaited
BY CollectorHolds, InvImpliesGrace, PTL

\* A run of another process that had its lock when the pass looked at it keeps
\* its index, however short the grace and however long runs wait: whoever is
\* at work on an index that is taken apart came later, and as long as the pass
\* holds a lock file of the directory, nobody has that one
\* (index_gc.rs: remove_unused_index).
THEOREM RunsKept == Spec => []RunsKeepTheirIndex
BY CollectorHolds, InvImpliesRuns, PTL

\* A worktree that has been there since the pass started does not lose the
\* base it reads (index_gc.rs: collect_orphaned_indexes_at).
THEOREM BasesKept == Spec => []LiveOverlayKeepsBase
BY CollectorHolds, InvImpliesBases, PTL
================================================================================
