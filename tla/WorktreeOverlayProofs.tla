------------------------ MODULE WorktreeOverlayProofs ------------------------
(***************************************************************************)
(* Theorems about WorktreeOverlay, for every set of paths and contents and *)
(* every budget: what the base's snapshot and its recorded checkout state  *)
(* say is true, and a search of the worktree shows the worktree.  All of   *)
(* them hold until the main checkout changes at one of the two moments at  *)
(* which the code cannot see it (slipped).                                 *)
(***************************************************************************)
EXTENDS WorktreeOverlay, TLAPS

(* Types, and what the step a run is at says of its directory: whether it  *)
(* is there and whether its marker is.  A run that indexes the base for a  *)
(* run over the worktree has it wait.                                      *)

Nested == baseRun # None /\ baseRun.nested => treeRun # None /\ treeRun.pc = "base"

BasePhase ==
    baseRun # None =>
        /\ baseRun.pc = "scan" => (baseRun.fresh <=> base = None \/ base.marker)
        /\ baseRun.pc = "write" =>
              /\ base # None => base.marker
              /\ IF baseRun.fresh THEN baseRun.changed = Paths ELSE base # None
        /\ baseRun.pc \in {"publish", "finish"} => base # None /\ base.marker
        /\ baseRun.pc \in {"resnap", "record"} =>
              base # None /\ ~base.marker /\ baseRun.nested

TreePhase ==
    treeRun # None =>
        /\ treeRun.pc \in {"live", "stamps", "contents", "diff", "build", "promote", "publish"}
              => treeRun.ref \in Ref
        /\ treeRun.pc \in {"compare", "sort"} => over # None /\ over.ready /\ ~over.marker
        /\ treeRun.pc \in {"update", "finish"} => over # None /\ over.ready /\ over.marker

Typed == TypeOK /\ Nested /\ BasePhase /\ TreePhase

\* What a walk, a read and a capture return.
LEMMA ReadTypes ==
  ASSUME TypeOK
  PROVE  /\ Stamps(baseFs) \in PathStamps /\ Stamps(treeFs) \in PathStamps
         /\ Texts(baseFs) \in PathTexts /\ Texts(treeFs) \in PathTexts
         /\ Captured \in Git \cup {None}
         /\ NoFiles \in PathStamps /\ NoTexts \in PathTexts
         /\ \A fs \in Files : Stamps(fs) \in PathStamps /\ Texts(fs) \in PathTexts
<1>1. \A fs \in Files : Stamps(fs) \in PathStamps /\ Texts(fs) \in PathTexts
  BY DEF Files, Stamps, Texts, PathStamps, PathTexts
<1>2. NoFiles \in PathStamps /\ NoTexts \in PathTexts
  BY DEF NoFiles, NoTexts, PathStamps, PathTexts
<1>3. Captured \in Git \cup {None}
  BY DEF TypeOK, Captured, Git
<1>q. QED
  BY <1>1, <1>2, <1>3 DEF TypeOK

\* Saving or moving a file leaves a checkout.
LEMMA SetFileType ==
  ASSUME NEW fs \in Files, NEW p \in Paths, NEW c \in Contents \cup {None}
  PROVE  SetFile(fs, p, c) \in Files
BY DEF SetFile, Files

\* The locals a run starts with.
LEMMA NewRunTypes ==
  /\ NewRun \in BaseRuns /\ NewTreeRun \in TreeRuns
<1>1. NoFiles \in PathStamps /\ NoTexts \in PathTexts
  BY DEF NoFiles, NoTexts, PathStamps, PathTexts
<1>2. NewRun \in BaseRuns
  BY <1>1 DEF NewRun, BaseRuns
<1>3. NewTreeRun \in TreeRuns
  BY <1>1 DEF NewTreeRun, TreeRuns
<1>q. QED
  BY <1>2, <1>3

\* A run's record is made of its fields.
LEMMA BaseRunSet ==
  ASSUME NEW r \in BaseRuns
  PROVE  /\ \A l \in {"scan", "write", "publish", "finish", "resnap", "record"} :
              [r EXCEPT !.pc = l] \in BaseRuns
         /\ \A l \in {"scan", "write", "publish", "finish", "resnap", "record"},
               g \in Git \cup {None} : [r EXCEPT !.pc = l, !.git = g] \in BaseRuns
         /\ \A g \in Git \cup {None}, n \in BOOLEAN, f \in BOOLEAN :
              [r EXCEPT !.git = g, !.nested = n, !.fresh = f] \in BaseRuns
         /\ \A g \in Git \cup {None}, n \in BOOLEAN :
              [r EXCEPT !.git = g, !.nested = n] \in BaseRuns
         /\ \A l \in {"scan", "write", "publish", "finish", "resnap", "record"},
               n \in BOOLEAN : [r EXCEPT !.pc = l, !.nested = n] \in BaseRuns
         /\ \A l \in {"scan", "write", "publish", "finish", "resnap", "record"},
               s \in PathStamps, ch \in SUBSET Paths :
                 [r EXCEPT !.pc = l, !.snap = s, !.changed = ch] \in BaseRuns
         /\ \A l \in {"scan", "write", "publish", "finish", "resnap", "record"},
               s \in PathStamps, ch \in SUBSET Paths, b \in BOOLEAN :
                 [r EXCEPT !.pc = l, !.changed = ch, !.lost = b, !.snap = s] \in BaseRuns
BY DEF BaseRuns

\* The same for the index directory of the main checkout.
LEMMA BaseSet ==
  ASSUME NEW d \in BaseDir
  PROVE  /\ \A g \in Git \cup {None} : [d EXCEPT !.git = g] \in BaseDir
         /\ \A b \in BOOLEAN : [d EXCEPT !.marker = b] \in BaseDir
         /\ [d EXCEPT !.gen = @ + 1] \in BaseDir
         /\ \A s \in PathStamps : [d EXCEPT !.snap = s] \in BaseDir
         /\ \A s \in PathStamps, b \in BOOLEAN :
              [d EXCEPT !.snap = s, !.marker = b] \in BaseDir
<1>1. \A g \in Git \cup {None} : [d EXCEPT !.git = g] \in BaseDir
  BY DEF BaseDir
<1>2. \A b \in BOOLEAN : [d EXCEPT !.marker = b] \in BaseDir
  BY DEF BaseDir
<1>3. [d EXCEPT !.gen = @ + 1] \in BaseDir
  BY DEF BaseDir
<1>4. \A s \in PathStamps : [d EXCEPT !.snap = s] \in BaseDir
  BY DEF BaseDir
<1>5. \A s \in PathStamps, b \in BOOLEAN :
        [d EXCEPT !.snap = s, !.marker = b] \in BaseDir
  BY DEF BaseDir
<1>q. QED
  BY <1>1, <1>2, <1>3, <1>4, <1>5

\* A checkout state is recorded as it was captured, or not at all.
LEMMA RecordedType ==
  ASSUME NEW g \in Git \cup {None}, NEW d
  PROVE  Recorded(g, d) \in Git \cup {None} /\ Recorded(g, d) \in {g, None}
BY DEF Recorded

\* Setting the step of a run over the worktree, or what it has read.
LEMMA TreeRunSet ==
  ASSUME NEW r \in TreeRuns,
         NEW l \in {"base", "capture", "live", "stamps", "contents", "diff", "build",
                    "promote", "publish", "compare", "sort", "update", "finish"}
  PROVE  /\ [r EXCEPT !.pc = l] \in TreeRuns
         /\ \A s \in PathStamps, x \in Ref :
              [r EXCEPT !.pc = l, !.indexed = s, !.ref = x] \in TreeRuns
         /\ \A t \in PathTexts : [r EXCEPT !.pc = l, !.old = t] \in TreeRuns
         /\ \A s \in PathStamps : [r EXCEPT !.pc = l, !.meta = s] \in TreeRuns
         /\ \A t \in PathTexts : [r EXCEPT !.pc = l, !.new = t] \in TreeRuns
         /\ \A s, t \in PathStamps :
              [r EXCEPT !.pc = l, !.meta = s, !.indexed = t] \in TreeRuns
<1>1. [r EXCEPT !.pc = l] \in TreeRuns
  BY DEF TreeRuns
<1>2. \A s \in PathStamps, x \in Ref :
        [r EXCEPT !.pc = l, !.indexed = s, !.ref = x] \in TreeRuns
  BY DEF TreeRuns
<1>3. \A t \in PathTexts : [r EXCEPT !.pc = l, !.old = t] \in TreeRuns
  BY DEF TreeRuns
<1>4. \A s \in PathStamps : [r EXCEPT !.pc = l, !.meta = s] \in TreeRuns
  BY DEF TreeRuns
<1>5. \A t \in PathTexts : [r EXCEPT !.pc = l, !.new = t] \in TreeRuns
  BY DEF TreeRuns
<1>6. \A s, t \in PathStamps :
        [r EXCEPT !.pc = l, !.meta = s, !.indexed = t] \in TreeRuns
  BY DEF TreeRuns
<1>q. QED
  BY <1>1, <1>2, <1>3, <1>4, <1>5, <1>6

\* ... and what it makes of it, in a first diff, ...
LEMMA TreeRunDiff ==
  ASSUME NEW r \in TreeRuns, NEW A \in SUBSET Paths, NEW B \in SUBSET Paths,
         NEW s \in PathStamps, NEW t \in PathTexts, NEW u \in PathTexts
  PROVE  [r EXCEPT !.pc = "build", !.take = A, !.hide = B, !.indexed = s, !.old = t,
                   !.new = u] \in TreeRuns
BY DEF TreeRuns

\* ... and in the build of an overlay.
LEMMA TreeRunBuild ==
  ASSUME NEW r \in TreeRuns, NEW A \in SUBSET Paths, NEW s \in PathStamps, NEW t \in PathTexts
  PROVE  [r EXCEPT !.pc = "promote", !.new = t, !.meta = s, !.take = A] \in TreeRuns
BY DEF TreeRuns

\* The same for the worktree's index directory.
LEMMA OverSet ==
  ASSUME NEW d \in OverDir
  PROVE  /\ \A b \in BOOLEAN : [d EXCEPT !.ready = b] \in OverDir
         /\ \A b \in BOOLEAN : [d EXCEPT !.marker = b] \in OverDir
         /\ \A s \in PathStamps, b \in BOOLEAN :
              [d EXCEPT !.snap = s, !.marker = b] \in OverDir
         /\ \A t \in PathTexts, T \in SUBSET Paths :
              [d EXCEPT !.chunks = t, !.tombs = T] \in OverDir
<1>1. \A b \in BOOLEAN : [d EXCEPT !.ready = b] \in OverDir
  BY DEF OverDir
<1>2. \A b \in BOOLEAN : [d EXCEPT !.marker = b] \in OverDir
  BY DEF OverDir
<1>3. \A s \in PathStamps, b \in BOOLEAN : [d EXCEPT !.snap = s, !.marker = b] \in OverDir
  BY DEF OverDir
<1>4. \A t \in PathTexts, T \in SUBSET Paths :
        [d EXCEPT !.chunks = t, !.tombs = T] \in OverDir
  BY DEF OverDir
<1>q. QED
  BY <1>1, <1>2, <1>3, <1>4

\* Initially the checkouts are as Git made them and nothing is indexed.
LEMMA TypeInit == Init => Typed
<1>. SUFFICES ASSUME Init PROVE Typed
  OBVIOUS
<1>1. PICK b \in Budgets :
        /\ \E t \in b.base : baseFs = Checkout(t) /\ head = t
        /\ \E t \in b.tree : treeFs = Checkout(t)
        /\ left = [k \in DOMAIN b \ {"base", "tree"} |-> b[k]]
        /\ staged = 0 /\ slipped = FALSE /\ base = None /\ over = None
        /\ baseRun = None /\ treeRun = None /\ nextInc = 1
        /\ since = [p \in Paths |-> {}]
        /\ fresh = [p \in Paths |-> {treeFs[p].c}]
  BY DEF Init
<1>2. b.base \subseteq PathTexts /\ b.tree \subseteq PathTexts
  BY OverlayAssumption DEF PathTexts
<1>3. \A t \in PathTexts : Checkout(t) \in Files
  BY DEF Checkout, Files, PathTexts
<1>4. baseFs \in Files /\ head \in PathTexts /\ treeFs \in Files
  BY <1>1, <1>2, <1>3
<1>5. since \in [Paths -> SUBSET (Contents \cup {None})]
      /\ fresh \in [Paths -> SUBSET (Contents \cup {None})]
  BY <1>1, <1>4 DEF Files
<1>q. QED
  BY <1>1, <1>4, <1>5 DEF Typed, TypeOK, Nested, BasePhase, TreePhase

--------------------------------------------------------------------------------
(* What each step does, field by field, and that it keeps the types.       *)

\* What a run over the base may do to the one over the worktree.
Waiter ==
    \/ treeRun' = treeRun
    \/ treeRun' = None
    \/ /\ treeRun # None /\ treeRun.pc = "base" /\ treeRun' = Onward
       /\ treeRun' \in TreeRuns /\ treeRun'.pc = "capture"

\* When a run over the base ends, the run over the worktree that waits for it
\* goes on, or fails with it.
LEMMA BaseEndsType ==
  ASSUME Typed, baseRun # None, BaseEnds(Onward) \/ BaseEnds(None), over' = over
  PROVE  /\ baseRun' = None /\ treeRun' \in TreeRuns \cup {None}
         /\ Nested' /\ BasePhase' /\ TreePhase' /\ Waiter
<1>0. baseRun' = None /\ Nested' /\ BasePhase'
  BY DEF BaseEnds, Nested, BasePhase
<1>1. CASE ~baseRun.nested
  BY <1>0, <1>1 DEF BaseEnds, Typed, TypeOK, TreePhase, Waiter
<1>2. CASE baseRun.nested /\ BaseEnds(None)
  BY <1>0, <1>2 DEF BaseEnds, TreePhase, Waiter
<1>3. CASE baseRun.nested /\ BaseEnds(Onward)
  <2>1. treeRun \in TreeRuns /\ treeRun # None /\ treeRun.pc = "base"
    BY <1>3 DEF Typed, TypeOK, Nested
  <2>2. Onward \in TreeRuns
    BY <2>1, TreeRunSet DEF Onward
  <2>3. Onward.pc = "capture"
    BY <2>1 DEF Onward, TreeRuns
  <2>q. QED
    BY <1>0, <1>3, <2>1, <2>2, <2>3 DEF BaseEnds, TreePhase, Waiter
<1>q. QED
  BY <1>1, <1>2, <1>3 DEF Typed, TypeOK, BaseRuns

\* Starting a run over the base.
LEMMA BaseLockFields ==
  ASSUME Typed, NEW n \in BOOLEAN, BaseLock(n)
  PROVE  /\ baseRun' \in BaseRuns /\ baseRun = None
         /\ baseRun'.pc = "scan" /\ baseRun'.git = Captured /\ baseRun'.nested = n
         /\ baseRun'.fresh <=> base = None \/ base.marker
<1> DEFINE f == base = None \/ Marked(base)
<1>1. Captured \in Git \cup {None} /\ f \in BOOLEAN
  BY ReadTypes DEF Marked, Typed, TypeOK, BaseDir
<1>2. f <=> base = None \/ base.marker
  BY DEF Marked
<1>3. baseRun' = [NewRun EXCEPT !.git = Captured, !.nested = n, !.fresh = f] /\ baseRun = None
  BY DEF BaseLock
<1> HIDE DEF f
<1>4. [NewRun EXCEPT !.git = Captured, !.nested = n, !.fresh = f] \in BaseRuns
  BY <1>1, NewRunTypes, BaseRunSet
<1>q. QED
  BY <1>2, <1>3, <1>4 DEF NewRun

\* A run started on its own.
LEMMA BaseStartType ==
  ASSUME Typed, BaseStart
  PROVE  Typed' /\ treeRun' = treeRun
<1>1. BaseLock(FALSE) /\ UNCHANGED <<fsVars, base, over, treeRun, historyVars, nextInc>>
  BY DEF BaseStart
<1>2. baseRun' \in BaseRuns /\ baseRun'.pc = "scan" /\ ~baseRun'.nested
      /\ (baseRun'.fresh <=> base = None \/ base.marker)
  BY <1>1, BaseLockFields
<1>3. TypeOK'
  BY <1>1, <1>2 DEF Typed, TypeOK, fsVars, historyVars
<1>4. Nested' /\ BasePhase' /\ TreePhase'
  BY <1>1, <1>2 DEF Typed, Nested, BasePhase, TreePhase
<1>q. QED
  BY <1>1, <1>3, <1>4 DEF Typed

\* A run that a run over the worktree waits for.
LEMMA BaseIndexedType ==
  ASSUME Typed, BaseIndexed
  PROVE  Typed' /\ treeRun' = treeRun
<1>1. BaseLock(TRUE) /\ UNCHANGED <<fsVars, base, over, treeRun, historyVars, nextInc>>
      /\ treeRun # None /\ treeRun.pc = "base"
  BY DEF BaseIndexed, AwaitsBase
<1>2. baseRun' \in BaseRuns /\ baseRun'.pc = "scan"
      /\ (baseRun'.fresh <=> base = None \/ base.marker)
  BY <1>1, BaseLockFields
<1>3. TypeOK'
  BY <1>1, <1>2 DEF Typed, TypeOK, fsVars, historyVars
<1>4. Nested' /\ BasePhase' /\ TreePhase'
  BY <1>1, <1>2 DEF Typed, Nested, BasePhase, TreePhase
<1>q. QED
  BY <1>1, <1>3, <1>4 DEF Typed

\* Only the recorded checkout state of the directory may differ.
GitOnly(d, e) ==
    /\ e \in BaseDir /\ e # None
    /\ e.inc = d.inc /\ e.gen = d.gen /\ e.snap = d.snap /\ e.chunks = d.chunks
    /\ e.marker = d.marker

\* Replacing the recorded state leaves the rest.
LEMMA GitOnlyRecorded ==
  ASSUME NEW d \in BaseDir, NEW g \in Git \cup {None}
  PROVE  GitOnly(d, [d EXCEPT !.git = g]) /\ [d EXCEPT !.git = g].git = g
<1>1. [d EXCEPT !.git = g] \in BaseDir
  BY BaseSet
<1>q. QED
  BY <1>1, OverlayAssumption DEF GitOnly, BaseDir

\* A run that finds nothing to do.
LEMMA BaseNoOpType ==
  ASSUME Typed, BaseNoOp
  PROVE  /\ Typed' /\ Waiter /\ baseRun' = None
         /\ baseRun # None /\ baseRun \in BaseRuns
         /\ base # None /\ base \in BaseDir /\ ~base.marker /\ GitOnly(base, base')
         /\ \/ base' = base
            \/ Stamps(baseFs) = base.snap /\ base'.git = Recorded(baseRun.git, base)
<1>1. baseRun \in BaseRuns /\ baseRun # None /\ BaseEnds(Onward)
  BY DEF BaseNoOp, BaseGo, Typed, TypeOK
<1>2. UNCHANGED <<fsVars, over, historyVars, nextInc>>
  BY DEF BaseNoOp
<1>3. base # None /\ base \in BaseDir /\ ~base.marker
  BY <1>1 DEF BaseNoOp, BaseGo, Typed, TypeOK, BasePhase
<1>4. Recorded(baseRun.git, base) \in Git \cup {None}
  BY <1>1, RecordedType DEF BaseRuns
<1>5. \/ base' = base
      \/ Stamps(baseFs) = base.snap /\ base' = [base EXCEPT !.git = Recorded(baseRun.git, base)]
  BY DEF BaseNoOp
<1>6. GitOnly(base, base') /\ (base' = base \/ base'.git = Recorded(baseRun.git, base))
  <2>1. CASE base' = base
    BY <1>3, <2>1 DEF GitOnly
  <2>2. CASE base' = [base EXCEPT !.git = Recorded(baseRun.git, base)]
    BY <1>3, <1>4, <2>2, GitOnlyRecorded
  <2>q. QED
    BY <1>5, <2>1, <2>2
<1>7. baseRun' = None /\ treeRun' \in TreeRuns \cup {None}
         /\ Nested' /\ BasePhase' /\ TreePhase' /\ Waiter
  BY <1>1, <1>2, BaseEndsType DEF Typed
<1>8. TypeOK'
  BY <1>2, <1>6, <1>7 DEF Typed, TypeOK, fsVars, historyVars, GitOnly
<1>q. QED
  BY <1>1, <1>3, <1>5, <1>6, <1>7, <1>8 DEF Typed

\* The walk.
LEMMA BaseScanType ==
  ASSUME Typed, BaseScan
  PROVE  /\ Typed' /\ treeRun' = treeRun
         /\ baseRun # None /\ baseRun \in BaseRuns /\ baseRun.pc = "scan"
         /\ baseRun' \in BaseRuns /\ baseRun'.pc = "write" /\ baseRun'.git = baseRun.git
         /\ baseRun'.snap = Stamps(baseFs) /\ baseRun'.fresh = baseRun.fresh
         /\ baseRun'.changed = {p \in Paths : baseRun.fresh \/ Stamps(baseFs)[p] # base.snap[p]}
         /\ baseRun.fresh <=> base = None \/ base.marker
         /\ \/ base = None /\ base' = None
            \/ /\ base # None /\ base \in BaseDir /\ base' \in BaseDir /\ base'.marker
               /\ base'.inc = base.inc /\ base'.gen = base.gen /\ base'.chunks = base.chunks
               /\ base'.snap = base.snap
<1> DEFINE changed == {p \in Paths : baseRun.fresh \/ Stamps(baseFs)[p] # base.snap[p]}
<1>1. baseRun \in BaseRuns /\ baseRun # None /\ baseRun.pc = "scan"
      /\ (baseRun.fresh <=> base = None \/ base.marker)
  BY DEF BaseScan, BaseGo, Typed, TypeOK, BasePhase
<1>2. UNCHANGED <<fsVars, over, treeRun, historyVars, nextInc>>
  BY DEF BaseScan
<1>3. Stamps(baseFs) \in PathStamps /\ changed \in SUBSET Paths
  BY ReadTypes DEF Typed
<1>4. baseRun.fresh => changed = Paths
  OBVIOUS
<1>5. baseRun' = [baseRun EXCEPT !.pc = "write", !.snap = Stamps(baseFs), !.changed = changed]
  BY DEF BaseScan
<1> HIDE DEF changed
<1>6. /\ baseRun' \in BaseRuns /\ baseRun'.pc = "write" /\ baseRun'.git = baseRun.git
      /\ baseRun'.snap = Stamps(baseFs) /\ baseRun'.fresh = baseRun.fresh
      /\ baseRun'.changed = changed /\ baseRun'.nested = baseRun.nested
  <2>1. baseRun' \in BaseRuns
    BY <1>1, <1>3, <1>5, BaseRunSet
  <2>q. QED
    BY <1>1, <1>5, <2>1 DEF BaseRuns
<1>7. \/ base = None /\ base' = None
      \/ /\ base # None /\ base \in BaseDir /\ base' \in BaseDir /\ base'.marker
         /\ base'.inc = base.inc /\ base'.gen = base.gen /\ base'.chunks = base.chunks
         /\ base'.snap = base.snap
  <2>1. CASE base = None
    BY <2>1 DEF BaseScan
  <2>2. CASE base # None
    <3>1. base \in BaseDir /\ base' = [base EXCEPT !.marker = TRUE]
      BY <2>2 DEF BaseScan, Typed, TypeOK
    <3>2. base' \in BaseDir
      BY <3>1, BaseSet
    <3>q. QED
      BY <2>2, <3>1, <3>2 DEF BaseDir
  <2>q. QED
    BY <2>1, <2>2
<1>8. TypeOK'
  BY <1>2, <1>6, <1>7 DEF Typed, TypeOK, fsVars, historyVars
<1>9. Nested' /\ TreePhase'
  BY <1>1, <1>2, <1>6 DEF Typed, Nested, TreePhase
<1>10. BasePhase'
  BY <1>1, <1>4, <1>6, <1>7, OverlayAssumption DEF BasePhase
<1>q. QED
  BY <1>1, <1>2, <1>6, <1>7, <1>8, <1>9, <1>10 DEF Typed, changed

\* What a run commits of the files it read.
Committed == [p \in Paths |-> IF p \notin baseRun.changed THEN base.chunks[p]
                              ELSE IF baseRun.snap[p] = 0 THEN None
                              ELSE baseFs[p].c]

\* ... and the stamps it will save.
Vanishing == [p \in Paths |-> IF p \in baseRun.changed /\ baseRun.snap[p] # 0
                                   /\ baseFs[p].c = None
                               THEN Vanished ELSE baseRun.snap[p]]

\* Reading the changed files and committing their chunks.
LEMMA BaseWriteType ==
  ASSUME Typed, BaseWrite
  PROVE  /\ Typed' /\ treeRun' = treeRun
         /\ baseRun # None /\ baseRun \in BaseRuns /\ baseRun.pc = "write"
         /\ base # None => base \in BaseDir /\ base.marker
         /\ IF baseRun.fresh THEN baseRun.changed = Paths ELSE base # None
         /\ baseRun' \in BaseRuns /\ baseRun'.pc = "publish" /\ baseRun'.git = baseRun.git
         /\ baseRun'.snap = Vanishing
         /\ base' \in BaseDir /\ base' # None /\ base'.marker /\ base'.chunks = Committed
         /\ IF baseRun.fresh THEN base'.inc = nextInc /\ nextInc' = nextInc + 1
            ELSE base'.inc = base.inc /\ base'.gen = base.gen /\ nextInc' = nextInc
<1> DEFINE lost == \E p \in baseRun.changed : baseRun.snap[p] # 0 /\ baseFs[p].c = None
           inc == IF baseRun.fresh THEN nextInc ELSE base.inc
           gen == IF base = None THEN 0 ELSE base.gen
           snap == IF base = None THEN NoFiles ELSE base.snap
           git == IF base = None THEN None ELSE base.git
<1>1. /\ baseRun \in BaseRuns /\ baseRun # None /\ baseRun.pc = "write"
      /\ base # None => base \in BaseDir /\ base.marker
      /\ IF baseRun.fresh THEN baseRun.changed = Paths ELSE base # None
  BY DEF BaseWrite, BaseGo, Typed, TypeOK, BasePhase
<1>2. UNCHANGED <<fsVars, over, treeRun, historyVars>>
      /\ nextInc' = IF baseRun.fresh THEN nextInc + 1 ELSE nextInc
  BY DEF BaseWrite
<1>3. Vanishing \in PathStamps /\ {} \in SUBSET Paths /\ lost \in BOOLEAN
  BY <1>1 DEF Vanishing, PathStamps, BaseRuns, Vanished
<1>4. Committed \in PathTexts
  <2>1. \A p \in Paths : baseFs[p].c \in Contents \cup {None}
    BY DEF Typed, TypeOK, Files
  <2>2. \A p \in Paths : p \notin baseRun.changed => base.chunks[p] \in Contents \cup {None}
    BY <1>1 DEF BaseDir, PathTexts
  <2>q. QED
    BY <2>1, <2>2 DEF Committed, PathTexts
<1>5. inc \in Nat /\ gen \in Nat /\ snap \in PathStamps /\ git \in Git \cup {None}
  <2>1. nextInc \in Nat /\ NoFiles \in PathStamps
    BY ReadTypes DEF Typed, TypeOK
  <2>2. CASE base = None
    BY <1>1, <2>1, <2>2
  <2>3. CASE base # None
    BY <1>1, <2>1, <2>3 DEF BaseDir
  <2>q. QED
    BY <2>2, <2>3
<1>6. base' = [inc |-> inc, gen |-> gen, snap |-> snap, chunks |-> Committed,
               marker |-> TRUE, git |-> git]
  BY DEF BaseWrite, Committed
<1>7. baseRun' = [baseRun EXCEPT !.pc = "publish", !.changed = {}, !.lost = lost,
                                 !.snap = Vanishing]
  BY DEF BaseWrite, Vanishing
<1>8. base'.inc = inc /\ base'.gen = gen /\ base'.chunks = Committed /\ base'.marker
  BY <1>6
<1> HIDE DEF lost, inc, gen, snap, git
<1>9. base' \in BaseDir /\ base' # None
  <2>1. base' \in BaseDir
    BY <1>4, <1>5, <1>6 DEF BaseDir
  <2>q. QED
    BY <2>1, OverlayAssumption
<1>10. /\ baseRun' \in BaseRuns /\ baseRun'.pc = "publish" /\ baseRun'.git = baseRun.git
       /\ baseRun'.snap = Vanishing /\ baseRun'.nested = baseRun.nested
  <2>1. baseRun' \in BaseRuns
    BY <1>1, <1>3, <1>7, BaseRunSet
  <2>q. QED
    BY <1>1, <1>7, <2>1 DEF BaseRuns
<1>11. IF baseRun.fresh THEN base'.inc = nextInc /\ nextInc' = nextInc + 1
       ELSE base'.inc = base.inc /\ base'.gen = base.gen /\ nextInc' = nextInc
  BY <1>1, <1>2, <1>8 DEF inc, gen
<1>12. TypeOK'
  BY <1>2, <1>9, <1>10 DEF Typed, TypeOK, fsVars, historyVars
<1>13. Nested' /\ TreePhase'
  BY <1>1, <1>2, <1>10 DEF Typed, Nested, TreePhase
<1>14. BasePhase'
  BY <1>8, <1>9, <1>10 DEF BasePhase
<1>q. QED
  BY <1>1, <1>2, <1>8, <1>9, <1>10, <1>11, <1>12, <1>13, <1>14 DEF Typed

\* Publishing the generation.
LEMMA BasePublishType ==
  ASSUME Typed, BasePublish
  PROVE  /\ Typed' /\ treeRun' = treeRun
         /\ baseRun # None /\ baseRun \in BaseRuns /\ baseRun.pc = "publish"
         /\ baseRun' \in BaseRuns /\ baseRun'.pc = "finish" /\ baseRun'.git = baseRun.git
         /\ baseRun'.snap = baseRun.snap
         /\ base # None /\ base \in BaseDir /\ base' \in BaseDir /\ base' # None
         /\ base'.marker /\ base'.chunks = base.chunks /\ base'.inc = base.inc
         /\ base'.gen = base.gen + 1
<1>1. /\ baseRun \in BaseRuns /\ baseRun # None /\ baseRun.pc = "publish"
      /\ base # None /\ base \in BaseDir /\ base.marker
  BY DEF BasePublish, BaseGo, Typed, TypeOK, BasePhase
<1>2. UNCHANGED <<fsVars, over, treeRun, historyVars, nextInc>>
      /\ base' = [base EXCEPT !.gen = @ + 1] /\ baseRun' = [baseRun EXCEPT !.pc = "finish"]
  BY DEF BasePublish
<1>3. base' \in BaseDir /\ base' # None
  BY <1>1, <1>2, BaseSet, OverlayAssumption
<1>4. base'.marker /\ base'.chunks = base.chunks /\ base'.inc = base.inc
         /\ base'.gen = base.gen + 1
  BY <1>1, <1>2 DEF BaseDir
<1>5. baseRun' \in BaseRuns
  BY <1>1, <1>2, BaseRunSet
<1>6. baseRun'.pc = "finish" /\ baseRun'.git = baseRun.git /\ baseRun'.snap = baseRun.snap
      /\ baseRun'.nested = baseRun.nested
  BY <1>1, <1>2 DEF BaseRuns
<1>7. TypeOK'
  BY <1>2, <1>3, <1>5 DEF Typed, TypeOK, fsVars, historyVars
<1>8. Nested' /\ TreePhase' /\ BasePhase'
  BY <1>1, <1>2, <1>3, <1>4, <1>6 DEF Typed, Nested, TreePhase, BasePhase
<1>q. QED
  BY <1>1, <1>2, <1>3, <1>4, <1>5, <1>6, <1>7, <1>8 DEF Typed

\* The snapshot, the end of the marker and the checkout state.
LEMMA BaseFinishType ==
  ASSUME Typed, BaseFinish
  PROVE  /\ Typed' /\ Waiter /\ baseRun' = None
         /\ baseRun # None /\ baseRun \in BaseRuns /\ baseRun.pc = "finish"
         /\ base # None /\ base \in BaseDir /\ base.marker
         /\ base' \in BaseDir /\ base' # None /\ ~base'.marker
         /\ base'.chunks = base.chunks /\ base'.inc = base.inc /\ base'.gen = base.gen
         /\ base'.snap = baseRun.snap
         /\ base'.git # None =>
              /\ base'.git = baseRun.git /\ baseRun.git = Captured
              /\ \A p \in Paths : baseRun.snap[p] # 0 => baseRun.snap[p] = Stamps(baseFs)[p]
<1> DEFINE done == [base EXCEPT !.snap = baseRun.snap, !.marker = FALSE]
           git == IF baseRun.lost THEN None ELSE baseRun.git
<1>1. /\ baseRun \in BaseRuns /\ baseRun # None /\ baseRun.pc = "finish"
      /\ base # None /\ base \in BaseDir /\ base.marker
  BY DEF BaseFinish, BaseGo, Typed, TypeOK, BasePhase
<1>2. UNCHANGED <<fsVars, over, historyVars, nextInc>> /\ BaseEnds(Onward)
      /\ base' = [done EXCEPT !.git = Recorded(git, done)]
  BY DEF BaseFinish
<1>3. done \in BaseDir
  BY <1>1, BaseSet DEF BaseRuns
<1>4. done.chunks = base.chunks /\ done.inc = base.inc /\ done.gen = base.gen
      /\ done.snap = baseRun.snap /\ ~done.marker
  BY <1>1 DEF BaseDir
<1>5. git \in Git \cup {None} /\ (git # None => git = baseRun.git)
  BY <1>1 DEF BaseRuns
<1> HIDE DEF done, git
<1>6. Recorded(git, done) \in Git \cup {None}
  BY <1>5, RecordedType
<1>7. GitOnly(done, base') /\ base'.git = Recorded(git, done)
  BY <1>2, <1>3, <1>6, GitOnlyRecorded
<1>8. Recorded(git, done) # None =>
        /\ git # None /\ Recorded(git, done) = git /\ git = Captured
        /\ \A p \in Paths : done.snap[p] # 0 => done.snap[p] = Stamps(baseFs)[p]
  BY DEF Recorded
<1>9. baseRun' = None /\ treeRun' \in TreeRuns \cup {None}
         /\ Nested' /\ BasePhase' /\ TreePhase' /\ Waiter
  BY <1>1, <1>2, BaseEndsType DEF Typed
<1>10. TypeOK'
  BY <1>2, <1>7, <1>9 DEF Typed, TypeOK, fsVars, historyVars, GitOnly
<1>q. QED
  BY <1>1, <1>4, <1>5, <1>7, <1>8, <1>9, <1>10 DEF Typed, GitOnly

\* A run that fails, and the removal of the directory.
LEMMA BaseEndType ==
  ASSUME Typed, BaseFails \/ BaseRemoved
  PROVE  /\ Typed' /\ Waiter /\ baseRun' = None
         /\ base' = base \/ base' = None
<1>1. CASE BaseFails
  <2>1. baseRun # None /\ BaseEnds(None)
        /\ UNCHANGED <<fsVars, base, over, historyVars, nextInc>>
    BY <1>1 DEF BaseFails
  <2>2. baseRun' = None /\ treeRun' \in TreeRuns \cup {None}
         /\ Nested' /\ BasePhase' /\ TreePhase' /\ Waiter
    BY <2>1, BaseEndsType DEF Typed
  <2>3. TypeOK'
    BY <2>1, <2>2 DEF Typed, TypeOK, fsVars, historyVars
  <2>q. QED
    BY <2>1, <2>2, <2>3 DEF Typed
<1>2. CASE BaseRemoved
  <2>1. baseRun = None /\ base' = None
        /\ UNCHANGED <<fsVars, over, baseRun, treeRun, historyVars, nextInc>>
    BY <1>2 DEF BaseRemoved
  <2>2. TypeOK'
    BY <2>1 DEF Typed, TypeOK, fsVars, historyVars
  <2>3. Nested' /\ BasePhase' /\ TreePhase'
    BY <2>1 DEF Typed, Nested, BasePhase, TreePhase
  <2>q. QED
    BY <2>1, <2>2, <2>3 DEF Typed, Waiter
<1>q. QED
  BY <1>1, <1>2

\* HEAD is the recorded one and .git/index is not: the base's snapshot is taken
\* again.
LEMMA BaseTouchedType ==
  ASSUME Typed, BaseTouched
  PROVE  /\ Typed' /\ treeRun' = treeRun /\ baseRun = None
         /\ baseRun' \in BaseRuns /\ baseRun'.pc = "resnap" /\ baseRun'.git = None
         /\ base' = base /\ base # None /\ base \in BaseDir /\ ~base.marker
         /\ Clean /\ base.git # None /\ base.git.head = head
<1>1. AwaitsBase /\ CheckoutState = "metadataChanged"
      /\ baseRun' = [NewRun EXCEPT !.pc = "resnap", !.nested = TRUE]
      /\ UNCHANGED <<fsVars, base, over, treeRun, historyVars, nextInc>>
  BY DEF BaseTouched
<1>2. baseRun = None /\ treeRun # None /\ treeRun.pc = "base"
  BY <1>1 DEF AwaitsBase
<1>3. ~(base = None \/ Marked(base))
  BY <1>1 DEF CheckoutState
<1>4. ~(Captured = None \/ base.git = None \/ base.git.head # head)
  BY <1>1, <1>3 DEF CheckoutState
<1>5. base # None /\ base \in BaseDir /\ ~base.marker
  BY <1>3 DEF Marked, Typed, TypeOK
<1>6. Clean
  BY <1>4 DEF Captured
<1>7. baseRun' \in BaseRuns
  BY <1>1, NewRunTypes, BaseRunSet
<1>8. baseRun'.pc = "resnap" /\ baseRun'.git = None /\ baseRun'.nested
  BY <1>1 DEF NewRun
<1>9. TypeOK'
  BY <1>1, <1>7 DEF Typed, TypeOK, fsVars, historyVars
<1>10. Nested' /\ BasePhase' /\ TreePhase'
  BY <1>1, <1>2, <1>5, <1>8 DEF Typed, Nested, BasePhase, TreePhase
<1>q. QED
  BY <1>1, <1>2, <1>4, <1>5, <1>6, <1>7, <1>8, <1>9, <1>10 DEF Typed

\* The walk that saves the snapshot.
LEMMA BaseResnapType ==
  ASSUME Typed, BaseResnap
  PROVE  /\ Typed' /\ treeRun' = treeRun
         /\ baseRun # None /\ baseRun \in BaseRuns /\ baseRun.pc = "resnap"
         /\ baseRun' \in BaseRuns /\ baseRun'.pc = "record" /\ baseRun'.git = Captured
         /\ base # None /\ base \in BaseDir /\ ~base.marker
         /\ base' \in BaseDir /\ base' # None /\ ~base'.marker
         /\ base'.chunks = base.chunks /\ base'.inc = base.inc /\ base'.gen = base.gen
         /\ base'.git = base.git /\ base'.snap = Stamps(baseFs)
<1>1. /\ baseRun \in BaseRuns /\ baseRun # None /\ baseRun.pc = "resnap"
      /\ base # None /\ base \in BaseDir /\ ~base.marker
  BY DEF BaseResnap, BaseGo, Typed, TypeOK, BasePhase
<1>2. UNCHANGED <<baseFs, treeFs, head, staged, over, treeRun, historyVars, nextInc>>
      /\ base' = [base EXCEPT !.snap = Stamps(baseFs)]
      /\ baseRun' = [baseRun EXCEPT !.pc = "record", !.git = Captured]
  BY DEF BaseResnap
<1>3. Stamps(baseFs) \in PathStamps /\ Captured \in Git \cup {None}
  BY ReadTypes DEF Typed
<1>4. base' \in BaseDir /\ base' # None
  BY <1>1, <1>2, <1>3, BaseSet, OverlayAssumption
<1>5. /\ base'.chunks = base.chunks /\ base'.inc = base.inc /\ base'.gen = base.gen
      /\ base'.git = base.git /\ base'.snap = Stamps(baseFs) /\ ~base'.marker
  BY <1>1, <1>2 DEF BaseDir
<1>6. baseRun' \in BaseRuns
  BY <1>1, <1>2, <1>3, BaseRunSet
<1>7. baseRun'.pc = "record" /\ baseRun'.git = Captured /\ baseRun'.nested = baseRun.nested
  BY <1>1, <1>2 DEF BaseRuns
<1>8. TypeOK'
  <2>1. slipped' \in BOOLEAN
    BY Zenon DEF BaseResnap
  <2>q. QED
    BY <1>2, <1>4, <1>6, <2>1 DEF Typed, TypeOK, historyVars
<1>9. Nested' /\ TreePhase' /\ BasePhase'
  BY <1>1, <1>2, <1>4, <1>5, <1>7 DEF Typed, Nested, TreePhase, BasePhase
<1>q. QED
  BY <1>1, <1>2, <1>4, <1>5, <1>6, <1>7, <1>8, <1>9 DEF Typed

\* Recording the state, or starting to index after all.
LEMMA BaseRecordType ==
  ASSUME Typed, BaseRecord
  PROVE  /\ Typed' /\ Waiter
         /\ baseRun # None /\ baseRun \in BaseRuns /\ baseRun.pc = "record"
         /\ base # None /\ base \in BaseDir /\ ~base.marker /\ GitOnly(base, base')
         /\ base'.git = Recorded(baseRun.git, base)
         /\ \/ baseRun' = None
            \/ baseRun' \in BaseRuns /\ baseRun'.pc = "scan" /\ baseRun'.git = Captured
<1>1. /\ baseRun \in BaseRuns /\ baseRun # None /\ baseRun.pc = "record"
      /\ base # None /\ base \in BaseDir /\ ~base.marker
  BY DEF BaseRecord, BaseGo, Typed, TypeOK, BasePhase
<1>2. UNCHANGED <<fsVars, over, historyVars, nextInc>>
      /\ base' = [base EXCEPT !.git = Recorded(baseRun.git, base)]
  BY DEF BaseRecord
<1>3. Recorded(baseRun.git, base) \in Git \cup {None}
  BY <1>1, RecordedType DEF BaseRuns
<1>4. GitOnly(base, base') /\ base'.git = Recorded(baseRun.git, base)
  BY <1>1, <1>2, <1>3, GitOnlyRecorded
<1>5. CASE BaseEnds(Onward)
  <2>1. baseRun' = None /\ treeRun' \in TreeRuns \cup {None}
         /\ Nested' /\ BasePhase' /\ TreePhase' /\ Waiter
    BY <1>1, <1>2, <1>5, BaseEndsType DEF Typed
  <2>2. TypeOK'
    BY <1>2, <1>4, <2>1 DEF Typed, TypeOK, fsVars, historyVars, GitOnly
  <2>q. QED
    BY <1>1, <1>4, <2>1, <2>2 DEF Typed
<1>6. CASE base'.git = None /\ UNCHANGED treeRun
           /\ baseRun' = [NewRun EXCEPT !.git = Captured, !.nested = TRUE]
  <2>1. Captured \in Git \cup {None}
    BY ReadTypes DEF Typed
  <2>2. baseRun' \in BaseRuns
    BY <1>6, <2>1, NewRunTypes, BaseRunSet
  <2>3. baseRun'.pc = "scan" /\ baseRun'.git = Captured /\ ~baseRun'.fresh
    BY <1>6 DEF NewRun
  <2>4. TypeOK'
    BY <1>2, <1>4, <1>6, <2>2 DEF Typed, TypeOK, fsVars, historyVars, GitOnly
  <2>5. treeRun # None /\ treeRun.pc = "base"
    BY <1>1 DEF Typed, Nested, BasePhase
  <2>6. Nested' /\ BasePhase' /\ TreePhase'
    BY <1>1, <1>2, <1>4, <1>6, <2>3, <2>5 DEF Typed, Nested, BasePhase, TreePhase, GitOnly
  <2>q. QED
    BY <1>1, <1>4, <1>6, <2>2, <2>3, <2>4, <2>6 DEF Typed, Waiter
<1>q. QED
  BY <1>5, <1>6 DEF BaseRecord

\* A run over the base that nobody waits for.
Alone == baseRun = None \/ ~baseRun.nested

\* A run over the worktree that is past its wait has no run waiting for it.
LEMMA TreeAlone ==
  ASSUME Typed, treeRun = None \/ treeRun.pc # "base"
  PROVE  Alone
BY DEF Alone, Typed, Nested

\* What the steps of a run over the worktree leave alone.
TreeOnly == UNCHANGED <<fsVars, base, baseRun, nextInc>>

\* Such a step is typed when what it writes is.
LEMMA TreeTyped ==
  ASSUME Typed, TreeOnly, Alone, TreePhase', over' \in OverDir \cup {None},
         treeRun' \in TreeRuns \cup {None},
         since' \in [Paths -> SUBSET (Contents \cup {None})],
         fresh' \in [Paths -> SUBSET (Contents \cup {None})]
  PROVE  Typed'
<1>1. TypeOK'
  BY DEF Typed, TypeOK, TreeOnly, fsVars
<1>2. Nested' /\ BasePhase'
  BY DEF Typed, TreeOnly, Alone, Nested, BasePhase
<1>q. QED
  BY <1>1, <1>2 DEF Typed

\* A run that only goes one step on: its directory and the history stay.
LEMMA TreeGoesOn ==
  ASSUME Typed, TreeOnly, Alone, UNCHANGED <<over, historyVars>>,
         treeRun' \in TreeRuns \cup {None}, TreePhase'
  PROVE  Typed'
<1>1. over' \in OverDir \cup {None} /\ since' \in [Paths -> SUBSET (Contents \cup {None})]
      /\ fresh' \in [Paths -> SUBSET (Contents \cup {None})]
  BY DEF Typed, TypeOK, historyVars
<1>q. QED
  BY <1>1, TreeTyped

\* A run over the worktree ends without a result.
LEMMA TreeEndType ==
  ASSUME Typed, CaptureFails \/ SnapshotInvalid \/ TreeFails
  PROVE  /\ Typed' /\ TreeOnly /\ treeRun' = None
         /\ UNCHANGED <<over, historyVars>>
<1>1. TreeOnly /\ treeRun' = None /\ UNCHANGED <<over, historyVars>>
  BY DEF CaptureFails, SnapshotInvalid, TreeFails, TreeOnly
<1>2. Alone
  BY TreeAlone DEF CaptureFails, SnapshotInvalid, TreeFails, TreeGo, Alone
<1>3. TreePhase'
  BY <1>1 DEF TreePhase
<1>q. QED
  BY <1>1, <1>2, <1>3, TreeGoesOn

\* A run over the worktree starts.
LEMMA TreeStartType ==
  ASSUME Typed, TreeStart
  PROVE  /\ Typed' /\ TreeOnly /\ UNCHANGED <<over, historyVars>> /\ treeRun = None
         /\ treeRun' \in TreeRuns /\ treeRun'.pc \in {"base", "compare"}
         /\ treeRun'.ref = None
         /\ treeRun'.pc = "compare" => over # None /\ over.ready /\ ~over.marker
<1>1. TreeOnly /\ UNCHANGED <<over, historyVars>> /\ treeRun = None
  BY DEF TreeStart, TreeOnly
<1>2. PICK course \in Courses : treeRun' = [NewTreeRun EXCEPT !.pc = course]
  BY DEF TreeStart
<1>3. course \in {"base", "compare"}
      /\ (course = "compare" => over # None /\ over.ready /\ ~over.marker)
  BY DEF Courses
<1>4. treeRun' \in TreeRuns
  BY <1>2, <1>3, NewRunTypes, TreeRunSet
<1>5. treeRun'.pc = course /\ treeRun'.ref = None
  BY <1>2 DEF NewTreeRun
<1>6. TreePhase' /\ Alone
  BY <1>1, <1>3, <1>5, TreeAlone DEF TreePhase
<1>q. QED
  BY <1>1, <1>3, <1>4, <1>5, <1>6, TreeGoesOn

\* The base needs no run.
LEMMA BaseCurrentType ==
  ASSUME Typed, BaseCurrent
  PROVE  Typed' /\ TreeOnly /\ UNCHANGED <<over, historyVars>> /\ Waiter
<1>1. TreeOnly /\ UNCHANGED <<over, historyVars>> /\ baseRun = None
      /\ treeRun # None /\ treeRun.pc = "base" /\ treeRun \in TreeRuns /\ treeRun' = Onward
  BY DEF BaseCurrent, TreeOnly, AwaitsBase, Typed, TypeOK
<1>2. treeRun' \in TreeRuns
  BY <1>1, TreeRunSet DEF Onward
<1>3. treeRun'.pc = "capture"
  BY <1>1 DEF Onward, TreeRuns
<1>4. TreePhase' /\ Alone /\ Waiter
  BY <1>1, <1>2, <1>3 DEF TreePhase, Alone, Waiter
<1>q. QED
  BY <1>1, <1>2, <1>4, TreeGoesOn

\* The base's published state.
LEMMA CaptureBaseType ==
  ASSUME Typed, CaptureBase
  PROVE  /\ Typed' /\ TreeOnly /\ UNCHANGED <<over, historyVars>>
         /\ treeRun' \in TreeRuns /\ treeRun'.pc = "live" /\ treeRun'.ref \in Ref
         /\ treeRun'.indexed = base.snap
         /\ treeRun'.ref = [inc |-> base.inc, gen |-> base.gen]
         /\ baseRun = None /\ base # None /\ base \in BaseDir /\ ~base.marker
<1>1. /\ TreeOnly /\ UNCHANGED <<over, historyVars>> /\ baseRun = None
      /\ treeRun # None /\ treeRun \in TreeRuns /\ treeRun.pc = "capture"
      /\ base # None /\ base \in BaseDir /\ ~base.marker
      /\ treeRun' = [treeRun EXCEPT !.pc = "live", !.indexed = base.snap,
                                    !.ref = [inc |-> base.inc, gen |-> base.gen]]
  BY DEF CaptureBase, TreeGo, TreeOnly, Marked, Typed, TypeOK
<1>2. base.snap \in PathStamps /\ [inc |-> base.inc, gen |-> base.gen] \in Ref
  BY <1>1 DEF BaseDir, Ref
<1>3. treeRun' \in TreeRuns
  BY <1>1, <1>2, TreeRunSet
<1>4. /\ treeRun'.pc = "live" /\ treeRun'.indexed = base.snap
      /\ treeRun'.ref = [inc |-> base.inc, gen |-> base.gen]
  BY <1>1 DEF TreeRuns
<1>5. TreePhase' /\ Alone
  BY <1>1, <1>2, <1>4, TreeAlone DEF TreePhase
<1>q. QED
  BY <1>1, <1>2, <1>3, <1>4, <1>5, TreeGoesOn

\* The base's files.
LEMMA ReadBaseType ==
  ASSUME Typed, ReadBase
  PROVE  /\ Typed' /\ TreeOnly /\ UNCHANGED <<over, historyVars>>
         /\ treeRun # None /\ treeRun \in TreeRuns /\ treeRun.pc = "live"
         /\ treeRun' \in TreeRuns /\ treeRun'.pc = "stamps" /\ treeRun'.ref = treeRun.ref
         /\ treeRun'.indexed = treeRun.indexed /\ treeRun'.old = Texts(baseFs)
<1>1. /\ TreeOnly /\ UNCHANGED <<over, historyVars>>
      /\ treeRun # None /\ treeRun \in TreeRuns /\ treeRun.pc = "live" /\ treeRun.ref \in Ref
      /\ treeRun' = [treeRun EXCEPT !.pc = "stamps", !.old = Texts(baseFs)]
  BY DEF ReadBase, TreeGo, TreeOnly, Typed, TypeOK, TreePhase
<1>2. treeRun' \in TreeRuns
  BY <1>1, ReadTypes, TreeRunSet DEF Typed
<1>3. /\ treeRun'.pc = "stamps" /\ treeRun'.ref = treeRun.ref
      /\ treeRun'.indexed = treeRun.indexed /\ treeRun'.old = Texts(baseFs)
  BY <1>1 DEF TreeRuns
<1>4. TreePhase' /\ Alone
  BY <1>1, <1>3, TreeAlone DEF TreePhase
<1>q. QED
  BY <1>1, <1>2, <1>3, <1>4, TreeGoesOn

\* The contents at a moment are contents.
LEMMA NowType ==
  ASSUME TypeOK
  PROVE  [p \in Paths |-> {treeFs[p].c}] \in [Paths -> SUBSET (Contents \cup {None})]
BY DEF TypeOK, Files

\* The worktree's stamps.
LEMMA ReadStampsType ==
  ASSUME Typed, ReadStamps
  PROVE  /\ Typed' /\ TreeOnly /\ UNCHANGED <<over, since>>
         /\ fresh' = [p \in Paths |-> {treeFs[p].c}]
         /\ treeRun # None /\ treeRun \in TreeRuns /\ treeRun.pc = "stamps"
         /\ treeRun' \in TreeRuns /\ treeRun'.pc = "contents" /\ treeRun'.ref = treeRun.ref
         /\ treeRun'.indexed = treeRun.indexed /\ treeRun'.old = treeRun.old
         /\ treeRun'.meta = Stamps(treeFs)
<1>1. /\ TreeOnly /\ UNCHANGED <<over, since>> /\ fresh' = [p \in Paths |-> {treeFs[p].c}]
      /\ treeRun # None /\ treeRun \in TreeRuns /\ treeRun.pc = "stamps" /\ treeRun.ref \in Ref
      /\ treeRun' = [treeRun EXCEPT !.pc = "contents", !.meta = Stamps(treeFs)]
  BY DEF ReadStamps, TreeGo, TreeOnly, Typed, TypeOK, TreePhase
<1>2. treeRun' \in TreeRuns
  BY <1>1, ReadTypes, TreeRunSet DEF Typed
<1>3. /\ treeRun'.pc = "contents" /\ treeRun'.ref = treeRun.ref /\ treeRun'.old = treeRun.old
      /\ treeRun'.indexed = treeRun.indexed /\ treeRun'.meta = Stamps(treeFs)
  BY <1>1 DEF TreeRuns
<1>4. TreePhase' /\ Alone
  BY <1>1, <1>3, TreeAlone DEF TreePhase
<1>5. over' \in OverDir \cup {None} /\ since' \in [Paths -> SUBSET (Contents \cup {None})]
      /\ fresh' \in [Paths -> SUBSET (Contents \cup {None})]
  BY <1>1, NowType DEF Typed, TypeOK
<1>q. QED
  BY <1>1, <1>2, <1>3, <1>4, <1>5, TreeTyped

\* The worktree's contents.
LEMMA ReadContentsType ==
  ASSUME Typed, ReadContents
  PROVE  /\ Typed' /\ TreeOnly /\ UNCHANGED <<over, historyVars>>
         /\ treeRun # None /\ treeRun \in TreeRuns /\ treeRun.pc = "contents"
         /\ treeRun' \in TreeRuns /\ treeRun'.pc = "diff" /\ treeRun'.ref = treeRun.ref
         /\ treeRun'.indexed = treeRun.indexed /\ treeRun'.old = treeRun.old
         /\ treeRun'.meta = treeRun.meta /\ treeRun'.new = Texts(treeFs)
<1>1. /\ TreeOnly /\ UNCHANGED <<over, historyVars>>
      /\ treeRun # None /\ treeRun \in TreeRuns /\ treeRun.pc = "contents" /\ treeRun.ref \in Ref
      /\ treeRun' = [treeRun EXCEPT !.pc = "diff", !.new = Texts(treeFs)]
  BY DEF ReadContents, TreeGo, TreeOnly, Typed, TypeOK, TreePhase
<1>2. treeRun' \in TreeRuns
  BY <1>1, ReadTypes, TreeRunSet DEF Typed
<1>3. /\ treeRun'.pc = "diff" /\ treeRun'.ref = treeRun.ref /\ treeRun'.old = treeRun.old
      /\ treeRun'.indexed = treeRun.indexed /\ treeRun'.meta = treeRun.meta
      /\ treeRun'.new = Texts(treeFs)
  BY <1>1 DEF TreeRuns
<1>4. TreePhase' /\ Alone
  BY <1>1, <1>3, TreeAlone DEF TreePhase
<1>q. QED
  BY <1>1, <1>2, <1>3, <1>4, TreeGoesOn

\* What a first diff takes into the overlay and what it finds gone.
DiffTake == {p \in Paths : treeRun.new[p] # None /\ ~Inherited(p)}
DiffGone == {p \in Paths : treeRun.new[p] = None /\ treeRun.indexed[p] # 0}
DiffHide == DiffGone \cup {p \in DiffTake : treeRun.indexed[p] # 0}

\* initial_overlay_diff
LEMMA InitialDiffType ==
  ASSUME Typed, InitialDiff
  PROVE  /\ Typed' /\ TreeOnly /\ UNCHANGED <<over, historyVars>> /\ SnapshotValid
         /\ treeRun # None /\ treeRun \in TreeRuns /\ treeRun.pc = "diff"
         /\ treeRun' \in TreeRuns /\ treeRun'.pc = "build" /\ treeRun'.ref = treeRun.ref
         /\ treeRun'.meta = treeRun.meta
         /\ treeRun'.take = DiffTake /\ treeRun'.hide = DiffHide
<1>1. /\ TreeOnly /\ UNCHANGED <<over, historyVars>> /\ SnapshotValid
      /\ treeRun # None /\ treeRun \in TreeRuns /\ treeRun.pc = "diff" /\ treeRun.ref \in Ref
      /\ treeRun' = [treeRun EXCEPT !.pc = "build", !.take = DiffTake, !.hide = DiffHide,
                                    !.indexed = NoFiles, !.old = NoTexts, !.new = NoTexts]
  BY DEF InitialDiff, TreeGo, TreeOnly, Typed, TypeOK, TreePhase, DiffTake, DiffGone, DiffHide
<1>2. /\ DiffTake \in SUBSET Paths /\ DiffHide \in SUBSET Paths
      /\ NoFiles \in PathStamps /\ NoTexts \in PathTexts
  BY ReadTypes DEF DiffTake, DiffGone, DiffHide, Typed
<1>3. treeRun' \in TreeRuns
  BY <1>1, <1>2, TreeRunDiff
<1>4. /\ treeRun'.pc = "build" /\ treeRun'.ref = treeRun.ref /\ treeRun'.meta = treeRun.meta
      /\ treeRun'.take = DiffTake /\ treeRun'.hide = DiffHide
  BY <1>1 DEF TreeRuns
<1>5. TreePhase' /\ Alone
  BY <1>1, <1>4, TreeAlone DEF TreePhase
<1>q. QED
  BY <1>1, <1>3, <1>4, <1>5, TreeGoesOn

\* Chunks and the stamps that go with them.
LEMMA ChunkTypes ==
  ASSUME TypeOK, NEW A \in SUBSET Paths, NEW s \in PathStamps
  PROVE  Chunked(A) \in PathTexts /\ WithVanished(s, A) \in PathStamps
BY DEF TypeOK, Files, Chunked, WithVanished, Vanished, PathTexts, PathStamps

\* Building the overlay.
LEMMA BuildOverlayType ==
  ASSUME Typed, BuildOverlay
  PROVE  /\ Typed' /\ TreeOnly /\ UNCHANGED <<over, historyVars>>
         /\ treeRun # None /\ treeRun \in TreeRuns /\ treeRun.pc = "build"
         /\ treeRun' \in TreeRuns /\ treeRun'.pc = "promote" /\ treeRun'.ref = treeRun.ref
         /\ treeRun'.meta = WithVanished(treeRun.meta, treeRun.take)
         /\ treeRun'.new = Chunked(treeRun.take) /\ treeRun'.hide = treeRun.hide
<1>1. /\ TreeOnly /\ UNCHANGED <<over, historyVars>>
      /\ treeRun # None /\ treeRun \in TreeRuns /\ treeRun.pc = "build" /\ treeRun.ref \in Ref
      /\ treeRun' = [treeRun EXCEPT !.pc = "promote", !.new = Chunked(treeRun.take),
                         !.meta = WithVanished(treeRun.meta, treeRun.take), !.take = {}]
  BY DEF BuildOverlay, TreeGo, TreeOnly, Typed, TypeOK, TreePhase
<1>2. treeRun.take \in SUBSET Paths /\ treeRun.meta \in PathStamps /\ {} \in SUBSET Paths
  BY <1>1 DEF TreeRuns
<1>3. Chunked(treeRun.take) \in PathTexts
      /\ WithVanished(treeRun.meta, treeRun.take) \in PathStamps
  BY <1>2, ChunkTypes DEF Typed
<1>4. treeRun' \in TreeRuns
  BY <1>1, <1>2, <1>3, TreeRunBuild
<1>5. /\ treeRun'.pc = "promote" /\ treeRun'.ref = treeRun.ref
      /\ treeRun'.meta = WithVanished(treeRun.meta, treeRun.take)
      /\ treeRun'.new = Chunked(treeRun.take) /\ treeRun'.hide = treeRun.hide
  BY <1>1 DEF TreeRuns
<1>6. TreePhase' /\ Alone
  BY <1>1, <1>5, TreeAlone DEF TreePhase
<1>q. QED
  BY <1>1, <1>4, <1>5, <1>6, TreeGoesOn

\* The old overlay leaves.
LEMMA UnpublishType ==
  ASSUME Typed, Unpublish
  PROVE  /\ Typed' /\ TreeOnly /\ UNCHANGED historyVars
         /\ treeRun # None /\ treeRun \in TreeRuns /\ treeRun.pc = "promote"
         /\ treeRun' \in TreeRuns /\ treeRun'.pc = "publish" /\ treeRun'.ref = treeRun.ref
         /\ treeRun'.meta = treeRun.meta
         /\ treeRun'.new = treeRun.new /\ treeRun'.hide = treeRun.hide
         /\ \/ over' = None
            \/ over # None /\ over \in OverDir /\ ~over'.ready /\ over'.ref = over.ref
<1>1. /\ TreeOnly /\ UNCHANGED historyVars
      /\ treeRun # None /\ treeRun \in TreeRuns /\ treeRun.pc = "promote" /\ treeRun.ref \in Ref
      /\ treeRun' = [treeRun EXCEPT !.pc = "publish"]
      /\ over' = IF over = None THEN None ELSE [over EXCEPT !.ready = FALSE]
  BY DEF Unpublish, TreeGo, TreeOnly, Typed, TypeOK, TreePhase
<1>2. treeRun' \in TreeRuns
  BY <1>1, TreeRunSet
<1>3. /\ treeRun'.pc = "publish" /\ treeRun'.ref = treeRun.ref
      /\ treeRun'.meta = treeRun.meta
      /\ treeRun'.new = treeRun.new /\ treeRun'.hide = treeRun.hide
  BY <1>1 DEF TreeRuns
<1>4. \/ over' = None
      \/ /\ over # None /\ over \in OverDir /\ ~over'.ready /\ over'.ref = over.ref
         /\ over' \in OverDir
  <2>1. CASE over = None
    BY <1>1, <2>1
  <2>2. CASE over # None
    <3>1. over \in OverDir /\ over' = [over EXCEPT !.ready = FALSE]
      BY <1>1, <2>2 DEF Typed, TypeOK
    <3>2. over' \in OverDir
      BY <3>1, OverSet, ReadTypes DEF Typed
    <3>q. QED
      BY <2>2, <3>1, <3>2 DEF OverDir
  <2>q. QED
    BY <2>1, <2>2
<1>5. TreePhase' /\ Alone
  BY <1>1, <1>3, TreeAlone DEF TreePhase
<1>6. since' \in [Paths -> SUBSET (Contents \cup {None})]
      /\ fresh' \in [Paths -> SUBSET (Contents \cup {None})]
  BY <1>1 DEF Typed, TypeOK, historyVars
<1>q. QED
  BY <1>1, <1>2, <1>3, <1>4, <1>5, <1>6, TreeTyped

\* The new one comes.
LEMMA PublishOverlayType ==
  ASSUME Typed, PublishOverlay
  PROVE  /\ Typed' /\ TreeOnly /\ treeRun' = None /\ fresh' = fresh /\ since' = fresh
         /\ treeRun # None /\ treeRun \in TreeRuns /\ treeRun.pc = "publish"
         /\ over' \in OverDir /\ over'.ref = treeRun.ref /\ treeRun.ref \in Ref
         /\ over'.snap = treeRun.meta
         /\ over'.chunks = treeRun.new /\ over'.tombs = treeRun.hide
<1>1. /\ TreeOnly /\ treeRun' = None /\ fresh' = fresh /\ since' = fresh
      /\ treeRun # None /\ treeRun \in TreeRuns /\ treeRun.pc = "publish" /\ treeRun.ref \in Ref
      /\ over' = [ref |-> treeRun.ref, snap |-> treeRun.meta, chunks |-> treeRun.new,
                  tombs |-> treeRun.hide, marker |-> FALSE, ready |-> TRUE]
  BY DEF PublishOverlay, TreeGo, TreeOnly, Typed, TypeOK, TreePhase
<1>2. over' \in OverDir
  BY <1>1 DEF OverDir, TreeRuns
<1>3. TreePhase' /\ Alone
  BY <1>1, TreeAlone DEF TreePhase
<1>4. since' \in [Paths -> SUBSET (Contents \cup {None})]
      /\ fresh' \in [Paths -> SUBSET (Contents \cup {None})]
  BY <1>1 DEF Typed, TypeOK
<1>q. QED
  BY <1>1, <1>2, <1>3, <1>4, TreeTyped

\* An incremental run walks the worktree.
LEMMA CompareStampsType ==
  ASSUME Typed, CompareStamps
  PROVE  /\ Typed' /\ TreeOnly /\ over' = over
         /\ over # None /\ over \in OverDir /\ over.ready /\ ~over.marker
         /\ fresh' = [p \in Paths |-> {treeFs[p].c}]
         /\ treeRun # None /\ treeRun \in TreeRuns /\ treeRun.pc = "compare"
         /\ \/ Stamps(treeFs) = over.snap /\ treeRun' = None /\ since' = fresh'
            \/ /\ since' = since /\ treeRun' \in TreeRuns /\ treeRun'.pc = "sort"
               /\ treeRun'.ref = treeRun.ref /\ treeRun'.meta = Stamps(treeFs)
               /\ treeRun'.indexed = IF base = None THEN NoFiles ELSE base.snap
<1> DEFINE indexed == IF base = None THEN NoFiles ELSE base.snap
<1>1. /\ TreeOnly /\ over' = over /\ fresh' = [p \in Paths |-> {treeFs[p].c}]
      /\ over # None /\ over \in OverDir /\ over.ready /\ ~over.marker
      /\ treeRun # None /\ treeRun \in TreeRuns /\ treeRun.pc = "compare"
      /\ treeRun' = IF Stamps(treeFs) = over.snap THEN None
                    ELSE [treeRun EXCEPT !.pc = "sort", !.meta = Stamps(treeFs),
                                         !.indexed = indexed]
      /\ since' = IF Stamps(treeFs) = over.snap THEN fresh' ELSE since
  BY DEF CompareStamps, TreeGo, TreeOnly, Typed, TypeOK, TreePhase
<1>2. indexed \in PathStamps /\ Stamps(treeFs) \in PathStamps
  BY ReadTypes DEF Typed, TypeOK, BaseDir
<1> HIDE DEF indexed
<1>3. fresh' \in [Paths -> SUBSET (Contents \cup {None})]
      /\ since \in [Paths -> SUBSET (Contents \cup {None})]
  BY <1>1, NowType DEF Typed, TypeOK
<1>4. Alone
  BY <1>1, TreeAlone
<1>5. CASE Stamps(treeFs) = over.snap
  <2>1. treeRun' = None /\ since' = fresh' /\ TreePhase'
    BY <1>1, <1>5 DEF TreePhase
  <2>q. QED
    BY <1>1, <1>3, <1>4, <1>5, <2>1, TreeTyped
<1>6. CASE Stamps(treeFs) # over.snap
  <2>1. since' = since /\ treeRun' = [treeRun EXCEPT !.pc = "sort", !.meta = Stamps(treeFs),
                                                     !.indexed = indexed]
    BY <1>1, <1>6
  <2>2. treeRun' \in TreeRuns
    <3>1. [treeRun EXCEPT !.pc = "sort", !.meta = Stamps(treeFs), !.indexed = indexed]
            \in TreeRuns
      BY <1>1, <1>2, TreeRunSet
    <3>q. QED
      BY <2>1, <3>1
  <2>3. /\ treeRun'.pc = "sort" /\ treeRun'.ref = treeRun.ref /\ treeRun'.meta = Stamps(treeFs)
        /\ treeRun'.indexed = indexed
    BY <1>1, <2>1 DEF TreeRuns
  <2>4. TreePhase'
    BY <1>1, <2>3 DEF TreePhase
  <2>q. QED
    BY <1>1, <1>3, <1>4, <2>1, <2>2, <2>3, <2>4, TreeTyped DEF indexed
<1>q. QED
  BY <1>5, <1>6

\* How an incremental run sorts the paths whose stamps changed.
Changed == {p \in Paths : treeRun.meta[p] # over.snap[p]}
There == {p \in Changed : treeRun.meta[p] # 0}
Back == {p \in There : ReturnsToBase(p)}
InBase == {p \in Paths : treeRun.indexed[p] # 0}

\* Sorting the changed paths.
LEMMA SortChangesType ==
  ASSUME Typed, SortChanges
  PROVE  /\ Typed' /\ TreeOnly /\ UNCHANGED historyVars
         /\ treeRun # None /\ treeRun \in TreeRuns /\ treeRun.pc = "sort"
         /\ over # None /\ over \in OverDir /\ over.ready /\ ~over.marker
         /\ over' \in OverDir /\ over' # None /\ over'.marker /\ over'.ref = over.ref
         /\ over'.chunks = over.chunks /\ over'.tombs = over.tombs /\ over'.snap = over.snap
         /\ treeRun' \in TreeRuns /\ treeRun'.pc = "update" /\ treeRun'.ref = treeRun.ref
         /\ treeRun'.meta = treeRun.meta /\ treeRun'.take = There \ Back
         /\ treeRun'.hide = (Changed \ Back) \cap InBase
         /\ treeRun'.clear = Back \cup ((Changed \ There) \ InBase)
<1> DEFINE A == There \ Back
           B == (Changed \ Back) \cap InBase
           C == Back \cup ((Changed \ There) \ InBase)
<1>1. /\ TreeOnly /\ UNCHANGED historyVars
      /\ treeRun # None /\ treeRun \in TreeRuns /\ treeRun.pc = "sort"
      /\ over # None /\ over \in OverDir /\ over.ready /\ ~over.marker
      /\ over' = [over EXCEPT !.marker = TRUE]
      /\ treeRun' = [treeRun EXCEPT !.pc = "update", !.take = A, !.indexed = NoFiles,
                                    !.hide = B, !.clear = C]
  BY DEF SortChanges, TreeGo, TreeOnly, Typed, TypeOK, TreePhase, Changed, There, Back, InBase
<1>2. A \in SUBSET Paths /\ B \in SUBSET Paths /\ C \in SUBSET Paths
      /\ NoFiles \in PathStamps /\ NoTexts \in PathTexts
  BY ReadTypes DEF Changed, There, Back, InBase, Typed
<1> HIDE DEF A, B, C
<1>3. treeRun' \in TreeRuns
  <2>1. [treeRun EXCEPT !.pc = "update", !.take = A, !.indexed = NoFiles, !.hide = B,
                        !.clear = C] \in TreeRuns
    BY <1>1, <1>2 DEF TreeRuns
  <2>q. QED
    BY <1>1, <2>1
<1>4. /\ treeRun'.pc = "update" /\ treeRun'.ref = treeRun.ref /\ treeRun'.meta = treeRun.meta
      /\ treeRun'.take = A /\ treeRun'.hide = B /\ treeRun'.clear = C
  BY <1>1 DEF TreeRuns
<1>5. over' \in OverDir /\ over' # None
  BY <1>1, <1>2, OverSet, OverlayAssumption
<1>6. /\ over'.marker /\ over'.ref = over.ref /\ over'.ready
      /\ over'.chunks = over.chunks /\ over'.tombs = over.tombs /\ over'.snap = over.snap
  BY <1>1 DEF OverDir
<1>7. TreePhase' /\ Alone
  BY <1>1, <1>4, <1>5, <1>6, TreeAlone DEF TreePhase
<1>8. since' \in [Paths -> SUBSET (Contents \cup {None})]
      /\ fresh' \in [Paths -> SUBSET (Contents \cup {None})]
  BY <1>1 DEF Typed, TypeOK, historyVars
<1>q. QED
  BY <1>1, <1>3, <1>4, <1>5, <1>6, <1>7, <1>8, TreeTyped DEF A, B, C

\* The chunks of the overlay after an update.
Updated == [p \in Paths |-> IF p \in treeRun.clear \cup treeRun.hide \cup treeRun.take
                            THEN Chunked(treeRun.take)[p] ELSE over.chunks[p]]

\* Updating the overlay.
LEMMA UpdateOverlayType ==
  ASSUME Typed, UpdateOverlay
  PROVE  /\ Typed' /\ TreeOnly /\ UNCHANGED historyVars
         /\ treeRun # None /\ treeRun \in TreeRuns /\ treeRun.pc = "update"
         /\ over # None /\ over \in OverDir /\ over.marker
         /\ over' \in OverDir /\ over' # None /\ over'.marker /\ over'.ref = over.ref
         /\ over'.chunks = Updated
         /\ over'.tombs = (over.tombs \ treeRun.clear) \cup treeRun.hide
         /\ treeRun' \in TreeRuns /\ treeRun'.pc = "finish" /\ treeRun'.ref = treeRun.ref
         /\ treeRun'.meta = WithVanished(treeRun.meta, treeRun.take)
<1> DEFINE tombs == (over.tombs \ treeRun.clear) \cup treeRun.hide
<1>1. /\ TreeOnly /\ UNCHANGED historyVars
      /\ treeRun # None /\ treeRun \in TreeRuns /\ treeRun.pc = "update"
      /\ over # None /\ over \in OverDir /\ over.ready /\ over.marker
      /\ over' = [over EXCEPT !.chunks = Updated, !.tombs = tombs]
      /\ treeRun' = [treeRun EXCEPT !.pc = "finish",
                                    !.meta = WithVanished(treeRun.meta, treeRun.take)]
  BY DEF UpdateOverlay, TreeGo, TreeOnly, Typed, TypeOK, TreePhase, Updated
<1>2. treeRun.take \in SUBSET Paths /\ treeRun.meta \in PathStamps
      /\ over.chunks \in PathTexts /\ tombs \in SUBSET Paths
  BY <1>1 DEF TreeRuns, OverDir
<1> HIDE DEF tombs
<1>3. Chunked(treeRun.take) \in PathTexts
      /\ WithVanished(treeRun.meta, treeRun.take) \in PathStamps
  BY <1>2, ChunkTypes DEF Typed
<1>4. Updated \in PathTexts
  BY <1>2, <1>3 DEF Updated, PathTexts
<1>5. treeRun' \in TreeRuns
  BY <1>1, <1>3, TreeRunSet
<1>6. /\ treeRun'.pc = "finish" /\ treeRun'.ref = treeRun.ref
      /\ treeRun'.meta = WithVanished(treeRun.meta, treeRun.take)
  BY <1>1 DEF TreeRuns
<1>7. over' \in OverDir /\ over' # None
  <2>1. [over EXCEPT !.chunks = Updated, !.tombs = tombs] \in OverDir
    BY <1>1, <1>2, <1>4 DEF OverDir
  <2>q. QED
    BY <1>1, <2>1, OverlayAssumption
<1>8. /\ over'.marker /\ over'.ref = over.ref /\ over'.ready
      /\ over'.chunks = Updated /\ over'.tombs = tombs
  BY <1>1 DEF OverDir
<1>9. TreePhase' /\ Alone
  BY <1>1, <1>6, <1>7, <1>8, TreeAlone DEF TreePhase
<1>10. since' \in [Paths -> SUBSET (Contents \cup {None})]
      /\ fresh' \in [Paths -> SUBSET (Contents \cup {None})]
  BY <1>1 DEF Typed, TypeOK, historyVars
<1>q. QED
  BY <1>1, <1>5, <1>6, <1>7, <1>8, <1>9, <1>10, TreeTyped DEF tombs

\* The end of an incremental run.
LEMMA FinishUpdateType ==
  ASSUME Typed, FinishUpdate
  PROVE  /\ Typed' /\ TreeOnly /\ treeRun' = None /\ fresh' = fresh /\ since' = fresh
         /\ treeRun # None /\ treeRun \in TreeRuns /\ treeRun.pc = "finish"
         /\ over # None /\ over \in OverDir
         /\ over' \in OverDir /\ over'.ref = over.ref /\ over'.snap = treeRun.meta
         /\ over'.chunks = over.chunks /\ over'.tombs = over.tombs
<1>1. /\ TreeOnly /\ treeRun' = None /\ fresh' = fresh /\ since' = fresh
      /\ treeRun # None /\ treeRun \in TreeRuns /\ treeRun.pc = "finish"
      /\ over # None /\ over \in OverDir
      /\ over' = [over EXCEPT !.snap = treeRun.meta, !.marker = FALSE]
  BY DEF FinishUpdate, TreeGo, TreeOnly, Typed, TypeOK, TreePhase
<1>2. treeRun.meta \in PathStamps
  BY <1>1 DEF TreeRuns
<1>3. over' \in OverDir
  BY <1>1, <1>2, OverSet, ReadTypes DEF Typed
<1>4. over'.ref = over.ref /\ over'.snap = treeRun.meta
      /\ over'.chunks = over.chunks /\ over'.tombs = over.tombs
  BY <1>1 DEF OverDir
<1>5. TreePhase' /\ Alone
  BY <1>1, TreeAlone DEF TreePhase
<1>6. since' \in [Paths -> SUBSET (Contents \cup {None})]
      /\ fresh' \in [Paths -> SUBSET (Contents \cup {None})]
  BY <1>1 DEF Typed, TypeOK
<1>q. QED
  BY <1>1, <1>3, <1>4, <1>5, <1>6, TreeTyped

\* What the user leaves alone.
UserOnly == UNCHANGED <<base, over, baseRun, treeRun, nextInc>>

\* A file of a checkout is saved, deleted, moved away or moved back.
Saved(fs, fs1) == \E p \in Paths, c \in Contents \cup {None} : fs1 = SetFile(fs, p, c)

\* What the user may do to the main checkout and to the repository.
UserBase ==
    /\ UserOnly /\ UNCHANGED <<treeFs, historyVars>> /\ slipped' \in BOOLEAN
    /\ slipped => slipped'
    /\ \/ /\ Saved(baseFs, baseFs') /\ UNCHANGED <<head, staged>>
          /\ \A p \in Paths : Missed(p) /\ baseFs'[p].c # None => slipped'
          /\ \A p \in Paths : baseFs[p].c = None /\ baseFs'[p].c # None =>
                head[p] = None \/ baseFs'[p].c = head[p]
       \/ baseFs' = baseFs /\ head' \in PathTexts /\ staged' = staged + 1
            /\ (head' = head \/ head # Texts(baseFs))

\* What the user may do to the worktree.
UserTree ==
    /\ UserOnly /\ UNCHANGED <<baseFs, head, staged, slipped>>
    /\ \E p \in Paths, c \in Contents \cup {None} :
          /\ treeFs' = SetFile(treeFs, p, c)
          /\ since' = [since EXCEPT ![p] = @ \cup {c}]
          /\ fresh' = [fresh EXCEPT ![p] = @ \cup {c}]

\* The steps of the user are of these two kinds.
LEMMA UserSteps ==
  ASSUME Typed, User
  PROVE  UserBase \/ UserTree
<1>0. baseFs \in Files /\ head \in PathTexts /\ slipped \in BOOLEAN
  BY DEF Typed, TypeOK
<1>1. ASSUME NEW p \in Paths, NEW c \in Contents, EditBase(p, c) PROVE UserBase
  <2>1. baseFs' = SetFile(baseFs, p, c) /\ (baseFs[p].c # None \/ head[p] = None)
        /\ UserOnly /\ UNCHANGED <<treeFs, head, staged, slipped, historyVars>>
    BY <1>1 DEF EditBase, UserOnly
  <2>2. \A r \in Paths \ {p} : baseFs'[r] = baseFs[r]
    BY <1>0, <2>1 DEF SetFile, Files
  <2>3. Saved(baseFs, baseFs')
    BY <2>1 DEF Saved
  <2>4. \A r \in Paths : Missed(r) => baseFs'[r].c = None
    BY <2>1, <2>2 DEF Missed
  <2>q. QED
    BY <1>0, <2>1, <2>2, <2>3, <2>4 DEF UserBase
<1>2. ASSUME NEW p \in Paths, MoveBase(p) PROVE UserBase
  <2>1. /\ UserOnly /\ UNCHANGED <<treeFs, head, staged, historyVars>>
        /\ \/ baseFs' = SetFile(baseFs, p, None)
           \/ baseFs[p].c = None /\ baseFs' = SetFile(baseFs, p, head[p])
    BY <1>2 DEF MoveBase, UserOnly
  <2>2. head[p] \in Contents \cup {None} /\ None \in Contents \cup {None}
    BY <1>0 DEF PathTexts
  <2>3. Saved(baseFs, baseFs')
    BY <2>1, <2>2 DEF Saved
  <2>4. \A r \in Paths \ {p} : baseFs'[r] = baseFs[r]
    BY <1>0, <2>1 DEF SetFile, Files
  <2>5. baseFs'[p].c \in {None, head[p]}
    BY <1>0, <2>1 DEF SetFile, Files
  <2>6. slipped' \in BOOLEAN /\ (slipped \/ Missed(p) => slipped')
    BY <1>2, Zenon DEF MoveBase
  <2>7. \A r \in Paths : Missed(r) /\ baseFs'[r].c # None => r = p
    BY <2>4 DEF Missed
  <2>q. QED
    BY <2>1, <2>3, <2>4, <2>5, <2>6, <2>7 DEF UserBase
<1>3. ASSUME NEW p \in Paths, NEW c \in Contents \cup {None}, EditTree(p, c) PROVE UserTree
  BY <1>3 DEF EditTree, UserTree, UserOnly
<1>4. ASSUME Touch PROVE UserBase
  BY <1>0, <1>4 DEF Touch, UserBase, UserOnly
<1>5. ASSUME Commit PROVE UserBase
  <2>1. Texts(baseFs) \in PathTexts
    BY <1>0, ReadTypes DEF Typed
  <2>q. QED
    BY <1>0, <1>5, <2>1 DEF Commit, UserBase, UserOnly
<1>q. QED
  BY <1>1, <1>2, <1>3, <1>4, <1>5 DEF User

\* The user keeps the types.
LEMMA UserType ==
  ASSUME Typed, UserBase \/ UserTree
  PROVE  Typed'
<1>1. baseFs' \in Files /\ treeFs' \in Files /\ head' \in PathTexts /\ staged' \in Nat
  <2>1. baseFs \in Files /\ treeFs \in Files /\ head \in PathTexts /\ staged \in Nat
    BY DEF Typed, TypeOK
  <2>2. CASE UserBase
    BY <2>1, <2>2, SetFileType DEF UserBase, Saved
  <2>3. CASE UserTree
    BY <2>1, <2>3, SetFileType DEF UserTree
  <2>q. QED
    BY <2>2, <2>3
<1>2. since' \in [Paths -> SUBSET (Contents \cup {None})]
      /\ fresh' \in [Paths -> SUBSET (Contents \cup {None})]
  <2>1. since \in [Paths -> SUBSET (Contents \cup {None})]
        /\ fresh \in [Paths -> SUBSET (Contents \cup {None})]
    BY DEF Typed, TypeOK
  <2>2. CASE UserBase
    BY <2>1, <2>2 DEF UserBase, historyVars
  <2>3. CASE UserTree
    <3>1. PICK p \in Paths, c \in Contents \cup {None} :
            /\ since' = [since EXCEPT ![p] = @ \cup {c}]
            /\ fresh' = [fresh EXCEPT ![p] = @ \cup {c}]
      BY <2>3 DEF UserTree
    <3>q. QED
      BY <2>1, <3>1
  <2>q. QED
    BY <2>2, <2>3
<1>3. UserOnly
  BY DEF UserBase, UserTree
<1>4. TypeOK'
  <2>1. slipped' \in BOOLEAN
    BY DEF UserBase, UserTree, Typed, TypeOK
  <2>q. QED
    BY <1>1, <1>2, <1>3, <2>1 DEF Typed, TypeOK, UserOnly
<1>5. Nested' /\ BasePhase' /\ TreePhase'
  BY <1>3 DEF Typed, Nested, BasePhase, TreePhase, UserOnly
<1>q. QED
  BY <1>4, <1>5 DEF Typed

\* Every step keeps the types.
LEMMA TypeStep ==
  ASSUME Typed, [Next]_vars
  PROVE  Typed'
<1>1. CASE BaseStart \/ BaseIndexed
  BY <1>1, BaseStartType, BaseIndexedType
<1>2. CASE BaseStep
  BY <1>2, BaseNoOpType, BaseScanType, BaseWriteType, BasePublishType, BaseFinishType,
     BaseResnapType, BaseRecordType DEF BaseStep
<1>3. CASE BaseFails \/ BaseRemoved
  BY <1>3, BaseEndType
<1>4. CASE BaseCurrent \/ BaseTouched \/ TreeStart
  BY <1>4, BaseCurrentType, BaseTouchedType, TreeStartType
<1>5. CASE CaptureFails \/ SnapshotInvalid \/ TreeFails
  BY <1>5, TreeEndType
<1>6. CASE CaptureBase \/ ReadBase \/ ReadStamps \/ ReadContents
  BY <1>6, CaptureBaseType, ReadBaseType, ReadStampsType, ReadContentsType
<1>7. CASE InitialDiff \/ BuildOverlay \/ Unpublish \/ PublishOverlay
  BY <1>7, InitialDiffType, BuildOverlayType, UnpublishType, PublishOverlayType
<1>8. CASE CompareStamps \/ SortChanges \/ UpdateOverlay \/ FinishUpdate
  BY <1>8, CompareStampsType, SortChangesType, UpdateOverlayType, FinishUpdateType
<1>9. CASE User
  BY <1>9, UserSteps, UserType
<1>10. CASE UNCHANGED vars
  BY <1>10 DEF vars, fsVars, Typed, TypeOK, Nested, BasePhase, TreePhase
<1>q. QED
  BY <1>1, <1>2, <1>3, <1>4, <1>5, <1>6, <1>7, <1>8, <1>9, <1>10 DEF Next, TreeStep

\* Every reachable state is typed; a run finds the directory, and the marker,
\* that its step expects; a run that indexes the base for a worktree has that
\* worktree's run waiting for it (refresh_clean_base_metadata).
THEOREM OverlayTypeCorrect == Spec => [](TypeOK /\ Nested /\ BasePhase /\ TreePhase)
<1>1. Spec => []Typed
  BY TypeInit, TypeStep, PTL DEF Spec
<1>2. Typed => TypeOK /\ Nested /\ BasePhase /\ TreePhase
  BY DEF Typed
<1>q. QED
  BY <1>1, <1>2, PTL

--------------------------------------------------------------------------------
(* What the base's snapshot and its recorded state say.                    *)

\* A run over the base between its walk and its end.
Walked == baseRun # None /\ baseRun.pc \in {"write", "publish", "finish"}

\* The stamps are of files that are there, or of earlier ones.
Past(fs, snap) == \A p \in Paths : snap[p] <= fs[p].s /\ (snap[p] = fs[p].s => fs[p].c # None)

\* A path with the stamp of the file that is there has its chunks, and one
\* without a stamp has none.
Honest(fs, snap, chunks) ==
    /\ Past(fs, snap)
    /\ \A p \in Paths : /\ snap[p] = fs[p].s => chunks[p] = fs[p].c
                        /\ snap[p] = 0 => chunks[p] = None

Stamped(fs) == \A p \in Paths : fs[p].s >= 2

BaseHonest == base # None /\ ~base.marker => Honest(baseFs, base.snap, base.chunks)

GitHonest == base # None /\ ~base.marker /\ base.git # None => base.chunks = base.git.head

WriteHonest ==
    baseRun # None /\ baseRun.pc = "write" =>
        /\ Past(baseFs, baseRun.snap)
        /\ \A p \in Paths \ baseRun.changed :
              /\ baseRun.snap[p] = baseFs[p].s => base.chunks[p] = baseFs[p].c
              /\ baseRun.snap[p] = 0 => base.chunks[p] = None

PublishHonest ==
    baseRun # None /\ baseRun.pc \in {"publish", "finish"}
        => Honest(baseFs, baseRun.snap, base.chunks)

ResnapHonest ==
    baseRun # None /\ baseRun.pc = "resnap" => base.git # None

CaptureHonest ==
    baseRun # None /\ baseRun.git # None =>
        /\ baseRun.git.staged <= staged
        /\ Walked /\ baseRun.git = [head |-> head, staged |-> staged] =>
              \A p \in Paths : baseRun.snap[p] = 0 /\ head[p] # None => baseFs[p].c = None
        /\ baseRun.pc = "record" =>
              \A p \in Paths : base.snap[p] = 0 => baseRun.git.head[p] = None

\* The invariant: of the directory while nothing is half done, and of a run at
\* each of its steps.
BaseInv ==
    /\ Stamped(baseFs) /\ BaseHonest /\ GitHonest
    /\ WriteHonest /\ PublishHonest /\ ResnapHonest /\ CaptureHonest

\* An edit takes a stamp that no snapshot has, so what was honest stays so.
LEMMA SetFileHonest ==
  ASSUME NEW fs \in Files, NEW p \in Paths, NEW c \in Contents \cup {None},
         NEW snap \in PathStamps, Past(fs, snap)
  PROVE  /\ Past(SetFile(fs, p, c), snap)
         /\ \A q \in Paths : SetFile(fs, p, c)[q] # fs[q] =>
                                snap[q] # SetFile(fs, p, c)[q].s /\ q = p
         /\ SetFile(fs, p, c)[p].s = fs[p].s + 1
<1>1. \A q \in Paths \ {p} : SetFile(fs, p, c)[q] = fs[q]
  BY DEF SetFile, Files
<1>2. SetFile(fs, p, c)[p].s = fs[p].s + 1 /\ fs[p].s \in Nat /\ snap[p] \in Nat
  BY DEF SetFile, Files, PathStamps
<1>3. snap[p] <= fs[p].s
  BY DEF Past
<1>4. snap[p] < SetFile(fs, p, c)[p].s
  BY <1>2, <1>3
<1>5. Past(SetFile(fs, p, c), snap)
  BY <1>1, <1>2, <1>4 DEF Past
<1>q. QED
  BY <1>1, <1>2, <1>4, <1>5

\* The same for chunks that go with the stamps.
LEMMA SetFileKeeps ==
  ASSUME NEW fs \in Files, NEW p \in Paths, NEW c \in Contents \cup {None},
         NEW snap \in PathStamps, NEW chunks, Honest(fs, snap, chunks)
  PROVE  Honest(SetFile(fs, p, c), snap, chunks)
BY SetFileHonest DEF Honest

\* Stamps start at 2 and only grow.
LEMMA SetFileStamped ==
  ASSUME NEW fs \in Files, NEW p \in Paths, NEW c \in Contents \cup {None}, Stamped(fs)
  PROVE  Stamped(SetFile(fs, p, c))
<1>1. \A q \in Paths \ {p} : SetFile(fs, p, c)[q] = fs[q]
  BY DEF SetFile, Files
<1>2. SetFile(fs, p, c)[p].s = fs[p].s + 1 /\ fs[p].s \in Nat
  BY DEF SetFile, Files
<1>q. QED
  BY <1>1, <1>2 DEF Stamped

\* A walk: a stamp of the file that is there, or 0.
LEMMA WalkPast ==
  ASSUME NEW fs \in Files, Stamped(fs)
  PROVE  /\ Past(fs, Stamps(fs))
         /\ \A p \in Paths : /\ Stamps(fs)[p] = 0 <=> fs[p].c = None
                             /\ fs[p].c # None => Stamps(fs)[p] = fs[p].s
                             /\ Stamps(fs)[p] = fs[p].s => fs[p].c # None
<1>1. \A p \in Paths : fs[p].s \in Nat /\ fs[p].s >= 2
  BY DEF Files, Stamped
<1>2. \A p \in Paths : Stamps(fs)[p] = IF fs[p].c = None THEN 0 ELSE fs[p].s
  BY DEF Stamps
<1>q. QED
  BY <1>1, <1>2 DEF Past

\* A state recorded with honest stamps is the state of the chunks.
LEMMA RecordedHonest ==
  ASSUME Typed, Stamped(baseFs), NEW snap \in PathStamps, NEW chunks \in PathTexts,
         NEW git, git # None, git = Captured, Honest(baseFs, snap, chunks),
         \A p \in Paths : snap[p] # 0 => snap[p] = Stamps(baseFs)[p],
         \A p \in Paths : snap[p] = 0 /\ head[p] # None => baseFs[p].c = None
  PROVE  chunks = git.head
<1>1. git = [head |-> head, staged |-> staged] /\ head = Texts(baseFs)
  BY DEF Captured, Clean
<1>2. head \in PathTexts /\ git.head = head
  BY <1>1 DEF Typed, TypeOK
<1>3. ASSUME NEW p \in Paths PROVE chunks[p] = head[p]
  <2>1. head[p] = baseFs[p].c
    BY <1>1 DEF Texts
  <2>2. CASE snap[p] = 0
    BY <2>1, <2>2 DEF Honest
  <2>3. CASE snap[p] # 0
    <3>1. snap[p] = Stamps(baseFs)[p] /\ Stamps(baseFs)[p] # 0
      BY <2>3
    <3>2. snap[p] = baseFs[p].s
      BY <3>1, WalkPast DEF Typed, TypeOK
    <3>q. QED
      BY <2>1, <3>2 DEF Honest
  <2>q. QED
    BY <2>2, <2>3
<1>q. QED
  BY <1>2, <1>3 DEF PathTexts

\* Initially nothing is indexed.
LEMMA BaseInvInit == Init => BaseInv /\ Stamped(treeFs)
<1>. SUFFICES ASSUME Init PROVE BaseInv /\ Stamped(treeFs)
  OBVIOUS
<1>1. base = None /\ baseRun = None
      /\ (\E t : baseFs = Checkout(t)) /\ (\E t : treeFs = Checkout(t))
  BY DEF Init
<1>2. \A t : Stamped(Checkout(t))
  BY DEF Stamped, Checkout
<1>q. QED
  BY <1>1, <1>2 DEF BaseInv, BaseHonest, GitHonest, WriteHonest, PublishHonest,
                   ResnapHonest, CaptureHonest

\* The main checkout and the repository.
RepoSame == UNCHANGED <<baseFs, head, staged>>

\* With no run in progress only the directory matters.
LEMMA BaseInvIdle ==
  ASSUME BaseInv, RepoSame, baseRun' = None, BaseHonest', GitHonest'
  PROVE  BaseInv'
BY DEF BaseInv, RepoSame, Stamped, WriteHonest, PublishHonest, ResnapHonest, CaptureHonest

\* A run over the base starts, is aborted, or the directory goes.
LEMMA BaseInvEnds ==
  ASSUME Typed, BaseInv, BaseStart \/ BaseIndexed \/ BaseFails \/ BaseRemoved
  PROVE  BaseInv'
<1>1. CASE BaseStart \/ BaseIndexed
  <2>1. RepoSame /\ base' = base /\ baseRun'.pc = "scan" /\ baseRun'.git = Captured
    BY <1>1, BaseLockFields DEF BaseStart, BaseIndexed, RepoSame, fsVars
  <2>2. Captured # None => Captured.staged = staged
    BY DEF Captured
  <2>3. staged \in Nat
    BY DEF Typed, TypeOK
  <2>4. CaptureHonest'
    BY <2>1, <2>2, <2>3 DEF CaptureHonest, RepoSame, Walked
  <2>q. QED
    BY <2>1, <2>4 DEF BaseInv, RepoSame, Stamped, BaseHonest, GitHonest, WriteHonest,
                      PublishHonest, ResnapHonest
<1>2. CASE BaseFails \/ BaseRemoved
  <2>1. RepoSame /\ baseRun' = None /\ (base' = base \/ base' = None)
    BY <1>2, BaseEndType DEF BaseFails, BaseRemoved, RepoSame, fsVars
  <2>2. BaseHonest' /\ GitHonest'
    BY <2>1 DEF BaseInv, BaseHonest, GitHonest, RepoSame
  <2>q. QED
    BY <2>1, <2>2, BaseInvIdle
<1>q. QED
  BY <1>1, <1>2

\* A run that finds nothing to do.
LEMMA BaseInvNoOp ==
  ASSUME Typed, BaseInv, BaseNoOp
  PROVE  BaseInv'
<1>1. /\ baseRun' = None /\ baseRun # None /\ baseRun \in BaseRuns
      /\ base # None /\ base \in BaseDir /\ ~base.marker /\ GitOnly(base, base')
      /\ \/ base' = base
         \/ Stamps(baseFs) = base.snap /\ base'.git = Recorded(baseRun.git, base)
  BY BaseNoOpType
<1>2. RepoSame
  BY DEF BaseNoOp, RepoSame, fsVars
<1>3. Honest(baseFs, base.snap, base.chunks)
  BY <1>1 DEF BaseInv, BaseHonest
<1>4. BaseHonest'
  BY <1>1, <1>2, <1>3 DEF BaseHonest, GitOnly, RepoSame
<1>5. CASE base' = base
  BY <1>1, <1>2, <1>4, <1>5, BaseInvIdle DEF BaseInv, GitHonest
<1>6. CASE Stamps(baseFs) = base.snap /\ base'.git = Recorded(baseRun.git, base)
  <2>1. SUFFICES ASSUME base'.git # None PROVE base'.chunks = base'.git.head
    BY <1>1, <1>2, <1>4, BaseInvIdle DEF GitHonest
  <2>2. baseRun.git # None /\ baseRun.git = Captured /\ base'.git = baseRun.git
    BY <1>6, <2>1 DEF Recorded
  <2>3. base.snap \in PathStamps /\ base.chunks \in PathTexts
    BY <1>1 DEF BaseDir
  <2>4. \A p \in Paths : base.snap[p] = 0 => baseFs[p].c = None
    BY <1>6, WalkPast DEF BaseInv, Typed, TypeOK
  <2>5. base.chunks = baseRun.git.head
    BY <1>3, <1>6, <2>2, <2>3, <2>4, RecordedHonest DEF BaseInv
  <2>q. QED
    BY <1>1, <2>2, <2>5 DEF GitOnly
<1>q. QED
  BY <1>1, <1>5, <1>6

\* The walk: an unchanged path is indexed as the walk found it.
LEMMA BaseInvScan ==
  ASSUME Typed, BaseInv, BaseScan
  PROVE  BaseInv'
<1>1. /\ baseRun # None /\ baseRun \in BaseRuns /\ baseRun.pc = "scan"
      /\ baseRun' \in BaseRuns /\ baseRun'.pc = "write" /\ baseRun'.git = baseRun.git
      /\ baseRun'.snap = Stamps(baseFs) /\ baseRun'.fresh = baseRun.fresh
      /\ baseRun'.changed = {p \in Paths : baseRun.fresh \/ Stamps(baseFs)[p] # base.snap[p]}
      /\ baseRun.fresh <=> base = None \/ base.marker
      /\ \/ base = None /\ base' = None
         \/ /\ base # None /\ base \in BaseDir /\ base' \in BaseDir /\ base'.marker
            /\ base'.inc = base.inc /\ base'.gen = base.gen /\ base'.chunks = base.chunks
            /\ base'.snap = base.snap
  BY BaseScanType
<1>2. RepoSame
  BY DEF BaseScan, RepoSame, fsVars
<1>3. baseFs \in Files /\ Stamped(baseFs)
  BY DEF Typed, TypeOK, BaseInv
<1>4. BaseHonest' /\ GitHonest' /\ PublishHonest' /\ ResnapHonest' /\ Stamped(baseFs)'
  BY <1>1, <1>2, <1>3 DEF BaseHonest, GitHonest, PublishHonest, ResnapHonest, RepoSame, Stamped
<1>5. WriteHonest'
  <2>1. Past(baseFs, Stamps(baseFs))
    BY <1>3, WalkPast
  <2>2. ASSUME NEW p \in Paths, p \notin baseRun'.changed
        PROVE  /\ Stamps(baseFs)[p] = baseFs[p].s => base'.chunks[p] = baseFs[p].c
               /\ Stamps(baseFs)[p] = 0 => base'.chunks[p] = None
    <3>1. ~baseRun.fresh /\ Stamps(baseFs)[p] = base.snap[p]
      BY <1>1, <2>2
    <3>2. base # None /\ ~base.marker /\ base'.chunks = base.chunks
      BY <1>1, <3>1
    <3>3. Honest(baseFs, base.snap, base.chunks)
      BY <3>2 DEF BaseInv, BaseHonest
    <3>q. QED
      BY <3>1, <3>2, <3>3 DEF Honest
  <2>q. QED
    BY <1>1, <1>2, <2>1, <2>2 DEF WriteHonest, RepoSame
<1>6. CaptureHonest'
  <2>1. \A p \in Paths : Stamps(baseFs)[p] = 0 => baseFs[p].c = None
    BY <1>3, WalkPast
  <2>q. QED
    BY <1>1, <1>2, <2>1 DEF BaseInv, CaptureHonest, RepoSame
<1>q. QED
  BY <1>4, <1>5, <1>6 DEF BaseInv

\* The read: a file that is not the one of the walk has another stamp.
LEMMA BaseInvWrite ==
  ASSUME Typed, BaseInv, BaseWrite
  PROVE  BaseInv'
<1>1. /\ baseRun # None /\ baseRun \in BaseRuns /\ baseRun.pc = "write"
      /\ IF baseRun.fresh THEN baseRun.changed = Paths ELSE base # None
      /\ baseRun' \in BaseRuns /\ baseRun'.pc = "publish" /\ baseRun'.git = baseRun.git
      /\ baseRun'.snap = Vanishing
      /\ base' \in BaseDir /\ base' # None /\ base'.marker /\ base'.chunks = Committed
  BY BaseWriteType
<1>2. RepoSame
  BY DEF BaseWrite, RepoSame, fsVars
<1>3. baseFs \in Files /\ Stamped(baseFs) /\ WriteHonest
  BY DEF Typed, TypeOK, BaseInv
<1>4. BaseHonest' /\ GitHonest' /\ WriteHonest' /\ ResnapHonest' /\ Stamped(baseFs)'
  BY <1>1, <1>2, <1>3 DEF BaseHonest, GitHonest, WriteHonest, ResnapHonest, RepoSame, Stamped
<1>5. ASSUME NEW p \in Paths
      PROVE  /\ Vanishing[p] <= baseFs[p].s
             /\ Vanishing[p] = baseFs[p].s => baseFs[p].c # None /\ Committed[p] = baseFs[p].c
             /\ Vanishing[p] = 0 => baseRun.snap[p] = 0 /\ Committed[p] = None
  <2>1. baseFs[p].s \in Nat /\ baseFs[p].s >= 2 /\ baseRun.snap[p] \in Nat
    BY <1>1, <1>3 DEF Files, Stamped, BaseRuns, PathStamps
  <2>2. baseRun.snap[p] <= baseFs[p].s /\ (baseRun.snap[p] = baseFs[p].s => baseFs[p].c # None)
    BY <1>1, <1>3 DEF WriteHonest, Past
  <2>3. CASE p \notin baseRun.changed
    <3>1. Vanishing[p] = baseRun.snap[p] /\ Committed[p] = base.chunks[p]
      BY <2>3 DEF Vanishing, Committed
    <3>2. /\ baseRun.snap[p] = baseFs[p].s => base.chunks[p] = baseFs[p].c
          /\ baseRun.snap[p] = 0 => base.chunks[p] = None
      BY <1>1, <1>3, <2>3 DEF WriteHonest
    <3>q. QED
      BY <2>2, <3>1, <3>2
  <2>4. CASE p \in baseRun.changed /\ baseRun.snap[p] = 0
    <3>1. Vanishing[p] = 0 /\ Committed[p] = None
      BY <2>4 DEF Vanishing, Committed
    <3>q. QED
      BY <2>1, <2>4, <3>1
  <2>5. CASE p \in baseRun.changed /\ baseRun.snap[p] # 0 /\ baseFs[p].c = None
    <3>1. Vanishing[p] = 1
      BY <2>5 DEF Vanishing, Vanished
    <3>q. QED
      BY <2>1, <3>1
  <2>6. CASE p \in baseRun.changed /\ baseRun.snap[p] # 0 /\ baseFs[p].c # None
    <3>1. Vanishing[p] = baseRun.snap[p] /\ Committed[p] = baseFs[p].c
      BY <2>6 DEF Vanishing, Committed
    <3>q. QED
      BY <2>2, <2>6, <3>1
  <2>q. QED
    BY <2>3, <2>4, <2>5, <2>6
<1>6. Honest(baseFs, Vanishing, Committed)
  BY <1>5 DEF Honest, Past
<1>7. PublishHonest'
  BY <1>1, <1>2, <1>6 DEF PublishHonest, RepoSame
<1>8. CaptureHonest'
  BY <1>1, <1>2, <1>5 DEF BaseInv, CaptureHonest, RepoSame, Walked
<1>q. QED
  BY <1>4, <1>7, <1>8 DEF BaseInv

\* The generation.
LEMMA BaseInvPublish ==
  ASSUME Typed, BaseInv, BasePublish
  PROVE  BaseInv'
<1>1. /\ baseRun # None /\ baseRun \in BaseRuns /\ baseRun.pc = "publish"
      /\ baseRun' \in BaseRuns /\ baseRun'.pc = "finish" /\ baseRun'.git = baseRun.git
      /\ baseRun'.snap = baseRun.snap
      /\ base'.marker /\ base'.chunks = base.chunks
  BY BasePublishType
<1>2. RepoSame
  BY DEF BasePublish, RepoSame, fsVars
<1>3. BaseHonest' /\ GitHonest' /\ WriteHonest' /\ ResnapHonest' /\ Stamped(baseFs)'
  BY <1>1, <1>2 DEF BaseInv, BaseHonest, GitHonest, WriteHonest, ResnapHonest, RepoSame, Stamped
<1>4. PublishHonest'
  BY <1>1, <1>2 DEF BaseInv, PublishHonest, RepoSame
<1>5. CaptureHonest'
  BY <1>1, <1>2 DEF BaseInv, CaptureHonest, RepoSame, Walked
<1>q. QED
  BY <1>3, <1>4, <1>5 DEF BaseInv

\* The snapshot and the state.
LEMMA BaseInvFinish ==
  ASSUME Typed, BaseInv, BaseFinish
  PROVE  BaseInv'
<1>1. /\ baseRun' = None /\ baseRun # None /\ baseRun \in BaseRuns /\ baseRun.pc = "finish"
      /\ base # None /\ base \in BaseDir
      /\ base' \in BaseDir /\ base'.chunks = base.chunks /\ base'.snap = baseRun.snap
      /\ base'.git # None =>
           /\ base'.git = baseRun.git /\ baseRun.git = Captured
           /\ \A p \in Paths : baseRun.snap[p] # 0 => baseRun.snap[p] = Stamps(baseFs)[p]
  BY BaseFinishType
<1>2. RepoSame
  BY DEF BaseFinish, RepoSame, fsVars
<1>3. Honest(baseFs, baseRun.snap, base.chunks)
  BY <1>1 DEF BaseInv, PublishHonest
<1>4. BaseHonest'
  BY <1>1, <1>2, <1>3 DEF BaseHonest, RepoSame
<1>5. SUFFICES ASSUME base'.git # None PROVE base'.chunks = base'.git.head
  BY <1>1, <1>2, <1>4, BaseInvIdle DEF GitHonest
<1>6. baseRun.git # None /\ baseRun.git = Captured /\ base'.git = baseRun.git
  BY <1>1, <1>5
<1>7. baseRun.git = [head |-> head, staged |-> staged]
  BY <1>6 DEF Captured
<1>8. \A p \in Paths : baseRun.snap[p] = 0 /\ head[p] # None => baseFs[p].c = None
  BY <1>1, <1>6, <1>7 DEF BaseInv, CaptureHonest, Walked
<1>9. baseRun.snap \in PathStamps /\ base.chunks \in PathTexts
  BY <1>1 DEF BaseRuns, BaseDir
<1>10. base.chunks = baseRun.git.head
  BY <1>1, <1>3, <1>5, <1>6, <1>8, <1>9, RecordedHonest DEF BaseInv
<1>q. QED
  BY <1>1, <1>6, <1>10

\* A rewritten .git/index is noticed.
LEMMA BaseInvTouched ==
  ASSUME Typed, BaseInv, BaseTouched
  PROVE  BaseInv'
<1>1. /\ baseRun'.pc = "resnap" /\ baseRun'.git = None
      /\ base' = base /\ Clean /\ base.git # None /\ base.git.head = head
  BY BaseTouchedType
<1>2. RepoSame
  BY DEF BaseTouched, RepoSame, fsVars
<1>3. ResnapHonest'
  BY <1>1, <1>2 DEF ResnapHonest, RepoSame, Clean, Texts
<1>q. QED
  BY <1>1, <1>2, <1>3 DEF BaseInv, RepoSame, Stamped, BaseHonest, GitHonest, WriteHonest,
                         PublishHonest, CaptureHonest

\* The checkout is still the recorded one when its stamps are taken again.
LEMMA BaseInvResnap ==
  ASSUME Typed, BaseInv, BaseResnap, ~slipped'
  PROVE  BaseInv'
<1>1. /\ baseRun # None /\ baseRun.pc = "resnap"
      /\ baseRun' \in BaseRuns /\ baseRun'.pc = "record" /\ baseRun'.git = Captured
      /\ base # None /\ base \in BaseDir /\ ~base.marker
      /\ base' \in BaseDir /\ base'.chunks = base.chunks
      /\ base'.git = base.git /\ base'.snap = Stamps(baseFs)
  BY BaseResnapType
<1>2. RepoSame
  BY DEF BaseResnap, RepoSame, fsVars
<1>3. base.git # None /\ base.git.head = Texts(baseFs)
  <2>1. Texts(baseFs) = base.git.head
    BY Zenon DEF BaseResnap
  <2>q. QED
    BY <1>1, <2>1 DEF BaseInv, ResnapHonest
<1>4. base.chunks = Texts(baseFs)
  BY <1>1, <1>3 DEF BaseInv, GitHonest
<1>5. baseFs \in Files /\ Stamped(baseFs)
  BY DEF Typed, TypeOK, BaseInv
<1>6. Honest(baseFs, Stamps(baseFs), base.chunks)
  <2>1. \A p \in Paths : base.chunks[p] = baseFs[p].c
    BY <1>4 DEF Texts
  <2>q. QED
    BY <1>5, <2>1, WalkPast DEF Honest
<1>7. BaseHonest' /\ GitHonest'
  BY <1>1, <1>2, <1>3, <1>4, <1>6 DEF BaseHonest, GitHonest, RepoSame
<1>8. CaptureHonest'
  <2>1. Captured # None => Captured.staged = staged /\ Captured.head = Texts(baseFs)
    BY DEF Captured, Clean
  <2>2. \A p \in Paths : Stamps(baseFs)[p] = 0 => Texts(baseFs)[p] = None
    BY <1>5, WalkPast DEF Texts
  <2>3. staged \in Nat
    BY DEF Typed, TypeOK
  <2>q. QED
    BY <1>1, <1>2, <2>1, <2>2, <2>3 DEF CaptureHonest, RepoSame, Walked
<1>q. QED
  BY <1>1, <1>2, <1>5, <1>7, <1>8 DEF BaseInv, RepoSame, Stamped, WriteHonest,
                                      PublishHonest, ResnapHonest

\* The state is recorded again, or the base is indexed.
LEMMA BaseInvRecord ==
  ASSUME Typed, BaseInv, BaseRecord
  PROVE  BaseInv'
<1>1. /\ baseRun # None /\ baseRun \in BaseRuns /\ baseRun.pc = "record"
      /\ base # None /\ base \in BaseDir /\ ~base.marker /\ GitOnly(base, base')
      /\ base'.git = Recorded(baseRun.git, base)
      /\ \/ baseRun' = None
         \/ baseRun' \in BaseRuns /\ baseRun'.pc = "scan" /\ baseRun'.git = Captured
  BY BaseRecordType
<1>2. RepoSame
  BY DEF BaseRecord, RepoSame, fsVars
<1>3. Honest(baseFs, base.snap, base.chunks)
  BY <1>1 DEF BaseInv, BaseHonest
<1>4. BaseHonest'
  BY <1>1, <1>2, <1>3 DEF BaseHonest, GitOnly, RepoSame
<1>5. GitHonest'
  <2>1. SUFFICES ASSUME base'.git # None PROVE base'.chunks = base'.git.head
    BY DEF GitHonest
  <2>2. /\ baseRun.git # None /\ baseRun.git = Captured /\ base'.git = baseRun.git
        /\ \A p \in Paths : base.snap[p] # 0 => base.snap[p] = Stamps(baseFs)[p]
    BY <1>1, <2>1 DEF Recorded
  <2>3. base.snap \in PathStamps /\ base.chunks \in PathTexts
    BY <1>1 DEF BaseDir
  <2>4. baseRun.git.head = head
    BY <2>2 DEF Captured
  <2>5. \A p \in Paths : base.snap[p] = 0 => head[p] = None
    BY <1>1, <2>2, <2>4 DEF BaseInv, CaptureHonest
  <2>6. base.chunks = baseRun.git.head
    BY <1>3, <2>2, <2>3, <2>5, RecordedHonest DEF BaseInv
  <2>q. QED
    BY <1>1, <2>2, <2>6 DEF GitOnly
<1>6. CaptureHonest'
  <2>1. Captured # None => Captured.staged = staged
    BY DEF Captured
  <2>2. staged \in Nat
    BY DEF Typed, TypeOK
  <2>q. QED
    BY <1>1, <1>2, <2>1, <2>2 DEF CaptureHonest, RepoSame, Walked
<1>q. QED
  BY <1>1, <1>2, <1>4, <1>5, <1>6 DEF BaseInv, RepoSame, Stamped, WriteHonest,
                                      PublishHonest, ResnapHonest

\* The user changes the main checkout, and it does not slip.
LEMMA BaseInvUser ==
  ASSUME Typed, BaseInv, UserBase, ~slipped'
  PROVE  BaseInv'
<1>1. UNCHANGED <<base, baseRun>>
  BY DEF UserBase, UserOnly
<1>0. /\ baseFs \in Files /\ head \in PathTexts /\ staged \in Nat
      /\ base # None => base.snap \in PathStamps
      /\ baseRun # None => baseRun.snap \in PathStamps /\ baseRun \in BaseRuns
  BY DEF Typed, TypeOK, BaseDir, BaseRuns
<1>2. CASE Saved(baseFs, baseFs') /\ UNCHANGED <<head, staged>>
           /\ (\A p \in Paths : Missed(p) /\ baseFs'[p].c # None => slipped')
           /\ \A p \in Paths : baseFs[p].c = None /\ baseFs'[p].c # None =>
                head[p] = None \/ baseFs'[p].c = head[p]
  <2>1. PICK p \in Paths, c \in Contents \cup {None} : baseFs' = SetFile(baseFs, p, c)
    BY <1>2 DEF Saved
  <2>2. Stamped(baseFs)'
    BY <1>0, <2>1, SetFileStamped DEF BaseInv, Stamped
  <2>3. BaseHonest'
    BY <1>0, <1>1, <2>1, SetFileKeeps DEF BaseInv, BaseHonest
  <2>4. GitHonest'
    BY <1>1 DEF BaseInv, GitHonest
  <2>5. PublishHonest'
    BY <1>0, <1>1, <2>1, SetFileKeeps DEF BaseInv, PublishHonest
  <2>6. WriteHonest'
    <3>1. SUFFICES ASSUME baseRun # None, baseRun.pc = "write"
                   PROVE  /\ Past(baseFs', baseRun.snap)
                          /\ \A q \in Paths \ baseRun.changed :
                               /\ baseRun.snap[q] = baseFs'[q].s => base.chunks[q] = baseFs'[q].c
                               /\ baseRun.snap[q] = 0 => base.chunks[q] = None
      BY <1>1 DEF WriteHonest
    <3>2. /\ Past(baseFs, baseRun.snap)
          /\ \A q \in Paths \ baseRun.changed :
               /\ baseRun.snap[q] = baseFs[q].s => base.chunks[q] = baseFs[q].c
               /\ baseRun.snap[q] = 0 => base.chunks[q] = None
      BY <3>1 DEF BaseInv, WriteHonest
    <3>3. /\ Past(baseFs', baseRun.snap)
          /\ \A q \in Paths : baseFs'[q] # baseFs[q] => baseRun.snap[q] # baseFs'[q].s
      BY <1>0, <2>1, <3>1, <3>2, SetFileHonest
    <3>q. QED
      BY <3>2, <3>3
  <2>7. ResnapHonest'
    BY <1>1 DEF BaseInv, ResnapHonest
  <2>8. CaptureHonest'
    <3>1. Walked /\ baseRun.git # None =>
             \A q \in Paths : baseRun.snap[q] = 0 /\ head[q] # None /\ baseFs[q].c = None
                               => baseFs'[q].c = None
      BY <1>2 DEF Missed, Walked
    <3>q. QED
      BY <1>1, <1>2, <3>1 DEF BaseInv, CaptureHonest, Walked
  <2>q. QED
    BY <2>2, <2>3, <2>4, <2>5, <2>6, <2>7, <2>8 DEF BaseInv
<1>3. CASE baseFs' = baseFs /\ staged' = staged + 1 /\ (head' = head \/ head # Texts(baseFs))
  <2>1. ResnapHonest'
    BY <1>1 DEF BaseInv, ResnapHonest
  <2>2. CaptureHonest'
    <3>1. SUFFICES ASSUME baseRun # None, baseRun.git # None
                   PROVE  /\ baseRun.git.staged <= staged'
                          /\ baseRun.git.staged # staged'
                          /\ baseRun.pc = "record" =>
                               \A p \in Paths : base.snap[p] = 0 => baseRun.git.head[p] = None
      BY <1>1 DEF CaptureHonest
    <3>2. baseRun.git.staged \in Nat /\ baseRun.git.staged <= staged
      BY <1>0, <3>1 DEF BaseInv, CaptureHonest, BaseRuns, Git
    <3>3. baseRun.git.staged < staged'
      BY <1>0, <1>3, <3>2
    <3>q. QED
      BY <1>0, <1>3, <3>1, <3>2, <3>3 DEF BaseInv, CaptureHonest
  <2>q. QED
    BY <1>1, <1>3, <2>1, <2>2 DEF BaseInv, Stamped, BaseHonest, GitHonest, WriteHonest,
                                  PublishHonest
<1>q. QED
  BY <1>2, <1>3 DEF UserBase

\* Steps that leave the base and the repository.
LEMMA BaseInvFrame ==
  ASSUME BaseInv, UNCHANGED <<baseFs, head, staged, base, baseRun>>
  PROVE  BaseInv'
BY DEF BaseInv, Stamped, BaseHonest, GitHonest, WriteHonest, PublishHonest, ResnapHonest,
       CaptureHonest, Walked, Texts

\* Every step keeps the invariant until the checkout slips.
LEMMA BaseInvStep ==
  ASSUME Typed, BaseInv, [Next]_vars, ~slipped'
  PROVE  BaseInv'
<1>1. CASE BaseStart \/ BaseIndexed \/ BaseFails \/ BaseRemoved
  BY <1>1, BaseInvEnds
<1>2. CASE BaseStep
  BY <1>2, BaseInvNoOp, BaseInvScan, BaseInvWrite, BaseInvPublish, BaseInvFinish,
     BaseInvResnap, BaseInvRecord DEF BaseStep
<1>3. CASE BaseTouched
  BY <1>3, BaseInvTouched
<1>4. CASE TreeStart \/ BaseCurrent \/ CaptureFails \/ SnapshotInvalid \/ TreeFails
           \/ CaptureBase \/ ReadBase \/ ReadStamps \/ ReadContents
           \/ InitialDiff \/ BuildOverlay \/ Unpublish \/ PublishOverlay
           \/ CompareStamps \/ SortChanges \/ UpdateOverlay \/ FinishUpdate
  <2>1. UNCHANGED <<baseFs, head, staged, base, baseRun>>
    BY <1>4 DEF fsVars, TreeStart, BaseCurrent, CaptureFails, SnapshotInvalid, TreeFails,
       CaptureBase, ReadBase, ReadStamps, ReadContents, InitialDiff, BuildOverlay, Unpublish,
       PublishOverlay, CompareStamps, SortChanges, UpdateOverlay, FinishUpdate
  <2>q. QED
    BY <2>1, BaseInvFrame
<1>5. CASE User
  <2>1. CASE UserTree
    BY <2>1, BaseInvFrame DEF UserTree, UserOnly
  <2>2. CASE UserBase
    BY <2>2, BaseInvUser
  <2>q. QED
    BY <1>5, <2>1, <2>2, UserSteps
<1>6. CASE UNCHANGED vars
  BY <1>6, BaseInvFrame DEF vars, fsVars
<1>q. QED
  BY <1>1, <1>2, <1>3, <1>4, <1>5, <1>6 DEF Next, TreeStep

\* What has slipped has slipped.
LEMMA SlipStays ==
  ASSUME Typed, [Next]_vars, slipped PROVE slipped'
<1>1. CASE User
  BY <1>1, UserSteps DEF UserBase, UserTree
<1>2. CASE BaseResnap
  BY <1>2, Zenon DEF BaseResnap
<1>3. CASE BaseStep /\ ~BaseResnap
  BY <1>3 DEF fsVars, BaseStep, BaseNoOp, BaseScan, BaseWrite, BasePublish, BaseFinish, BaseRecord
<1>4. CASE BaseStart \/ BaseFails \/ BaseRemoved \/ TreeStart \/ TreeFails \/ TreeStep
  BY <1>4 DEF fsVars, BaseStart, BaseFails, BaseRemoved, TreeStart, TreeFails, TreeStep,
     BaseCurrent, BaseTouched, BaseIndexed, CaptureBase, CaptureFails, ReadBase, ReadStamps,
     ReadContents, InitialDiff, SnapshotInvalid, BuildOverlay, Unpublish, PublishOverlay,
     CompareStamps, SortChanges, UpdateOverlay, FinishUpdate
<1>5. CASE UNCHANGED vars
  BY <1>5 DEF vars, fsVars
<1>q. QED
  BY <1>1, <1>2, <1>3, <1>4, <1>5 DEF Next

\* The invariant holds until the main checkout slips.
LEMMA BaseInvHolds == Spec => [](Typed /\ (~slipped => BaseInv))
<1>1. Typed /\ (~slipped => BaseInv) /\ [Next]_vars => (~slipped => BaseInv)'
  BY SlipStays, BaseInvStep
<1>q. QED
  BY <1>1, TypeInit, TypeStep, BaseInvInit, PTL DEF Spec

\* Until the main checkout slips, what the next walk of it would find unchanged is
\* indexed as it is: a file that changes between the walk and the read of a run
\* (index_workspace, chunks read after the Merkle walk) never gets the stamp of the
\* chunks that were not read, and a snapshot that is saved again for a rewritten
\* .git/index describes the chunks (refresh_clean_base_metadata).
THEOREM SnapshotHonest == Spec => []SnapshotIsHonest
<1>2. Typed /\ (~slipped => BaseInv) => SnapshotIsHonest
  <2>1. SUFFICES ASSUME Typed, BaseInv, base # None, ~base.marker, NEW p \in Paths,
                        base.snap[p] = Stamps(baseFs)[p]
                 PROVE  base.chunks[p] = baseFs[p].c
    BY DEF SnapshotIsHonest, UnchangedIsIndexed
  <2>2. Honest(baseFs, base.snap, base.chunks)
    BY <2>1 DEF BaseInv, BaseHonest
  <2>3. /\ Stamps(baseFs)[p] = 0 <=> baseFs[p].c = None
        /\ baseFs[p].c # None => Stamps(baseFs)[p] = baseFs[p].s
    BY <2>1, WalkPast DEF BaseInv, Typed, TypeOK
  <2>q. QED
    BY <2>1, <2>2, <2>3 DEF Honest
<1>q. QED
  BY <1>2, BaseInvHolds, PTL

\* Until the main checkout slips, a base recorded as the clean checkout it still is
\* holds exactly that checkout (record_indexed_git_state), also when files moved away
\* and back during the run, so the shortcut that skips the walk skips nothing.
THEOREM CleanIndexed == Spec => []CleanIsIndexed
<1>2. Typed /\ (~slipped => BaseInv) => CleanIsIndexed
  <2>1. SUFFICES ASSUME BaseInv, base # None, ~base.marker, base.git # None,
                        base.git = Captured
                 PROVE  base.chunks = head
    BY DEF CleanIsIndexed, RecordedIsIndexed
  <2>2. base.chunks = base.git.head
    BY <2>1 DEF BaseInv, GitHonest
  <2>q. QED
    BY <2>1, <2>2 DEF Captured
<1>q. QED
  BY <1>2, BaseInvHolds, PTL

--------------------------------------------------------------------------------
(* What a search of the worktree shows.                                    *)

\* The directory is finished and has the identity r.
Names(d, r) == d # None /\ ~d.marker /\ r = [inc |-> d.inc, gen |-> d.gen]

\* An identity that was captured earlier: the incarnation was given out, the
\* generation is not ahead, and a run about to finish has left it behind.
RefOK(d, brun, inc, r) ==
    /\ r.inc < inc
    /\ d # None /\ r.inc = d.inc => r.gen <= d.gen
    /\ brun # None /\ brun.pc = "finish" => r # [inc |-> d.inc, gen |-> d.gen]

\* What is shown of a path is a content it had, the one it has if the stamp is
\* current, and nothing if there was no file.
Right(file, stamp, shown, known) ==
    /\ shown \in known
    /\ stamp = file.s => shown = file.c
    /\ stamp = 0 => shown = None

Shown(chunks, tombs, under) ==
    [p \in Paths |-> IF chunks[p] # None \/ p \in tombs THEN chunks[p] ELSE under[p]]

AllRight(fs, snap, shown, known) ==
    Past(fs, snap) /\ \A p \in Paths : Right(fs[p], snap[p], shown[p], known[p])

\* Where a run over the worktree is, and where it has an identity of the base.
TreeAt(labels) == treeRun # None /\ treeRun.pc \in labels
AfterCapture == {"live", "stamps", "contents", "diff", "build", "promote", "publish"}

RefsKnown ==
    /\ base # None => base.inc < nextInc
    /\ over # None => RefOK(base, baseRun, nextInc, over.ref)
    /\ TreeAt(AfterCapture) => RefOK(base, baseRun, nextInc, treeRun.ref)

FreshHolds == \A p \in Paths : treeFs[p].c \in fresh[p]

OverRight ==
    over # None /\ over.ready /\ ~over.marker /\ Names(base, over.ref) =>
        AllRight(treeFs, over.snap, Shown(over.chunks, over.tombs, base.chunks), since)

\* A run over the worktree, from the base's state ...
LiveRight ==
    TreeAt({"live", "stamps", "contents", "diff"}) /\ Names(base, treeRun.ref)
        => Honest(baseFs, treeRun.indexed, base.chunks)

\* ... and the base's files ...
OldRight ==
    TreeAt({"stamps", "contents", "diff"}) /\ Names(base, treeRun.ref)
        => \A p \in Paths : treeRun.indexed[p] = baseFs[p].s => treeRun.old[p] = baseFs[p].c

\* ... to the worktree's stamps ...
MetaPast ==
    TreeAt({"contents", "diff", "build", "sort", "update"}) => Past(treeFs, treeRun.meta)

\* ... its contents ...
NewRight ==
    TreeAt({"diff"}) => \A p \in Paths :
        /\ treeRun.new[p] \in fresh[p]
        /\ treeRun.meta[p] = treeFs[p].s => treeRun.new[p] = treeFs[p].c

\* ... the plan of what the overlay takes and hides, where the rest is shown ...
Planned(p, shown) ==
    IF p \in treeRun.take
    THEN treeRun.meta[p] # 0 /\ (p \notin treeRun.hide => base.chunks[p] = None)
    ELSE Right(treeFs[p], treeRun.meta[p], shown, fresh[p])

BuildRight ==
    TreeAt({"build"}) /\ Names(base, treeRun.ref) => \A p \in Paths :
        Planned(p, IF p \in treeRun.hide THEN None ELSE base.chunks[p])

\* ... and the overlay to publish.
PublishRight ==
    TreeAt({"promote", "publish"}) /\ Names(base, treeRun.ref)
        => AllRight(treeFs, treeRun.meta, Shown(treeRun.new, treeRun.hide, base.chunks), fresh)

\* The same for an incremental run.
SortRight ==
    TreeAt({"sort"}) =>
        /\ \A p \in Paths : treeRun.meta[p] = 0 => None \in fresh[p]
        /\ Names(base, over.ref) =>
              /\ Honest(baseFs, treeRun.indexed, base.chunks)
              /\ \A p \in Paths : treeRun.meta[p] = over.snap[p] =>
                    Right(treeFs[p], treeRun.meta[p],
                          Shown(over.chunks, over.tombs, base.chunks)[p], fresh[p])

UpdateRight ==
    TreeAt({"update"}) =>
        /\ treeRun.clear \cap (treeRun.hide \cup treeRun.take) = {}
        /\ Names(base, over.ref) => \A p \in Paths :
              Planned(p, IF p \in treeRun.hide THEN None
                         ELSE IF p \in treeRun.clear THEN base.chunks[p]
                         ELSE Shown(over.chunks, over.tombs, base.chunks)[p])

FinishRight ==
    TreeAt({"finish"}) /\ Names(base, over.ref)
        => AllRight(treeFs, treeRun.meta, Shown(over.chunks, over.tombs, base.chunks), fresh)

RunRight == /\ LiveRight /\ OldRight /\ MetaPast /\ NewRight /\ BuildRight
            /\ PublishRight /\ SortRight /\ UpdateRight /\ FinishRight

TreeInv == Stamped(treeFs) /\ RefsKnown /\ FreshHolds /\ OverRight /\ RunRight

\* Initially there is nothing to show.
LEMMA TreeInvInit == Init => TreeInv
<1>. SUFFICES ASSUME Init PROVE TreeInv
  OBVIOUS
<1>1. base = None /\ over = None /\ treeRun = None
      /\ fresh = [p \in Paths |-> {treeFs[p].c}]
  BY DEF Init
<1>2. RunRight
  BY <1>1 DEF RunRight, TreeAt, LiveRight, OldRight, MetaPast, NewRight, BuildRight,
              PublishRight, SortRight, UpdateRight, FinishRight
<1>q. QED
  BY <1>1, <1>2, BaseInvInit DEF TreeInv, RefsKnown, FreshHolds, OverRight, TreeAt

\* What a step of the base does to the identities that were captured.
RefKept ==
    /\ base' # None => base'.inc < nextInc'
    /\ \A r \in Ref : RefOK(base, baseRun, nextInc, r) =>
          /\ RefOK(base', baseRun', nextInc', r)
          /\ Names(base', r) => Names(base, r) /\ base'.chunks = base.chunks

\* Nothing a captured identity names changes when the base's identity, chunks
\* and marker stay, or the directory goes.
LEMMA RefKeptSame ==
  ASSUME Typed, base # None => base.inc < nextInc, nextInc' = nextInc,
         baseRun' = None \/ baseRun'.pc # "finish",
         \/ base' = None
         \/ /\ base # None /\ base'.inc = base.inc /\ base'.gen = base.gen
            /\ base'.marker = base.marker /\ base'.chunks = base.chunks
  PROVE  RefKept
BY DEF RefKept, RefOK, Names

\* Every step of the base keeps what a captured identity names, or gives the
\* directory another one: a rebuild takes a new incarnation before the marker
\* goes, an update a new generation.
LEMMA RefKeptBase ==
  ASSUME Typed, RefsKnown,
         \/ BaseStart \/ BaseIndexed \/ BaseTouched \/ BaseStep \/ BaseFails \/ BaseRemoved
  PROVE  RefKept
<1>0. base # None => base.inc < nextInc
  BY DEF RefsKnown
<1>00. nextInc \in Nat /\ (base # None => base \in BaseDir)
  BY DEF Typed, TypeOK
<1>1. CASE BaseStart \/ BaseIndexed \/ BaseTouched
  <2>1. baseRun'.pc # "finish" /\ nextInc' = nextInc /\ base' = base
    BY <1>1, BaseLockFields, BaseTouchedType DEF BaseStart, BaseIndexed, BaseTouched
  <2>q. QED
    BY <1>0, <2>1, RefKeptSame
<1>2. CASE BaseNoOp
  <2>1. nextInc' = nextInc
    BY <1>2 DEF BaseNoOp
  <2>q. QED
    BY <1>0, <1>2, <2>1, BaseNoOpType, RefKeptSame DEF GitOnly
<1>3. CASE BaseFails \/ BaseRemoved
  <2>1. nextInc' = nextInc
    BY <1>3 DEF BaseFails, BaseRemoved
  <2>q. QED
    BY <1>0, <1>3, <2>1, BaseEndType, RefKeptSame
<1>4. CASE BaseResnap
  <2>1. nextInc' = nextInc
    BY <1>4 DEF BaseResnap
  <2>2. base'.marker = base.marker
    BY <1>4, BaseResnapType DEF BaseDir
  <2>q. QED
    BY <1>0, <1>4, <2>1, <2>2, BaseResnapType, RefKeptSame
<1>5. CASE BaseRecord
  <2>1. nextInc' = nextInc
    BY <1>5 DEF BaseRecord
  <2>q. QED
    BY <1>0, <1>5, <2>1, BaseRecordType, RefKeptSame DEF GitOnly
<1>6. CASE BaseScan
  <2>1. nextInc' = nextInc
    BY <1>6 DEF BaseScan
  <2>2. /\ baseRun'.pc = "write"
        /\ \/ base' = None
           \/ base # None /\ base'.marker /\ base'.inc = base.inc /\ base'.gen = base.gen
    BY <1>6, BaseScanType
  <2>q. QED
    BY <1>0, <2>1, <2>2 DEF RefKept, RefOK, Names
<1>7. CASE BaseWrite
  <2>1. /\ baseRun'.pc = "publish" /\ base'.marker /\ base' \in BaseDir
        /\ baseRun.fresh \/ base # None
        /\ IF baseRun.fresh THEN base'.inc = nextInc /\ nextInc' = nextInc + 1
           ELSE base'.inc = base.inc /\ base'.gen = base.gen /\ nextInc' = nextInc
    BY <1>7, BaseWriteType
  <2>2. CASE baseRun.fresh
    <3>1. base'.inc = nextInc /\ nextInc' = nextInc + 1
      BY <2>1, <2>2
    <3>2. \A r \in Ref : r.inc < nextInc => r.inc < nextInc' /\ r.inc # base'.inc
      BY <1>00, <3>1 DEF Ref
    <3>q. QED
      BY <1>00, <2>1, <3>1, <3>2 DEF RefKept, RefOK, Names
  <2>3. CASE ~baseRun.fresh
    BY <1>0, <2>1, <2>3 DEF RefKept, RefOK, Names
  <2>q. QED
    BY <2>2, <2>3
<1>8. CASE BasePublish
  <2>1. /\ baseRun'.pc = "finish" /\ base # None /\ base \in BaseDir /\ base' # None
        /\ base'.marker /\ base'.inc = base.inc /\ base'.gen = base.gen + 1
        /\ nextInc' = nextInc
    BY <1>8, BasePublishType DEF BasePublish
  <2>2. ASSUME NEW r \in Ref, RefOK(base, baseRun, nextInc, r)
        PROVE  RefOK(base', baseRun', nextInc', r)
    <3>1. r.inc < nextInc /\ (r.inc = base.inc => r.gen <= base.gen)
      BY <2>1, <2>2 DEF RefOK
    <3>2. r.gen \in Nat /\ base.gen \in Nat
      BY <2>1 DEF Ref, BaseDir
    <3>3. r.inc = base'.inc => r.gen < base'.gen
      BY <2>1, <3>1, <3>2
    <3>q. QED
      BY <2>1, <3>1, <3>2, <3>3 DEF RefOK
  <2>q. QED
    BY <1>0, <2>1, <2>2 DEF RefKept, Names
<1>9. CASE BaseFinish
  <2>1. /\ baseRun' = None /\ baseRun # None /\ baseRun.pc = "finish" /\ base # None
        /\ base'.inc = base.inc /\ base'.gen = base.gen /\ nextInc' = nextInc
    BY <1>9, BaseFinishType DEF BaseFinish
  <2>q. QED
    BY <1>0, <2>1 DEF RefKept, RefOK, Names
<1>q. QED
  BY <1>1, <1>2, <1>3, <1>4, <1>5, <1>6, <1>7, <1>8, <1>9 DEF BaseStep

\* The steps of the base leave the run over the worktree, or let it go on, and
\* what it knows of the base it still knows.
LEMMA TreeInvBase ==
  ASSUME Typed, TreeInv, RefKept, Waiter, UNCHANGED <<baseFs, treeFs, over, historyVars>>
  PROVE  TreeInv'
<1>1. since' = since /\ fresh' = fresh
  BY DEF historyVars
<1>2. over # None => over.ref \in Ref /\ RefOK(base, baseRun, nextInc, over.ref)
  BY DEF Typed, TypeOK, OverDir, TreeInv, RefsKnown
<1>3. over # None => /\ RefOK(base', baseRun', nextInc', over.ref)
                     /\ Names(base', over.ref) =>
                           Names(base, over.ref) /\ base'.chunks = base.chunks
  BY <1>2 DEF RefKept
<1>4. TreeAt(AfterCapture) =>
         /\ RefOK(base', baseRun', nextInc', treeRun.ref)
         /\ Names(base', treeRun.ref) => Names(base, treeRun.ref) /\ base'.chunks = base.chunks
  <2>1. TreeAt(AfterCapture) => treeRun.ref \in Ref
    BY DEF TreeAt, AfterCapture, Typed, TreePhase
  <2>q. QED
    BY <2>1 DEF RefKept, TreeInv, RefsKnown
<1>5. OverRight'
  BY <1>1, <1>3 DEF TreeInv, OverRight
<1>6. FreshHolds' /\ Stamped(treeFs)'
  BY <1>1 DEF TreeInv, FreshHolds, Stamped
<1>7. CASE treeRun' = treeRun
  <2>1. RefsKnown'
    BY <1>3, <1>4, <1>7 DEF RefsKnown, RefKept, TreeAt
  <2>3. TreeAt({"sort", "update", "finish"}) => over # None
    BY DEF TreeAt, Typed, TreePhase
  <2>4. LiveRight' /\ OldRight' /\ MetaPast' /\ NewRight'
    BY <1>1, <1>4, <1>7 DEF TreeInv, RunRight, TreeAt, AfterCapture,
       LiveRight, OldRight, MetaPast, NewRight
  <2>5. BuildRight' /\ PublishRight'
    BY <1>1, <1>4, <1>7 DEF TreeInv, RunRight, TreeAt, AfterCapture,
       BuildRight, PublishRight, Planned
  <2>6. SortRight' /\ FinishRight'
    BY <1>1, <1>3, <1>7, <2>3 DEF TreeInv, RunRight, TreeAt, SortRight, FinishRight
  <2>7. UpdateRight'
    BY <1>1, <1>3, <1>7, <2>3 DEF TreeInv, RunRight, TreeAt, UpdateRight, Planned
  <2>q. QED
    BY <1>5, <1>6, <2>1, <2>4, <2>5, <2>6, <2>7 DEF TreeInv, RunRight
<1>8. CASE treeRun' = None \/ treeRun'.pc = "capture"
  <2>1. RunRight'
    BY <1>8 DEF RunRight, TreeAt, LiveRight, OldRight, MetaPast, NewRight, BuildRight,
                PublishRight, SortRight, UpdateRight, FinishRight
  <2>3. RefsKnown'
    BY <1>3, <1>8 DEF RefsKnown, RefKept, TreeAt, AfterCapture
  <2>q. QED
    BY <1>5, <1>6, <2>1, <2>3 DEF TreeInv
<1>q. QED
  BY <1>7, <1>8 DEF Waiter

\* The user changes the main checkout.
LEMMA TreeInvUserBase ==
  ASSUME Typed, TreeInv, UserBase
  PROVE  TreeInv'
<1>1. UserOnly /\ treeFs' = treeFs /\ since' = since /\ fresh' = fresh
  BY DEF UserBase, historyVars
<1>2. \A snap \in PathStamps : \A chunks :
        Honest(baseFs, snap, chunks) =>
          /\ Honest(baseFs', snap, chunks)
          /\ \A p \in Paths : snap[p] = baseFs'[p].s => baseFs'[p] = baseFs[p]
  <2>1. CASE baseFs' = baseFs
    BY <2>1
  <2>2. CASE Saved(baseFs, baseFs')
    <3>1. PICK p \in Paths, c \in Contents \cup {None} : baseFs' = SetFile(baseFs, p, c)
      BY <2>2 DEF Saved
    <3>2. ASSUME NEW snap \in PathStamps, NEW chunks, Honest(baseFs, snap, chunks)
          PROVE  /\ Honest(baseFs', snap, chunks)
                 /\ \A q \in Paths : snap[q] = baseFs'[q].s => baseFs'[q] = baseFs[q]
      <4>1. baseFs \in Files /\ Past(baseFs, snap)
        BY <3>2 DEF Typed, TypeOK, Honest
      <4>2. Honest(baseFs', snap, chunks)
        BY <3>1, <3>2, <4>1, SetFileKeeps
      <4>3. \A q \in Paths : SetFile(baseFs, p, c)[q] # baseFs[q] =>
                                snap[q] # SetFile(baseFs, p, c)[q].s
        BY <4>1, SetFileHonest
      <4>q. QED
        BY <3>1, <4>2, <4>3
    <3>q. QED
      BY <3>2
  <2>q. QED
    BY <2>1, <2>2 DEF UserBase
<1>3. treeRun # None => treeRun.indexed \in PathStamps
  BY DEF Typed, TypeOK, TreeRuns
<1>4. LiveRight'
  BY <1>1, <1>2, <1>3 DEF TreeInv, RunRight, LiveRight, TreeAt, UserOnly
<1>5. OldRight'
  <2>1. SUFFICES ASSUME TreeAt({"stamps", "contents", "diff"}), Names(base, treeRun.ref),
                        NEW p \in Paths, treeRun.indexed[p] = baseFs'[p].s
                 PROVE  treeRun.old[p] = baseFs'[p].c
    BY <1>1 DEF OldRight, UserOnly, TreeAt
  <2>2. Honest(baseFs, treeRun.indexed, base.chunks)
    BY <2>1 DEF TreeInv, RunRight, LiveRight, TreeAt
  <2>3. baseFs'[p] = baseFs[p]
    BY <1>2, <1>3, <2>1, <2>2 DEF TreeAt
  <2>q. QED
    BY <2>1, <2>3 DEF TreeInv, RunRight, OldRight, TreeAt
<1>6. SortRight'
  BY <1>1, <1>2, <1>3 DEF TreeInv, RunRight, SortRight, TreeAt, UserOnly
<1>7. MetaPast' /\ NewRight' /\ BuildRight' /\ PublishRight' /\ UpdateRight' /\ FinishRight'
  BY <1>1 DEF TreeInv, RunRight, TreeAt, UserOnly, MetaPast, NewRight, BuildRight,
              PublishRight, UpdateRight, FinishRight, Planned
<1>8. RefsKnown' /\ FreshHolds' /\ OverRight' /\ Stamped(treeFs)'
  BY <1>1 DEF TreeInv, UserOnly, RefsKnown, FreshHolds, OverRight, Stamped, TreeAt
<1>q. QED
  BY <1>4, <1>5, <1>6, <1>7, <1>8 DEF TreeInv, RunRight

\* What was right of a path stays right when the path is edited.
LEMMA SetFileRight ==
  ASSUME NEW fs \in Files, NEW p \in Paths, NEW c \in Contents \cup {None},
         NEW snap \in PathStamps, Past(fs, snap),
         NEW known \in [Paths -> SUBSET (Contents \cup {None})],
         NEW q \in Paths, NEW shown, Right(fs[q], snap[q], shown, known[q])
  PROVE  Right(SetFile(fs, p, c)[q], snap[q], shown, [known EXCEPT ![p] = @ \cup {c}][q])
<1>1. SetFile(fs, p, c)[q] # fs[q] => snap[q] # SetFile(fs, p, c)[q].s
  BY SetFileHonest
<1>2. known[q] \subseteq [known EXCEPT ![p] = @ \cup {c}][q]
  OBVIOUS
<1>q. QED
  BY <1>1, <1>2 DEF Right

\* The user changes the worktree.
LEMMA TreeInvUserTree ==
  ASSUME Typed, TreeInv, UserTree
  PROVE  TreeInv'
<1>1. UserOnly /\ baseFs' = baseFs
  BY DEF UserTree
<1>2. PICK p \in Paths, c \in Contents \cup {None} :
        /\ treeFs' = SetFile(treeFs, p, c)
        /\ since' = [since EXCEPT ![p] = @ \cup {c}]
        /\ fresh' = [fresh EXCEPT ![p] = @ \cup {c}]
  BY DEF UserTree
<1>3. /\ treeFs \in Files /\ Stamped(treeFs)
      /\ since \in [Paths -> SUBSET (Contents \cup {None})]
      /\ fresh \in [Paths -> SUBSET (Contents \cup {None})]
      /\ treeRun # None => treeRun.meta \in PathStamps
      /\ over # None => over.snap \in PathStamps
  BY DEF Typed, TypeOK, TreeRuns, OverDir, TreeInv
<1>4. ASSUME NEW snap \in PathStamps, Past(treeFs, snap)
      PROVE  /\ Past(treeFs', snap)
             /\ \A q \in Paths : snap[q] = treeFs'[q].s => treeFs'[q] = treeFs[q]
             /\ \A q \in Paths : \A shown :
                  /\ Right(treeFs[q], snap[q], shown, since[q])
                       => Right(treeFs'[q], snap[q], shown, since'[q])
                  /\ Right(treeFs[q], snap[q], shown, fresh[q])
                       => Right(treeFs'[q], snap[q], shown, fresh'[q])
  <2>1. /\ Past(treeFs', snap)
        /\ \A q \in Paths : snap[q] = treeFs'[q].s => treeFs'[q] = treeFs[q]
    BY <1>2, <1>3, <1>4, SetFileHonest
  <2>2. ASSUME NEW q \in Paths, NEW shown, Right(treeFs[q], snap[q], shown, since[q])
        PROVE  Right(treeFs'[q], snap[q], shown, since'[q])
    BY <1>2, <1>3, <1>4, <2>2, SetFileRight
  <2>3. ASSUME NEW q \in Paths, NEW shown, Right(treeFs[q], snap[q], shown, fresh[q])
        PROVE  Right(treeFs'[q], snap[q], shown, fresh'[q])
    BY <1>2, <1>3, <1>4, <2>3, SetFileRight
  <2>q. QED
    BY <2>1, <2>2, <2>3
<1>5. \A q \in Paths : fresh[q] \subseteq fresh'[q]
  BY <1>2, <1>3
<1>6. \A snap \in PathStamps : \A shown :
        /\ AllRight(treeFs, snap, shown, since) => AllRight(treeFs', snap, shown, since')
        /\ AllRight(treeFs, snap, shown, fresh) => AllRight(treeFs', snap, shown, fresh')
  BY <1>4 DEF AllRight
<1>7. FreshHolds' /\ Stamped(treeFs)'
  <2>1. Stamped(treeFs')
    BY <1>2, <1>3, SetFileStamped
  <2>2. ASSUME NEW q \in Paths PROVE treeFs'[q].c \in fresh'[q]
    <3>1. CASE q = p
      BY <1>2, <1>3, <3>1 DEF SetFile, Files
    <3>2. CASE q # p
      BY <1>2, <1>3, <3>2 DEF SetFile, Files, TreeInv, FreshHolds
    <3>q. QED
      BY <3>1, <3>2
  <2>q. QED
    BY <2>1, <2>2 DEF FreshHolds, Stamped
<1>8. OverRight'
  BY <1>1, <1>3, <1>6 DEF TreeInv, OverRight, UserOnly
<1>9. RefsKnown' /\ LiveRight' /\ OldRight'
  BY <1>1 DEF TreeInv, RunRight, UserOnly, RefsKnown, LiveRight, OldRight, TreeAt
<1>10. MetaPast'
  BY <1>1, <1>3, <1>4 DEF TreeInv, RunRight, UserOnly, MetaPast, TreeAt
<1>11. NewRight'
  <2>1. SUFFICES ASSUME TreeAt({"diff"}), NEW q \in Paths
                 PROVE  /\ treeRun.new[q] \in fresh'[q]
                        /\ treeRun.meta[q] = treeFs'[q].s => treeRun.new[q] = treeFs'[q].c
    BY <1>1 DEF NewRight, TreeAt, UserOnly
  <2>2. Past(treeFs, treeRun.meta) /\ treeRun.meta \in PathStamps
    BY <1>3, <2>1 DEF TreeInv, RunRight, MetaPast, TreeAt
  <2>3. /\ treeRun.new[q] \in fresh[q]
        /\ treeRun.meta[q] = treeFs[q].s => treeRun.new[q] = treeFs[q].c
    BY <2>1 DEF TreeInv, RunRight, NewRight
  <2>4. treeRun.meta[q] = treeFs'[q].s => treeFs'[q] = treeFs[q]
    BY <1>4, <2>2
  <2>q. QED
    BY <1>5, <2>3, <2>4
<1>12. PublishRight' /\ FinishRight'
  BY <1>1, <1>3, <1>6 DEF TreeInv, RunRight, UserOnly, TreeAt, PublishRight, FinishRight
<1>13. TreeAt({"build", "sort", "update"}) => \A q \in Paths : \A shown :
         Right(treeFs[q], treeRun.meta[q], shown, fresh[q])
           => Right(treeFs'[q], treeRun.meta[q], shown, fresh'[q])
  BY <1>3, <1>4 DEF TreeInv, RunRight, MetaPast, TreeAt
<1>14. BuildRight'
  BY <1>1, <1>13 DEF TreeInv, RunRight, UserOnly, TreeAt, BuildRight, Planned
<1>15. SortRight'
  BY <1>1, <1>5, <1>13 DEF TreeInv, RunRight, UserOnly, TreeAt, SortRight
<1>16. UpdateRight'
  BY <1>1, <1>13 DEF TreeInv, RunRight, UserOnly, TreeAt, UpdateRight, Planned
<1>q. QED
  BY <1>7, <1>8, <1>9, <1>10, <1>11, <1>12, <1>14, <1>15, <1>16 DEF TreeInv, RunRight

\* A run over the worktree leaves the checkouts and the base.
LEMMA TreeOnlyRest ==
  ASSUME TreeInv, TreeOnly
  PROVE  /\ baseFs' = baseFs /\ treeFs' = treeFs /\ base' = base /\ baseRun' = baseRun
         /\ nextInc' = nextInc /\ Stamped(treeFs)'
BY DEF TreeInv, TreeOnly, fsVars, Stamped

\* A step of it that leaves the overlay and the history, too: what matters is
\* what the run knows after it.
LEMMA TreeInvGoesOn ==
  ASSUME Typed, TreeInv, TreeOnly, UNCHANGED <<over, historyVars>>, RunRight',
         TreeAt(AfterCapture)' => RefOK(base, baseRun, nextInc, treeRun'.ref)
  PROVE  TreeInv'
<1>1. /\ baseFs' = baseFs /\ treeFs' = treeFs /\ base' = base /\ baseRun' = baseRun
      /\ nextInc' = nextInc /\ Stamped(treeFs)'
  BY TreeOnlyRest
<1>2. over' = over /\ since' = since /\ fresh' = fresh
  BY DEF historyVars
<1>3. RefsKnown' /\ FreshHolds' /\ OverRight'
  BY <1>1, <1>2 DEF TreeInv, RefsKnown, FreshHolds, OverRight, TreeAt
<1>q. QED
  BY <1>1, <1>3 DEF TreeInv

\* The run starts, or ends without a result.
LEMMA TreeInvEnds ==
  ASSUME Typed, TreeInv, CaptureFails \/ SnapshotInvalid \/ TreeFails \/ TreeStart
  PROVE  TreeInv'
<1>1. /\ TreeOnly /\ UNCHANGED <<over, historyVars>>
      /\ treeRun' = None \/ treeRun'.pc \in {"base", "compare"}
  BY TreeEndType, TreeStartType
<1>2. RunRight'
  BY <1>1 DEF RunRight, TreeAt, LiveRight, OldRight, MetaPast, NewRight, BuildRight,
              PublishRight, SortRight, UpdateRight, FinishRight
<1>q. QED
  BY <1>1, <1>2, TreeInvGoesOn DEF TreeAt, AfterCapture

\* The base's state, read under its lock.
LEMMA TreeInvCapture ==
  ASSUME Typed, BaseInv, TreeInv, CaptureBase
  PROVE  TreeInv'
<1>1. /\ TreeOnly /\ UNCHANGED <<over, historyVars>>
      /\ treeRun' \in TreeRuns /\ treeRun'.pc = "live" /\ treeRun'.ref \in Ref
      /\ treeRun'.indexed = base.snap
      /\ treeRun'.ref = [inc |-> base.inc, gen |-> base.gen]
      /\ baseRun = None /\ base # None /\ base \in BaseDir /\ ~base.marker
  BY CaptureBaseType
<1>2. baseFs' = baseFs /\ base' = base
  BY <1>1, TreeOnlyRest
<1>3. Honest(baseFs, base.snap, base.chunks)
  BY <1>1 DEF BaseInv, BaseHonest
<1>4. RunRight'
  BY <1>1, <1>2, <1>3 DEF RunRight, TreeAt, LiveRight, OldRight, MetaPast, NewRight,
     BuildRight, PublishRight, SortRight, UpdateRight, FinishRight
<1>5. RefOK(base, baseRun, nextInc, treeRun'.ref)
  <2>1. base.inc < nextInc /\ base.gen \in Nat
    BY <1>1 DEF TreeInv, RefsKnown, BaseDir
  <2>q. QED
    BY <1>1, <2>1 DEF RefOK
<1>q. QED
  BY <1>1, <1>4, <1>5, TreeInvGoesOn

\* The base's files: one that still has the indexed stamp is the indexed one.
LEMMA TreeInvReadBase ==
  ASSUME Typed, TreeInv, ReadBase
  PROVE  TreeInv'
<1>1. /\ TreeOnly /\ UNCHANGED <<over, historyVars>>
      /\ treeRun # None /\ treeRun \in TreeRuns /\ treeRun.pc = "live"
      /\ treeRun' \in TreeRuns /\ treeRun'.pc = "stamps" /\ treeRun'.ref = treeRun.ref
      /\ treeRun'.indexed = treeRun.indexed /\ treeRun'.old = Texts(baseFs)
  BY ReadBaseType
<1>2. baseFs' = baseFs /\ base' = base
  BY <1>1, TreeOnlyRest
<1>3. LiveRight'
  BY <1>1, <1>2 DEF TreeInv, RunRight, LiveRight, TreeAt
<1>4. OldRight'
  BY <1>1, <1>2 DEF OldRight, TreeAt, Texts
<1>5. RunRight'
  BY <1>1, <1>3, <1>4 DEF RunRight, TreeAt, MetaPast, NewRight,
     BuildRight, PublishRight, SortRight, UpdateRight, FinishRight
<1>6. RefOK(base, baseRun, nextInc, treeRun'.ref)
  BY <1>1 DEF TreeInv, RefsKnown, TreeAt, AfterCapture
<1>q. QED
  BY <1>1, <1>5, <1>6, TreeInvGoesOn

\* The worktree's stamps: the history starts again.
LEMMA TreeInvReadStamps ==
  ASSUME Typed, TreeInv, ReadStamps
  PROVE  TreeInv'
<1>1. /\ TreeOnly /\ UNCHANGED <<over, since>>
      /\ fresh' = [p \in Paths |-> {treeFs[p].c}]
      /\ treeRun # None /\ treeRun \in TreeRuns /\ treeRun.pc = "stamps"
      /\ treeRun' \in TreeRuns /\ treeRun'.pc = "contents" /\ treeRun'.ref = treeRun.ref
      /\ treeRun'.indexed = treeRun.indexed /\ treeRun'.old = treeRun.old
      /\ treeRun'.meta = Stamps(treeFs)
  BY ReadStampsType
<1>2. /\ baseFs' = baseFs /\ treeFs' = treeFs /\ base' = base /\ baseRun' = baseRun
      /\ nextInc' = nextInc /\ Stamped(treeFs)'
  BY <1>1, TreeOnlyRest
<1>3. Past(treeFs, Stamps(treeFs))
  BY WalkPast DEF Typed, TypeOK, TreeInv
<1>4. LiveRight' /\ OldRight' /\ MetaPast'
  BY <1>1, <1>2, <1>3 DEF TreeInv, RunRight, LiveRight, OldRight, MetaPast, TreeAt
<1>5. RunRight'
  BY <1>1, <1>4 DEF RunRight, TreeAt, NewRight,
     BuildRight, PublishRight, SortRight, UpdateRight, FinishRight
<1>6. RefsKnown' /\ FreshHolds' /\ OverRight'
  BY <1>1, <1>2 DEF TreeInv, RefsKnown, FreshHolds, OverRight, TreeAt, AfterCapture
<1>q. QED
  BY <1>2, <1>5, <1>6 DEF TreeInv

\* The worktree's contents: a file that still has the first stamp is the one read.
LEMMA TreeInvReadContents ==
  ASSUME Typed, TreeInv, ReadContents
  PROVE  TreeInv'
<1>1. /\ TreeOnly /\ UNCHANGED <<over, historyVars>>
      /\ treeRun # None /\ treeRun \in TreeRuns /\ treeRun.pc = "contents"
      /\ treeRun' \in TreeRuns /\ treeRun'.pc = "diff" /\ treeRun'.ref = treeRun.ref
      /\ treeRun'.indexed = treeRun.indexed /\ treeRun'.old = treeRun.old
      /\ treeRun'.meta = treeRun.meta /\ treeRun'.new = Texts(treeFs)
  BY ReadContentsType
<1>2. baseFs' = baseFs /\ treeFs' = treeFs /\ base' = base /\ fresh' = fresh
  BY <1>1, TreeOnlyRest DEF historyVars
<1>3. LiveRight' /\ OldRight' /\ MetaPast'
  BY <1>1, <1>2 DEF TreeInv, RunRight, LiveRight, OldRight, MetaPast, TreeAt
<1>4. NewRight'
  BY <1>1, <1>2 DEF TreeInv, FreshHolds, NewRight, TreeAt, Texts
<1>5. RunRight'
  BY <1>1, <1>3, <1>4 DEF RunRight, TreeAt,
     BuildRight, PublishRight, SortRight, UpdateRight, FinishRight
<1>6. RefOK(base, baseRun, nextInc, treeRun'.ref)
  BY <1>1 DEF TreeInv, RefsKnown, TreeAt, AfterCapture
<1>q. QED
  BY <1>1, <1>5, <1>6, TreeInvGoesOn

\* The first diff: a path left to the base is shown as the base indexed it, and
\* that is what both checkouts hold; a path of the base the worktree does not
\* have is hidden.
LEMMA TreeInvDiff ==
  ASSUME Typed, BaseInv, TreeInv, InitialDiff
  PROVE  TreeInv'
<1>1. /\ TreeOnly /\ UNCHANGED <<over, historyVars>> /\ SnapshotValid
      /\ treeRun # None /\ treeRun \in TreeRuns /\ treeRun.pc = "diff"
      /\ treeRun' \in TreeRuns /\ treeRun'.pc = "build" /\ treeRun'.ref = treeRun.ref
      /\ treeRun'.meta = treeRun.meta
      /\ treeRun'.take = DiffTake /\ treeRun'.hide = DiffHide
  BY InitialDiffType
<1>2. baseFs' = baseFs /\ treeFs' = treeFs /\ base' = base /\ fresh' = fresh
  BY <1>1, TreeOnlyRest DEF historyVars
<1>3. MetaPast'
  BY <1>1, <1>2 DEF TreeInv, RunRight, MetaPast, TreeAt
<1>4. ASSUME Names(base, treeRun.ref), NEW p \in Paths
      PROVE  IF p \in DiffTake
             THEN treeRun.meta[p] # 0 /\ (p \notin DiffHide => base.chunks[p] = None)
             ELSE Right(treeFs[p], treeRun.meta[p],
                        IF p \in DiffHide THEN None ELSE base.chunks[p], fresh[p])
  <2>1. Honest(baseFs, treeRun.indexed, base.chunks)
    BY <1>1, <1>4 DEF TreeInv, RunRight, LiveRight, TreeAt
  <2>2. treeRun.indexed[p] = baseFs[p].s => treeRun.old[p] = baseFs[p].c
    BY <1>1, <1>4 DEF TreeInv, RunRight, OldRight, TreeAt
  <2>3. /\ treeRun.new[p] \in fresh[p]
        /\ treeRun.meta[p] = treeFs[p].s => treeRun.new[p] = treeFs[p].c
    BY <1>1 DEF TreeInv, RunRight, NewRight, TreeAt
  <2>4. treeRun.indexed[p] = 0 => base.chunks[p] = None
    BY <2>1 DEF Honest
  <2>5. IF treeRun.new[p] = None THEN treeRun.meta[p] = 0
        ELSE treeRun.meta[p] # 0 /\ treeRun.meta[p] = Stamps(treeFs)[p]
    BY <1>1 DEF SnapshotValid
  <2>6. treeFs[p].s # 0 /\ baseFs[p].s # 0
    BY DEF TreeInv, BaseInv, Stamped
  <2>7. CASE p \in DiffTake
    <3>1. treeRun.meta[p] # 0
      BY <2>5, <2>7 DEF DiffTake
    <3>2. p \notin DiffHide => treeRun.indexed[p] = 0
      BY <2>7 DEF DiffHide
    <3>q. QED
      BY <2>4, <2>7, <3>1, <3>2
  <2>8. CASE p \notin DiffTake /\ treeRun.new[p] = None
    <3>1. treeRun.meta[p] = 0 /\ treeRun.meta[p] # treeFs[p].s
      BY <2>5, <2>6, <2>8
    <3>2. p \notin DiffHide => base.chunks[p] = None
      BY <2>4, <2>8 DEF DiffHide, DiffGone
    <3>q. QED
      BY <2>3, <2>8, <3>1, <3>2 DEF Right
  <2>9. CASE p \notin DiffTake /\ treeRun.new[p] # None
    <3>1. Inherited(p)
      BY <2>9 DEF DiffTake
    <3>2. treeRun.indexed[p] # 0 /\ treeRun.indexed[p] = Stamps(baseFs)[p]
          /\ treeRun.old[p] = treeRun.new[p]
      BY <3>1 DEF Inherited
    <3>3. treeRun.indexed[p] = baseFs[p].s
      BY <3>2, WalkPast DEF BaseInv, Typed, TypeOK
    <3>4. base.chunks[p] = treeRun.new[p]
      BY <2>1, <2>2, <3>2, <3>3 DEF Honest
    <3>5. p \notin DiffHide
      BY <2>9 DEF DiffHide, DiffGone
    <3>6. treeRun.meta[p] # 0
      BY <2>5, <2>9
    <3>q. QED
      BY <2>3, <2>9, <3>4, <3>5, <3>6 DEF Right
  <2>q. QED
    BY <2>7, <2>8, <2>9
<1>5. BuildRight'
  BY <1>1, <1>2, <1>4 DEF BuildRight, TreeAt, Planned
<1>6. RunRight'
  BY <1>1, <1>3, <1>5 DEF RunRight, TreeAt, LiveRight, OldRight, NewRight,
     PublishRight, SortRight, UpdateRight, FinishRight
<1>7. RefOK(base, baseRun, nextInc, treeRun'.ref)
  BY <1>1 DEF TreeInv, RefsKnown, TreeAt, AfterCapture
<1>q. QED
  BY <1>1, <1>6, <1>7, TreeInvGoesOn

\* The stamps that go with the chunks are of the files that were chunked, or of
\* none.
LEMMA VanishedPast ==
  ASSUME Typed, TreeInv, NEW meta \in PathStamps, NEW take \in SUBSET Paths,
         Past(treeFs, meta)
  PROVE  Past(treeFs, WithVanished(meta, take))
<1>1. ASSUME NEW p \in Paths
      PROVE  /\ WithVanished(meta, take)[p] <= treeFs[p].s
             /\ WithVanished(meta, take)[p] = treeFs[p].s => treeFs[p].c # None
  <2>1. treeFs[p].s \in Nat /\ treeFs[p].s >= 2
    BY DEF Typed, TypeOK, Files, TreeInv, Stamped
  <2>2. WithVanished(meta, take)[p] = meta[p] \/ WithVanished(meta, take)[p] = 1
    BY DEF WithVanished, Vanished
  <2>q. QED
    BY <2>1, <2>2 DEF Past
<1>q. QED
  BY <1>1 DEF Past

\* A path taken into the overlay is shown as it was read, and that it vanished
\* before the read is in its stamp.
LEMMA TakenRight ==
  ASSUME Typed, TreeInv, NEW meta \in PathStamps, NEW take \in SUBSET Paths,
         NEW p \in take, meta[p] # 0, NEW shown, shown = Chunked(take)[p]
  PROVE  Right(treeFs[p], WithVanished(meta, take)[p], shown, fresh[p])
<1>1. shown = treeFs[p].c /\ treeFs[p].c \in fresh[p]
  BY DEF Chunked, TreeInv, FreshHolds
<1>2. WithVanished(meta, take)[p] = IF treeFs[p].c = None THEN 1 ELSE meta[p]
  BY DEF WithVanished, Vanished
<1>q. QED
  BY <1>1, <1>2 DEF Right

\* Building the overlay.
LEMMA TreeInvBuild ==
  ASSUME Typed, TreeInv, BuildOverlay
  PROVE  TreeInv'
<1>1. /\ TreeOnly /\ UNCHANGED <<over, historyVars>>
      /\ treeRun # None /\ treeRun \in TreeRuns /\ treeRun.pc = "build"
      /\ treeRun' \in TreeRuns /\ treeRun'.pc = "promote" /\ treeRun'.ref = treeRun.ref
      /\ treeRun'.meta = WithVanished(treeRun.meta, treeRun.take)
      /\ treeRun'.new = Chunked(treeRun.take) /\ treeRun'.hide = treeRun.hide
  BY BuildOverlayType
<1>2. treeFs' = treeFs /\ base' = base /\ fresh' = fresh
  BY <1>1, TreeOnlyRest DEF historyVars
<1>3. /\ treeRun.meta \in PathStamps /\ treeRun.take \in SUBSET Paths
      /\ Past(treeFs, treeRun.meta)
  BY <1>1 DEF TreeRuns, TreeInv, RunRight, MetaPast, TreeAt
<1> DEFINE shown == Shown(Chunked(treeRun.take), treeRun.hide, base.chunks)
           meta == WithVanished(treeRun.meta, treeRun.take)
<1>4. ASSUME Names(base, treeRun.ref), NEW p \in Paths
      PROVE  Right(treeFs[p], meta[p], shown[p], fresh[p])
  <2>1. Planned(p, IF p \in treeRun.hide THEN None ELSE base.chunks[p])
    BY <1>1, <1>4 DEF TreeInv, RunRight, BuildRight, TreeAt
  <2>2. CASE p \in treeRun.take
    <3>1. treeRun.meta[p] # 0 /\ (p \notin treeRun.hide => base.chunks[p] = None)
      BY <2>1, <2>2 DEF Planned
    <3>2. shown[p] = Chunked(treeRun.take)[p]
      BY <3>1 DEF Shown
    <3>q. QED
      BY <1>3, <2>2, <3>1, <3>2, TakenRight
  <2>3. CASE p \notin treeRun.take
    <3>1. Chunked(treeRun.take)[p] = None /\ meta[p] = treeRun.meta[p]
      BY <2>3 DEF Chunked, WithVanished
    <3>2. shown[p] = IF p \in treeRun.hide THEN None ELSE base.chunks[p]
      BY <3>1 DEF Shown
    <3>q. QED
      BY <2>1, <2>3, <3>1, <3>2 DEF Planned
  <2>q. QED
    BY <2>2, <2>3
<1>5. Names(base, treeRun.ref) => AllRight(treeFs, meta, shown, fresh)
  BY <1>3, <1>4, VanishedPast DEF AllRight
<1>6. PublishRight'
  BY <1>1, <1>2, <1>5 DEF PublishRight, TreeAt
<1>7. RunRight'
  BY <1>1, <1>6 DEF RunRight, TreeAt, LiveRight, OldRight, MetaPast, NewRight, BuildRight,
     SortRight, UpdateRight, FinishRight
<1>8. RefOK(base, baseRun, nextInc, treeRun'.ref)
  BY <1>1 DEF TreeInv, RefsKnown, TreeAt, AfterCapture
<1>q. QED
  BY <1>1, <1>7, <1>8, TreeInvGoesOn

\* The old overlay leaves.
LEMMA TreeInvUnpublish ==
  ASSUME Typed, TreeInv, Unpublish
  PROVE  TreeInv'
<1>1. /\ TreeOnly /\ UNCHANGED historyVars
      /\ treeRun # None /\ treeRun \in TreeRuns /\ treeRun.pc = "promote"
      /\ treeRun' \in TreeRuns /\ treeRun'.pc = "publish" /\ treeRun'.ref = treeRun.ref
      /\ treeRun'.meta = treeRun.meta
      /\ treeRun'.new = treeRun.new /\ treeRun'.hide = treeRun.hide
      /\ \/ over' = None
         \/ over # None /\ over \in OverDir /\ ~over'.ready /\ over'.ref = over.ref
  BY UnpublishType
<1>2. /\ treeFs' = treeFs /\ base' = base /\ baseRun' = baseRun
      /\ nextInc' = nextInc /\ Stamped(treeFs)' /\ fresh' = fresh
  BY <1>1, TreeOnlyRest DEF historyVars
<1>3. PublishRight'
  BY <1>1, <1>2 DEF TreeInv, RunRight, PublishRight, TreeAt
<1>4. RunRight'
  BY <1>1, <1>3 DEF RunRight, TreeAt, LiveRight, OldRight, MetaPast, NewRight, BuildRight,
     SortRight, UpdateRight, FinishRight
<1>5. RefsKnown' /\ FreshHolds' /\ OverRight'
  BY <1>1, <1>2 DEF TreeInv, RefsKnown, FreshHolds, OverRight, TreeAt, AfterCapture
<1>q. QED
  BY <1>2, <1>4, <1>5 DEF TreeInv

\* The new one comes: it is right since the run began to read.
LEMMA TreeInvPublish ==
  ASSUME Typed, TreeInv, PublishOverlay
  PROVE  TreeInv'
<1>1. /\ TreeOnly /\ treeRun' = None /\ fresh' = fresh /\ since' = fresh
      /\ treeRun # None /\ treeRun \in TreeRuns /\ treeRun.pc = "publish"
      /\ over' \in OverDir /\ over'.ref = treeRun.ref
      /\ over'.snap = treeRun.meta
      /\ over'.chunks = treeRun.new /\ over'.tombs = treeRun.hide
  BY PublishOverlayType
<1>2. /\ treeFs' = treeFs /\ base' = base /\ baseRun' = baseRun
      /\ nextInc' = nextInc /\ Stamped(treeFs)'
  BY <1>1, TreeOnlyRest
<1>3. OverRight'
  BY <1>1, <1>2 DEF TreeInv, RunRight, PublishRight, TreeAt, OverRight
<1>4. RunRight'
  BY <1>1 DEF RunRight, TreeAt, LiveRight, OldRight, MetaPast, NewRight, BuildRight,
     PublishRight, SortRight, UpdateRight, FinishRight
<1>5. RefsKnown' /\ FreshHolds'
  BY <1>1, <1>2 DEF TreeInv, RefsKnown, FreshHolds, TreeAt, AfterCapture
<1>q. QED
  BY <1>2, <1>3, <1>4, <1>5 DEF TreeInv

\* An incremental run walks the worktree: what has the stamp of the overlay's
\* snapshot is shown as it is.
LEMMA TreeInvCompare ==
  ASSUME Typed, BaseInv, TreeInv, CompareStamps
  PROVE  TreeInv'
<1>1. /\ TreeOnly /\ over' = over
      /\ over # None /\ over \in OverDir /\ over.ready /\ ~over.marker
      /\ fresh' = [p \in Paths |-> {treeFs[p].c}]
      /\ treeRun # None /\ treeRun \in TreeRuns /\ treeRun.pc = "compare"
      /\ \/ Stamps(treeFs) = over.snap /\ treeRun' = None /\ since' = fresh'
         \/ /\ since' = since /\ treeRun' \in TreeRuns /\ treeRun'.pc = "sort"
            /\ treeRun'.ref = treeRun.ref /\ treeRun'.meta = Stamps(treeFs)
            /\ treeRun'.indexed = IF base = None THEN NoFiles ELSE base.snap
  BY CompareStampsType
<1>2. /\ baseFs' = baseFs /\ treeFs' = treeFs /\ base' = base /\ baseRun' = baseRun
      /\ nextInc' = nextInc /\ Stamped(treeFs)'
  BY <1>1, TreeOnlyRest
<1>3. /\ Past(treeFs, Stamps(treeFs))
      /\ \A p \in Paths : /\ Stamps(treeFs)[p] = 0 <=> treeFs[p].c = None
                          /\ treeFs[p].c # None => Stamps(treeFs)[p] = treeFs[p].s
  BY WalkPast DEF Typed, TypeOK, TreeInv
<1> DEFINE shown == Shown(over.chunks, over.tombs, base.chunks)
<1>4. ASSUME Names(base, over.ref), NEW p \in Paths, Stamps(treeFs)[p] = over.snap[p]
      PROVE  Right(treeFs[p], over.snap[p], shown[p], fresh'[p])
  <2>1. Right(treeFs[p], over.snap[p], shown[p], since[p])
    BY <1>1, <1>4 DEF TreeInv, OverRight, AllRight
  <2>2. shown[p] = treeFs[p].c
    BY <1>3, <1>4, <2>1 DEF Right
  <2>q. QED
    BY <1>1, <2>1, <2>2 DEF Right
<1>5. RefsKnown' /\ FreshHolds'
  BY <1>1, <1>2 DEF TreeInv, RefsKnown, FreshHolds, TreeAt, AfterCapture
<1>6. CASE Stamps(treeFs) = over.snap /\ treeRun' = None /\ since' = fresh'
  <2>1. Names(base, over.ref) => AllRight(treeFs, over.snap, shown, fresh')
    BY <1>3, <1>4, <1>6 DEF AllRight
  <2>2. OverRight'
    BY <1>1, <1>2, <1>6, <2>1 DEF OverRight
  <2>3. RunRight'
    BY <1>6 DEF RunRight, TreeAt, LiveRight, OldRight, MetaPast, NewRight, BuildRight,
       PublishRight, SortRight, UpdateRight, FinishRight
  <2>q. QED
    BY <1>2, <1>5, <2>2, <2>3 DEF TreeInv
<1>7. CASE /\ since' = since /\ treeRun' \in TreeRuns /\ treeRun'.pc = "sort"
           /\ treeRun'.ref = treeRun.ref /\ treeRun'.meta = Stamps(treeFs)
           /\ treeRun'.indexed = IF base = None THEN NoFiles ELSE base.snap
  <2>1. OverRight'
    BY <1>1, <1>2, <1>7 DEF TreeInv, OverRight
  <2>2. \A p \in Paths : Stamps(treeFs)[p] = 0 => None \in fresh'[p]
    BY <1>1, <1>3
  <2>3. Names(base, over.ref) => Honest(baseFs, treeRun'.indexed, base.chunks)
    BY <1>7 DEF BaseInv, BaseHonest, Names
  <2>4. SortRight'
    BY <1>1, <1>2, <1>4, <1>7, <2>2, <2>3 DEF SortRight, TreeAt
  <2>5. MetaPast'
    BY <1>2, <1>3, <1>7 DEF MetaPast, TreeAt
  <2>6. RunRight'
    BY <1>7, <2>4, <2>5 DEF RunRight, TreeAt, LiveRight, OldRight, NewRight, BuildRight,
       PublishRight, UpdateRight, FinishRight
  <2>q. QED
    BY <1>2, <1>5, <2>1, <2>6 DEF TreeInv
<1>q. QED
  BY <1>1, <1>6, <1>7

\* Sorting the changes: a path goes back to the base only if the base indexed
\* the file that is there now.
LEMMA TreeInvSort ==
  ASSUME Typed, BaseInv, TreeInv, SortChanges
  PROVE  TreeInv'
<1>1. /\ TreeOnly /\ UNCHANGED historyVars
      /\ treeRun # None /\ treeRun \in TreeRuns /\ treeRun.pc = "sort"
      /\ over # None /\ over \in OverDir
      /\ over' \in OverDir /\ over' # None /\ over'.marker /\ over'.ref = over.ref
      /\ over'.chunks = over.chunks /\ over'.tombs = over.tombs
      /\ treeRun' \in TreeRuns /\ treeRun'.pc = "update"
      /\ treeRun'.meta = treeRun.meta /\ treeRun'.take = There \ Back
      /\ treeRun'.hide = (Changed \ Back) \cap InBase
      /\ treeRun'.clear = Back \cup ((Changed \ There) \ InBase)
  BY SortChangesType
<1>2. /\ baseFs' = baseFs /\ treeFs' = treeFs /\ base' = base /\ baseRun' = baseRun
      /\ nextInc' = nextInc /\ Stamped(treeFs)' /\ fresh' = fresh
  BY <1>1, TreeOnlyRest DEF historyVars
<1>3. \A p \in Paths : treeRun.meta[p] = 0 => None \in fresh[p]
  BY <1>1 DEF TreeInv, RunRight, SortRight, TreeAt
<1>4. \A p \in Paths : /\ Stamps(baseFs)[p] = 0 <=> baseFs[p].c = None
                       /\ baseFs[p].c # None => Stamps(baseFs)[p] = baseFs[p].s
  BY WalkPast DEF Typed, TypeOK, BaseInv
<1> DEFINE shown == Shown(over.chunks, over.tombs, base.chunks)
           plan(p) == IF p \in treeRun'.hide THEN None
                      ELSE IF p \in treeRun'.clear THEN base.chunks[p] ELSE shown[p]
<1>5. ASSUME Names(base, over.ref), NEW p \in Paths
      PROVE  IF p \in treeRun'.take
             THEN treeRun.meta[p] # 0 /\ (p \notin treeRun'.hide => base.chunks[p] = None)
             ELSE Right(treeFs[p], treeRun.meta[p], plan(p), fresh[p])
  <2>1. /\ Honest(baseFs, treeRun.indexed, base.chunks)
        /\ treeRun.meta[p] = over.snap[p] =>
              Right(treeFs[p], treeRun.meta[p], shown[p], fresh[p])
    BY <1>1, <1>5 DEF TreeInv, RunRight, SortRight, TreeAt
  <2>2. /\ treeRun.indexed[p] = baseFs[p].s => base.chunks[p] = baseFs[p].c
        /\ treeRun.indexed[p] = 0 => base.chunks[p] = None
    BY <2>1 DEF Honest
  <2>3. /\ p \in Changed <=> treeRun.meta[p] # over.snap[p]
        /\ p \in There <=> p \in Changed /\ treeRun.meta[p] # 0
        /\ p \in Back <=> p \in There /\ ReturnsToBase(p)
        /\ p \in InBase <=> treeRun.indexed[p] # 0
    BY DEF Changed, There, Back, InBase
  <2>4. treeFs[p].c \in fresh[p] /\ treeFs[p].s \in Nat /\ treeFs[p].s >= 2
    BY DEF TreeInv, FreshHolds, Stamped, Typed, TypeOK, Files
  <2>5. CASE p \in Back
    <3>1. base.chunks[p] = treeFs[p].c
      BY <1>4, <2>2, <2>3, <2>5 DEF ReturnsToBase
    <3>2. p \notin treeRun'.take /\ plan(p) = base.chunks[p] /\ treeRun.meta[p] # 0
      BY <1>1, <2>3, <2>5
    <3>q. QED
      BY <2>4, <3>1, <3>2 DEF Right
  <2>6. CASE p \in There \ Back
    BY <1>1, <2>2, <2>3, <2>6
  <2>7. CASE p \in Changed \ There
    <3>1. p \notin treeRun'.take /\ plan(p) = None /\ treeRun.meta[p] = 0
      BY <1>1, <2>2, <2>3, <2>7
    <3>q. QED
      BY <1>3, <2>4, <3>1 DEF Right
  <2>8. CASE p \notin Changed
    <3>1. p \notin treeRun'.take /\ plan(p) = shown[p]
      BY <1>1, <2>3, <2>8
    <3>q. QED
      BY <2>1, <2>3, <2>8, <3>1
  <2>q. QED
    BY <2>3, <2>5, <2>6, <2>7, <2>8
<1>6. treeRun'.clear \cap (treeRun'.hide \cup treeRun'.take) = {}
  BY <1>1 DEF Changed, There, Back, InBase
<1>7. UpdateRight'
  BY <1>1, <1>2, <1>5, <1>6 DEF UpdateRight, Planned, TreeAt
<1>8. MetaPast'
  BY <1>1, <1>2 DEF TreeInv, RunRight, MetaPast, TreeAt
<1>9. RunRight'
  BY <1>1, <1>7, <1>8 DEF RunRight, TreeAt, LiveRight, OldRight, NewRight, BuildRight,
     PublishRight, SortRight, FinishRight
<1>10. RefsKnown' /\ FreshHolds' /\ OverRight'
  BY <1>1, <1>2 DEF TreeInv, RefsKnown, FreshHolds, OverRight, TreeAt, AfterCapture
<1>q. QED
  BY <1>2, <1>9, <1>10 DEF TreeInv

\* The update: a changed path is shown as it was read, hidden or left to the
\* base.
LEMMA TreeInvUpdate ==
  ASSUME Typed, TreeInv, UpdateOverlay
  PROVE  TreeInv'
<1>1. /\ TreeOnly /\ UNCHANGED historyVars
      /\ treeRun # None /\ treeRun \in TreeRuns /\ treeRun.pc = "update"
      /\ over # None /\ over \in OverDir
      /\ over' \in OverDir /\ over' # None /\ over'.marker /\ over'.ref = over.ref
      /\ over'.chunks = Updated
      /\ over'.tombs = (over.tombs \ treeRun.clear) \cup treeRun.hide
      /\ treeRun' \in TreeRuns /\ treeRun'.pc = "finish"
      /\ treeRun'.meta = WithVanished(treeRun.meta, treeRun.take)
  BY UpdateOverlayType
<1>2. /\ treeFs' = treeFs /\ base' = base /\ baseRun' = baseRun
      /\ nextInc' = nextInc /\ Stamped(treeFs)' /\ fresh' = fresh
  BY <1>1, TreeOnlyRest DEF historyVars
<1>3. /\ treeRun.meta \in PathStamps /\ treeRun.take \in SUBSET Paths
      /\ Past(treeFs, treeRun.meta)
      /\ treeRun.clear \cap (treeRun.hide \cup treeRun.take) = {}
  BY <1>1 DEF TreeRuns, TreeInv, RunRight, MetaPast, UpdateRight, TreeAt
<1> DEFINE tombs == (over.tombs \ treeRun.clear) \cup treeRun.hide
           shown == Shown(Updated, tombs, base.chunks)
           meta == WithVanished(treeRun.meta, treeRun.take)
<1>4. ASSUME Names(base, over.ref), NEW p \in Paths
      PROVE  Right(treeFs[p], meta[p], shown[p], fresh[p])
  <2>1. Planned(p, IF p \in treeRun.hide THEN None
                   ELSE IF p \in treeRun.clear THEN base.chunks[p]
                   ELSE Shown(over.chunks, over.tombs, base.chunks)[p])
    BY <1>1, <1>4 DEF TreeInv, RunRight, UpdateRight, TreeAt
  <2>2. Updated[p] = IF p \in treeRun.clear \cup treeRun.hide \cup treeRun.take
                     THEN Chunked(treeRun.take)[p] ELSE over.chunks[p]
    BY DEF Updated
  <2>3. CASE p \in treeRun.take
    <3>1. treeRun.meta[p] # 0 /\ (p \notin treeRun.hide => base.chunks[p] = None)
      BY <2>1, <2>3 DEF Planned
    <3>2. Updated[p] = Chunked(treeRun.take)[p]
      BY <2>2, <2>3
    <3>3. Chunked(treeRun.take)[p] = treeFs[p].c
      BY <2>3 DEF Chunked
    <3>4. shown[p] = Chunked(treeRun.take)[p]
      BY <3>1, <3>2, <3>3 DEF Shown
    <3>q. QED
      BY <1>3, <2>3, <3>1, <3>4, TakenRight
  <2>4. CASE p \notin treeRun.take
    <3>1. Chunked(treeRun.take)[p] = None /\ meta[p] = treeRun.meta[p]
      BY <2>4 DEF Chunked, WithVanished
    <3>2. shown[p] = IF p \in treeRun.hide THEN None
                     ELSE IF p \in treeRun.clear THEN base.chunks[p]
                     ELSE Shown(over.chunks, over.tombs, base.chunks)[p]
      BY <1>3, <2>2, <2>4, <3>1 DEF Shown
    <3>q. QED
      BY <2>1, <2>4, <3>1, <3>2 DEF Planned
  <2>q. QED
    BY <2>3, <2>4
<1>5. Names(base, over.ref) => AllRight(treeFs, meta, shown, fresh)
  BY <1>3, <1>4, VanishedPast DEF AllRight
<1>6. FinishRight'
  BY <1>1, <1>2, <1>5 DEF FinishRight, TreeAt
<1>7. RunRight'
  BY <1>1, <1>6 DEF RunRight, TreeAt, LiveRight, OldRight, MetaPast, NewRight, BuildRight,
     PublishRight, SortRight, UpdateRight
<1>8. RefsKnown' /\ FreshHolds' /\ OverRight'
  BY <1>1, <1>2 DEF TreeInv, RefsKnown, FreshHolds, OverRight, TreeAt, AfterCapture
<1>q. QED
  BY <1>2, <1>7, <1>8 DEF TreeInv

\* The marker goes: the overlay is right since the run began to read.
LEMMA TreeInvFinish ==
  ASSUME Typed, TreeInv, FinishUpdate
  PROVE  TreeInv'
<1>1. /\ TreeOnly /\ treeRun' = None /\ fresh' = fresh /\ since' = fresh
      /\ treeRun # None /\ treeRun \in TreeRuns /\ treeRun.pc = "finish"
      /\ over # None /\ over \in OverDir
      /\ over' \in OverDir /\ over'.ref = over.ref /\ over'.snap = treeRun.meta
      /\ over'.chunks = over.chunks /\ over'.tombs = over.tombs
  BY FinishUpdateType
<1>2. /\ treeFs' = treeFs /\ base' = base /\ baseRun' = baseRun
      /\ nextInc' = nextInc /\ Stamped(treeFs)'
  BY <1>1, TreeOnlyRest
<1>3. OverRight'
  BY <1>1, <1>2 DEF TreeInv, RunRight, FinishRight, TreeAt, OverRight
<1>4. RunRight'
  BY <1>1 DEF RunRight, TreeAt, LiveRight, OldRight, MetaPast, NewRight, BuildRight,
     PublishRight, SortRight, UpdateRight, FinishRight
<1>5. RefsKnown' /\ FreshHolds'
  BY <1>1, <1>2 DEF TreeInv, RefsKnown, FreshHolds, TreeAt, AfterCapture
<1>q. QED
  BY <1>2, <1>3, <1>4, <1>5 DEF TreeInv

\* Steps that change nothing.
LEMMA TreeInvIdle ==
  ASSUME Typed, TreeInv, UNCHANGED vars
  PROVE  TreeInv'
<1>1. /\ base' = base /\ baseRun' = baseRun /\ nextInc' = nextInc /\ treeRun' = treeRun
      /\ UNCHANGED <<baseFs, treeFs, over, historyVars>>
  BY DEF vars, fsVars, historyVars
<1>2. RefKept
  BY <1>1 DEF RefKept, TreeInv, RefsKnown
<1>q. QED
  BY <1>1, <1>2, TreeInvBase DEF Waiter

\* The steps of the base.
LEMMA TreeInvBaseSteps ==
  ASSUME Typed, TreeInv,
         \/ BaseStart \/ BaseIndexed \/ BaseTouched \/ BaseStep \/ BaseFails \/ BaseRemoved
  PROVE  TreeInv'
<1>1. RefKept
  BY RefKeptBase DEF TreeInv
<1>2. UNCHANGED <<baseFs, treeFs, over, historyVars>>
  BY DEF fsVars, BaseStart, BaseIndexed, BaseTouched, BaseFails, BaseRemoved, BaseStep, BaseNoOp,
         BaseScan, BaseWrite, BasePublish, BaseFinish, BaseResnap, BaseRecord
<1>3. Waiter
  <2>1. CASE BaseStart \/ BaseIndexed \/ BaseTouched
    BY <2>1, BaseStartType, BaseIndexedType, BaseTouchedType DEF Waiter
  <2>2. CASE BaseStep
    BY <2>2, BaseNoOpType, BaseScanType, BaseWriteType, BasePublishType, BaseFinishType,
       BaseResnapType, BaseRecordType DEF BaseStep, Waiter
  <2>3. CASE BaseFails \/ BaseRemoved
    BY <2>3, BaseEndType
  <2>q. QED
    BY <2>1, <2>2, <2>3
<1>q. QED
  BY <1>1, <1>2, <1>3, TreeInvBase

\* A base that is current is not touched.
LEMMA TreeInvCurrent ==
  ASSUME Typed, TreeInv, BaseCurrent
  PROVE  TreeInv'
<1>1. /\ base' = base /\ baseRun' = baseRun /\ nextInc' = nextInc
      /\ UNCHANGED <<baseFs, treeFs, over, historyVars>>
  BY DEF BaseCurrent, fsVars
<1>2. RefKept
  BY <1>1 DEF RefKept, TreeInv, RefsKnown
<1>q. QED
  BY <1>1, <1>2, TreeInvBase, BaseCurrentType

\* Every step keeps the invariant.
LEMMA TreeInvStep ==
  ASSUME Typed, BaseInv, TreeInv, [Next]_vars
  PROVE  TreeInv'
<1>1. CASE BaseStart \/ BaseIndexed \/ BaseTouched \/ BaseStep \/ BaseFails \/ BaseRemoved
  BY <1>1, TreeInvBaseSteps
<1>2. CASE BaseCurrent
  BY <1>2, TreeInvCurrent
<1>3. CASE TreeStart \/ CaptureFails \/ SnapshotInvalid \/ TreeFails
  BY <1>3, TreeInvEnds
<1>4. CASE CaptureBase \/ ReadBase \/ ReadStamps \/ ReadContents \/ InitialDiff
  BY <1>4, TreeInvCapture, TreeInvReadBase, TreeInvReadStamps, TreeInvReadContents, TreeInvDiff
<1>5. CASE BuildOverlay \/ Unpublish \/ PublishOverlay
  BY <1>5, TreeInvBuild, TreeInvUnpublish, TreeInvPublish
<1>6. CASE CompareStamps \/ SortChanges \/ UpdateOverlay \/ FinishUpdate
  BY <1>6, TreeInvCompare, TreeInvSort, TreeInvUpdate, TreeInvFinish
<1>7. CASE User
  BY <1>7, UserSteps, TreeInvUserBase, TreeInvUserTree
<1>8. CASE UNCHANGED vars
  BY <1>8, TreeInvIdle
<1>q. QED
  BY <1>1, <1>2, <1>3, <1>4, <1>5, <1>6, <1>7, <1>8 DEF Next, TreeStep

\* What a search under the daemon's leases shows is not behind, until the main
\* checkout slips.
ViewBehind == (IF slipped THEN None ELSE View) \in Promise!Behind(since)

\* A search is answered from an overlay and a base that are both finished and
\* belong together, so every path is shown with a content it had.
LEMMA ViewRight ==
  ASSUME Typed, ~slipped => TreeInv, Leased
  PROVE  ViewBehind
<1>1. CASE slipped \/ ~Searchable
  BY <1>1 DEF ViewBehind, View, Promise!Behind
<1>2. CASE ~slipped /\ Searchable
  <2>1. over # None /\ over.ready /\ ~over.marker /\ Names(base, over.ref)
    BY <1>2 DEF Searchable, Stale, Disturbed, OverUnfinished, BaseUnfinished, SameBase,
                Marked, Names
  <2>2. Merged = Shown(over.chunks, over.tombs, base.chunks)
    BY DEF Merged, Shadowed, Shown
  <2>3. \A p \in Paths : Merged[p] \in since[p]
    BY <1>2, <2>1, <2>2 DEF TreeInv, OverRight, AllRight, Right
  <2>4. over.chunks \in PathTexts /\ base.chunks \in PathTexts
    BY <2>1 DEF Typed, TypeOK, OverDir, BaseDir, Names
  <2>5. Merged \in [Paths -> Contents \cup {None}]
    BY <2>4 DEF Merged, PathTexts
  <2>q. QED
    BY <1>2, <2>3, <2>5 DEF ViewBehind, View, Promise!Behind
<1>q. QED
  BY <1>1, <1>2

\* The user, and the runs that begin and complete, are the steps of the promise;
\* every other step changes only what a search shows.
LEMMA ViewStep ==
  ASSUME Typed, [Next]_vars
  PROVE  \/ Promise!Write \/ Promise!Begin \/ Promise!Complete \/ Promise!Confirm
         \/ Promise!Elsewhere
<1> DEFINE Still == UNCHANGED <<treeFs, since, fresh>>
<1>1. ASSUME Still PROVE Promise!Elsewhere
  BY <1>1 DEF Promise!Elsewhere
<1>2. CASE BaseStart \/ BaseStep \/ BaseFails \/ BaseRemoved \/ BaseCurrent \/ BaseTouched
           \/ BaseIndexed
  <2>1. Still
    BY <1>2 DEF fsVars, historyVars, BaseStart, BaseIndexed, BaseTouched, BaseCurrent, BaseFails,
         BaseRemoved, BaseStep, BaseNoOp, BaseScan, BaseWrite, BasePublish, BaseFinish,
         BaseResnap, BaseRecord
  <2>q. QED
    BY <1>1, <2>1
<1>3. CASE TreeStart \/ TreeFails \/ CaptureBase \/ CaptureFails \/ ReadBase \/ ReadContents
           \/ InitialDiff \/ SnapshotInvalid \/ BuildOverlay \/ Unpublish \/ SortChanges
           \/ UpdateOverlay
  <2>1. Still
    BY <1>3 DEF fsVars, historyVars, TreeStart, TreeFails, CaptureBase, CaptureFails, ReadBase,
         ReadContents, InitialDiff, SnapshotInvalid, BuildOverlay, Unpublish, SortChanges,
         UpdateOverlay
  <2>q. QED
    BY <1>1, <2>1
<1>4. [p \in Paths |-> {treeFs[p].c}] = Promise!Now(Texts(treeFs))
  BY DEF Texts, Promise!Now
<1>5. CASE ReadStamps
  BY <1>4, <1>5 DEF ReadStamps, fsVars, Promise!Begin
<1>6. CASE PublishOverlay \/ FinishUpdate
  BY <1>6 DEF PublishOverlay, FinishUpdate, fsVars, Promise!Complete
<1>7. CASE CompareStamps
  BY <1>4, <1>7 DEF CompareStamps, fsVars, Promise!Begin, Promise!Confirm
<1>8. CASE User
  <2>1. CASE UserBase
    BY <1>1, <2>1 DEF UserBase, historyVars
  <2>2. CASE UserTree
    <3>1. PICK p \in Paths, c \in Contents \cup {None} :
             /\ treeFs' = SetFile(treeFs, p, c)
             /\ since' = [since EXCEPT ![p] = @ \cup {c}]
             /\ fresh' = [fresh EXCEPT ![p] = @ \cup {c}]
      BY <2>2 DEF UserTree
    <3>2. Texts(treeFs)' = [Texts(treeFs) EXCEPT ![p] = c]
      BY <3>1 DEF Texts, SetFile, Typed, TypeOK, Files
    <3>q. QED
      BY <3>1, <3>2 DEF Promise!Write
  <2>q. QED
    BY <1>8, <2>1, <2>2, UserSteps
<1>9. CASE UNCHANGED vars
  BY <1>1, <1>9 DEF vars, fsVars
<1>q. QED
  BY <1>2, <1>3, <1>5, <1>6, <1>7, <1>8, <1>9 DEF Next, TreeStep

\* The worktree's searches keep their promise in every checkout: until the main
\* checkout slips, a search under the daemon's leases (reconcile_worktree_overlay,
\* SearchContext::load) never shows the content of another checkout, or one older
\* than the last completed run (docs/architecture.md, "without leaking base
\* content").
THEOREM WorktreeShown ==
  ASSUME Leased
  PROVE  Spec => ShowsTheWorktree
<1>1. Spec => [](Typed /\ (~slipped => TreeInv))
  <2>1. /\ Typed /\ (~slipped => BaseInv) /\ (~slipped => TreeInv) /\ [Next]_vars
        => (~slipped => TreeInv)'
    BY SlipStays, TreeInvStep
  <2>q. QED
    BY <2>1, BaseInvHolds, TreeInvInit, PTL DEF Spec
<1>2. Typed /\ (~slipped => TreeInv) => ViewBehind
  BY ViewRight
<1>3. Init => Promise!Init
  <2>1. SUFFICES ASSUME Init PROVE Promise!Init
    OBVIOUS
  <2>2. Typed /\ over = None /\ since = [p \in Paths |-> {}]
        /\ fresh = [p \in Paths |-> {treeFs[p].c}]
    BY <2>1, TypeInit DEF Init
  <2>3. Texts(treeFs) \in [Paths -> Contents \cup {None}]
    BY <2>2, ReadTypes DEF Typed, PathTexts
  <2>4. (IF slipped THEN None ELSE View) = None
    BY <2>2 DEF View, Searchable
  <2>5. fresh = Promise!Now(Texts(treeFs))
    BY <2>2 DEF Texts, Promise!Now
  <2>q. QED
    BY <2>2, <2>3, <2>4, <2>5 DEF Promise!Init
<1>4. Typed /\ [Next]_vars /\ ViewBehind' => [Promise!Next]_(Promise!viewVars)
  BY ViewStep DEF Promise!Next, ViewBehind
<1>q. QED
  BY <1>1, <1>2, <1>3, <1>4, PTL DEF Spec, ShowsTheWorktree, Promise!Spec

===============================================================================
