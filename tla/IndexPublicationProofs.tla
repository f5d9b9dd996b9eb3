------------------------ MODULE IndexPublicationProofs ------------------------
(***************************************************************************)
(* Theorems about IndexPublication, for every set of paths and indexers    *)
(* and every bound.  TypeCorrect rests on one lemma per action; each lemma *)
(* has a step for the index directory, one for the lock, one for the run,  *)
(* one for the promotion phase and one for the rest.  The second part is   *)
(* what the component promises about the stores: a promotion loses         *)
(* nothing, a run ends well only on sound stores, and an index the next    *)
(* run would accept is sound.                                              *)
(***************************************************************************)
EXTENDS IndexPublication, FiniteSetTheorems, TLAPS

(* Lemmas about the values the actions build.                              *)

\* A store that holds nothing is a content, and contents are snapshots.
LEMMA EmptyContent == Empty \in Content /\ Content \subseteq [Paths -> Stamps]
BY BoundsAssumption DEF Empty, Content, Stamps, Versions

\* A run starts with locals of the right types.
LEMMA NewRunType ==
  ASSUME NEW remove \in BOOLEAN, NEW trust \in BOOLEAN, NEW paths \in SUBSET Paths
  PROVE  NewRun(remove, trust, paths) \in RunType
BY EmptyContent DEF NewRun, RunType, Attempts

\* Setting the promotion step, or the stores it started from, keeps a run a run.
LEMMA RunSetStep ==
  ASSUME NEW r \in RunType, NEW k \in 0 .. 4 PROVE [r EXCEPT !.step = k] \in RunType
BY DEF RunType

\* The same for the stores that promotion started from.
LEMMA RunSetBefore ==
  ASSUME NEW r \in RunType, NEW b \in StoresType \cup {None}
  PROVE  [r EXCEPT !.before = b] \in RunType
BY DEF RunType

-----------------------------------------------------------------------------
(* The actions of an indexer preserve TypeOK.                              *)

\* Acquire keeps the types, the lock discipline and the promotion phase.
LEMMA TypeAcquire ==
  ASSUME TypeOK, NEW i \in Indexers, Acquire(i) PROVE TypeOK'
<1> USE NoneAssumption DEF TypeOK
<1>1. lock = None /\ lock' = i
  BY DEF Acquire
<1>2. disk' \in DiskType
  BY <1>1 DEF Acquire, DiskType, BackupType, PhaseOK, Promoting, OthersOK, Metas
<1>3. LockOK'
  BY DEF Acquire, LockOK, Goto, Labels, Early, Working, Promoting
<1>4. RunOK'
  BY <1>1, NewRunType DEF Acquire, RunOK
<1>5. PhaseOK'
  BY <1>1 DEF Acquire, PhaseOK, Promoting, LockOK, Goto, RunType, DiskType, BackupType
<1>6. SourceOK' /\ OthersOK'
  BY DEF Acquire, SourceOK, OthersOK, source, outside, Spend, Metas
<1>q. QED
  BY <1>2, <1>3, <1>4, <1>5, <1>6

\* AcquireRemove keeps the types, the lock discipline and the promotion phase.
LEMMA TypeAcquireRemove ==
  ASSUME TypeOK, NEW i \in Indexers, AcquireRemove(i) PROVE TypeOK'
<1> USE NoneAssumption DEF TypeOK
<1>1. lock = None /\ lock' = i
  BY DEF AcquireRemove
<1>2. disk' \in DiskType
  BY <1>1 DEF AcquireRemove, DiskType, BackupType, PhaseOK, Promoting, OthersOK, Metas
<1>3. LockOK'
  BY DEF AcquireRemove, LockOK, Goto, Labels, Early, Working, Promoting
<1>4. RunOK'
  BY <1>1, NewRunType DEF AcquireRemove, RunOK
<1>5. PhaseOK'
  BY <1>1 DEF AcquireRemove, PhaseOK, Promoting, LockOK, Goto, RunType, DiskType, BackupType
<1>6. SourceOK' /\ OthersOK'
  BY DEF AcquireRemove, SourceOK, OthersOK, source, outside, Spend, Metas
<1>q. QED
  BY <1>2, <1>3, <1>4, <1>5, <1>6

\* Inspect keeps the types, the lock discipline and the promotion phase.
LEMMA TypeInspect ==
  ASSUME TypeOK, NEW i \in Indexers, Inspect(i) PROVE TypeOK'
<1> USE NoneAssumption DEF TypeOK
<1>1. lock = i /\ run \in RunType
  BY DEF Inspect, LockOK, RunOK
<1>2. disk' \in DiskType
  <2> DEFINE kept == KeptBackup
             pid  == IF PidStale THEN None ELSE disk.pid
  <2>1. kept \in BackupType \cup {None} /\ pid \in Indexers \cup {Dead, None}
    BY DEF KeptBackup, DiskType
  <2>2. disk' = [disk EXCEPT !.backup = kept, !.pid = pid]
    BY DEF Inspect
  <2> HIDE DEF kept, pid
  <2>q. QED
    BY <2>1, <2>2 DEF DiskType
<1>3. LockOK'
  BY DEF Inspect, LockOK, Goto, Labels, Early, Working, Promoting
<1>4. RunOK'
  <2> DEFINE h == Queryable
             r == disk.incomplete # None
             m == disk.meta
  <2>1. m \in Metas \cup {None} /\ h \in BOOLEAN /\ r \in BOOLEAN
    BY DEF DiskType, Queryable
  <2>2. run' = [run EXCEPT !.kept = m, !.rebuild = r, !.healthy = h] /\ lock' = lock
    BY DEF Inspect
  <2> HIDE DEF h, r, m
  <2>3. run' \in RunType
    BY <1>1, <2>1, <2>2 DEF RunType
  <2>q. QED
    BY <1>1, <2>2, <2>3 DEF RunOK
<1>5. PhaseOK'
  BY <1>1 DEF Inspect, PhaseOK, Promoting, LockOK, Goto, RunType, DiskType, BackupType
<1>6. SourceOK' /\ OthersOK'
  BY DEF Inspect, SourceOK, OthersOK, source, outside, Spend, Metas
<1>q. QED
  BY <1>2, <1>3, <1>4, <1>5, <1>6

\* Wipe keeps the types, the lock discipline and the promotion phase.
LEMMA TypeWipe ==
  ASSUME TypeOK, NEW i \in Indexers, Wipe(i) PROVE TypeOK'
<1> USE NoneAssumption DEF TypeOK
<1>1. lock = i /\ run \in RunType
  BY DEF Wipe, LockOK, RunOK
<1>2. disk' \in DiskType
  BY <1>1 DEF Wipe, DiskType, BackupType, PhaseOK, Promoting, OthersOK, Metas
<1>3. LockOK'
  BY DEF Wipe, LockOK, Goto, Labels, Early, Working, Promoting
<1>4. RunOK'
  BY <1>1 DEF Wipe, RunOK, RunType, NoRun
<1>5. PhaseOK'
  BY <1>1 DEF Wipe, PhaseOK, Promoting, LockOK, Goto, RunType, DiskType, BackupType
<1>6. SourceOK' /\ OthersOK'
  BY DEF Wipe, SourceOK, OthersOK, source, outside, Spend, Metas
<1>q. QED
  BY <1>2, <1>3, <1>4, <1>5, <1>6

\* WipeDone keeps the types, the lock discipline and the promotion phase.
LEMMA TypeWipeDone ==
  ASSUME TypeOK, NEW i \in Indexers, WipeDone(i) PROVE TypeOK'
<1> USE NoneAssumption DEF TypeOK
<1>1. lock = i /\ run \in RunType
  BY DEF WipeDone, LockOK, RunOK
<1>2. disk' \in DiskType
  <2>1. run.kept # None => [run.kept EXCEPT !.done = FALSE] \in Metas
    BY <1>1 DEF RunType, Metas
  <2>q. QED
    BY <2>1 DEF WipeDone, DiskType
<1>3. LockOK'
  BY DEF WipeDone, LockOK, Goto, Labels, Early, Working, Promoting
<1>4. RunOK'
  BY <1>1 DEF WipeDone, RunOK, RunType, NoRun
<1>5. PhaseOK'
  BY <1>1 DEF WipeDone, PhaseOK, Promoting, LockOK, Goto, RunType, DiskType, BackupType
<1>6. SourceOK' /\ OthersOK'
  BY DEF WipeDone, SourceOK, OthersOK, source, outside, Spend, Metas
<1>q. QED
  BY <1>2, <1>3, <1>4, <1>5, <1>6

\* Identify keeps the types, the lock discipline and the promotion phase.
LEMMA TypeIdentify ==
  ASSUME TypeOK, NEW i \in Indexers, Identify(i) PROVE TypeOK'
<1> USE NoneAssumption DEF TypeOK
<1>1. lock = i /\ run \in RunType
  BY DEF Identify, LockOK, RunOK
<1>2. disk' \in DiskType
  BY <1>1 DEF Identify, DiskType, BackupType, PhaseOK, Promoting, OthersOK, Metas
<1>3. LockOK'
  BY DEF Identify, LockOK, Goto, Labels, Early, Working, Promoting
<1>4. RunOK'
  BY <1>1 DEF Identify, RunOK, RunType, NoRun
<1>5. PhaseOK'
  BY <1>1 DEF Identify, PhaseOK, Promoting, LockOK, Goto, RunType, DiskType, BackupType
<1>6. SourceOK' /\ OthersOK'
  BY DEF Identify, SourceOK, OthersOK, source, outside, Spend, Metas
<1>q. QED
  BY <1>2, <1>3, <1>4, <1>5, <1>6

\* Announce keeps the types, the lock discipline and the promotion phase.
LEMMA TypeAnnounce ==
  ASSUME TypeOK, NEW i \in Indexers, Announce(i) PROVE TypeOK'
<1> USE NoneAssumption DEF TypeOK
<1>1. lock = i /\ run \in RunType
  BY DEF Announce, LockOK, RunOK
<1>2. disk' \in DiskType
  BY <1>1 DEF Announce, DiskType, BackupType, PhaseOK, Promoting, OthersOK, Metas
<1>3. LockOK'
  BY DEF Announce, LockOK, Goto, Labels, Early, Working, Promoting
<1>4. RunOK'
  BY <1>1 DEF Announce, RunOK, RunType, NoRun
<1>5. PhaseOK'
  BY <1>1 DEF Announce, PhaseOK, Promoting, LockOK, Goto, RunType, DiskType, BackupType
<1>6. SourceOK' /\ OthersOK'
  BY DEF Announce, SourceOK, OthersOK, source, outside, Spend, Metas
<1>q. QED
  BY <1>2, <1>3, <1>4, <1>5, <1>6

\* TrustWatcher keeps the types, the lock discipline and the promotion phase.
LEMMA TypeTrustWatcher ==
  ASSUME TypeOK, NEW i \in Indexers, TrustWatcher(i) PROVE TypeOK'
<1> USE NoneAssumption DEF TypeOK
<1>1. lock = i /\ run \in RunType
  BY DEF TrustWatcher, LockOK, RunOK
<1>2. disk' \in DiskType
  BY <1>1 DEF TrustWatcher, DiskType, BackupType, PhaseOK, Promoting, OthersOK, Metas
<1>3. LockOK'
  BY DEF TrustWatcher, LockOK, Goto, Labels, Early, Working, Promoting
<1>4. RunOK'
  BY <1>1 DEF TrustWatcher, RunOK, RunType, NoRun
<1>5. PhaseOK'
  BY <1>1 DEF TrustWatcher, PhaseOK, Promoting, LockOK, Goto, RunType, DiskType, BackupType
<1>6. SourceOK' /\ OthersOK'
  BY DEF TrustWatcher, SourceOK, OthersOK, source, outside, Spend, Metas
<1>q. QED
  BY <1>2, <1>3, <1>4, <1>5, <1>6

\* ScanNoOp keeps the types, the lock discipline and the promotion phase.
LEMMA TypeScanNoOp ==
  ASSUME TypeOK, NEW i \in Indexers, ScanNoOp(i) PROVE TypeOK'
<1> USE NoneAssumption DEF TypeOK
<1>1. lock = i /\ run \in RunType
  BY DEF ScanNoOp, LockOK, RunOK
<1>2. disk' \in DiskType
  BY <1>1 DEF ScanNoOp, DiskType, BackupType, PhaseOK, Promoting, OthersOK, Metas
<1>3. LockOK'
  BY DEF ScanNoOp, LockOK, Goto, Labels, Early, Working, Promoting
<1>4. RunOK'
  BY <1>1 DEF ScanNoOp, RunOK, RunType, NoRun
<1>5. PhaseOK'
  BY <1>1 DEF ScanNoOp, PhaseOK, Promoting, LockOK, Goto, RunType, DiskType, BackupType
<1>6. SourceOK' /\ OthersOK'
  BY DEF ScanNoOp, SourceOK, OthersOK, source, outside, Spend, Metas
<1>q. QED
  BY <1>2, <1>3, <1>4, <1>5, <1>6

\* ScanIncremental keeps the types, the lock discipline and the promotion phase.
LEMMA TypeScanIncremental ==
  ASSUME TypeOK, NEW i \in Indexers, ScanIncremental(i) PROVE TypeOK'
<1> USE NoneAssumption DEF TypeOK
<1>1. lock = i /\ run \in RunType
  BY DEF ScanIncremental, LockOK, RunOK
<1>2. disk' \in DiskType
  BY <1>1 DEF ScanIncremental, DiskType, BackupType, PhaseOK, Promoting, OthersOK, Metas
<1>3. LockOK'
  BY DEF ScanIncremental, LockOK, Goto, Labels, Early, Working, Promoting
<1>4. RunOK'
  <2>1. OldSnapshot \in [Paths -> Stamps]
    BY EmptyContent DEF OldSnapshot, DiskType
  <2>2. NewSnapshot \in [Paths -> Stamps]
    BY <2>1 DEF NewSnapshot, SourceOK, Content, Stamps
  <2>3. Diff(OldSnapshot, NewSnapshot) \in SUBSET Paths
    BY DEF Diff
  <2>4. disk.sqlite \in Content
    BY DEF ScanIncremental, Queryable, Healthy, DiskType
  <2>q. QED
    BY <1>1, <2>2, <2>3, <2>4 DEF ScanIncremental, MayDepend, RunOK, RunType
<1>5. PhaseOK'
  BY <1>1 DEF ScanIncremental, PhaseOK, Promoting, LockOK, Goto, RunType, DiskType, BackupType
<1>6. SourceOK' /\ OthersOK'
  BY DEF ScanIncremental, SourceOK, OthersOK, source, outside, Spend, Metas
<1>q. QED
  BY <1>2, <1>3, <1>4, <1>5, <1>6

\* ScanFresh keeps the types, the lock discipline and the promotion phase.
LEMMA TypeScanFresh ==
  ASSUME TypeOK, NEW i \in Indexers, ScanFresh(i) PROVE TypeOK'
<1> USE NoneAssumption DEF TypeOK
<1>1. lock = i /\ run \in RunType
  BY DEF ScanFresh, LockOK, RunOK
<1>2. disk' \in DiskType
  BY <1>1 DEF ScanFresh, DiskType, BackupType, PhaseOK, Promoting, OthersOK, Metas, EarlyMeta
<1>3. LockOK'
  BY DEF ScanFresh, LockOK, Goto, Labels, Early, Working, Promoting
<1>4. RunOK'
  <2>1. files \in [Paths -> Stamps] /\ Empty \in Content
    BY EmptyContent DEF SourceOK
  <2>2. {p \in Paths : files[p] # 0} \in SUBSET Paths
    OBVIOUS
  <2>q. QED
    BY <1>1, <2>1, <2>2 DEF ScanFresh, RunOK, RunType
<1>5. PhaseOK'
  BY <1>1 DEF ScanFresh, PhaseOK, Promoting, LockOK, Goto, RunType, DiskType, BackupType
<1>6. SourceOK' /\ OthersOK'
  BY DEF ScanFresh, SourceOK, OthersOK, source, outside, Spend, Metas
<1>q. QED
  BY <1>2, <1>3, <1>4, <1>5, <1>6

\* MarkIncremental keeps the types, the lock discipline and the promotion phase.
LEMMA TypeMarkIncremental ==
  ASSUME TypeOK, NEW i \in Indexers, MarkIncremental(i) PROVE TypeOK'
<1> USE NoneAssumption DEF TypeOK
<1>1. lock = i /\ run \in RunType
  BY DEF MarkIncremental, LockOK, RunOK
<1>2. disk' \in DiskType
  BY <1>1 DEF MarkIncremental, DiskType, BackupType, PhaseOK, Promoting, OthersOK, Metas
<1>3. LockOK'
  BY DEF MarkIncremental, LockOK, Goto, Labels, Early, Working, Promoting
<1>4. RunOK'
  BY <1>1 DEF MarkIncremental, RunOK, RunType, NoRun
<1>5. PhaseOK'
  BY <1>1 DEF MarkIncremental, PhaseOK, Promoting, LockOK, Goto, RunType, DiskType, BackupType
<1>6. SourceOK' /\ OthersOK'
  BY DEF MarkIncremental, SourceOK, OthersOK, source, outside, Spend, Metas
<1>q. QED
  BY <1>2, <1>3, <1>4, <1>5, <1>6

\* PersistPath keeps the types, the lock discipline and the promotion phase.
LEMMA TypePersistPath ==
  ASSUME TypeOK, NEW i \in Indexers, PersistPath(i) PROVE TypeOK'
<1> USE NoneAssumption DEF TypeOK
<1>1. lock = i /\ run \in RunType
  BY DEF PersistPath, LockOK, RunOK
<1>2. disk' \in DiskType
  BY <1>1 DEF PersistPath, DiskType, BackupType, PhaseOK, Promoting, OthersOK, Metas
<1>3. LockOK'
  BY DEF PersistPath, LockOK, Goto, Labels, Early, Working, Promoting
<1>4. RunOK'
  <2>1. PICK p \in run.todo :
          LET seen == IF run.snap[p] = 0 THEN 0 ELSE files[p]
          IN run' = [run EXCEPT !.todo = @ \ {p}, !.sq[p] = seen,
                                !.snap[p] = IF @ # 0 /\ seen = 0 THEN Vanished
                                                                 ELSE @]
    BY DEF PersistPath
  <2>2. p \in Paths /\ run.snap \in [Paths -> Stamps] /\ run.sq \in Content
    BY <1>1, <2>1 DEF RunType
  <2> DEFINE seen == IF run.snap[p] = 0 THEN 0 ELSE files[p]
             stamp == IF run.snap[p] # 0 /\ seen = 0 THEN Vanished ELSE run.snap[p]
  <2>3. seen \in Versions /\ stamp \in Stamps
    BY <2>2, BoundsAssumption DEF SourceOK, Content, Versions, Stamps
  <2>4. [run.sq EXCEPT ![p] = seen] \in Content
    BY <2>2, <2>3 DEF Content
  <2>5. [run.snap EXCEPT ![p] = stamp] \in [Paths -> Stamps]
    BY <2>2, <2>3
  <2>6. run' = [run EXCEPT !.todo = @ \ {p}, !.sq = [@ EXCEPT ![p] = seen],
                           !.snap = [@ EXCEPT ![p] = stamp]]
    BY <1>1, <2>1, <2>2 DEF RunType
  <2> HIDE DEF seen, stamp
  <2>7. run.todo \ {p} \in SUBSET Paths
    BY <1>1 DEF RunType
  <2>q. QED
    BY <1>1, <2>4, <2>5, <2>6, <2>7 DEF PersistPath, RunOK, RunType
<1>5. PhaseOK'
  BY <1>1 DEF PersistPath, PhaseOK, Promoting, LockOK, Goto, RunType, DiskType, BackupType
<1>6. SourceOK' /\ OthersOK'
  BY DEF PersistPath, SourceOK, OthersOK, source, outside, Spend, Metas
<1>q. QED
  BY <1>2, <1>3, <1>4, <1>5, <1>6

\* CommitSqlite keeps the types, the lock discipline and the promotion phase.
LEMMA TypeCommitSqlite ==
  ASSUME TypeOK, NEW i \in Indexers, CommitSqlite(i) PROVE TypeOK'
<1> USE NoneAssumption DEF TypeOK
<1>1. lock = i /\ run \in RunType
  BY DEF CommitSqlite, LockOK, RunOK
<1>2. disk' \in DiskType
  BY <1>1 DEF CommitSqlite, DiskType, BackupType, PhaseOK, Promoting, OthersOK, Metas, RunType
<1>3. LockOK'
  BY DEF CommitSqlite, LockOK, Goto, Labels, Early, Working, Promoting
<1>4. RunOK'
  BY <1>1 DEF CommitSqlite, RunOK, RunType, NoRun
<1>5. PhaseOK'
  BY <1>1 DEF CommitSqlite, PhaseOK, Promoting, LockOK, Goto, RunType, DiskType, BackupType
<1>6. SourceOK' /\ OthersOK'
  BY DEF CommitSqlite, SourceOK, OthersOK, source, outside, Spend, Metas
<1>q. QED
  BY <1>2, <1>3, <1>4, <1>5, <1>6

\* CommitTantivy keeps the types, the lock discipline and the promotion phase.
LEMMA TypeCommitTantivy ==
  ASSUME TypeOK, NEW i \in Indexers, CommitTantivy(i) PROVE TypeOK'
<1> USE NoneAssumption DEF TypeOK
<1>1. lock = i /\ run \in RunType
  BY DEF CommitTantivy, LockOK, RunOK
<1>2. disk' \in DiskType
  BY <1>1 DEF CommitTantivy, DiskType, BackupType, PhaseOK, Promoting, OthersOK, Metas, RunType
<1>3. LockOK'
  BY DEF CommitTantivy, LockOK, Goto, Labels, Early, Working, Promoting
<1>4. RunOK'
  BY <1>1 DEF CommitTantivy, RunOK, RunType, NoRun
<1>5. PhaseOK'
  BY <1>1 DEF CommitTantivy, PhaseOK, Promoting, LockOK, Goto, RunType, DiskType, BackupType
<1>6. SourceOK' /\ OthersOK'
  BY DEF CommitTantivy, SourceOK, OthersOK, source, outside, Spend, Metas
<1>q. QED
  BY <1>2, <1>3, <1>4, <1>5, <1>6

\* MarkPromotion keeps the types, the lock discipline and the promotion phase.
LEMMA TypeMarkPromotion ==
  ASSUME TypeOK, NEW i \in Indexers, MarkPromotion(i) PROVE TypeOK'
<1> USE NoneAssumption DEF TypeOK
<1>1. lock = i /\ run \in RunType
  BY DEF MarkPromotion, LockOK, RunOK
<1>2. disk' \in DiskType /\ disk'.backup \in BackupType
  BY DEF MarkPromotion, DiskType, BackupType, StoresType, NoStores
<1>3. LockOK'
  BY DEF MarkPromotion, LockOK, Goto, Labels, Early, Working, Promoting
<1>4. run' \in RunType /\ run'.step \in 1 .. 4
  <2> DEFINE st == LiveStores
  <2>1. st \in StoresType
    BY DEF LiveStores, StoresType, DiskType
  <2>2. run' = [run EXCEPT !.before = st, !.step = 1]
    BY DEF MarkPromotion
  <2> HIDE DEF st
  <2>3. run' \in RunType
    <3>1. [run EXCEPT !.before = st] \in RunType
      BY <1>1, <2>1, RunSetBefore
    <3>2. 1 \in 0 .. 4
      OBVIOUS
    <3>q. QED
      BY <2>2, <3>1, <3>2, RunSetStep, Zenon
  <2>4. run'.step = 1
    BY <1>1, <2>2 DEF RunType
  <2>q. QED
    BY <2>3, <2>4
<1>b. RunOK'
  BY <1>1, <1>4 DEF MarkPromotion, RunOK
<1>5. PhaseOK'
  BY <1>1, <1>2, <1>4 DEF MarkPromotion, PhaseOK, Promoting, LockOK, Goto
<1>6. SourceOK' /\ OthersOK'
  BY DEF MarkPromotion, SourceOK, OthersOK, source, outside, Spend, Metas
<1>q. QED
  BY <1>2, <1>3, <1>b, <1>5, <1>6

\* Backup keeps the types, the lock discipline and the promotion phase.
LEMMA TypeBackup ==
  ASSUME TypeOK, NEW i \in Indexers, Backup(i) PROVE TypeOK'
<1> USE NoneAssumption DEF TypeOK
<1>1. lock = i /\ run \in RunType
  BY DEF Backup, LockOK, RunOK
<1>a. run.step \in 1 .. 4 /\ disk.backup \in BackupType
  BY DEF Backup, PhaseOK, Promoting
<1>2. disk' \in DiskType /\ disk'.backup \in BackupType
  <2> DEFINE a == Artifact[run.step]
  <2>1. a \in Stores
    BY <1>a DEF Artifact, Stores
  <2>2. [disk.backup EXCEPT !.old[a] = disk[a]] \in BackupType
    BY <1>a, <2>1 DEF BackupType, StoresType, DiskType, Stores
  <2>3. disk' = [disk EXCEPT ![a] = None, !.backup = [@ EXCEPT !.old[a] = disk[a]]]
    BY <2>1 DEF Backup, DiskType, Stores
  <2>q. QED
    BY <2>1, <2>2, <2>3 DEF DiskType, Stores
<1>3. LockOK'
  BY DEF Backup, LockOK, Goto, Labels, Early, Working, Promoting
<1>4. run' \in RunType /\ run'.step \in 1 .. 4
  <2>1. run' = [run EXCEPT !.step = IF run.step < 4 THEN run.step + 1 ELSE 1]
    BY <1>1 DEF Backup, RunType
  <2>q. QED
    BY <1>1, <1>a, <2>1 DEF RunType
<1>b. RunOK'
  BY <1>1, <1>4 DEF RunOK, Backup
<1>5. PhaseOK'
  BY <1>1, <1>2, <1>4 DEF Backup, PhaseOK, Promoting, LockOK, Goto
<1>6. SourceOK' /\ OthersOK'
  BY DEF Backup, SourceOK, OthersOK, source, outside, Spend, Metas
<1>q. QED
  BY <1>2, <1>3, <1>b, <1>5, <1>6

\* Promote keeps the types, the lock discipline and the promotion phase.
LEMMA TypePromote ==
  ASSUME TypeOK, NEW i \in Indexers, Promote(i) PROVE TypeOK'
<1> USE NoneAssumption DEF TypeOK
<1>1. lock = i /\ run \in RunType
  BY DEF Promote, LockOK, RunOK
<1>a. run.step \in 1 .. 4 /\ disk.backup \in BackupType
  BY DEF Promote, PhaseOK, Promoting
<1>2. disk' \in DiskType /\ (run.step < 4 => disk'.backup \in BackupType)
  <2> DEFINE a == Artifact[run.step]
             b == IF run.step = 4 THEN None ELSE disk.backup
  <2>1. a \in Stores
    BY <1>a DEF Artifact, Stores
  <2>2. Staged(a) \in CASE a = "incarnation" -> Nat
                        [] a = "vectors" -> {"hash"}
                        [] OTHER -> Content
    BY <1>1, <2>1 DEF Staged, Stores, RunType, OthersOK
  <2>3. disk' = [disk EXCEPT ![a] = Staged(a), !.backup = b]
    BY <2>1 DEF Promote, DiskType, Stores
  <2>4. b \in BackupType \cup {None} /\ (run.step < 4 => b \in BackupType)
    BY <1>a
  <2> HIDE DEF a, b
  <2>5. CASE a = "incarnation"
    BY <1>a, <2>2, <2>3, <2>4, <2>5 DEF DiskType
  <2>6. CASE a = "vectors"
    BY <1>a, <2>2, <2>3, <2>4, <2>6 DEF DiskType
  <2>7. CASE a \in {"sqlite", "tantivy"}
    BY <1>a, <2>2, <2>3, <2>4, <2>7 DEF DiskType
  <2>q. QED
    BY <2>1, <2>5, <2>6, <2>7 DEF Stores
<1>3. LockOK'
  BY DEF Promote, LockOK, Goto, Labels, Early, Working, Promoting
<1>4. run' \in RunType /\ (run.step < 4 => run'.step \in 1 .. 4)
  <2>1. CASE run.step < 4
    <3>1. run' = [run EXCEPT !.step = run.step + 1]
      BY <1>1, <2>1 DEF Promote, RunType
    <3>2. run.step + 1 \in 1 .. 4
      BY <1>a, <2>1
    <3>3. run' \in RunType
      BY <1>1, <3>1, <3>2 DEF RunType
    <3>4. run'.step = run.step + 1
      BY <1>1, <3>1 DEF RunType
    <3>q. QED
      BY <3>2, <3>3, <3>4
  <2>2. CASE ~(run.step < 4)
    <3>1. run' = [run EXCEPT !.step = 0, !.before = None]
      BY <2>2 DEF Promote
    <3>0. 0 \in 0 .. 4
      OBVIOUS
    <3>2. [run EXCEPT !.step = 0] \in RunType
      BY <1>1, <3>0, RunSetStep, Zenon
    <3>q. QED
      BY <2>2, <3>1, <3>2, RunSetBefore
  <2>q. QED
    BY <2>1, <2>2
<1>b. RunOK'
  BY <1>1, <1>4 DEF RunOK, Promote
<1>5. PhaseOK'
  BY <1>1, <1>2, <1>4 DEF Promote, PhaseOK, Promoting, LockOK, Goto
<1>6. SourceOK' /\ OthersOK'
  <2>1. nextInc' \in {nextInc, nextInc + 1}
    BY Zenon DEF Promote
  <2>2. UNCHANGED <<source, outside, budget>>
    BY DEF Promote
  <2>q. QED
    BY <2>1, <2>2 DEF SourceOK, OthersOK, source, outside
<1>q. QED
  BY <1>2, <1>3, <1>b, <1>5, <1>6

\* BackupFails keeps the types, the lock discipline and the promotion phase.
LEMMA TypeBackupFails ==
  ASSUME TypeOK, NEW i \in Indexers, BackupFails(i) PROVE TypeOK'
<1> USE NoneAssumption DEF TypeOK
<1>1. lock = i /\ run \in RunType
  BY DEF BackupFails, LockOK, RunOK
<1>2. disk' \in DiskType
  BY <1>1 DEF BackupFails, DiskType, BackupType, PhaseOK, Promoting, OthersOK, Metas
<1>3. LockOK'
  BY DEF BackupFails, LockOK, Goto, Labels, Early, Working, Promoting
<1>4. RunOK'
  <2>1. run.step \in 1 .. 4
    BY DEF BackupFails, PhaseOK
  <2>2. run.step - 1 \in 0 .. 4
    BY <2>1
  <2>q. QED
    BY <1>1, <2>2 DEF BackupFails, RunOK, RunType
<1>5. PhaseOK'
  BY <1>1 DEF BackupFails, PhaseOK, Promoting, LockOK, Goto, RunType, DiskType, BackupType
<1>6. SourceOK' /\ OthersOK'
  BY DEF BackupFails, SourceOK, OthersOK, source, outside, Spend, Metas
<1>q. QED
  BY <1>2, <1>3, <1>4, <1>5, <1>6

\* PromoteFails keeps the types, the lock discipline and the promotion phase.
LEMMA TypePromoteFails ==
  ASSUME TypeOK, NEW i \in Indexers, PromoteFails(i) PROVE TypeOK'
<1> USE NoneAssumption DEF TypeOK
<1>1. lock = i /\ run \in RunType
  BY DEF PromoteFails, LockOK, RunOK
<1>2. disk' \in DiskType
  BY <1>1 DEF PromoteFails, DiskType, BackupType, PhaseOK, Promoting, OthersOK, Metas
<1>3. LockOK'
  BY DEF PromoteFails, LockOK, Goto, Labels, Early, Working, Promoting
<1>4. RunOK'
  <2>1. run.step \in 1 .. 4
    BY DEF PromoteFails, PhaseOK
  <2>2. run.step - 1 \in 0 .. 4
    BY <2>1
  <2>q. QED
    BY <1>1, <2>2 DEF PromoteFails, RunOK, RunType
<1>5. PhaseOK'
  BY <1>1 DEF PromoteFails, PhaseOK, Promoting, LockOK, Goto, RunType, DiskType, BackupType
<1>6. SourceOK' /\ OthersOK'
  BY DEF PromoteFails, SourceOK, OthersOK, source, outside, Spend, Metas
<1>q. QED
  BY <1>2, <1>3, <1>4, <1>5, <1>6

\* Unpromote keeps the types, the lock discipline and the promotion phase.
LEMMA TypeUnpromote ==
  ASSUME TypeOK, NEW i \in Indexers, Unpromote(i) PROVE TypeOK'
<1> USE NoneAssumption DEF TypeOK
<1>1. lock = i /\ run \in RunType
  BY DEF Unpromote, LockOK, RunOK
<1>2. disk' \in DiskType
  BY <1>1 DEF Unpromote, DiskType, BackupType, PhaseOK, Promoting, OthersOK, Metas, Artifact
<1>3. LockOK'
  BY DEF Unpromote, LockOK, Goto, Labels, Early, Working, Promoting
<1>4. RunOK'
  BY <1>1 DEF Unpromote, RunOK, RunType, NoRun
<1>5. PhaseOK'
  <2>1. disk'.backup = disk.backup
    <3>1. run.step # 0 => Artifact[run.step] # "backup"
      BY <1>1 DEF RunType, Artifact
    <3>q. QED
      BY <3>1 DEF Unpromote, DiskType
  <2>q. QED
    BY <1>1, <2>1 DEF Unpromote, PhaseOK, Promoting, LockOK, Goto
<1>6. SourceOK' /\ OthersOK'
  BY DEF Unpromote, SourceOK, OthersOK, source, outside, Spend, Metas
<1>q. QED
  BY <1>2, <1>3, <1>4, <1>5, <1>6

\* Restore keeps the types, the lock discipline and the promotion phase.
LEMMA TypeRestore ==
  ASSUME TypeOK, NEW i \in Indexers, Restore(i) PROVE TypeOK'
<1> USE NoneAssumption DEF TypeOK
<1>1. lock = i /\ run \in RunType
  BY DEF Restore, LockOK, RunOK
<1>a. disk.backup \in BackupType
  BY DEF Restore, PhaseOK, Promoting
<1>2. /\ disk' \in DiskType
      /\ run.step # 0 => disk'.backup \in BackupType
  <2>1. CASE run.step = 0
    BY <2>1 DEF Restore, DiskType
  <2>2. CASE run.step # 0
    <3> DEFINE a == Artifact[run.step]
    <3>1. a \in Stores
      BY <1>1, <2>2 DEF RunType, Artifact, Stores
    <3>2. [disk.backup EXCEPT !.old[a] = None] \in BackupType
      BY <1>a, <3>1 DEF BackupType, StoresType, Stores
    <3>3. disk' = [disk EXCEPT ![a] = disk.backup.old[a],
                               !.backup = [@ EXCEPT !.old[a] = None]]
      BY <2>2, <3>1 DEF Restore, DiskType, Stores
    <3>q. QED
      BY <1>a, <3>1, <3>2, <3>3 DEF DiskType, BackupType, StoresType, Stores
  <2>q. QED
    BY <2>1, <2>2
<1>3. LockOK'
  BY DEF Restore, LockOK, Goto, Labels, Early, Working, Promoting
<1>4. RunOK'
  <2>1. run.step # 0 => run.step - 1 \in 0 .. 4
    BY <1>1 DEF RunType
  <2>q. QED
    BY <1>1, <2>1 DEF Restore, RunOK, RunType
<1>5. PhaseOK'
  BY <1>1, <1>2 DEF Restore, PhaseOK, Promoting, LockOK, Goto
<1>6. SourceOK' /\ OthersOK'
  BY DEF Restore, SourceOK, OthersOK, source, outside, Spend, Metas
<1>q. QED
  BY <1>2, <1>3, <1>4, <1>5, <1>6

\* RollbackFails keeps the types, the lock discipline and the promotion phase.
LEMMA TypeRollbackFails ==
  ASSUME TypeOK, NEW i \in Indexers, RollbackFails(i) PROVE TypeOK'
<1> USE NoneAssumption DEF TypeOK
<1>1. lock = i /\ run \in RunType
  BY DEF RollbackFails, LockOK, RunOK
<1>2. disk' \in DiskType
  BY <1>1 DEF RollbackFails, DiskType, BackupType, PhaseOK, Promoting, OthersOK, Metas
<1>3. LockOK'
  BY DEF RollbackFails, LockOK, Goto, Labels, Early, Working, Promoting
<1>4. RunOK'
  BY <1>1 DEF RollbackFails, RunOK, RunType, NoRun
<1>5. PhaseOK'
  BY <1>1 DEF RollbackFails, PhaseOK, Promoting, LockOK, Goto, RunType, DiskType, BackupType
<1>6. SourceOK' /\ OthersOK'
  BY DEF RollbackFails, SourceOK, OthersOK, source, outside, Spend, Metas
<1>q. QED
  BY <1>2, <1>3, <1>4, <1>5, <1>6

\* WriteMetadata keeps the types, the lock discipline and the promotion phase.
LEMMA TypeWriteMetadata ==
  ASSUME TypeOK, NEW i \in Indexers, WriteMetadata(i) PROVE TypeOK'
<1> USE NoneAssumption DEF TypeOK
<1>1. lock = i /\ run \in RunType
  BY DEF WriteMetadata, LockOK, RunOK
<1>2. disk' \in DiskType
  <2>1. EarlyMeta.gen \in Nat
    BY DEF EarlyMeta, DiskType, Metas
  <2>2. [gen |-> EarlyMeta.gen + 1, done |-> TRUE] \in Metas
    BY <2>1 DEF Metas
  <2>q. QED
    BY <2>2 DEF WriteMetadata, DiskType
<1>3. LockOK'
  BY DEF WriteMetadata, LockOK, Goto, Labels, Early, Working, Promoting
<1>4. RunOK'
  BY <1>1 DEF WriteMetadata, RunOK, RunType, NoRun
<1>5. PhaseOK'
  BY <1>1 DEF WriteMetadata, PhaseOK, Promoting, LockOK, Goto, RunType, DiskType, BackupType
<1>6. SourceOK' /\ OthersOK'
  BY DEF WriteMetadata, SourceOK, OthersOK, source, outside, Spend, Metas
<1>q. QED
  BY <1>2, <1>3, <1>4, <1>5, <1>6

\* WriteFormat keeps the types, the lock discipline and the promotion phase.
LEMMA TypeWriteFormat ==
  ASSUME TypeOK, NEW i \in Indexers, WriteFormat(i) PROVE TypeOK'
<1> USE NoneAssumption DEF TypeOK
<1>1. lock = i /\ run \in RunType
  BY DEF WriteFormat, LockOK, RunOK
<1>2. disk' \in DiskType
  BY <1>1 DEF WriteFormat, DiskType, BackupType, PhaseOK, Promoting, OthersOK, Metas
<1>3. LockOK'
  BY DEF WriteFormat, LockOK, Goto, Labels, Early, Working, Promoting
<1>4. RunOK'
  BY <1>1 DEF WriteFormat, RunOK, RunType, NoRun
<1>5. PhaseOK'
  BY <1>1 DEF WriteFormat, PhaseOK, Promoting, LockOK, Goto, RunType, DiskType, BackupType
<1>6. SourceOK' /\ OthersOK'
  BY DEF WriteFormat, SourceOK, OthersOK, source, outside, Spend, Metas
<1>q. QED
  BY <1>2, <1>3, <1>4, <1>5, <1>6

\* SaveSnapshot keeps the types, the lock discipline and the promotion phase.
LEMMA TypeSaveSnapshot ==
  ASSUME TypeOK, NEW i \in Indexers, SaveSnapshot(i) PROVE TypeOK'
<1> USE NoneAssumption DEF TypeOK
<1>1. lock = i /\ run \in RunType
  BY DEF SaveSnapshot, LockOK, RunOK
<1>2. disk' \in DiskType
  BY <1>1 DEF SaveSnapshot, DiskType, BackupType, PhaseOK, Promoting, OthersOK, Metas, RunType
<1>3. LockOK'
  BY DEF SaveSnapshot, LockOK, Goto, Labels, Early, Working, Promoting
<1>4. RunOK'
  BY <1>1 DEF SaveSnapshot, RunOK, RunType, NoRun
<1>5. PhaseOK'
  BY <1>1 DEF SaveSnapshot, PhaseOK, Promoting, LockOK, Goto, RunType, DiskType, BackupType
<1>6. SourceOK' /\ OthersOK'
  BY DEF SaveSnapshot, SourceOK, OthersOK, source, outside, Spend, Metas
<1>q. QED
  BY <1>2, <1>3, <1>4, <1>5, <1>6

\* ClearMarker keeps the types, the lock discipline and the promotion phase.
LEMMA TypeClearMarker ==
  ASSUME TypeOK, NEW i \in Indexers, ClearMarker(i) PROVE TypeOK'
<1> USE NoneAssumption DEF TypeOK
<1>1. lock = i /\ run \in RunType
  BY DEF ClearMarker, LockOK, RunOK
<1>2. disk' \in DiskType
  BY <1>1 DEF ClearMarker, DiskType, BackupType, PhaseOK, Promoting, OthersOK, Metas
<1>3. LockOK'
  BY DEF ClearMarker, LockOK, Goto, Labels, Early, Working, Promoting
<1>4. RunOK'
  BY <1>1 DEF ClearMarker, RunOK, RunType, NoRun
<1>5. PhaseOK'
  BY <1>1 DEF ClearMarker, PhaseOK, Promoting, LockOK, Goto, RunType, DiskType, BackupType
<1>6. SourceOK' /\ OthersOK'
  BY DEF ClearMarker, SourceOK, OthersOK, source, outside, Spend, Metas
<1>q. QED
  BY <1>2, <1>3, <1>4, <1>5, <1>6

\* Unlock keeps the types, the lock discipline and the promotion phase.
LEMMA TypeUnlock ==
  ASSUME TypeOK, NEW i \in Indexers, Unlock(i) PROVE TypeOK'
<1> USE NoneAssumption DEF TypeOK
<1>1. lock = i /\ run \in RunType
  BY DEF Unlock, LockOK, RunOK
<1>2. disk' \in DiskType
  BY <1>1 DEF Unlock, DiskType, BackupType, PhaseOK, Promoting, OthersOK, Metas
<1>3. LockOK'
  BY DEF Unlock, LockOK, Goto, Labels, Early, Working, Promoting
<1>4. RunOK'
  BY <1>1 DEF Unlock, RunOK, RunType, NoRun
<1>5. PhaseOK'
  BY <1>1 DEF Unlock, PhaseOK, Promoting, LockOK, Goto, RunType, DiskType, BackupType
<1>6. SourceOK' /\ OthersOK'
  BY DEF Unlock, SourceOK, OthersOK, source, outside, Spend, Metas
<1>q. QED
  BY <1>2, <1>3, <1>4, <1>5, <1>6

\* DropGuard keeps the types, the lock discipline and the promotion phase.
LEMMA TypeDropGuard ==
  ASSUME TypeOK, NEW i \in Indexers, DropGuard(i) PROVE TypeOK'
<1> USE NoneAssumption DEF TypeOK
<1>1. lock # i
  BY DEF DropGuard, LockOK
<1>2. disk' \in DiskType
  BY <1>1 DEF DropGuard, DiskType, BackupType, PhaseOK, Promoting, OthersOK, Metas
<1>3. LockOK'
  BY DEF DropGuard, LockOK, Goto, Labels, Early, Working, Promoting
<1>4. RunOK'
  BY DEF DropGuard, RunOK
<1>5. PhaseOK'
  BY <1>1 DEF DropGuard, PhaseOK, Promoting, LockOK, Goto, RunType, DiskType, BackupType
<1>6. SourceOK' /\ OthersOK'
  BY DEF DropGuard, SourceOK, OthersOK, source, outside, Spend, Metas
<1>q. QED
  BY <1>2, <1>3, <1>4, <1>5, <1>6

\* FailEarly keeps the types, the lock discipline and the promotion phase.
LEMMA TypeFailEarly ==
  ASSUME TypeOK, NEW i \in Indexers, FailEarly(i) PROVE TypeOK'
<1> USE NoneAssumption DEF TypeOK
<1>1. lock = i /\ run \in RunType
  BY DEF FailEarly, LockOK, RunOK, Early, Working
<1>2. disk' \in DiskType
  BY <1>1 DEF FailEarly, DiskType, BackupType, PhaseOK, Promoting, OthersOK, Metas
<1>3. LockOK'
  BY DEF FailEarly, LockOK, Goto, Labels, Early, Working, Promoting
<1>4. RunOK'
  BY <1>1 DEF FailEarly, RunOK, RunType, NoRun
<1>5. PhaseOK'
  BY <1>1 DEF FailEarly, PhaseOK, Promoting, LockOK, Goto, RunType, DiskType, BackupType
<1>6. SourceOK' /\ OthersOK'
  BY DEF FailEarly, SourceOK, OthersOK, source, outside, Spend, Metas
<1>q. QED
  BY <1>2, <1>3, <1>4, <1>5, <1>6

\* Fail keeps the types, the lock discipline and the promotion phase.
LEMMA TypeFail ==
  ASSUME TypeOK, NEW i \in Indexers, Fail(i) PROVE TypeOK'
<1> USE NoneAssumption DEF TypeOK
<1>1. lock = i /\ run \in RunType
  BY DEF Fail, LockOK, RunOK, Early, Working
<1>2. disk' \in DiskType
  BY <1>1 DEF Fail, DiskType, BackupType, PhaseOK, Promoting, OthersOK, Metas
<1>3. LockOK'
  BY DEF Fail, LockOK, Goto, Labels, Early, Working, Promoting
<1>4. RunOK'
  BY <1>1 DEF Fail, RunOK, RunType, NoRun
<1>5. PhaseOK'
  BY <1>1 DEF Fail, PhaseOK, Promoting, LockOK, Goto, RunType, DiskType, BackupType
<1>6. SourceOK' /\ OthersOK'
  BY DEF Fail, SourceOK, OthersOK, source, outside, Spend, Metas
<1>q. QED
  BY <1>2, <1>3, <1>4, <1>5, <1>6

\* RetryTantivy keeps the types, the lock discipline and the promotion phase.
LEMMA TypeRetryTantivy ==
  ASSUME TypeOK, NEW i \in Indexers, RetryTantivy(i) PROVE TypeOK'
<1> USE NoneAssumption DEF TypeOK
<1>1. lock = i /\ run \in RunType
  BY DEF RetryTantivy, LockOK, RunOK
<1>2. disk' \in DiskType
  BY <1>1 DEF RetryTantivy, DiskType, BackupType, PhaseOK, Promoting, OthersOK, Metas
<1>3. LockOK'
  BY DEF RetryTantivy, LockOK, Goto, Labels, Early, Working, Promoting
<1>4. RunOK'
  <2>1. run.attempt + 1 \in 0 .. Attempts - 1
    BY <1>1 DEF RetryTantivy, RunType, Attempts
  <2>2. run.trust \in BOOLEAN /\ run.paths \in SUBSET Paths
    BY <1>1 DEF RunType
  <2>3. NewRun(FALSE, run.trust, run.paths) \in RunType
    BY <2>2, NewRunType
  <2>q. QED
    BY <1>1, <2>1, <2>3 DEF RetryTantivy, RunOK, RunType
<1>5. PhaseOK'
  BY <1>1 DEF RetryTantivy, PhaseOK, Promoting, LockOK, Goto, RunType, DiskType, BackupType
<1>6. SourceOK' /\ OthersOK'
  BY DEF RetryTantivy, SourceOK, OthersOK, source, outside, Spend, Metas
<1>q. QED
  BY <1>2, <1>3, <1>4, <1>5, <1>6

\* Crash keeps the types, the lock discipline and the promotion phase.
LEMMA TypeCrash ==
  ASSUME TypeOK, NEW i \in Indexers, Crash(i) PROVE TypeOK'
<1> USE NoneAssumption DEF TypeOK
<1>1. pc' = [pc EXCEPT ![i] = "idle"]
  BY DEF Crash, Goto
<1>2. disk' \in DiskType
  BY <1>1 DEF Crash, DiskType, BackupType, PhaseOK, Promoting, OthersOK, Metas
<1>3. LockOK'
  BY DEF Crash, LockOK, Goto, Labels, Early, Working, Promoting
<1>4. RunOK'
  BY DEF Crash, RunOK
<1>5. PhaseOK'
  BY <1>1 DEF Crash, PhaseOK, Promoting, LockOK, Goto, RunType, DiskType, BackupType
<1>6. SourceOK' /\ OthersOK'
  BY DEF Crash, SourceOK, OthersOK, source, outside, Spend, Metas
<1>q. QED
  BY <1>2, <1>3, <1>4, <1>5, <1>6

-----------------------------------------------------------------------------
\* The initial state is typed.
LEMMA TypeInit == Init => TypeOK
<1> SUFFICES ASSUME Init PROVE TypeOK
  OBVIOUS
<1>1. SourceOK
  BY BoundsAssumption, EmptyContent DEF Init, SourceOK, Content, Versions
<1>2. disk \in DiskType
  BY DEF Init, DiskType
<1>3. LockOK /\ RunOK /\ PhaseOK
  BY NoneAssumption DEF Init, LockOK, RunOK, PhaseOK, Labels, Promoting
<1>4. OthersOK
  BY BoundsAssumption DEF Init, OthersOK
<1>q. QED
  BY <1>1, <1>2, <1>3, <1>4 DEF TypeOK

\* Every step keeps the types, the lock discipline and the promotion phase.
LEMMA TypeStep == TypeOK /\ [Next]_vars => TypeOK'
<1> SUFFICES ASSUME TypeOK, [Next]_vars PROVE TypeOK'
  OBVIOUS
<1>1. CASE UNCHANGED vars
  BY <1>1 DEF vars, TypeOK, SourceOK, LockOK, RunOK, PhaseOK, OthersOK
<1>2. ASSUME NEW i \in Indexers, Acquire(i) \/ AcquireRemove(i) PROVE TypeOK'
  BY <1>2, TypeAcquire, TypeAcquireRemove
<1>3. ASSUME NEW i \in Indexers, Step(i) PROVE TypeOK'
  BY <1>3, TypeInspect, TypeWipe, TypeWipeDone, TypeIdentify,
     TypeAnnounce, TypeTrustWatcher, TypeScanNoOp,
     TypeScanIncremental, TypeScanFresh, TypeMarkIncremental,
     TypePersistPath, TypeCommitSqlite, TypeCommitTantivy,
     TypeMarkPromotion, TypeBackup, TypePromote, TypeUnpromote,
     TypeRestore, TypeWriteMetadata, TypeWriteFormat,
     TypeSaveSnapshot, TypeClearMarker, TypeUnlock, TypeDropGuard DEF Step
<1>4. ASSUME NEW i \in Indexers, Failure(i) PROVE TypeOK'
  BY <1>4, TypeBackupFails, TypePromoteFails, TypeRollbackFails,
     TypeFailEarly, TypeFail, TypeRetryTantivy, TypeCrash DEF Failure
<1>5. CASE ReaderSeesStalePid \/ ReaderUnlinksPid \/ AddReads \/ AddWrites \/ Upgrade
  <2>1. disk' \in DiskType /\ disk'.backup = disk.backup
    BY <1>5 DEF ReaderSeesStalePid, ReaderUnlinksPid, AddReads, AddWrites,
                Upgrade, TypeOK, OthersOK, DiskType
  <2>2. EarlyMeta \in Metas
    BY DEF EarlyMeta, TypeOK, DiskType, Metas
  <2>3. UNCHANGED <<files, hidden, clock, lock, pc, run, nextInc>>
    BY <1>5 DEF ReaderSeesStalePid, ReaderUnlinksPid, AddReads, AddWrites,
                Upgrade, source
  <2>4. OthersOK'
    <3>1. CASE ReaderSeesStalePid \/ ReaderUnlinksPid
      BY <3>1 DEF ReaderSeesStalePid, ReaderUnlinksPid, TypeOK, OthersOK
    <3>2. CASE AddReads
      BY <2>2, <3>2 DEF AddReads, TypeOK, OthersOK, Spend
    <3>3. CASE AddWrites
      BY <3>3 DEF AddWrites, TypeOK, OthersOK
    <3>4. CASE Upgrade
      BY <3>4 DEF Upgrade, TypeOK, OthersOK, Spend, outside
    <3>q. QED
      BY <1>5, <3>1, <3>2, <3>3, <3>4
  <2>q. QED
    BY <2>1, <2>3, <2>4 DEF TypeOK, SourceOK, LockOK, RunOK, PhaseOK
<1>6. ASSUME NEW p \in Paths, Edit(p) \/ Return(p) PROVE TypeOK'
  <2>1. SourceOK'
    BY <1>6, BoundsAssumption
    DEF Edit, Return, TypeOK, SourceOK, Content, Versions
  <2>2. UNCHANGED <<disk, lock, pc, run, nextInc, reaper, add, budget>>
    BY <1>6 DEF Edit, Return, index, outside
  <2>q. QED
    BY <2>1, <2>2 DEF TypeOK, LockOK, RunOK, PhaseOK, OthersOK
<1>q. QED
  BY <1>1, <1>2, <1>3, <1>4, <1>5, <1>6 DEF Next, Others

\* Every reachable state is typed, index.lock has at most one holder, a run's
\* locals exist exactly while it is held (lock_exclusive .. unlock in
\* index_workspace_with_options_and_store_replacement), and a promotion or
\* rollback step always finds the backup directory it works on.
THEOREM TypeCorrect == Spec => []TypeOK
BY TypeInit, TypeStep, PTL DEF Spec

--------------------------------------------------------------------------------
(* What is promised about the stores. *)

\* Where the holder of index.lock is.
Phase == IF lock = None THEN "none" ELSE pc[lock]

\* An indexer that is past acquiring and before unlocking holds the lock.
LEMMA Holder ==
  ASSUME TypeOK, NEW i \in Indexers, pc[i] \notin {"idle", "drop"}
  PROVE  lock = i /\ lock # None /\ Phase = pc[i] /\ run \in RunType /\ disk \in DiskType
BY NoneAssumption DEF TypeOK, LockOK, RunOK, Phase

\* The same after a step.
LEMMA HolderNext ==
  ASSUME TypeOK', NEW i \in Indexers, pc'[i] \notin {"idle", "drop"}
  PROVE  lock' = i /\ lock' # None /\ Phase' = pc'[i] /\ run' \in RunType
         /\ disk' \in DiskType
BY NoneAssumption DEF TypeOK, LockOK, RunOK, Phase

\* With the lock free there is no run; with the lock held there is one.
LEMMA FreeOrHeld ==
  ASSUME TypeOK
  PROVE  /\ lock = None => run = None /\ Phase = "none"
         /\ run # None => lock \in Indexers /\ lock # None /\ Phase = pc[lock]
         /\ lock # None => /\ lock \in Indexers /\ Phase = pc[lock] /\ run \in RunType
                           /\ Phase \in Labels \ {"idle", "drop"}
BY NoneAssumption DEF TypeOK, LockOK, RunOK, NoRun, Phase

\* What the processes that do not hold the lock may do to the rest.
Bystander ==
    \/ Others
    \/ \E j \in Indexers : DropGuard(j) \/ (Crash(j) /\ lock # j)

\* They leave the run, the stores, the snapshot, the marker and the backup.
LEMMA StandsBy ==
  ASSUME TypeOK, TypeOK', Bystander
  PROVE  /\ lock' = lock /\ run' = run /\ Phase' = Phase
         /\ disk'.sqlite = disk.sqlite /\ disk'.tantivy = disk.tantivy
         /\ disk'.vectors = disk.vectors /\ disk'.incarnation = disk.incarnation
         /\ disk'.snapshot = disk.snapshot /\ disk'.incomplete = disk.incomplete
         /\ disk'.backup = disk.backup
         /\ \/ UNCHANGED <<files, hidden, clock>>
            \/ \E p \in Paths : Edit(p) \/ Return(p)
<1>1. disk \in DiskType /\ disk' \in DiskType
  BY DEF TypeOK
<1>2. CASE ReaderSeesStalePid \/ ReaderUnlinksPid \/ AddReads \/ AddWrites \/ Upgrade
  <2>1. UNCHANGED <<files, hidden, clock, lock, run, pc>>
    BY <1>2 DEF ReaderSeesStalePid, ReaderUnlinksPid, AddReads, AddWrites, Upgrade, source
  <2>2. \/ disk' = disk
        \/ disk' = [disk EXCEPT !.pid = None]
        \/ disk' = [disk EXCEPT !.meta = add]
        \/ disk' = [disk EXCEPT !.format = None]
    BY <1>2 DEF ReaderSeesStalePid, ReaderUnlinksPid, AddReads, AddWrites, Upgrade
  <2>3. Phase' = Phase
    BY <2>1 DEF Phase
  <2>q. QED
    BY <1>1, <2>1, <2>2, <2>3 DEF DiskType
<1>3. CASE \E p \in Paths : Edit(p) \/ Return(p)
  <2>1. UNCHANGED <<disk, lock, run, pc>>
    BY <1>3 DEF Edit, Return, index
  <2>q. QED
    BY <1>3, <2>1 DEF Phase
<1>4. ASSUME NEW j \in Indexers, DropGuard(j) \/ (Crash(j) /\ lock # j)
      PROVE  /\ UNCHANGED <<files, hidden, clock, lock, run>>
             /\ Phase' = Phase
             /\ \E x \in {None, disk.pid, Dead} : disk' = [disk EXCEPT !.pid = x]
  <2>1. UNCHANGED <<files, hidden, clock, lock, run>> /\ lock # j
    BY <1>4, NoneAssumption DEF DropGuard, Crash, source, TypeOK, LockOK
  <2>2. pc' = [pc EXCEPT ![j] = "idle"]
    BY <1>4 DEF DropGuard, Crash, Goto
  <2>3. Phase' = Phase
    BY <2>1, <2>2 DEF Phase, TypeOK, LockOK
  <2>4. CASE DropGuard(j)
    BY <2>1, <2>3, <2>4 DEF DropGuard
  <2>5. CASE Crash(j)
    <3> DEFINE x == IF disk.pid = j THEN Dead ELSE disk.pid
    <3>1. disk' = [disk EXCEPT !.pid = x] /\ x \in {None, disk.pid, Dead}
      BY <2>5 DEF Crash
    <3>q. QED
      BY <2>1, <2>3, <3>1
  <2>q. QED
    BY <1>4, <2>4, <2>5
<1>5. CASE \E j \in Indexers : DropGuard(j) \/ (Crash(j) /\ lock # j)
  <2>1. PICK x : disk' = [disk EXCEPT !.pid = x]
    BY <1>4, <1>5
  <2>2. UNCHANGED <<files, hidden, clock, lock, run>> /\ Phase' = Phase
    BY <1>4, <1>5
  <2>q. QED
    BY <1>1, <2>1, <2>2 DEF DiskType
<1>q. QED
  BY <1>2, <1>3, <1>5 DEF Bystander, Others

-----------------------------------------------------------------------------
(* A promotion loses nothing.                                              *)

InPlace(k) == disk[Artifact[k]] = run.before[Artifact[k]]
Saved(k)   == disk.backup.old[Artifact[k]] = run.before[Artifact[k]]

\* How far the renames have come says where each previous artifact is.
BackedUp ==
    /\ Phase \notin Promoting \cup {"none", "unlock"} => run.before = None
    /\ Phase = "backup" =>
          \A k \in 1 .. 4 : IF k < run.step THEN Saved(k) ELSE InPlace(k)
    /\ Phase \in {"promote", "unpromote"} => \A k \in 1 .. 4 : Saved(k)
    /\ Phase = "restore" =>
          \A k \in 1 .. 4 : IF k <= run.step THEN Saved(k) ELSE InPlace(k)

PromotionInv == TypeOK /\ BackedUp /\ NothingLost

\* A state in which no promotion has begun, or no run is left.
LEMMA NoPromotion ==
  ASSUME TypeOK', lock' # None => run'.before = None /\ Phase' \notin Promoting
  PROVE  PromotionInv'
<1>1. lock' = None => run' = None /\ Phase' = "none"
  BY DEF TypeOK, RunOK, NoRun, Phase
<1>2. NothingLost'
  BY <1>1 DEF NothingLost
<1>3. BackedUp'
  BY <1>1 DEF BackedUp, Promoting
<1>q. QED
  BY <1>2, <1>3 DEF PromotionInv

\* The order of the renames covers each artifact once.
LEMMA ArtifactOrder ==
  /\ \A k \in 1 .. 4 : Artifact[k] \in Stores
  /\ \A k, m \in 1 .. 4 : Artifact[k] = Artifact[m] => k = m
  /\ \A a \in Stores : \E k \in 1 .. 4 : Artifact[k] = a
<1>1. /\ Artifact[1] = "incarnation" /\ Artifact[2] = "sqlite"
      /\ Artifact[3] = "tantivy" /\ Artifact[4] = "vectors"
  BY DEF Artifact
<1>2. \A k \in 1 .. 4 : k = 1 \/ k = 2 \/ k = 3 \/ k = 4
  OBVIOUS
<1>q. QED
  BY <1>1, <1>2 DEF Stores

\* While the promotion is at work, a saved or untouched artifact is not lost.
LEMMA WhereItIs ==
  ASSUME disk.backup # None, \A k \in 1 .. 4 : Saved(k) \/ InPlace(k)
  PROVE  NothingLost
BY ArtifactOrder DEF NothingLost, Saved, InPlace

\* The same after a step.
LEMMA WhereItIsNext ==
  ASSUME disk'.backup # None, \A k \in 1 .. 4 : Saved(k)' \/ InPlace(k)'
  PROVE  NothingLost'
BY ArtifactOrder DEF NothingLost, Saved, InPlace

\* Until the promotion begins, and once it is over, no previous stores are
\* remembered.
LEMMA PlainSteps ==
  ASSUME PromotionInv, TypeOK', NEW i \in Indexers,
         \/ Inspect(i) \/ Wipe(i) \/ WipeDone(i) \/ Identify(i) \/ Announce(i)
         \/ TrustWatcher(i) \/ ScanNoOp(i) \/ ScanIncremental(i) \/ ScanFresh(i)
         \/ MarkIncremental(i) \/ PersistPath(i) \/ CommitSqlite(i)
         \/ CommitTantivy(i) \/ WriteMetadata(i) \/ WriteFormat(i)
         \/ SaveSnapshot(i) \/ ClearMarker(i) \/ Fail(i)
  PROVE  PromotionInv'
<1>1. pc[i] \in Early \cup Working \cup {"announce"}
  BY DEF Inspect, Wipe, WipeDone, Identify, Announce, TrustWatcher, ScanNoOp,
         ScanIncremental, ScanFresh, MarkIncremental, PersistPath, CommitSqlite,
         CommitTantivy, WriteMetadata, WriteFormat, SaveSnapshot, ClearMarker,
         Fail, Early, Working
<1>2. lock = i /\ Phase = pc[i] /\ run \in RunType /\ run.before = None
  BY <1>1, Holder DEF PromotionInv, BackedUp, Early, Working, Promoting
<1>3. lock' # None => run'.before = None
  BY <1>2
  DEF Inspect, Wipe, WipeDone, Identify, Announce, TrustWatcher, ScanNoOp,
         ScanIncremental, ScanFresh, MarkIncremental, PersistPath, CommitSqlite,
         CommitTantivy, WriteMetadata, WriteFormat, SaveSnapshot, ClearMarker,
         Fail, RunType
<1>4. pc'[i] \notin Promoting
  BY <1>1
  DEF Inspect, Wipe, WipeDone, Identify, Announce, TrustWatcher, ScanNoOp,
         ScanIncremental, ScanFresh, MarkIncremental, PersistPath, CommitSqlite,
         CommitTantivy, WriteMetadata, WriteFormat, SaveSnapshot, ClearMarker,
         Fail, Goto, Promoting, Early, Working, PromotionInv, TypeOK, LockOK
<1>5. lock' \in {i, None}
  BY <1>2
  DEF Inspect, Wipe, WipeDone, Identify, Announce, TrustWatcher, ScanNoOp,
         ScanIncremental, ScanFresh, MarkIncremental, PersistPath, CommitSqlite,
         CommitTantivy, WriteMetadata, WriteFormat, SaveSnapshot, ClearMarker,
         Fail
<1>q. QED
  BY <1>3, <1>4, <1>5, NoPromotion, NoneAssumption DEF Phase

\* Moving an artifact into the backup directory touches nothing else.
LEMMA MovedAway ==
  ASSUME disk \in DiskType, disk.backup \in BackupType, NEW a \in Stores,
         disk' = [disk EXCEPT ![a] = None, !.backup.old[a] = disk[a]]
  PROVE  /\ disk'.backup # None /\ disk'.backup.old[a] = disk[a]
         /\ \A b \in Stores \ {a} : /\ disk'[b] = disk[b]
                                    /\ disk'.backup.old[b] = disk.backup.old[b]
<1>1. a \in DOMAIN disk /\ "backup" \in DOMAIN disk /\ a # "backup"
  BY DEF Stores, DiskType
<1>2. a \in DOMAIN disk.backup.old /\ "old" \in DOMAIN disk.backup
  BY DEF Stores, BackupType, StoresType
<1>3. disk'.backup = [disk.backup EXCEPT !.old[a] = disk[a]]
  BY <1>1
<1>4. disk'.backup.old = [disk.backup.old EXCEPT ![a] = disk[a]]
  BY <1>2, <1>3
<1>5. \A b \in Stores : b \in DOMAIN disk.backup.old /\ b \in DOMAIN disk /\ b # "backup"
  BY DEF Stores, BackupType, StoresType, DiskType
<1>6. \A b \in Stores \ {a} : disk'[b] = disk[b]
  BY <1>5
<1>7. \A b \in Stores \ {a} : disk'.backup.old[b] = disk.backup.old[b]
  BY <1>4, <1>5
<1>8. disk[a] \in Content \cup Nat \cup {"hash", None, Damaged}
  BY DEF DiskType, Stores
<1>9. disk'.backup \in BackupType
  <2> DEFINE o == [disk.backup.old EXCEPT ![a] = disk[a]]
  <2>1. o \in StoresType
    BY DEF DiskType, BackupType, StoresType, Stores
  <2>2. disk'.backup = [disk.backup EXCEPT !.old = o]
    BY <1>2, <1>3
  <2> HIDE DEF o
  <2>q. QED
    BY <2>1, <2>2 DEF BackupType
<1>q. QED
  BY <1>2, <1>4, <1>6, <1>7, <1>9, AbsenceAssumption

\* MarkPromotion remembers the live stores while they are all in place.
LEMMA PromotionMark ==
  ASSUME PromotionInv, TypeOK', NEW i \in Indexers, MarkPromotion(i)
  PROVE  PromotionInv'
<1>1. run \in RunType /\ disk \in DiskType
  BY Holder DEF MarkPromotion, PromotionInv
<1>2. Phase' = "backup"
  <2>1. pc'[i] = "backup"
    BY DEF MarkPromotion, Goto, PromotionInv, TypeOK, LockOK
  <2>q. QED
    BY <2>1, HolderNext
<1>3. run'.step = 1 /\ run'.before = LiveStores
  BY <1>1 DEF MarkPromotion, RunType
<1>4. \A a \in Stores : disk'[a] = LiveStores[a]
  <2>1. /\ disk'.incarnation = disk.incarnation /\ disk'.sqlite = disk.sqlite
        /\ disk'.tantivy = disk.tantivy /\ disk'.vectors = disk.vectors
    BY <1>1 DEF MarkPromotion, DiskType
  <2>q. QED
    BY <2>1 DEF LiveStores, Stores
<1>5. disk'.backup # None
  BY <1>1, <1>2, AbsenceAssumption DEF TypeOK, PhaseOK, MarkPromotion, Goto,
     Promoting, LockOK, PromotionInv
<1>6. \A k \in 1 .. 4 : InPlace(k)'
  BY <1>3, <1>4, ArtifactOrder DEF InPlace
<1>7. BackedUp'
  BY <1>2, <1>3, <1>6 DEF BackedUp, Promoting
<1>q. QED
  BY <1>5, <1>6, <1>7, WhereItIsNext DEF PromotionInv

\* Backup moves one artifact and goes on to the next, or to the promotion.
LEMMA PromotionBackup ==
  ASSUME PromotionInv, TypeOK', NEW i \in Indexers, Backup(i)
  PROVE  PromotionInv'
<1>1. /\ run \in RunType /\ disk \in DiskType /\ Phase = "backup"
      /\ disk.backup \in BackupType /\ run.step \in 1 .. 4
  BY Holder DEF Backup, PromotionInv, TypeOK, PhaseOK, Promoting
<1> DEFINE s == run.step
           a == Artifact[s]
<1>2. a \in Stores
  BY <1>1, ArtifactOrder
<1>3. disk' = [disk EXCEPT ![a] = None, !.backup.old[a] = disk[a]]
  BY DEF Backup
<1>4. run'.before = run.before
  BY <1>1 DEF Backup, RunType
<1>5. /\ disk'.backup # None /\ disk'.backup.old[a] = disk[a]
      /\ \A b \in Stores \ {a} : /\ disk'[b] = disk[b]
                                 /\ disk'.backup.old[b] = disk.backup.old[b]
  BY <1>1, <1>2, <1>3, MovedAway
<1>6. \A k \in 1 .. 4 : IF k < s THEN Saved(k) ELSE InPlace(k)
  BY <1>1 DEF BackedUp, PromotionInv
<1> HIDE DEF a
<1>7. \A k \in 1 .. 4 : IF k <= s THEN Saved(k)' ELSE InPlace(k)'
  <2> SUFFICES ASSUME NEW k \in 1 .. 4
               PROVE  IF k <= s THEN Saved(k)' ELSE InPlace(k)'
    OBVIOUS
  <2>1. CASE k = s
    BY <1>1, <1>4, <1>5, <1>6, <2>1 DEF Saved, InPlace, a
  <2>2. CASE k # s
    <3>1. Artifact[k] \in Stores \ {a}
      BY <1>1, <2>2, ArtifactOrder DEF a
    <3>2. CASE k < s
      BY <1>1, <1>4, <1>5, <1>6, <3>1, <3>2 DEF Saved
    <3>3. CASE ~(k < s)
      BY <1>1, <1>4, <1>5, <1>6, <2>2, <3>1, <3>3 DEF InPlace
    <3>q. QED
      BY <3>2, <3>3
  <2>q. QED
    BY <2>1, <2>2
<1>8. NothingLost'
  BY <1>5, <1>7, WhereItIsNext
<1>9. CASE s < 4
  <2>1. pc'[i] = "backup" /\ run'.step = s + 1
    BY <1>1, <1>9 DEF Backup, Goto, PromotionInv, TypeOK, LockOK, RunType
  <2>2. Phase' = "backup"
    BY <2>1, HolderNext
  <2>q. QED
    BY <1>1, <1>7, <1>8, <2>1, <2>2 DEF PromotionInv, BackedUp, Promoting
<1>10. CASE ~(s < 4)
  <2> s = 4
    BY <1>1, <1>10
  <2>1. pc'[i] = "promote"
    BY <1>1, <1>10 DEF Backup, Goto, PromotionInv, TypeOK, LockOK, RunType
  <2>2. Phase' = "promote"
    BY <2>1, HolderNext
  <2>q. QED
    BY <1>1, <1>7, <1>8, <2>1, <2>2 DEF PromotionInv, BackedUp, Promoting
<1>q. QED
  BY <1>9, <1>10

\* Promote puts staged artifacts in place; the backups stay until the last.
LEMMA PromotionPromote ==
  ASSUME PromotionInv, TypeOK', NEW i \in Indexers, Promote(i)
  PROVE  PromotionInv'
<1>1. /\ run \in RunType /\ disk \in DiskType /\ Phase = "promote"
      /\ disk.backup \in BackupType /\ run.step \in 1 .. 4 /\ lock = i
  BY Holder DEF Promote, PromotionInv, TypeOK, PhaseOK, Promoting
<1>2. CASE run.step < 4
  <2>1. pc'[i] = "promote" /\ run'.before = run.before
    BY <1>1, <1>2 DEF Promote, Goto, PromotionInv, TypeOK, LockOK, RunType
  <2>2. Phase' = "promote"
    BY <2>1, HolderNext
  <2>3. disk'.backup = disk.backup /\ disk.backup # None
    <3> DEFINE a == Artifact[run.step]
               v == Staged(a)
    <3>1. a # "backup"
      BY <1>1, ArtifactOrder DEF Stores
    <3>2. disk' = [disk EXCEPT ![a] = v, !.backup = IF run.step = 4 THEN None ELSE @]
      BY DEF Promote
    <3>3. disk.backup # None /\ run.step # 4 /\ "backup" \in DOMAIN disk
      BY <1>1, <1>2, AbsenceAssumption DEF DiskType
    <3> HIDE DEF a, v
    <3>q. QED
      BY <3>1, <3>2, <3>3
  <2>4. \A k \in 1 .. 4 : Saved(k)'
    BY <1>1, <2>1, <2>3 DEF BackedUp, PromotionInv, Saved
  <2>5. NothingLost'
    BY <2>3, <2>4, WhereItIsNext
  <2>q. QED
    BY <2>2, <2>4, <2>5 DEF PromotionInv, BackedUp, Promoting
<1>3. CASE ~(run.step < 4)
  <2>1. pc'[i] = "metadata" /\ run'.before = None /\ lock' = i
    BY <1>1, <1>3 DEF Promote, Goto, PromotionInv, TypeOK, LockOK, RunType
  <2>2. Phase' = "metadata"
    BY <2>1, HolderNext
  <2>q. QED
    BY <2>1, <2>2, NoPromotion DEF Promoting
<1>q. QED
  BY <1>2, <1>3

\* A failed rename turns the promotion back from where it stands.
LEMMA PromotionFails ==
  ASSUME PromotionInv, TypeOK', NEW i \in Indexers, BackupFails(i) \/ PromoteFails(i)
  PROVE  PromotionInv'
<1>1. /\ run \in RunType /\ disk \in DiskType /\ Phase = pc[i] /\ lock = i
      /\ disk.backup \in BackupType /\ run.step \in 1 .. 4
      /\ pc[i] \in {"backup", "promote"}
  BY Holder DEF BackupFails, PromoteFails, PromotionInv, TypeOK, PhaseOK, Promoting
<1>2. /\ run'.before = run.before /\ run'.step = run.step - 1 /\ disk' = disk
  BY <1>1 DEF BackupFails, PromoteFails, RunType
<1>3. NothingLost'
  <2>1. \A k \in 1 .. 4 : Saved(k) \/ InPlace(k)
    BY <1>1 DEF PromotionInv, BackedUp
  <2>2. \A k \in 1 .. 4 : Saved(k)' \/ InPlace(k)'
    BY <1>2, <2>1 DEF Saved, InPlace
  <2>q. QED
    BY <1>1, <1>2, <2>2, WhereItIsNext, AbsenceAssumption
<1>4. CASE BackupFails(i)
  <2>1. pc'[i] = "restore" /\ Phase = "backup"
    BY <1>1, <1>4 DEF BackupFails, Goto, PromotionInv, TypeOK, LockOK
  <2>2. Phase' = "restore"
    BY <2>1, HolderNext
  <2>3. \A k \in 1 .. 4 : IF k <= run'.step THEN Saved(k)' ELSE InPlace(k)'
    BY <1>1, <1>2, <2>1 DEF PromotionInv, BackedUp, Saved, InPlace
  <2>q. QED
    BY <1>3, <2>2, <2>3 DEF PromotionInv, BackedUp, Promoting
<1>5. CASE PromoteFails(i)
  <2>1. pc'[i] = "unpromote" /\ Phase = "promote"
    BY <1>1, <1>5 DEF PromoteFails, Goto, PromotionInv, TypeOK, LockOK
  <2>2. Phase' = "unpromote"
    BY <2>1, HolderNext
  <2>3. \A k \in 1 .. 4 : Saved(k)'
    BY <1>1, <1>2, <2>1 DEF PromotionInv, BackedUp, Saved
  <2>q. QED
    BY <1>3, <2>2, <2>3 DEF PromotionInv, BackedUp, Promoting
<1>q. QED
  BY <1>4, <1>5

\* Unpromote removes promoted artifacts; the backups are all there.
LEMMA PromotionUnpromote ==
  ASSUME PromotionInv, TypeOK', NEW i \in Indexers, Unpromote(i)
  PROVE  PromotionInv'
<1>1. /\ run \in RunType /\ disk \in DiskType /\ Phase = "unpromote" /\ pc[i] = Phase
      /\ disk.backup \in BackupType
  BY Holder DEF Unpromote, PromotionInv, TypeOK, PhaseOK, Promoting
<1>2. run'.before = run.before
  BY <1>1 DEF Unpromote, RunType
<1>3. disk'.backup = disk.backup /\ disk.backup # None
  <2>1. run.step # 0 => Artifact[run.step] # "backup"
    BY <1>1, ArtifactOrder DEF Stores, RunType
  <2>q. QED
    BY <1>1, <2>1, AbsenceAssumption DEF Unpromote, DiskType
<1>4. \A k \in 1 .. 4 : Saved(k)'
  BY <1>1, <1>2, <1>3 DEF BackedUp, PromotionInv, Saved
<1>5. NothingLost'
  BY <1>3, <1>4, WhereItIsNext
<1>6. CASE run.step = 0
  <2>1. pc'[i] = "restore" /\ run'.step = 4
    BY <1>1, <1>6 DEF Unpromote, Goto, PromotionInv, TypeOK, LockOK, RunType
  <2>2. Phase' = "restore"
    BY <2>1, HolderNext
  <2>q. QED
    BY <1>4, <1>5, <2>1, <2>2 DEF PromotionInv, BackedUp, Promoting
<1>7. CASE run.step # 0
  <2>1. pc'[i] = "unpromote"
    BY <1>1, <1>7 DEF Unpromote
  <2>2. Phase' = "unpromote"
    BY <2>1, HolderNext
  <2>q. QED
    BY <1>4, <1>5, <2>2 DEF PromotionInv, BackedUp, Promoting
<1>q. QED
  BY <1>6, <1>7

\* Putting an artifact back from the backup directory touches nothing else.
LEMMA MovedBack ==
  ASSUME disk \in DiskType, disk.backup \in BackupType, NEW a \in Stores,
         disk' = [disk EXCEPT ![a] = disk.backup.old[a], !.backup.old[a] = None]
  PROVE  /\ disk'[a] = disk.backup.old[a]
         /\ \A b \in Stores \ {a} : /\ disk'[b] = disk[b]
                                    /\ disk'.backup.old[b] = disk.backup.old[b]
<1>1. \A b \in Stores : b \in DOMAIN disk.backup.old /\ b \in DOMAIN disk /\ b # "backup"
  BY DEF Stores, BackupType, StoresType, DiskType
<1>2. "backup" \in DOMAIN disk /\ "old" \in DOMAIN disk.backup
  BY DEF BackupType, DiskType
<1>3. disk'.backup = [disk.backup EXCEPT !.old[a] = None]
  BY <1>1, <1>2
<1>4. disk'.backup.old = [disk.backup.old EXCEPT ![a] = None]
  BY <1>2, <1>3
<1>5. disk'[a] = disk.backup.old[a] /\ \A b \in Stores \ {a} : disk'[b] = disk[b]
  BY <1>1
<1>6. \A b \in Stores \ {a} : disk'.backup.old[b] = disk.backup.old[b]
  BY <1>1, <1>4
<1>q. QED
  BY <1>5, <1>6

\* Restore puts the artifacts back one by one and then drops the backup.
LEMMA PromotionRestore ==
  ASSUME PromotionInv, TypeOK', NEW i \in Indexers, Restore(i)
  PROVE  PromotionInv'
<1>1. /\ run \in RunType /\ disk \in DiskType /\ Phase = "restore" /\ pc[i] = Phase
      /\ disk.backup \in BackupType /\ run.step \in 0 .. 4
  BY Holder DEF Restore, PromotionInv, TypeOK, PhaseOK, Promoting, RunType
<1> DEFINE s == run.step
           a == Artifact[s]
<1>2. run'.before = run.before
  BY <1>1 DEF Restore, RunType
<1>3. \A k \in 1 .. 4 : IF k <= s THEN Saved(k) ELSE InPlace(k)
  BY <1>1 DEF BackedUp, PromotionInv
<1>4. CASE s = 0
  <2>1. pc'[i] = "unlock" /\ disk' = [disk EXCEPT !.backup = None]
    BY <1>1, <1>4 DEF Restore, Goto, PromotionInv, TypeOK, LockOK
  <2>2. Phase' = "unlock"
    BY <2>1, HolderNext
  <2>3. \A k \in 1 .. 4 : InPlace(k)
    BY <1>3, <1>4
  <2>4. \A b \in Stores : disk'[b] = disk[b]
    BY <1>1, <2>1 DEF DiskType, Stores
  <2>5. \A k \in 1 .. 4 : InPlace(k)'
    BY <1>2, <2>3, <2>4, ArtifactOrder DEF InPlace
  <2>6. NothingLost'
    BY <2>5, ArtifactOrder DEF NothingLost, InPlace
  <2>q. QED
    BY <2>2, <2>6 DEF PromotionInv, BackedUp, Promoting
<1>5. CASE s # 0
  <2>1. /\ pc'[i] = "restore" /\ run'.step = s - 1
        /\ disk' = [disk EXCEPT ![a] = disk.backup.old[a], !.backup.old[a] = None]
    BY <1>1, <1>5 DEF Restore, RunType
  <2>2. Phase' = "restore" /\ disk'.backup # None
    BY <2>1, HolderNext, AbsenceAssumption DEF TypeOK, PhaseOK, Promoting
  <2>3. a \in Stores
    BY <1>1, <1>5, ArtifactOrder
  <2>4. /\ disk'[a] = disk.backup.old[a]
        /\ \A b \in Stores \ {a} : /\ disk'[b] = disk[b]
                                   /\ disk'.backup.old[b] = disk.backup.old[b]
    BY <1>1, <2>1, <2>3, MovedBack
  <2> HIDE DEF a
  <2>5. ASSUME NEW k \in 1 .. 4
        PROVE  IF k <= s - 1 THEN Saved(k)' ELSE InPlace(k)'
    <3>1. CASE k = s
      BY <1>1, <1>2, <1>3, <2>4, <3>1 DEF Saved, InPlace, a
    <3>2. CASE k # s
      <4>1. Artifact[k] \in Stores \ {a}
        BY <1>1, <1>5, <3>2, ArtifactOrder DEF a
      <4>2. CASE k <= s
        BY <1>1, <1>2, <1>3, <2>4, <3>2, <4>1, <4>2 DEF Saved
      <4>3. CASE ~(k <= s)
        BY <1>1, <1>2, <1>3, <2>4, <4>1, <4>3 DEF InPlace
      <4>q. QED
        BY <4>2, <4>3
    <3>q. QED
      BY <3>1, <3>2
  <2>6. NothingLost'
    BY <2>2, <2>5, WhereItIsNext
  <2>q. QED
    BY <2>1, <2>2, <2>5, <2>6 DEF PromotionInv, BackedUp, Promoting
<1>q. QED
  BY <1>4, <1>5

\* A rollback that fails keeps the backup directory as it is.
LEMMA PromotionKeepsBackup ==
  ASSUME PromotionInv, TypeOK', NEW i \in Indexers, RollbackFails(i)
  PROVE  PromotionInv'
<1>1. /\ run \in RunType /\ disk \in DiskType /\ Phase \in {"unpromote", "restore"}
      /\ disk.backup \in BackupType
  BY Holder DEF RollbackFails, PromotionInv, TypeOK, PhaseOK, Promoting
<1>2. run' = run /\ disk' = [disk EXCEPT !.backup.retained = TRUE]
  BY DEF RollbackFails
<1>3. Phase' = "unlock"
  <2>1. pc'[i] = "unlock"
    BY DEF RollbackFails, Goto, PromotionInv, TypeOK, LockOK
  <2>q. QED
    BY <2>1, HolderNext
<1>4. disk'.backup = [disk.backup EXCEPT !.retained = TRUE]
  BY <1>1, <1>2 DEF DiskType
<1>5. disk'.backup.old = disk.backup.old /\ disk'.backup # None
  BY <1>1, <1>4, AbsenceAssumption DEF BackupType
<1>6. \A b \in Stores : disk'[b] = disk[b]
  BY <1>1, <1>2 DEF DiskType, Stores
<1>7. \A k \in 1 .. 4 : Saved(k) \/ InPlace(k)
  BY <1>1 DEF BackedUp, PromotionInv
<1>8. \A k \in 1 .. 4 : Saved(k)' \/ InPlace(k)'
  BY <1>2, <1>5, <1>6, <1>7, ArtifactOrder DEF Saved, InPlace
<1>9. NothingLost'
  BY <1>5, <1>8, WhereItIsNext
<1>q. QED
  BY <1>3, <1>9 DEF PromotionInv, BackedUp, Promoting

\* Processes without the lock move no artifact.
LEMMA PromotionBystander ==
  ASSUME PromotionInv, TypeOK', Bystander PROVE PromotionInv'
<1>1. /\ run' = run /\ Phase' = Phase /\ disk'.backup = disk.backup
      /\ disk'.sqlite = disk.sqlite /\ disk'.tantivy = disk.tantivy
      /\ disk'.vectors = disk.vectors /\ disk'.incarnation = disk.incarnation
  BY StandsBy DEF PromotionInv
<1>2. \A b \in Stores : disk'[b] = disk[b]
  BY <1>1 DEF Stores
<1>3. \A k \in 1 .. 4 : (Saved(k)' <=> Saved(k)) /\ (InPlace(k)' <=> InPlace(k))
  BY <1>1, <1>2, ArtifactOrder DEF Saved, InPlace
<1>4. NothingLost'
  BY <1>1, <1>2 DEF NothingLost, PromotionInv
<1>5. BackedUp'
  BY <1>1, <1>3 DEF BackedUp, PromotionInv
<1>q. QED
  BY <1>4, <1>5 DEF PromotionInv

\* A run that begins remembers no previous stores; one that ends is gone.
LEMMA PromotionEnds ==
  ASSUME PromotionInv, TypeOK', NEW i \in Indexers,
         \/ Acquire(i) \/ AcquireRemove(i) \/ Unlock(i) \/ FailEarly(i)
         \/ RetryTantivy(i) \/ (Crash(i) /\ lock = i)
  PROVE  PromotionInv'
<1>1. CASE Acquire(i) \/ AcquireRemove(i) \/ RetryTantivy(i)
  <2>1. pc'[i] \in {"inspect", "wipe", "scan"}
    BY <1>1 DEF Acquire, AcquireRemove, RetryTantivy, Goto, PromotionInv,
       TypeOK, LockOK
  <2>2. Acquire(i) \/ AcquireRemove(i) => run'.before = None
    BY DEF Acquire, AcquireRemove, NewRun
  <2>3. RetryTantivy(i) => run'.before = None
    BY DEF RetryTantivy, NewRun
  <2>4. run'.before = None
    BY <1>1, <2>2, <2>3
  <2>5. Phase' = pc'[i]
    BY <2>1, HolderNext
  <2>q. QED
    BY <2>1, <2>5, <2>4, NoPromotion DEF Promoting
<1>2. CASE Unlock(i) \/ FailEarly(i) \/ (Crash(i) /\ lock = i)
  BY <1>2, NoPromotion DEF Unlock, FailEarly, Crash
<1>q. QED
  BY <1>1, <1>2

\* While a promotion moves stores, and until its run lets go of the lock, each
\* artifact of the previous generation is live or in the backup directory,
\* whatever renames fail on the way there and on the way back
\* (promote_main_store, rollback_main_store, restore_main_store_backups).
THEOREM PromotionLosesNothing == Spec => []NothingLost
<1>1. Init => PromotionInv
  BY TypeInit DEF Init, PromotionInv, NothingLost, NoRun, BackedUp, Phase, Promoting
<1>2. PromotionInv /\ [Next]_vars => PromotionInv'
  <2> SUFFICES ASSUME PromotionInv, [Next]_vars PROVE PromotionInv'
    OBVIOUS
  <2>1. TypeOK'
    BY TypeStep DEF PromotionInv
  <2>2. CASE UNCHANGED vars
    BY <2>1, <2>2 DEF vars, PromotionInv, NothingLost, BackedUp, Phase, Saved, InPlace
  <2>3. CASE Others
    BY <2>1, <2>3, PromotionBystander DEF Bystander
  <2>4. ASSUME NEW i \in Indexers, Acquire(i) \/ AcquireRemove(i)
        PROVE  PromotionInv'
    BY <2>1, <2>4, PromotionEnds
  <2>5. ASSUME NEW i \in Indexers, Step(i) PROVE PromotionInv'
    <3>1. CASE DropGuard(i)
      BY <2>1, <3>1, PromotionBystander DEF Bystander
    <3>q. QED
      BY <2>1, <2>5, <3>1, PlainSteps, PromotionMark, PromotionBackup,
         PromotionPromote, PromotionUnpromote, PromotionRestore, PromotionEnds DEF Step
  <2>6. ASSUME NEW i \in Indexers, Failure(i) PROVE PromotionInv'
    <3>1. CASE Crash(i) /\ lock # i
      BY <2>1, <3>1, PromotionBystander DEF Bystander
    <3>q. QED
      BY <2>1, <2>6, <3>1, PlainSteps, PromotionFails, PromotionKeepsBackup,
         PromotionEnds DEF Failure
  <2>q. QED
    BY <2>2, <2>3, <2>4, <2>5, <2>6 DEF Next
<1>3. PromotionInv => NothingLost
  BY DEF PromotionInv
<1>q. QED
  BY <1>1, <1>2, <1>3, PTL DEF Spec

-----------------------------------------------------------------------------
(* What a run trusts is sound.                                             *)

Removing == lock # None /\ run.remove

\* A stamp that no file will ever match again, and a stamp that says what is
\* stored for its path, or else is one of those.
Gone(s, p) == s # 0 /\ s # files[p] /\ s # hidden[p] /\ s <= clock
Matches(s, c, p) == s = c \/ Gone(s, p)
DescribedBy(snapshot) == \A p \in Paths : Matches(snapshot[p], disk.sqlite[p], p)

\* Versions are given out in order, and a path is at one place at a time.
VersionsInOrder ==
    \A p \in Paths : /\ files[p] <= clock /\ hidden[p] <= clock
                     /\ hidden[p] # 0 => files[p] = 0
                     /\ disk.snapshot # None => disk.snapshot[p] <= clock
                     /\ lock # None => run.snap[p] <= clock

\* Without the marker, and with no removal at work, what is left of the
\* stores agrees, and the snapshot describes it.
UnmarkedAgrees ==
    disk.incomplete = None /\ ~Removing /\ disk.sqlite # None =>
        /\ disk.tantivy \in {None, Damaged, disk.sqlite}
        /\ disk.snapshot # None => DescribedBy(disk.snapshot)

\* A run that takes the stores for usable had them opened and counted.
Vouched ==
    /\ Removing => Phase = "wipe"
    /\ Phase = "wipe" => run.remove \/ disk.incomplete = None
    /\ Phase = "identify" => run.rebuild \/ run.healthy \/ disk.sqlite = None
    /\ Phase \in {"announce", "scan"} \/ (Phase = "persist" /\ run.fresh) =>
          RebuildMain \/ disk.sqlite = None \/ StorageValid

\* What a run has gathered for the paths it is done with.
Publishing == {"backup", "promote", "metadata", "format", "snapshot"}
Gathered ==
    /\ Phase \in {"mark", "persist", "commit"} \cup Publishing =>
          \A p \in Paths \ run.todo : Matches(run.snap[p], run.sq[p], p)
    /\ Phase \in Publishing => run.todo = {}

Updating == (Phase = "persist" /\ ~run.fresh) \/ Phase = "commit"

\* The marker is there whenever the live stores are not one publication, and
\* the stores are what the run has gathered once they are all written.
Marked ==
    /\ Updating \/ Phase \in Promoting \cup Publishing => disk.incomplete # None
    /\ Phase = "mark" => ~run.fresh
    /\ Updating \/ Phase = "mark" => disk.vectors # None
    /\ Phase = "commit" => disk.sqlite = run.sq
    /\ Phase = "promote" => /\ run.step > 2 => disk.sqlite = run.sq
                            /\ run.step > 3 => disk.tantivy = run.sq
    /\ Phase \in {"metadata", "format", "snapshot"} =>
          disk.sqlite = run.sq /\ disk.tantivy = run.sq /\ disk.vectors # None
    /\ Phase = "settle" =>
          /\ disk.sqlite # None /\ disk.tantivy = disk.sqlite /\ disk.vectors # None
          /\ DescribedBy(OldSnapshot)

TrustInv ==
    TypeOK /\ VersionsInOrder /\ UnmarkedAgrees /\ Vouched /\ Gathered /\ Marked

\* A stamp that is gone stays gone: an edit takes a version of its own, and
\* a directory that returns brings back only what was hidden.
LEMMA GoneForGood ==
  ASSUME TypeOK, VersionsInOrder, NEW q \in Paths, Edit(q) \/ Return(q)
  PROVE  \A p \in Paths : \A s \in Stamps : Gone(s, p) => Gone(s, p)'
<1> SUFFICES ASSUME NEW p \in Paths, NEW s \in Stamps, Gone(s, p) PROVE Gone(s, p)'
  OBVIOUS
<1>1. /\ files \in [Paths -> Versions] /\ hidden \in [Paths -> Versions] /\ clock \in Int
      /\ s \in Int
  BY DEF TypeOK, SourceOK, Content, Stamps, Versions, Vanished
<1>2. CASE Edit(q)
  <2>1. clock' = clock + 1 /\ s <= clock /\ s # 0 /\ s # files[p] /\ s # hidden[p]
    BY <1>2 DEF Edit, Gone
  <2>2. files'[p] \in {files[p], 0, clock + 1} /\ hidden'[p] \in {hidden[p], 0, files[p]}
    BY <1>1, <1>2 DEF Edit
  <2>q. QED
    BY <1>1, <2>1, <2>2 DEF Gone
<1>3. CASE Return(q)
  <2>1. clock' = clock /\ s <= clock /\ s # 0 /\ s # files[p] /\ s # hidden[p]
    BY <1>3 DEF Return, Gone
  <2>2. files'[p] \in {files[p], hidden[p]} /\ hidden'[p] \in {hidden[p], 0}
    BY <1>1, <1>3 DEF Return
  <2>q. QED
    BY <2>1, <2>2 DEF Gone
<1>q. QED
  BY <1>2, <1>3

\* Edits and returns keep the versions in order.
LEMMA OrderKept ==
  ASSUME TypeOK, VersionsInOrder, NEW q \in Paths, Edit(q) \/ Return(q)
  PROVE  VersionsInOrder'
<1>1. /\ files \in [Paths -> Versions] /\ hidden \in [Paths -> Versions] /\ clock \in Int
  BY DEF TypeOK, SourceOK, Content, Versions
<1>2. disk' = disk /\ run' = run /\ lock' = lock
  BY DEF Edit, Return, index
<1>3. clock' \in {clock, clock + 1}
  BY DEF Edit, Return
<1>4. ASSUME NEW p \in Paths
      PROVE  /\ files'[p] <= clock' /\ hidden'[p] <= clock'
             /\ hidden'[p] # 0 => files'[p] = 0
  <2>1. /\ files[p] <= clock /\ hidden[p] <= clock /\ (hidden[p] # 0 => files[p] = 0)
        /\ files[p] \in Int /\ hidden[p] \in Int /\ 0 <= clock
    BY <1>1 DEF VersionsInOrder, Versions, TypeOK, SourceOK
  <2>2. CASE Edit(q)
    BY <1>1, <2>1, <2>2 DEF Edit
  <2>3. CASE Return(q)
    BY <1>1, <2>1, <2>3 DEF Return
  <2>q. QED
    BY <2>2, <2>3
<1>5. ASSUME NEW p \in Paths
      PROVE  /\ disk'.snapshot # None => disk'.snapshot[p] <= clock'
             /\ lock' # None => run'.snap[p] <= clock'
  <2>1. disk.snapshot # None => disk.snapshot[p] \in Int
    BY DEF TypeOK, DiskType, Stamps, Versions, Vanished
  <2>2. lock # None => run.snap[p] \in Int
    BY DEF TypeOK, RunOK, RunType, Stamps, Versions, Vanished
  <2>3. /\ disk.snapshot # None => disk.snapshot[p] <= clock
        /\ lock # None => run.snap[p] <= clock
    BY DEF VersionsInOrder
  <2>q. QED
    BY <1>1, <1>2, <1>3, <2>1, <2>2, <2>3
<1>q. QED
  BY <1>4, <1>5 DEF VersionsInOrder

\* The snapshot on disk, or the empty one, is made of stamps.
LEMMA OldStamps ==
  ASSUME TypeOK PROVE OldSnapshot \in [Paths -> Stamps]
BY EmptyContent DEF OldSnapshot, TypeOK, DiskType

\* What matches goes on matching.
LEMMA MatchesForGood ==
  ASSUME TypeOK, VersionsInOrder,
         \/ UNCHANGED <<files, hidden, clock>>
         \/ \E q \in Paths : Edit(q) \/ Return(q)
  PROVE  \A p \in Paths : \A s \in Stamps : \A c : Matches(s, c, p) => Matches(s, c, p)'
<1>1. CASE UNCHANGED <<files, hidden, clock>>
  BY <1>1 DEF Matches, Gone
<1>2. CASE \E q \in Paths : Edit(q) \/ Return(q)
  BY <1>2, GoneForGood DEF Matches
<1>q. QED
  BY <1>1, <1>2

\* Processes without the lock disturb nothing a run relies on.
LEMMA TrustBystander ==
  ASSUME TrustInv, TypeOK', Bystander PROVE TrustInv'
<1>1. /\ lock' = lock /\ run' = run /\ Phase' = Phase
      /\ disk'.sqlite = disk.sqlite /\ disk'.tantivy = disk.tantivy
      /\ disk'.vectors = disk.vectors
      /\ disk'.snapshot = disk.snapshot /\ disk'.incomplete = disk.incomplete
  BY StandsBy DEF TrustInv
<1>2. \/ UNCHANGED <<files, hidden, clock>>
      \/ \E p \in Paths : Edit(p) \/ Return(p)
  BY StandsBy DEF TrustInv
<1>3. VersionsInOrder'
  BY <1>1, <1>2, OrderKept DEF TrustInv, VersionsInOrder
<1>4. \A p \in Paths : \A s \in Stamps : \A c : Matches(s, c, p) => Matches(s, c, p)'
  BY <1>2, MatchesForGood DEF TrustInv
<1>5. disk.snapshot # None => \A p \in Paths : disk.snapshot[p] \in Stamps
  BY DEF TrustInv, TypeOK, DiskType
<1>6. \A p \in Paths : OldSnapshot[p] \in Stamps
  BY OldStamps DEF TrustInv
<1>7. lock # None => \A p \in Paths : run.snap[p] \in Stamps
  BY DEF TrustInv, TypeOK, RunOK, RunType
<1>8. OldSnapshot' = OldSnapshot
  BY <1>1 DEF OldSnapshot
<1>9. UnmarkedAgrees'
  BY <1>1, <1>4, <1>5 DEF TrustInv, UnmarkedAgrees, Removing, DescribedBy
<1>10. Vouched'
  BY <1>1 DEF TrustInv, Vouched, Removing, RebuildMain, StorageValid, Count
<1>11. Gathered'
  <2>1. Phase \in {"mark", "persist", "commit"} \cup Publishing => lock # None
    BY DEF Phase, Publishing
  <2>q. QED
    BY <1>1, <1>4, <1>7, <2>1 DEF TrustInv, Gathered
<1>12. Marked'
  BY <1>1, <1>4, <1>6, <1>8 DEF TrustInv, Marked, Updating, DescribedBy
<1>q. QED
  BY <1>3, <1>9, <1>10, <1>11, <1>12 DEF TrustInv

\* Steps that leave stores, snapshot and marker leave what they say, too.
LEMMA StillAgrees ==
  ASSUME UnmarkedAgrees, ~Removing, UNCHANGED <<files, hidden, clock>>,
         disk'.sqlite = disk.sqlite, disk'.tantivy = disk.tantivy,
         disk'.snapshot = disk.snapshot, disk'.incomplete = disk.incomplete
  PROVE  UnmarkedAgrees'
BY DEF UnmarkedAgrees, DescribedBy, Matches, Gone

\* Steps of a run that take no new stamps keep the stamps in order.
LEMMA StillInOrder ==
  ASSUME VersionsInOrder, UNCHANGED <<files, hidden, clock>>,
         disk'.snapshot \in {disk.snapshot, None},
         lock' # None => lock # None /\ run'.snap = run.snap
  PROVE  VersionsInOrder'
BY DEF VersionsInOrder

\* Before it looks at the index, and after it is done, a run claims nothing.
LEMMA OutOfPlay ==
  ASSUME Phase' \in {"none", "inspect", "unlock"}, ~Removing'
  PROVE  Vouched' /\ Gathered' /\ Marked'
BY DEF Vouched, Gathered, Marked, Updating, Publishing, Promoting

\* A run, or a removal, takes the lock.
LEMMA TrustBegins ==
  ASSUME TrustInv, TypeOK', NEW i \in Indexers, Acquire(i) \/ AcquireRemove(i)
  PROVE  TrustInv'
<1>1. /\ lock = None /\ lock' = i /\ disk' = disk /\ UNCHANGED <<files, hidden, clock>>
      /\ run'.snap = Empty
  BY DEF Acquire, AcquireRemove, source, NewRun
<1>2. ~Removing
  BY <1>1 DEF Removing
<1>3. UnmarkedAgrees'
  BY <1>1, <1>2, StillAgrees DEF TrustInv
<1>4. VersionsInOrder'
  BY <1>1 DEF VersionsInOrder, TrustInv, Empty, TypeOK, SourceOK
<1>5. CASE Acquire(i)
  <2>1. pc'[i] = "inspect" /\ ~run'.remove
    BY <1>5 DEF Acquire, Goto, TrustInv, TypeOK, LockOK, NewRun
  <2>2. Phase' = "inspect"
    BY <2>1, HolderNext
  <2>q. QED
    BY <1>3, <1>4, <2>1, <2>2, OutOfPlay DEF Removing, TrustInv
<1>6. CASE AcquireRemove(i)
  <2>1. pc'[i] = "wipe" /\ run'.remove
    BY <1>6 DEF AcquireRemove, Goto, TrustInv, TypeOK, LockOK, NewRun
  <2>2. Phase' = "wipe"
    BY <2>1, HolderNext
  <2>3. Vouched' /\ Gathered' /\ Marked'
    BY <2>1, <2>2 DEF Vouched, Gathered, Marked, Updating, Publishing, Promoting
  <2>q. QED
    BY <1>3, <1>4, <2>3 DEF TrustInv
<1>q. QED
  BY <1>5, <1>6

\* A removal killed, or failed, before the directory is empty.
RemovalCutShort ==
    \E i \in Indexers : lock = i /\ run.remove /\ (Crash(i) \/ FailEarly(i))

\* A run ends, or is killed; only a removal must not be cut short.
LEMMA TrustEnds ==
  ASSUME TrustInv, TypeOK', ~RemovalCutShort, NEW i \in Indexers,
         Unlock(i) \/ FailEarly(i) \/ (Crash(i) /\ lock = i)
  PROVE  TrustInv'
<1>1. lock = i /\ Phase = pc[i] /\ pc[i] \notin {"idle", "drop"} /\ disk \in DiskType
  BY Holder, NoneAssumption
  DEF TrustInv, Unlock, FailEarly, Early, Crash, TypeOK, LockOK
<1>2. ~Removing
  BY <1>1 DEF TrustInv, Vouched, Unlock, RemovalCutShort, Removing
<1>3. lock' = None /\ UNCHANGED <<files, hidden, clock>>
  BY DEF Unlock, FailEarly, Crash, source
<1>4. /\ disk'.sqlite = disk.sqlite /\ disk'.tantivy = disk.tantivy
      /\ disk'.snapshot = disk.snapshot /\ disk'.incomplete = disk.incomplete
  BY <1>1 DEF Unlock, FailEarly, Crash, DiskType
<1>5. Phase' = "none" /\ ~Removing'
  BY <1>3 DEF Phase, Removing
<1>6. UnmarkedAgrees'
  BY <1>2, <1>3, <1>4, StillAgrees DEF TrustInv
<1>7. VersionsInOrder'
  BY <1>3, <1>4, StillInOrder DEF TrustInv
<1>q. QED
  BY <1>5, <1>6, <1>7, OutOfPlay DEF TrustInv

\* Inspect believes in stores that look healthy, has broken ones wiped when no
\* marker explains them, and rebuilds behind a marker.
LEMMA TrustInspect ==
  ASSUME TrustInv, TypeOK', NEW i \in Indexers, Inspect(i) PROVE TrustInv'
<1>1. lock = i /\ lock # None /\ Phase = "inspect" /\ run \in RunType /\ disk \in DiskType
  BY Holder DEF TrustInv, Inspect
<1>2. /\ disk'.sqlite = disk.sqlite /\ disk'.tantivy = disk.tantivy
      /\ disk'.snapshot = disk.snapshot /\ disk'.incomplete = disk.incomplete
  BY <1>1 DEF Inspect, DiskType
<1>3. /\ lock' = lock /\ UNCHANGED <<files, hidden, clock>>
      /\ run'.snap = run.snap /\ run'.remove = run.remove
  BY <1>1 DEF Inspect, RunType, source
<1>4. (run'.healthy <=> Queryable) /\ (run'.rebuild <=> disk.incomplete # None)
  <2> DEFINE h == Queryable
             r == disk.incomplete # None
             m == disk.meta
  <2>1. run' = [run EXCEPT !.kept = m, !.rebuild = r, !.healthy = h]
    BY DEF Inspect
  <2> HIDE DEF h, r, m
  <2>2. run'.healthy = h /\ run'.rebuild = r
    BY <1>1, <2>1 DEF RunType
  <2>q. QED
    BY <2>2 DEF h, r
<1>5. ~Removing /\ ~Removing'
  BY <1>1, <1>3 DEF TrustInv, Vouched, Removing
<1>6. UnmarkedAgrees' /\ VersionsInOrder'
  BY <1>1, <1>2, <1>3, <1>5, StillAgrees, StillInOrder DEF TrustInv
<1>7. CASE NeedsRebuild /\ disk.incomplete = None
  <2>1. pc'[i] = "wipe"
    BY <1>7 DEF Inspect, Goto, TrustInv, TypeOK, LockOK
  <2>2. Phase' = "wipe"
    BY <2>1, HolderNext
  <2>q. QED
    BY <1>2, <1>5, <1>6, <1>7, <2>2
    DEF TrustInv, Vouched, Gathered, Marked, Updating, Publishing, Promoting
<1>8. CASE ~(NeedsRebuild /\ disk.incomplete = None)
  <2>1. pc'[i] = "identify"
    BY <1>8 DEF Inspect, Goto, TrustInv, TypeOK, LockOK
  <2>2. Phase' = "identify"
    BY <2>1, HolderNext
  <2>3. Queryable \/ disk.incomplete # None \/ disk.sqlite = None
    BY <1>8 DEF NeedsRebuild, Queryable, HasArtifacts
  <2>q. QED
    BY <1>2, <1>4, <1>5, <1>6, <2>2, <2>3
    DEF TrustInv, Vouched, Gathered, Marked, Updating, Publishing, Promoting
<1>q. QED
  BY <1>7, <1>8

\* Wiping takes the marker away only during a removal; what it leaves behind
\* of unmarked stores still agrees.
LEMMA TrustWipe ==
  ASSUME TrustInv, TypeOK', NEW i \in Indexers, Wipe(i) PROVE TrustInv'
<1>1. lock = i /\ lock # None /\ Phase = "wipe" /\ run \in RunType /\ disk \in DiskType
  BY Holder DEF TrustInv, Wipe
<1>2. lock' = lock /\ run' = run /\ pc' = pc /\ UNCHANGED <<files, hidden, clock>>
  BY DEF Wipe, source
<1>3. Phase' = "wipe" /\ (Removing' <=> Removing)
  BY <1>1, <1>2 DEF Phase, Removing
<1>4. PICK a \in DOMAIN disk :
         disk' = [disk EXCEPT ![a] = IF a = "tantivy" /\ @ # Damaged THEN Damaged ELSE None]
  BY DEF Wipe
<1>5. /\ disk'.sqlite \in {disk.sqlite, None} /\ disk'.snapshot \in {disk.snapshot, None}
      /\ disk'.tantivy \in {disk.tantivy, None, Damaged}
      /\ disk'.incomplete \in {disk.incomplete, None}
  BY <1>1, <1>4 DEF DiskType
<1>6. VersionsInOrder'
  BY <1>1, <1>2, <1>5, StillInOrder DEF TrustInv
<1>7. UnmarkedAgrees'
  <2>1. Removing \/ disk.incomplete = None
    BY <1>1 DEF TrustInv, Vouched, Removing
  <2>q. QED
    BY <1>2, <1>3, <1>5, <2>1 DEF TrustInv, UnmarkedAgrees, DescribedBy, Matches, Gone
<1>8. Vouched'
  BY <1>1, <1>2, <1>3, <1>5 DEF TrustInv, Vouched
<1>9. Gathered' /\ Marked'
  BY <1>3 DEF Gathered, Marked, Updating, Publishing, Promoting
<1>q. QED
  BY <1>6, <1>7, <1>8, <1>9 DEF TrustInv

\* An emptied directory has no store to trust.
LEMMA TrustWipeDone ==
  ASSUME TrustInv, TypeOK', NEW i \in Indexers, WipeDone(i) PROVE TrustInv'
<1>1. lock = i /\ lock # None /\ Phase = "wipe" /\ run \in RunType /\ disk \in DiskType
  BY Holder DEF TrustInv, WipeDone
<1>2. disk.sqlite = None /\ disk.snapshot = None
  BY <1>1 DEF WipeDone, DiskType
<1>3. UNCHANGED <<files, hidden, clock>>
  BY DEF WipeDone, source
<1>4. disk'.sqlite = None /\ disk'.snapshot = None
  BY <1>1, <1>2 DEF WipeDone, DiskType
<1>5. UnmarkedAgrees'
  BY <1>4 DEF UnmarkedAgrees
<1>6. lock' # None => lock # None /\ run'.snap = run.snap
  BY <1>1 DEF WipeDone
<1>7. VersionsInOrder'
  BY <1>3, <1>4, <1>6, StillInOrder DEF TrustInv
<1>8. CASE run.remove
  <2>1. Phase' = "none" /\ ~Removing'
    BY <1>8 DEF WipeDone, Phase, Removing
  <2>q. QED
    BY <1>5, <1>7, <2>1, OutOfPlay DEF TrustInv
<1>9. CASE ~run.remove
  <2>1. pc'[i] = "identify" /\ run' = run
    BY <1>9 DEF WipeDone, Goto, TrustInv, TypeOK, LockOK
  <2>2. Phase' = "identify" /\ ~Removing'
    BY <1>9, <2>1, HolderNext DEF Removing
  <2>3. Vouched' /\ Gathered' /\ Marked'
    BY <1>4, <2>2 DEF Vouched, Gathered, Marked, Updating, Publishing, Promoting
  <2>q. QED
    BY <1>5, <1>7, <2>3 DEF TrustInv
<1>q. QED
  BY <1>8, <1>9

\* Identify opens and counts the stores a healthy verdict vouched for.
LEMMA TrustIdentify ==
  ASSUME TrustInv, TypeOK', NEW i \in Indexers, Identify(i) PROVE TrustInv'
<1>1. lock = i /\ lock # None /\ Phase = "identify" /\ run \in RunType /\ disk \in DiskType
  BY Holder DEF TrustInv, Identify
<1>2. /\ disk'.sqlite = disk.sqlite /\ disk'.tantivy = disk.tantivy
      /\ disk'.snapshot = disk.snapshot /\ disk'.incomplete = disk.incomplete
      /\ disk'.vectors = disk.vectors
  BY <1>1 DEF Identify, DiskType
<1>3. /\ lock' = lock /\ UNCHANGED <<files, hidden, clock>>
      /\ run'.snap = run.snap /\ run'.remove = run.remove
  BY <1>1 DEF Identify, RunType, source
<1>4. run'.rebuild <=> run.rebuild \/ (run.healthy /\ ~StorageValid)
  <2> DEFINE r == run.rebuild \/ (run.healthy /\ ~StorageValid)
  <2>1. run' = [run EXCEPT !.rebuild = r, !.kept = None]
    BY DEF Identify
  <2> HIDE DEF r
  <2>2. run'.rebuild = r
    BY <1>1, <2>1 DEF RunType
  <2>q. QED
    BY <2>2 DEF r
<1>5. ~Removing /\ ~Removing'
  BY <1>1, <1>3 DEF TrustInv, Vouched, Removing
<1>6. UnmarkedAgrees' /\ VersionsInOrder'
  BY <1>1, <1>2, <1>3, <1>5, StillAgrees, StillInOrder DEF TrustInv
<1>7. Phase' = "announce"
  <2>1. pc'[i] = "announce"
    BY DEF Identify, Goto, TrustInv, TypeOK, LockOK
  <2>q. QED
    BY <2>1, HolderNext
<1>8. StorageValid' <=> StorageValid
  BY <1>2 DEF StorageValid, Count
<1>9. run.rebuild \/ run.healthy \/ disk.sqlite = None
  BY <1>1 DEF TrustInv, Vouched
<1>10. Vouched'
  BY <1>2, <1>4, <1>5, <1>7, <1>8, <1>9 DEF Vouched, RebuildMain
<1>11. Gathered' /\ Marked'
  BY <1>7 DEF Gathered, Marked, Updating, Publishing, Promoting
<1>q. QED
  BY <1>6, <1>10, <1>11 DEF TrustInv

\* Announce only writes the pid file.
LEMMA TrustAnnounce ==
  ASSUME TrustInv, TypeOK', NEW i \in Indexers, Announce(i) PROVE TrustInv'
<1>1. lock = i /\ lock # None /\ Phase = "announce" /\ run \in RunType /\ disk \in DiskType
  BY Holder DEF TrustInv, Announce
<1>2. /\ disk'.sqlite = disk.sqlite /\ disk'.tantivy = disk.tantivy
      /\ disk'.snapshot = disk.snapshot /\ disk'.incomplete = disk.incomplete
      /\ disk'.vectors = disk.vectors
  BY <1>1 DEF Announce, DiskType
<1>3. lock' = lock /\ UNCHANGED <<files, hidden, clock>> /\ run' = run
  BY <1>1 DEF Announce, source
<1>4. ~Removing /\ ~Removing'
  BY <1>1, <1>3 DEF TrustInv, Vouched, Removing
<1>5. UnmarkedAgrees' /\ VersionsInOrder'
  BY <1>1, <1>2, <1>3, <1>4, StillAgrees, StillInOrder DEF TrustInv
<1>6. Phase' = "scan"
  <2>1. pc'[i] = "scan"
    BY DEF Announce, Goto, TrustInv, TypeOK, LockOK
  <2>q. QED
    BY <2>1, HolderNext
<1>7. Vouched'
  BY <1>1, <1>2, <1>3, <1>4, <1>6
  DEF TrustInv, Vouched, RebuildMain, StorageValid, Count
<1>8. Gathered' /\ Marked'
  BY <1>6 DEF Gathered, Marked, Updating, Publishing, Promoting
<1>q. QED
  BY <1>5, <1>7, <1>8 DEF TrustInv

\* A store without chunks holds no path.
LEMMA NoChunks ==
  ASSUME NEW c \in Content, ~(Count(c) > 0) PROVE \A p \in Paths : c[p] = 0
<1> DEFINE S == {p \in Paths : c[p] # 0}
<1>1. IsFiniteSet(S)
  BY FS_Subset, BoundsAssumption
<1>2. Cardinality(S) \in Nat
  BY <1>1, FS_CardinalityType
<1>3. Cardinality(S) = 0
  BY <1>2 DEF Count
<1>4. S = {}
  BY <1>1, <1>3, FS_EmptySet
<1>q. QED
  BY <1>4

\* Stores that look healthy, bear no marker and have equal counts are one
\* content, and the snapshot describes it.
LEMMA Usable ==
  ASSUME TypeOK, UnmarkedAgrees, ~Removing, Queryable, disk.incomplete = None, StorageValid
  PROVE  /\ disk.sqlite \in Content /\ disk.sqlite # None
         /\ disk.tantivy = disk.sqlite /\ disk.vectors # None
         /\ DescribedBy(OldSnapshot)
<1>1. /\ disk.sqlite # None /\ disk.tantivy = disk.sqlite /\ disk.vectors # None
  BY DEF StorageValid, UnmarkedAgrees
<1>2. disk.sqlite \in Content
  BY <1>1 DEF TypeOK, DiskType
<1>3. CASE disk.snapshot # None
  <2>1. OldSnapshot = disk.snapshot
    BY <1>3 DEF OldSnapshot
  <2>q. QED
    BY <1>1, <1>2, <1>3, <2>1 DEF UnmarkedAgrees
<1>4. CASE disk.snapshot = None
  <2>1. ~(Count(disk.sqlite) > 0)
    BY <1>4 DEF Queryable, Healthy
  <2>2. \A p \in Paths : disk.sqlite[p] = 0
    BY <1>2, <2>1, NoChunks
  <2>3. \A p \in Paths : OldSnapshot[p] = 0
    BY <1>4 DEF OldSnapshot, Empty
  <2>q. QED
    BY <1>1, <1>2, <2>2, <2>3 DEF DescribedBy, Matches
<1>q. QED
  BY <1>1, <1>2, <1>3, <1>4

\* A scan that takes the stores as they are finds them sound.
LEMMA ScanFindsUsable ==
  ASSUME TrustInv, Phase = "scan", ~RebuildMain, Queryable
  PROVE  /\ ~Removing /\ disk.incomplete = None
         /\ disk.sqlite \in Content /\ disk.sqlite # None
         /\ disk.tantivy = disk.sqlite /\ disk.vectors # None
         /\ DescribedBy(OldSnapshot)
<1>1. ~Removing
  BY DEF TrustInv, Vouched
<1>2. StorageValid /\ disk.incomplete = None
  BY DEF TrustInv, Vouched, RebuildMain, Queryable, Healthy
<1>q. QED
  BY <1>1, <1>2, Usable DEF TrustInv

\* The two shortcuts end well on stores that are sound already.
LEMMA TrustShortcut ==
  ASSUME TrustInv, TypeOK', NEW i \in Indexers, TrustWatcher(i) \/ ScanNoOp(i)
  PROVE  TrustInv'
<1>1. lock = i /\ lock # None /\ Phase = "scan" /\ run \in RunType /\ disk \in DiskType
  BY Holder DEF TrustInv, TrustWatcher, ScanNoOp
<1>2. /\ ~Removing /\ disk.incomplete = None /\ disk.sqlite # None
      /\ disk.tantivy = disk.sqlite /\ disk.vectors # None
      /\ DescribedBy(OldSnapshot)
  BY <1>1, ScanFindsUsable DEF TrustWatcher, ScanNoOp
<1>3. disk' = disk /\ lock' = lock /\ UNCHANGED <<files, hidden, clock>>
  BY DEF TrustWatcher, ScanNoOp, source
<1>4. run'.remove = run.remove /\ run'.snap = run.snap
  BY <1>1 DEF TrustWatcher, ScanNoOp, RunType
<1>5. Phase' = "settle"
  <2>1. pc'[i] = "settle"
    BY DEF TrustWatcher, ScanNoOp, Goto, TrustInv, TypeOK, LockOK
  <2>q. QED
    BY <2>1, HolderNext
<1>6. ~Removing'
  BY <1>2, <1>3, <1>4 DEF Removing
<1>7. UnmarkedAgrees' /\ VersionsInOrder'
  BY <1>1, <1>2, <1>3, <1>4, StillAgrees, StillInOrder DEF TrustInv
<1>8. DescribedBy(OldSnapshot)'
  BY <1>2, <1>3 DEF DescribedBy, OldSnapshot, Matches, Gone
<1>9. Marked'
  BY <1>2, <1>3, <1>5, <1>8 DEF Marked, Updating, Publishing, Promoting
<1>10. Vouched' /\ Gathered'
  BY <1>5, <1>6 DEF Vouched, Gathered, Publishing
<1>q. QED
  BY <1>7, <1>9, <1>10 DEF TrustInv

\* What a scan compares the tree with has stamps no later than the clock.
LEMMA NewStampsInOrder ==
  ASSUME TypeOK, VersionsInOrder, lock # None
  PROVE  NewSnapshot \in [Paths -> Stamps] /\ \A p \in Paths : NewSnapshot[p] <= clock
<1>1. files \in [Paths -> Stamps] /\ OldSnapshot \in [Paths -> Stamps]
  BY EmptyContent, OldStamps DEF TypeOK, SourceOK
<1>2. \A p \in Paths : files[p] <= clock
  BY DEF VersionsInOrder
<1>3. \A p \in Paths : OldSnapshot[p] <= clock
  BY DEF VersionsInOrder, OldSnapshot, Empty, TypeOK, SourceOK
<1>q. QED
  BY <1>1, <1>2, <1>3 DEF NewSnapshot

\* An incremental update starts from the stores and lists what differs; what
\* does not differ is described already.
LEMMA TrustScanIncremental ==
  ASSUME TrustInv, TypeOK', NEW i \in Indexers, ScanIncremental(i) PROVE TrustInv'
<1>1. lock = i /\ lock # None /\ Phase = "scan" /\ run \in RunType /\ disk \in DiskType
  BY Holder DEF TrustInv, ScanIncremental
<1>2. /\ ~Removing /\ disk.incomplete = None /\ disk.sqlite # None
      /\ disk.tantivy = disk.sqlite /\ disk.vectors # None
      /\ DescribedBy(OldSnapshot)
  BY <1>1, ScanFindsUsable DEF ScanIncremental
<1>3. disk' = disk /\ lock' = lock /\ UNCHANGED <<files, hidden, clock>>
  BY DEF ScanIncremental, source
<1>4. /\ run'.remove = run.remove /\ run'.fresh = FALSE /\ run'.snap = NewSnapshot
      /\ Diff(OldSnapshot, NewSnapshot) \subseteq run'.todo /\ run'.sq = disk.sqlite
  <2>0. PICK d \in SUBSET MayDepend :
           run' = [run EXCEPT !.fresh = FALSE, !.snap = NewSnapshot,
                              !.todo = Diff(OldSnapshot, NewSnapshot) \cup d,
                              !.sq = disk.sqlite]
    BY DEF ScanIncremental
  <2> DEFINE n == NewSnapshot
             t == Diff(OldSnapshot, NewSnapshot) \cup d
             c == disk.sqlite
  <2>1. run' = [run EXCEPT !.fresh = FALSE, !.snap = n, !.todo = t, !.sq = c]
    BY <2>0
  <2> HIDE DEF n, t, c
  <2>2. /\ run'.remove = run.remove /\ run'.fresh = FALSE /\ run'.snap = n
        /\ run'.todo = t /\ run'.sq = c
    BY <1>1, <2>1 DEF RunType
  <2>q. QED
    BY <2>2 DEF n, t, c
<1>5. Phase' = "mark"
  <2>1. pc'[i] = "mark"
    BY DEF ScanIncremental, Goto, TrustInv, TypeOK, LockOK
  <2>q. QED
    BY <2>1, HolderNext
<1>6. ~Removing'
  BY <1>2, <1>3, <1>4 DEF Removing
<1>7. UnmarkedAgrees'
  BY <1>2, <1>3, StillAgrees DEF TrustInv
<1>8. VersionsInOrder'
  BY <1>1, <1>3, <1>4, NewStampsInOrder DEF TrustInv, VersionsInOrder
<1>9. \A p \in Paths \ run'.todo : Matches(run.snap[p], run.sq[p], p)'
  <2> SUFFICES ASSUME NEW p \in Paths \ run'.todo
               PROVE  Matches(run.snap[p], run.sq[p], p)'
    OBVIOUS
  <2>1. NewSnapshot[p] = OldSnapshot[p]
    BY <1>4 DEF Diff
  <2>2. Matches(OldSnapshot[p], disk.sqlite[p], p)
    BY <1>2 DEF DescribedBy
  <2>q. QED
    BY <1>3, <1>4, <2>1, <2>2 DEF Matches, Gone
<1>10. Gathered'
  BY <1>5, <1>9 DEF Gathered, Publishing
<1>11. Marked' /\ Vouched'
  BY <1>2, <1>3, <1>4, <1>5, <1>6 DEF Marked, Vouched, Updating, Publishing, Promoting
<1>q. QED
  BY <1>7, <1>8, <1>10, <1>11 DEF TrustInv

\* A rebuild starts from nothing and lists every file there is.
LEMMA TrustScanFresh ==
  ASSUME TrustInv, TypeOK', NEW i \in Indexers, ScanFresh(i) PROVE TrustInv'
<1>1. lock = i /\ lock # None /\ Phase = "scan" /\ run \in RunType /\ disk \in DiskType
  BY Holder DEF TrustInv, ScanFresh
<1>2. /\ disk'.sqlite = disk.sqlite /\ disk'.tantivy = disk.tantivy
      /\ disk'.snapshot = disk.snapshot /\ disk'.incomplete = disk.incomplete
      /\ disk'.vectors = disk.vectors
  BY <1>1 DEF ScanFresh, DiskType
<1>3. lock' = lock /\ UNCHANGED <<files, hidden, clock>>
  BY DEF ScanFresh, source
<1>4. /\ run'.remove = run.remove /\ run'.fresh = TRUE /\ run'.snap = files
      /\ run'.todo = {p \in Paths : files[p] # 0} /\ run'.sq = Empty
      /\ run'.rebuild = run.rebuild
  <2> DEFINE t == {p \in Paths : files[p] # 0}
             c == Empty
  <2>1. run' = [run EXCEPT !.fresh = TRUE, !.snap = files, !.sq = c, !.todo = t]
    BY DEF ScanFresh
  <2> HIDE DEF t, c
  <2>2. /\ run'.remove = run.remove /\ run'.fresh = TRUE /\ run'.snap = files
        /\ run'.todo = t /\ run'.sq = c /\ run'.rebuild = run.rebuild
    BY <1>1, <2>1 DEF RunType
  <2>q. QED
    BY <2>2 DEF t, c
<1>5. Phase' = "persist"
  <2>1. pc'[i] = "persist"
    BY DEF ScanFresh, Goto, TrustInv, TypeOK, LockOK
  <2>q. QED
    BY <2>1, HolderNext
<1>6. ~Removing /\ ~Removing'
  BY <1>1, <1>3, <1>4 DEF TrustInv, Vouched, Removing
<1>7. UnmarkedAgrees'
  BY <1>2, <1>3, <1>6, StillAgrees DEF TrustInv
<1>8. VersionsInOrder'
  BY <1>2, <1>3, <1>4 DEF TrustInv, VersionsInOrder
<1>9. Vouched'
  BY <1>1, <1>2, <1>3, <1>4, <1>5, <1>6
  DEF TrustInv, Vouched, RebuildMain, StorageValid, Count
<1>10. Gathered' /\ Marked'
  BY <1>4, <1>5 DEF Gathered, Marked, Updating, Publishing, Promoting, Matches, Empty
<1>q. QED
  BY <1>7, <1>8, <1>9, <1>10 DEF TrustInv

\* The marker goes down before the first store changes.
LEMMA TrustMarkIncremental ==
  ASSUME TrustInv, TypeOK', NEW i \in Indexers, MarkIncremental(i) PROVE TrustInv'
<1>1. lock = i /\ lock # None /\ Phase = "mark" /\ run \in RunType /\ disk \in DiskType
  BY Holder DEF TrustInv, MarkIncremental
<1>2. /\ disk'.snapshot = disk.snapshot /\ disk'.incomplete # None
      /\ disk'.vectors = disk.vectors
  BY <1>1, AbsenceAssumption DEF MarkIncremental, DiskType
<1>3. lock' = lock /\ UNCHANGED <<files, hidden, clock>> /\ run' = run
  BY DEF MarkIncremental, source
<1>4. Phase' = "persist"
  <2>1. pc'[i] = "persist"
    BY DEF MarkIncremental, Goto, TrustInv, TypeOK, LockOK
  <2>q. QED
    BY <2>1, HolderNext
<1>5. ~Removing /\ ~Removing'
  BY <1>1, <1>3 DEF TrustInv, Vouched, Removing
<1>6. UnmarkedAgrees' /\ VersionsInOrder'
  BY <1>1, <1>2, <1>3, StillInOrder DEF TrustInv, UnmarkedAgrees
<1>7. Gathered'
  BY <1>1, <1>3, <1>4 DEF TrustInv, Gathered, Publishing, Matches, Gone
<1>8. Marked' /\ Vouched'
  BY <1>1, <1>2, <1>3, <1>4, <1>5
  DEF TrustInv, Marked, Vouched, Updating, Publishing, Promoting
<1>q. QED
  BY <1>6, <1>7, <1>8 DEF TrustInv

\* A path read after the scan is stored as it is by then; if it is not what
\* the scan stamped, the stamp is gone for good.
LEMMA TrustPersistPath ==
  ASSUME TrustInv, TypeOK', NEW i \in Indexers, PersistPath(i) PROVE TrustInv'
<1>1. lock = i /\ lock # None /\ Phase = "persist" /\ run \in RunType /\ disk \in DiskType
  BY Holder DEF TrustInv, PersistPath
<1>2. /\ disk' = disk /\ lock' = lock /\ pc' = pc /\ UNCHANGED <<files, hidden, clock>>
  BY DEF PersistPath, source
<1>3. Phase' = "persist"
  BY <1>1, <1>2 DEF Phase
<1>4. PICK q \in run.todo :
        LET seen == IF run.snap[q] = 0 THEN 0 ELSE files[q]
        IN run' = [run EXCEPT !.todo = @ \ {q}, !.sq[q] = seen,
                              !.snap[q] = IF @ # 0 /\ seen = 0 THEN Vanished ELSE @]
  BY DEF PersistPath
<1> DEFINE seen  == IF run.snap[q] = 0 THEN 0 ELSE files[q]
           stamp == IF run.snap[q] # 0 /\ seen = 0 THEN Vanished ELSE run.snap[q]
<1>5. q \in Paths /\ run.snap \in [Paths -> Stamps] /\ run.sq \in Content
  BY <1>1 DEF RunType
<1>6. /\ run'.todo = run.todo \ {q} /\ run'.remove = run.remove /\ run'.fresh = run.fresh
      /\ run'.rebuild = run.rebuild
      /\ run'.sq = [run.sq EXCEPT ![q] = seen]
      /\ run'.snap = [run.snap EXCEPT ![q] = stamp]
  <2>1. run' = [run EXCEPT !.todo = run.todo \ {q}, !.sq = [run.sq EXCEPT ![q] = seen],
                           !.snap = [run.snap EXCEPT ![q] = stamp]]
    BY <1>1, <1>4, <1>5 DEF RunType
  <2> DEFINE t == run.todo \ {q}
             c == [run.sq EXCEPT ![q] = seen]
             n == [run.snap EXCEPT ![q] = stamp]
  <2>2. run' = [run EXCEPT !.todo = t, !.sq = c, !.snap = n]
    BY <2>1
  <2> HIDE DEF t, c, n
  <2>3. /\ run'.todo = t /\ run'.remove = run.remove /\ run'.fresh = run.fresh
        /\ run'.rebuild = run.rebuild /\ run'.sq = c /\ run'.snap = n
    BY <1>1, <2>2 DEF RunType
  <2>q. QED
    BY <2>3 DEF t, c, n
<1>7. /\ files[q] \in Versions /\ files[q] <= clock /\ hidden[q] \in Versions
      /\ (hidden[q] # 0 => files[q] = 0) /\ run.snap[q] <= clock /\ clock \in 1 .. MaxVersion
      /\ run.snap[q] \in Int
  BY <1>1, <1>5
  DEF TrustInv, VersionsInOrder, TypeOK, SourceOK, Content, Stamps, Versions, Vanished
<1>8. Matches(stamp, seen, q)
  <2>1. CASE run.snap[q] = 0
    BY <2>1 DEF Matches
  <2>2. CASE run.snap[q] # 0 /\ files[q] = 0
    BY <1>7, <2>2 DEF Matches, Gone, Vanished, Versions
  <2>3. CASE run.snap[q] # 0 /\ files[q] # 0
    BY <1>7, <2>3 DEF Matches, Gone
  <2>q. QED
    BY <2>1, <2>2, <2>3
<1>9. stamp <= clock
  BY <1>7 DEF Vanished
<1> HIDE DEF stamp, seen
<1>10. VersionsInOrder'
  BY <1>1, <1>2, <1>5, <1>6, <1>9 DEF TrustInv, VersionsInOrder
<1>11. \A p \in Paths \ run.todo : Matches(run.snap[p], run.sq[p], p)
  BY <1>1 DEF TrustInv, Gathered
<1>12. \A p \in Paths \ run'.todo : Matches(run.snap[p], run.sq[p], p)'
  <2> SUFFICES ASSUME NEW p \in Paths \ run'.todo
               PROVE  Matches(run.snap[p], run.sq[p], p)'
    OBVIOUS
  <2>1. CASE p = q
    BY <1>2, <1>5, <1>6, <1>8, <2>1 DEF Content, Matches, Gone
  <2>2. CASE p # q
    BY <1>2, <1>5, <1>6, <1>11, <2>2 DEF Content, Matches, Gone
  <2>q. QED
    BY <2>1, <2>2
<1>13. Gathered'
  BY <1>3, <1>12 DEF Gathered, Publishing
<1>14. ~Removing /\ ~Removing'
  BY <1>1, <1>2, <1>6 DEF TrustInv, Vouched, Removing
<1>15. UnmarkedAgrees'
  BY <1>2, <1>14, StillAgrees DEF TrustInv
<1>16. Vouched' /\ Marked'
  BY <1>1, <1>2, <1>3, <1>6, <1>14
  DEF TrustInv, Vouched, Marked, RebuildMain, StorageValid, Count, Updating, Publishing,
      Promoting
<1>q. QED
  BY <1>10, <1>13, <1>15, <1>16 DEF TrustInv

\* The live stores change behind the marker.
LEMMA TrustCommit ==
  ASSUME TrustInv, TypeOK', NEW i \in Indexers, CommitSqlite(i) \/ CommitTantivy(i)
  PROVE  TrustInv'
<1>1. /\ lock = i /\ lock # None /\ Phase = pc[i] /\ run \in RunType /\ disk \in DiskType
      /\ pc[i] \in {"persist", "commit"}
  BY Holder DEF TrustInv, CommitSqlite, CommitTantivy
<1>2. /\ lock' = lock /\ run' = run /\ UNCHANGED <<files, hidden, clock>>
  BY DEF CommitSqlite, CommitTantivy, source
<1>3. Updating
  BY <1>1 DEF CommitSqlite, CommitTantivy, Updating
<1>4. disk.incomplete # None /\ disk.vectors # None
  BY <1>3 DEF TrustInv, Marked
<1>5. /\ disk'.incomplete = disk.incomplete /\ disk'.vectors = disk.vectors
      /\ disk'.snapshot = disk.snapshot
  BY <1>1 DEF CommitSqlite, CommitTantivy, DiskType
<1>6. ~Removing /\ ~Removing'
  BY <1>1, <1>2 DEF TrustInv, Vouched, Removing
<1>7. UnmarkedAgrees' /\ VersionsInOrder'
  BY <1>1, <1>2, <1>4, <1>5, StillInOrder DEF TrustInv, UnmarkedAgrees
<1>8. \A p \in Paths \ run'.todo : Matches(run.snap[p], run.sq[p], p)'
  BY <1>1, <1>2 DEF TrustInv, Gathered, Matches, Gone
<1>9. CASE CommitSqlite(i)
  <2>1. pc'[i] = "commit" /\ disk'.sqlite = run.sq
    BY <1>1, <1>9 DEF CommitSqlite, Goto, TrustInv, TypeOK, LockOK, DiskType
  <2>2. Phase' = "commit"
    BY <2>1, HolderNext
  <2>3. Gathered' /\ Vouched'
    BY <1>6, <1>8, <2>2 DEF Gathered, Vouched, Publishing
  <2>4. Marked'
    BY <1>2, <1>4, <1>5, <2>1, <2>2 DEF Marked, Updating, Publishing, Promoting
  <2>q. QED
    BY <1>7, <2>3, <2>4 DEF TrustInv
<1>10. CASE CommitTantivy(i) /\ run.todo # {}
  <2>1. pc'[i] = "persist"
    BY <1>10 DEF CommitTantivy, Goto, TrustInv, TypeOK, LockOK
  <2>2. Phase' = "persist"
    BY <2>1, HolderNext
  <2>3. RebuildMain'
    BY <1>4, <1>5 DEF RebuildMain
  <2>4. Gathered' /\ Vouched'
    BY <1>6, <1>8, <2>2, <2>3 DEF Gathered, Vouched, Publishing
  <2>5. Marked'
    BY <1>2, <1>4, <1>5, <2>1, <2>2 DEF Marked, Updating, Publishing, Promoting
  <2>q. QED
    BY <1>7, <2>4, <2>5 DEF TrustInv
<1>11. CASE CommitTantivy(i) /\ run.todo = {}
  <2>1. pc'[i] = "metadata"
    BY <1>11 DEF CommitTantivy, Goto, TrustInv, TypeOK, LockOK
  <2>2. disk'.sqlite = run.sq /\ disk'.tantivy = run.sq
    BY <1>1, <1>11 DEF CommitTantivy, DiskType, TrustInv, Marked
  <2>3. Phase' = "metadata"
    BY <2>1, HolderNext
  <2>4. Gathered' /\ Vouched'
    BY <1>2, <1>6, <1>8, <1>11, <2>3 DEF Gathered, Vouched, Publishing
  <2>5. Marked'
    BY <1>2, <1>4, <1>5, <2>2, <2>3 DEF Marked, Updating, Publishing, Promoting
  <2>q. QED
    BY <1>7, <2>4, <2>5 DEF TrustInv
<1>q. QED
  BY <1>9, <1>10, <1>11

\* The marker goes down before the first live store moves.
LEMMA TrustMarkPromotion ==
  ASSUME TrustInv, TypeOK', NEW i \in Indexers, MarkPromotion(i) PROVE TrustInv'
<1>1. lock = i /\ lock # None /\ Phase = "persist" /\ run \in RunType /\ disk \in DiskType
  BY Holder DEF TrustInv, MarkPromotion
<1>2. disk'.snapshot = disk.snapshot /\ disk'.incomplete # None
  BY <1>1, AbsenceAssumption DEF MarkPromotion, DiskType
<1>3. lock' = lock /\ UNCHANGED <<files, hidden, clock>>
  BY DEF MarkPromotion, source
<1>4. /\ run'.snap = run.snap /\ run'.sq = run.sq /\ run'.todo = {}
      /\ run'.remove = run.remove /\ run.todo = {}
  <2> DEFINE b == LiveStores
  <2>1. run' = [run EXCEPT !.before = b, !.step = 1] /\ run.todo = {}
    BY DEF MarkPromotion
  <2> HIDE DEF b
  <2>q. QED
    BY <1>1, <2>1 DEF RunType
<1>5. Phase' = "backup"
  <2>1. pc'[i] = "backup"
    BY DEF MarkPromotion, Goto, TrustInv, TypeOK, LockOK
  <2>q. QED
    BY <2>1, HolderNext
<1>6. ~Removing /\ ~Removing'
  BY <1>1, <1>3, <1>4 DEF TrustInv, Vouched, Removing
<1>7. UnmarkedAgrees' /\ VersionsInOrder'
  BY <1>1, <1>2, <1>3, <1>4, StillInOrder DEF TrustInv, UnmarkedAgrees
<1>8. Gathered'
  BY <1>1, <1>3, <1>4, <1>5 DEF TrustInv, Gathered, Publishing, Matches, Gone
<1>9. Marked' /\ Vouched'
  BY <1>2, <1>5, <1>6 DEF Marked, Vouched, Updating, Publishing, Promoting
<1>q. QED
  BY <1>7, <1>8, <1>9 DEF TrustInv

\* What a step of a promotion or of its rollback leaves alone.
LEMMA PromotionStays ==
  ASSUME TrustInv, NEW i \in Indexers,
         \/ Backup(i) \/ Promote(i) \/ BackupFails(i) \/ PromoteFails(i)
         \/ Unpromote(i) \/ Restore(i) \/ RollbackFails(i)
  PROVE  /\ lock = i /\ lock # None /\ Phase = pc[i] /\ pc[i] \in Promoting
         /\ run \in RunType /\ disk \in DiskType
         /\ lock' = lock /\ UNCHANGED <<files, hidden, clock>>
         /\ run'.snap = run.snap /\ run'.sq = run.sq /\ run'.todo = run.todo
         /\ run'.remove = run.remove
         /\ disk'.snapshot = disk.snapshot /\ disk'.incomplete = disk.incomplete
         /\ disk'.incomplete # None
<1>1. pc[i] \in Promoting
  BY DEF Backup, Promote, BackupFails, PromoteFails, Unpromote, Restore, RollbackFails,
     Promoting
<1>2. lock = i /\ lock # None /\ Phase = pc[i] /\ run \in RunType /\ disk \in DiskType
  BY <1>1, Holder DEF TrustInv, Promoting
<1>3. lock' = lock /\ UNCHANGED <<files, hidden, clock>>
  BY DEF Backup, Promote, BackupFails, PromoteFails, Unpromote, Restore, RollbackFails,
     source
<1>4. /\ run'.snap = run.snap /\ run'.sq = run.sq /\ run'.todo = run.todo
      /\ run'.remove = run.remove
  BY <1>2
  DEF Backup, Promote, BackupFails, PromoteFails, Unpromote, Restore, RollbackFails,
      RunType
<1>5. disk'.snapshot = disk.snapshot /\ disk'.incomplete = disk.incomplete
  <2>1. run.step \in 1 .. 4 => Artifact[run.step] \notin {"snapshot", "incomplete"}
    BY ArtifactOrder DEF Stores
  <2>2. run.step \in 0 .. 4
    BY <1>2 DEF RunType
  <2>3. CASE Backup(i) \/ Promote(i)
    <3>1. run.step \in 1 .. 4
      BY <2>3 DEF Backup, Promote, TrustInv, TypeOK, PhaseOK
    <3>2. CASE Backup(i)
      BY <1>2, <2>1, <3>1, <3>2 DEF Backup, DiskType
    <3>3. CASE Promote(i)
      <4> DEFINE a == Artifact[run.step]
                 v == Staged(a)
      <4>1. disk' = [disk EXCEPT ![a] = v, !.backup = IF run.step = 4 THEN None ELSE @]
        BY <3>3 DEF Promote
      <4>2. a \notin {"snapshot", "incomplete"}
        BY <2>1, <3>1
      <4> HIDE DEF a, v
      <4>q. QED
        BY <1>2, <4>1, <4>2 DEF DiskType
    <3>q. QED
      BY <2>3, <3>2, <3>3
  <2>4. CASE Unpromote(i)
    BY <1>2, <2>1, <2>2, <2>4 DEF Unpromote, DiskType
  <2>5. CASE Restore(i)
    <3>1. CASE run.step = 0
      BY <1>2, <2>5, <3>1 DEF Restore, DiskType
    <3>2. CASE run.step # 0
      <4> DEFINE a == Artifact[run.step]
                 v == disk.backup.old[a]
      <4>1. disk' = [disk EXCEPT ![a] = v, !.backup.old[a] = None]
        BY <2>5, <3>2 DEF Restore
      <4>2. a \notin {"snapshot", "incomplete"}
        BY <2>1, <2>2, <3>2
      <4> HIDE DEF a, v
      <4>q. QED
        BY <1>2, <4>1, <4>2 DEF DiskType
    <3>q. QED
      BY <3>1, <3>2
  <2>6. CASE BackupFails(i) \/ PromoteFails(i) \/ RollbackFails(i)
    BY <1>2, <2>6 DEF BackupFails, PromoteFails, RollbackFails, DiskType
  <2>q. QED
    BY <2>3, <2>4, <2>5, <2>6
<1>6. disk.incomplete # None
  BY <1>1, <1>2 DEF TrustInv, Marked
<1>q. QED
  BY <1>1, <1>2, <1>3, <1>4, <1>5, <1>6

\* Behind the marker the stores may be anything.
LEMMA BehindTheMarker ==
  ASSUME TrustInv, NEW i \in Indexers,
         \/ Backup(i) \/ Promote(i) \/ BackupFails(i) \/ PromoteFails(i)
         \/ Unpromote(i) \/ Restore(i) \/ RollbackFails(i)
  PROVE  UnmarkedAgrees' /\ VersionsInOrder' /\ ~Removing'
<1>1. ~Removing
  BY PromotionStays DEF TrustInv, Vouched, Promoting
<1>2. ~Removing'
  BY <1>1, PromotionStays DEF Removing
<1>3. VersionsInOrder'
  BY PromotionStays, StillInOrder DEF TrustInv
<1>4. UnmarkedAgrees'
  BY PromotionStays DEF UnmarkedAgrees
<1>q. QED
  BY <1>2, <1>3, <1>4

\* Moving the live stores away leaves what the run has gathered.
LEMMA TrustBackup ==
  ASSUME TrustInv, TypeOK', NEW i \in Indexers, Backup(i) PROVE TrustInv'
<1>1. UnmarkedAgrees' /\ VersionsInOrder' /\ ~Removing'
  BY BehindTheMarker
<1>2. Phase = "backup" /\ disk'.incomplete # None
  BY PromotionStays DEF Backup
<1>3. \A p \in Paths \ run'.todo : Matches(run.snap[p], run.sq[p], p)'
  BY <1>2, PromotionStays DEF TrustInv, Gathered, Publishing, Matches, Gone
<1>4. run'.todo = {}
  BY <1>2, PromotionStays DEF TrustInv, Gathered, Publishing
<1>5. Phase' \in {"backup", "promote"} /\ (Phase' = "promote" => run'.step = 1)
  <2>1. run \in RunType
    BY PromotionStays
  <2>2. \/ pc'[i] = "backup"
        \/ pc'[i] = "promote" /\ run'.step = 1
    BY <2>1 DEF Backup, Goto, TrustInv, TypeOK, LockOK, RunType
  <2>q. QED
    BY <2>2, HolderNext
<1>6. Gathered'
  BY <1>3, <1>4 DEF Gathered
<1>7. Marked' /\ Vouched'
  BY <1>1, <1>2, <1>5 DEF Marked, Vouched, Updating, Publishing, Promoting
<1>q. QED
  BY <1>1, <1>6, <1>7 DEF TrustInv

\* Promotion puts the gathered content into both stores.
LEMMA TrustPromote ==
  ASSUME TrustInv, TypeOK', NEW i \in Indexers, Promote(i) PROVE TrustInv'
<1>1. UnmarkedAgrees' /\ VersionsInOrder' /\ ~Removing'
  BY BehindTheMarker
<1>2. /\ Phase = "promote" /\ disk'.incomplete # None /\ disk \in DiskType /\ run \in RunType
      /\ run'.sq = run.sq
  BY PromotionStays DEF Promote
<1>3. \A p \in Paths \ run'.todo : Matches(run.snap[p], run.sq[p], p)'
  BY <1>2, PromotionStays DEF TrustInv, Gathered, Publishing, Matches, Gone
<1>4. run'.todo = {}
  BY <1>2, PromotionStays DEF TrustInv, Gathered, Publishing
<1>5. Gathered'
  BY <1>3, <1>4 DEF Gathered
<1>6. run.step \in 1 .. 4
  BY DEF Promote, TrustInv, TypeOK, PhaseOK
<1> DEFINE a == Artifact[run.step]
           v == Staged(a)
<1>7. disk' = [disk EXCEPT ![a] = v, !.backup = IF run.step = 4 THEN None ELSE @]
  BY DEF Promote
<1>8. /\ run.step = 1 => a = "incarnation"
      /\ run.step = 2 => a = "sqlite" /\ v = run.sq
      /\ run.step = 3 => a = "tantivy" /\ v = run.sq
      /\ run.step = 4 => a = "vectors" /\ v = "hash"
  BY DEF Artifact, Staged
<1> HIDE DEF a, v
<1>9. /\ run.step > 2 => disk.sqlite = run.sq
      /\ run.step > 3 => disk.tantivy = run.sq
  BY <1>2 DEF TrustInv, Marked
<1>10. disk'[a] = v /\ (\A b \in Stores \ {a} : disk'[b] = disk[b])
  <2>1. a \in Stores
    BY <1>6, <1>8 DEF Stores
  <2>2. \A b \in Stores : b \in DOMAIN disk /\ b # "backup"
    BY <1>2 DEF DiskType, Stores
  <2>q. QED
    BY <1>7, <2>1, <2>2
<1>11. /\ run.step >= 2 => disk'.sqlite = run.sq
       /\ run.step >= 3 => disk'.tantivy = run.sq
       /\ run.step = 4 => disk'.vectors = "hash"
  <2>1. CASE run.step = 1
    BY <2>1
  <2>2. CASE run.step = 2
    BY <1>8, <1>10, <2>2
  <2>3. CASE run.step = 3
    BY <1>8, <1>9, <1>10, <2>3 DEF Stores
  <2>4. CASE run.step = 4
    BY <1>8, <1>9, <1>10, <2>4 DEF Stores
  <2>q. QED
    BY <1>6, <2>1, <2>2, <2>3, <2>4
<1>12. CASE run.step < 4
  <2>1. pc'[i] = "promote" /\ run'.step = run.step + 1
    BY <1>2, <1>12 DEF Promote, Goto, TrustInv, TypeOK, LockOK, RunType
  <2>2. Phase' = "promote"
    BY <2>1, HolderNext
  <2>3. Marked' /\ Vouched'
    BY <1>1, <1>2, <1>6, <1>11, <2>1, <2>2
    DEF Marked, Vouched, Updating, Publishing, Promoting
  <2>q. QED
    BY <1>1, <1>5, <2>3 DEF TrustInv
<1>13. CASE run.step = 4
  <2> ~(run.step < 4)
    BY <1>13
  <2>1. pc'[i] = "metadata"
    BY <1>2 DEF Promote, Goto, TrustInv, TypeOK, LockOK, RunType
  <2>2. Phase' = "metadata"
    BY <2>1, HolderNext
  <2>3. disk'.sqlite = run.sq /\ disk'.tantivy = run.sq /\ disk'.vectors # None
    BY <1>11, <1>13, AbsenceAssumption
  <2>4. Marked' /\ Vouched'
    BY <1>1, <1>2, <2>2, <2>3 DEF Marked, Vouched, Updating, Publishing, Promoting
  <2>q. QED
    BY <1>1, <1>5, <2>4 DEF TrustInv
<1>q. QED
  BY <1>6, <1>12, <1>13

\* A rollback, finished or not, leaves the marker to the next run.
LEMMA TrustRollback ==
  ASSUME TrustInv, TypeOK', NEW i \in Indexers,
         \/ BackupFails(i) \/ PromoteFails(i)
         \/ Unpromote(i) \/ Restore(i) \/ RollbackFails(i)
  PROVE  TrustInv'
<1>1. UnmarkedAgrees' /\ VersionsInOrder' /\ ~Removing'
  BY BehindTheMarker
<1>2. disk'.incomplete # None
  BY PromotionStays
<1>3. Phase' \in {"unpromote", "restore", "unlock"}
  <2>1. pc'[i] \in {"unpromote", "restore", "unlock"}
    BY DEF BackupFails, PromoteFails, Unpromote, Restore, RollbackFails, Goto,
       TrustInv, TypeOK, LockOK
  <2>q. QED
    BY <2>1, HolderNext
<1>4. Gathered' /\ Marked' /\ Vouched'
  BY <1>1, <1>2, <1>3 DEF Gathered, Marked, Vouched, Updating, Publishing, Promoting
<1>q. QED
  BY <1>1, <1>4 DEF TrustInv

\* Metadata and format version are written when the stores are complete.
LEMMA TrustWriteMetadata ==
  ASSUME TrustInv, TypeOK', NEW i \in Indexers, WriteMetadata(i) \/ WriteFormat(i)
  PROVE  TrustInv'
<1>1. /\ lock = i /\ lock # None /\ Phase = pc[i] /\ run \in RunType /\ disk \in DiskType
      /\ pc[i] \in {"metadata", "format"}
  BY Holder DEF TrustInv, WriteMetadata, WriteFormat
<1>2. /\ disk'.sqlite = disk.sqlite /\ disk'.tantivy = disk.tantivy
      /\ disk'.snapshot = disk.snapshot /\ disk'.incomplete = disk.incomplete
      /\ disk'.vectors = disk.vectors
  BY <1>1 DEF WriteMetadata, WriteFormat, DiskType
<1>3. lock' = lock /\ UNCHANGED <<files, hidden, clock>> /\ run' = run
  BY DEF WriteMetadata, WriteFormat, source
<1>4. Phase' \in {"format", "snapshot"}
  <2>1. pc'[i] \in {"format", "snapshot"}
    BY DEF WriteMetadata, WriteFormat, Goto, TrustInv, TypeOK, LockOK
  <2>q. QED
    BY <2>1, HolderNext
<1>5. ~Removing /\ ~Removing'
  BY <1>1, <1>3 DEF TrustInv, Vouched, Removing
<1>6. UnmarkedAgrees' /\ VersionsInOrder'
  BY <1>1, <1>2, <1>3, <1>5, StillAgrees, StillInOrder DEF TrustInv
<1>7. Gathered'
  BY <1>1, <1>3, <1>4 DEF TrustInv, Gathered, Publishing, Matches, Gone
<1>8. Marked' /\ Vouched'
  BY <1>1, <1>2, <1>3, <1>4, <1>5
  DEF TrustInv, Marked, Vouched, Updating, Publishing, Promoting
<1>q. QED
  BY <1>6, <1>7, <1>8 DEF TrustInv

\* The snapshot saved last describes the stores written before it.
LEMMA TrustSaveSnapshot ==
  ASSUME TrustInv, TypeOK', NEW i \in Indexers, SaveSnapshot(i) PROVE TrustInv'
<1>1. lock = i /\ lock # None /\ Phase = "snapshot" /\ run \in RunType /\ disk \in DiskType
  BY Holder DEF TrustInv, SaveSnapshot
<1>2. /\ disk'.sqlite = disk.sqlite /\ disk'.tantivy = disk.tantivy
      /\ disk'.snapshot = run.snap /\ disk'.incomplete = disk.incomplete
      /\ disk'.vectors = disk.vectors
  BY <1>1 DEF SaveSnapshot, DiskType
<1>3. lock' = lock /\ UNCHANGED <<files, hidden, clock>>
  BY DEF SaveSnapshot, source
<1>4. run'.snap = run.snap /\ run'.remove = run.remove
  BY <1>1 DEF SaveSnapshot, RunType
<1>5. /\ disk.incomplete # None /\ disk.sqlite = run.sq /\ disk.tantivy = run.sq
      /\ disk.vectors # None
  BY <1>1 DEF TrustInv, Marked, Publishing
<1>6. Phase' = "settle"
  <2>1. pc'[i] = "settle"
    BY DEF SaveSnapshot, Goto, TrustInv, TypeOK, LockOK
  <2>q. QED
    BY <2>1, HolderNext
<1>7. ~Removing /\ ~Removing'
  BY <1>1, <1>3, <1>4 DEF TrustInv, Vouched, Removing
<1>8. UnmarkedAgrees' /\ VersionsInOrder'
  BY <1>1, <1>2, <1>3, <1>4, <1>5 DEF TrustInv, UnmarkedAgrees, VersionsInOrder
<1>9. run.sq # None /\ run.snap # None
  BY <1>1, EmptyContent, AbsenceAssumption DEF RunType
<1>10. \A p \in Paths : Matches(run.snap[p], run.sq[p], p)
  BY <1>1 DEF TrustInv, Gathered, Publishing
<1>11. DescribedBy(OldSnapshot)'
  <2>1. OldSnapshot' = run.snap
    BY <1>2, <1>9 DEF OldSnapshot
  <2>q. QED
    BY <1>2, <1>3, <1>5, <1>10, <2>1 DEF DescribedBy, Matches, Gone
<1>12. Marked'
  BY <1>2, <1>5, <1>6, <1>9, <1>11 DEF Marked, Updating, Publishing, Promoting
<1>13. Gathered' /\ Vouched'
  BY <1>6, <1>7 DEF Gathered, Vouched, Publishing
<1>q. QED
  BY <1>8, <1>12, <1>13 DEF TrustInv

\* The marker is cleared over stores that agree with their snapshot.
LEMMA TrustClearMarker ==
  ASSUME TrustInv, TypeOK', NEW i \in Indexers, ClearMarker(i) PROVE TrustInv'
<1>1. lock = i /\ lock # None /\ Phase = "settle" /\ run \in RunType /\ disk \in DiskType
  BY Holder DEF TrustInv, ClearMarker
<1>2. /\ disk'.sqlite = disk.sqlite /\ disk'.tantivy = disk.tantivy
      /\ disk'.snapshot = disk.snapshot
  BY <1>1 DEF ClearMarker, DiskType
<1>3. lock' = lock /\ UNCHANGED <<files, hidden, clock>> /\ run' = run
  BY DEF ClearMarker, source
<1>4. Phase' = "unlock"
  <2>1. pc'[i] = "unlock"
    BY DEF ClearMarker, Goto, TrustInv, TypeOK, LockOK
  <2>q. QED
    BY <2>1, HolderNext
<1>5. ~Removing /\ ~Removing'
  BY <1>1, <1>3 DEF TrustInv, Vouched, Removing
<1>6. VersionsInOrder'
  BY <1>1, <1>2, <1>3, StillInOrder DEF TrustInv
<1>7. disk.tantivy = disk.sqlite /\ DescribedBy(OldSnapshot)
  BY <1>1 DEF TrustInv, Marked
<1>8. disk.snapshot # None => DescribedBy(disk.snapshot)
  BY <1>7 DEF OldSnapshot
<1>9. UnmarkedAgrees'
  BY <1>2, <1>3, <1>7, <1>8 DEF UnmarkedAgrees, DescribedBy, Matches, Gone
<1>q. QED
  BY <1>4, <1>5, <1>6, <1>9, OutOfPlay DEF TrustInv

\* A run that gives up leaves its marker, if it had put one down.
LEMMA TrustFail ==
  ASSUME TrustInv, TypeOK', NEW i \in Indexers, Fail(i) PROVE TrustInv'
<1>1. /\ lock = i /\ lock # None /\ Phase = pc[i] /\ run \in RunType /\ disk \in DiskType
      /\ pc[i] \in Working
  BY Holder DEF TrustInv, Fail, Working
<1>2. disk' = disk /\ lock' = lock /\ UNCHANGED <<files, hidden, clock>>
  BY DEF Fail, source
<1>3. run'.snap = run.snap /\ run'.remove = run.remove
  BY <1>1 DEF Fail, RunType
<1>4. Phase' = "unlock"
  <2>1. pc'[i] = "unlock"
    BY DEF Fail, Goto, TrustInv, TypeOK, LockOK
  <2>q. QED
    BY <2>1, HolderNext
<1>5. ~Removing /\ ~Removing'
  BY <1>1, <1>2, <1>3 DEF TrustInv, Vouched, Removing, Working
<1>6. UnmarkedAgrees' /\ VersionsInOrder'
  BY <1>1, <1>2, <1>3, <1>5, StillAgrees, StillInOrder DEF TrustInv
<1>q. QED
  BY <1>4, <1>5, <1>6, OutOfPlay DEF TrustInv

\* A retry after a commit finds the marker; one before it, the same stores.
LEMMA TrustRetry ==
  ASSUME TrustInv, TypeOK', NEW i \in Indexers, RetryTantivy(i) PROVE TrustInv'
<1>1. /\ lock = i /\ lock # None /\ Phase = pc[i] /\ run \in RunType /\ disk \in DiskType
      /\ pc[i] \in {"persist", "commit"}
  BY Holder DEF TrustInv, RetryTantivy
<1>2. disk' = disk /\ lock' = lock /\ UNCHANGED <<files, hidden, clock>>
  BY DEF RetryTantivy, source
<1>3. run'.snap = Empty /\ ~run'.remove /\ run'.rebuild = run.rebuild
  BY DEF RetryTantivy, NewRun
<1>4. Phase' = "scan"
  <2>1. pc'[i] = "scan"
    BY DEF RetryTantivy, Goto, TrustInv, TypeOK, LockOK
  <2>q. QED
    BY <2>1, HolderNext
<1>5. ~Removing /\ ~Removing'
  BY <1>1, <1>3 DEF TrustInv, Vouched, Removing
<1>6. UnmarkedAgrees'
  BY <1>2, <1>5, StillAgrees DEF TrustInv
<1>7. VersionsInOrder'
  BY <1>2, <1>3 DEF TrustInv, VersionsInOrder, Empty, TypeOK, SourceOK
<1>8. RebuildMain \/ disk.sqlite = None \/ StorageValid
  <2>1. CASE Updating
    BY <2>1 DEF TrustInv, Marked, RebuildMain
  <2>2. CASE Phase = "persist" /\ run.fresh
    BY <2>2 DEF TrustInv, Vouched
  <2>q. QED
    BY <1>1, <2>1, <2>2 DEF Updating
<1>9. Vouched'
  BY <1>2, <1>3, <1>4, <1>5, <1>8 DEF Vouched, RebuildMain, StorageValid, Count
<1>10. Gathered' /\ Marked'
  BY <1>4 DEF Gathered, Marked, Updating, Publishing, Promoting
<1>q. QED
  BY <1>6, <1>7, <1>9, <1>10 DEF TrustInv

-----------------------------------------------------------------------------
(* The theorems.                                                           *)

\* The invariant holds at first.
LEMMA TrustInit == Init => TrustInv
<1> SUFFICES ASSUME Init PROVE TrustInv
  OBVIOUS
<1>1. TypeOK
  BY TypeInit
<1>2. lock = None /\ Phase = "none" /\ ~Removing /\ disk.sqlite = None /\ disk.snapshot = None
  BY DEF Init, Phase, Removing
<1>3. VersionsInOrder
  BY <1>2 DEF Init, VersionsInOrder, Empty
<1>4. UnmarkedAgrees /\ Vouched /\ Gathered /\ Marked
  BY <1>2 DEF UnmarkedAgrees, Vouched, Gathered, Marked, Updating, Publishing, Promoting
<1>q. QED
  BY <1>1, <1>3, <1>4 DEF TrustInv

\* Every step keeps it, except a removal cut short.
LEMMA TrustStep ==
  ASSUME TrustInv, [Next]_vars, ~RemovalCutShort \/ UNCHANGED vars PROVE TrustInv'
<1>1. TypeOK'
  BY TypeStep DEF TrustInv
<1>2. CASE UNCHANGED vars
  BY <1>1, <1>2 DEF vars, TrustInv, VersionsInOrder, UnmarkedAgrees, Vouched, Gathered,
     Marked, Updating, Phase, Removing, DescribedBy, Matches, Gone, RebuildMain,
     StorageValid, Count, OldSnapshot
<1>3. CASE Others
  BY <1>1, <1>3, TrustBystander DEF Bystander
<1>4. ASSUME NEW i \in Indexers, Acquire(i) \/ AcquireRemove(i) PROVE TrustInv'
  BY <1>1, <1>4, TrustBegins
<1>5. ASSUME NEW i \in Indexers, Step(i), ~RemovalCutShort PROVE TrustInv'
  <2>1. CASE DropGuard(i)
    BY <1>1, <2>1, TrustBystander DEF Bystander
  <2>q. QED
    BY <1>1, <1>5, <2>1, TrustInspect, TrustWipe, TrustWipeDone, TrustIdentify,
       TrustAnnounce, TrustShortcut, TrustScanIncremental, TrustScanFresh,
       TrustMarkIncremental, TrustPersistPath, TrustCommit, TrustMarkPromotion,
       TrustBackup, TrustPromote, TrustRollback, TrustWriteMetadata,
       TrustSaveSnapshot, TrustClearMarker, TrustEnds DEF Step
<1>6. ASSUME NEW i \in Indexers, Failure(i), ~RemovalCutShort PROVE TrustInv'
  <2>1. CASE Crash(i) /\ lock # i
    BY <1>1, <2>1, TrustBystander DEF Bystander
  <2>q. QED
    BY <1>1, <1>6, <2>1, TrustRollback, TrustFail, TrustRetry, TrustEnds DEF Failure
<1>q. QED
  BY <1>2, <1>3, <1>4, <1>5, <1>6 DEF Next

\* A snapshot that describes the stores is honest about the tree.
LEMMA DescribedIsHonest ==
  ASSUME DescribedBy(OldSnapshot) PROVE Honest
BY DEF DescribedBy, Honest, Matches, Gone

\* As long as no removal of the index is cut short, a run that ends well, by
\* whichever way, leaves stores that agree and that the snapshot does not
\* misdescribe: whatever crashed, failed, was retried or was rolled back
\* before it, and whatever was edited meanwhile (index_workspace_inner,
\* finalize_workspace_index_state).
THEOREM SettledRunsAreSound ==
  Spec /\ [][~RemovalCutShort]_vars => []SettledIsSound
<1>1. TrustInv /\ [Next]_vars /\ [~RemovalCutShort]_vars => TrustInv'
  BY TrustStep
<1>2. TrustInv => SettledIsSound
  <2> SUFFICES ASSUME TrustInv, NEW i \in Indexers, pc[i] = "settle" PROVE Sound
    BY DEF SettledIsSound
  <2>1. Phase = "settle"
    BY Holder DEF TrustInv
  <2>2. /\ disk.sqlite # None /\ disk.tantivy = disk.sqlite /\ disk.vectors # None
        /\ DescribedBy(OldSnapshot)
    BY <2>1 DEF TrustInv, Marked
  <2>q. QED
    BY <2>2, DescribedIsHonest DEF Sound
<1>q. QED
  BY TrustInit, <1>1, <1>2, PTL DEF Spec

\* docs/architecture.md:219-223, as far as it goes: as long as no removal is
\* cut short, an index that the next run would accept as it stands is sound,
\* whichever process died holding the lock.
THEOREM UnfinishedNeverTrusted ==
  Spec /\ [][~RemovalCutShort]_vars => []UnfinishedIsNeverTrusted
<1>1. TrustInv /\ [Next]_vars /\ [~RemovalCutShort]_vars => TrustInv'
  BY TrustStep
<1>2. TrustInv => UnfinishedIsNeverTrusted
  <2> SUFFICES ASSUME TrustInv, lock = None, Queryable, disk.incomplete = None,
                      StorageValid
               PROVE  Sound
    BY DEF UnfinishedIsNeverTrusted, AcceptedIsSound
  <2>1. ~Removing
    BY DEF Removing
  <2>q. QED
    BY <2>1, Usable, DescribedIsHonest DEF TrustInv, Sound
<1>q. QED
  BY TrustInit, <1>1, <1>2, PTL DEF Spec

\* Only a requested removal makes a run a removal.
LEMMA NoOtherRemoves ==
  ASSUME TrustInv, TypeOK', ~Removing, NEW i \in Indexers, Acquire(i) \/ Step(i) \/ Failure(i)
  PROVE  ~Removing'
<1>1. CASE Acquire(i) \/ RetryTantivy(i)
  <2>1. Acquire(i) => ~run'.remove
    BY DEF Acquire, NewRun
  <2>2. RetryTantivy(i) => ~run'.remove
    BY DEF RetryTantivy, NewRun
  <2>q. QED
    BY <1>1, <2>1, <2>2 DEF Removing
<1>2. CASE DropGuard(i) \/ (Crash(i) /\ lock # i)
  BY <1>2 DEF DropGuard, Crash, Removing
<1>3. CASE Unlock(i) \/ FailEarly(i) \/ (Crash(i) /\ lock = i)
  BY <1>3 DEF Unlock, FailEarly, Crash, Removing
<1>4. CASE \/ Backup(i) \/ Promote(i) \/ BackupFails(i) \/ PromoteFails(i)
           \/ Unpromote(i) \/ Restore(i) \/ RollbackFails(i)
  BY <1>4, BehindTheMarker
<1>5. CASE \/ Inspect(i) \/ Wipe(i) \/ WipeDone(i) \/ Identify(i) \/ Announce(i)
           \/ TrustWatcher(i) \/ ScanNoOp(i) \/ ScanIncremental(i) \/ ScanFresh(i)
           \/ MarkIncremental(i) \/ PersistPath(i) \/ CommitSqlite(i)
           \/ CommitTantivy(i) \/ MarkPromotion(i) \/ WriteMetadata(i) \/ WriteFormat(i)
           \/ SaveSnapshot(i) \/ ClearMarker(i) \/ Fail(i)
  <2>1. pc[i] \notin {"idle", "drop"}
    BY <1>5
    DEF Inspect, Wipe, WipeDone, Identify, Announce, TrustWatcher, ScanNoOp,
        ScanIncremental, ScanFresh, MarkIncremental, PersistPath, CommitSqlite,
        CommitTantivy, MarkPromotion, WriteMetadata, WriteFormat, SaveSnapshot,
        ClearMarker, Fail, Working
  <2>2. run \in RunType /\ lock # None /\ ~run.remove
    BY <2>1, Holder DEF TrustInv, Removing
  <2>3. lock' = None \/ run'.remove = run.remove
    BY <1>5, <2>2
    DEF Inspect, Wipe, WipeDone, Identify, Announce, TrustWatcher, ScanNoOp,
        ScanIncremental, ScanFresh, MarkIncremental, PersistPath, CommitSqlite,
        CommitTantivy, MarkPromotion, WriteMetadata, WriteFormat, SaveSnapshot,
        ClearMarker, Fail, RunType
  <2>q. QED
    BY <2>2, <2>3 DEF Removing
<1>q. QED
  BY <1>1, <1>2, <1>3, <1>4, <1>5 DEF Step, Failure

RemovalRequested == \E i \in Indexers : AcquireRemove(i)

\* As long as no removal of the index is requested, an index that the next run
\* would accept is sound at every moment, also while a run is at work on it:
\* the marker covers every state in between (index_publication_is_unfinished,
\* validate_existing_index_storage).
THEOREM AcceptedIndexIsSound ==
  Spec /\ [][~RemovalRequested]_vars => []AcceptedIsSound
<1> DEFINE Inv == TrustInv /\ ~Removing
<1>1. Init => Inv
  BY TrustInit DEF Init, Removing
<1>2. Inv /\ [Next]_vars /\ [~RemovalRequested]_vars => Inv'
  <2> SUFFICES ASSUME Inv, [Next]_vars, ~RemovalRequested \/ UNCHANGED vars PROVE Inv'
    OBVIOUS
  <2>1. ~RemovalCutShort
    BY NoneAssumption DEF RemovalCutShort, Removing
  <2>2. TrustInv'
    BY <2>1, TrustStep
  <2>3. TypeOK'
    BY <2>2 DEF TrustInv
  <2>4. CASE UNCHANGED vars
    BY <2>2, <2>4 DEF vars, Removing
  <2>5. CASE Others
    BY <2>2, <2>3, <2>5, StandsBy DEF Bystander, Removing, TrustInv
  <2>6. CASE \E i \in Indexers : Acquire(i) \/ Step(i) \/ Failure(i)
    BY <2>2, <2>3, <2>6, NoOtherRemoves
  <2>7. CASE \E i \in Indexers : AcquireRemove(i)
    BY <2>2, <2>4, <2>7 DEF RemovalRequested
  <2>q. QED
    BY <2>4, <2>5, <2>6, <2>7 DEF Next
<1>3. Inv => AcceptedIsSound
  BY Usable, DescribedIsHonest DEF TrustInv, Sound, AcceptedIsSound
<1>q. QED
  BY <1>1, <1>2, <1>3, PTL DEF Spec

--------------------------------------------------------------------------------
(* Incarnation and generation name the content.                            *)

\* `ig --add` writes back metadata that is not the one it would read now.
StaleAdd == AddWrites /\ add # EarlyMeta

\* The index directory is still the one of an earlier publication.
SameIndex(h) == h # None /\ disk.incarnation = h.id.inc

\* Incarnations come from nextInc, also the ones that are put aside.
GivenOut(h) ==
    /\ disk.incarnation # None => disk.incarnation <= nextInc
    /\ disk.backup # None /\ disk.backup.old.incarnation # None
          => disk.backup.old.incarnation <= nextInc
    /\ h # None => /\ h.id.inc \in Nat /\ h.id.inc <= nextInc
                   /\ h.id.gen \in Nat

\* A run has an incarnation, from the check of the index to its end.
Incarnate ==
    Phase \in Working \cup {"announce"} \/ (Phase = "promote" /\ run.step > 1)
        => disk.incarnation # None

\* Without the marker the generation has not gone back, and at the same one the
\* store is as it was.
UnmarkedNamed(h) ==
    /\ ~Removing /\ disk.incomplete = None /\ SameIndex(h)
    /\ disk.sqlite # None /\ disk.meta # None /\ disk.meta.done
    => /\ disk.meta.gen >= h.id.gen
       /\ disk.meta.gen = h.id.gen => disk.sqlite = h.content

\* A run that changes the stores ends with another incarnation, or with another
\* generation.
Renamed(h) ==
    /\ Phase = "promote" /\ run.step > 1 => ~SameIndex(h)
    /\ (Updating \/ Phase \in {"mark", "metadata"}) /\ SameIndex(h)
          => disk.meta # None /\ disk.meta.gen >= h.id.gen
    /\ \/ Phase \in {"format", "snapshot"}
       \/ Phase = "settle" /\ disk.incomplete # None
       => (SameIndex(h) => disk.meta.gen > h.id.gen)
    /\ Phase \in {"format", "snapshot", "settle"} => disk.meta # None /\ disk.meta.done

NamesInv(h) == GivenOut(h) /\ Incarnate /\ UnmarkedNamed(h) /\ Renamed(h)

\* The places at which a run claims nothing about names.
LEMMA NothingNamed ==
  ASSUME NEW h,
         \/ Phase \in {"none", "inspect", "wipe", "identify", "backup", "unpromote",
                       "restore", "unlock"}
         \/ Phase = "promote" /\ run.step = 1
  PROVE  Incarnate /\ Renamed(h)
BY DEF Incarnate, Renamed, Updating, Working

\* The same after a step.
LEMMA NothingNamedNext ==
  ASSUME NEW h,
         \/ Phase' \in {"none", "inspect", "wipe", "identify", "backup", "unpromote",
                        "restore", "unlock"}
         \/ Phase' = "promote" /\ run'.step = 1
  PROVE  Incarnate' /\ Renamed(h)'
BY DEF Incarnate, Renamed, Updating, Working

\* A step that leaves what names the content, and the content.
LEMMA NamesLeft ==
  ASSUME NEW h, NamesInv(h), nextInc' = nextInc,
         disk'.incarnation = disk.incarnation, disk'.meta = disk.meta,
         disk'.sqlite = disk.sqlite, disk'.incomplete = disk.incomplete,
         disk'.backup \in {disk.backup, None}, ~Removing' => ~Removing,
         Incarnate', Renamed(h)'
  PROVE  NamesInv(h)'
<1>1. GivenOut(h)'
  BY DEF NamesInv, GivenOut
<1>2. UnmarkedNamed(h)'
  BY DEF NamesInv, UnmarkedNamed, SameIndex
<1>q. QED
  BY <1>1, <1>2 DEF NamesInv

\* Behind the marker, a step that keeps the metadata.
LEMMA NamesBehindMarker ==
  ASSUME NEW h, disk'.incomplete # None, GivenOut(h)', Incarnate', Renamed(h)'
  PROVE  NamesInv(h)'
BY DEF NamesInv, UnmarkedNamed

\* At first nothing has a name.
LEMMA NamesInit == Init => NamesInv(None)
<1>. SUFFICES ASSUME Init PROVE NamesInv(None)
  OBVIOUS
<1>1. /\ lock = None /\ disk.incarnation = None /\ disk.backup = None
      /\ Phase = "none"
  BY DEF Init, Phase
<1>q. QED
  BY <1>1, NothingNamed DEF NamesInv, GivenOut, UnmarkedNamed, SameIndex

\* Processes without the lock; an `ig --add` writes back what it would read.
LEMMA NamesBystander ==
  ASSUME TrustInv, NEW h, NamesInv(h), TypeOK', Bystander, ~StaleAdd
  PROVE  NamesInv(h)'
<1>1. /\ lock' = lock /\ run' = run /\ Phase' = Phase
      /\ disk'.sqlite = disk.sqlite /\ disk'.incarnation = disk.incarnation
      /\ disk'.incomplete = disk.incomplete /\ disk'.backup = disk.backup
  BY StandsBy DEF TrustInv
<1>2. nextInc' = nextInc
  BY DEF Bystander, Others, DropGuard, Crash, ReaderSeesStalePid, ReaderUnlinksPid, AddReads,
         AddWrites, Upgrade, Edit, Return, index
<1>3. disk \in DiskType /\ disk' \in DiskType
  BY DEF TrustInv, TypeOK
<1>4. disk'.meta = disk.meta \/ (disk.meta = None /\ ~disk'.meta.done)
  <2>1. CASE AddWrites
    <3>1. disk' = [disk EXCEPT !.meta = add] /\ add = EarlyMeta
      BY <2>1 DEF AddWrites, StaleAdd
    <3>2. disk'.meta = EarlyMeta
      BY <1>3, <3>1 DEF DiskType
    <3>q. QED
      BY <3>2 DEF EarlyMeta
  <2>2. CASE ReaderSeesStalePid \/ AddReads \/ \E p \in Paths : Edit(p) \/ Return(p)
    BY <2>2 DEF ReaderSeesStalePid, AddReads, Edit, Return, index
  <2>3. CASE ReaderUnlinksPid \/ Upgrade
    BY <1>3, <2>3 DEF ReaderUnlinksPid, Upgrade, DiskType
  <2>4. ASSUME NEW j \in Indexers, DropGuard(j) \/ (Crash(j) /\ lock # j)
        PROVE  disk'.meta = disk.meta
    BY <1>3, <2>4 DEF DropGuard, Crash, DiskType
  <2>q. QED
    BY <2>1, <2>2, <2>3, <2>4 DEF Bystander, Others
<1>5. GivenOut(h)' /\ Incarnate'
  BY <1>1, <1>2 DEF NamesInv, GivenOut, Incarnate
<1>6. UnmarkedNamed(h)'
  BY <1>1, <1>2, <1>4 DEF NamesInv, UnmarkedNamed, SameIndex, Removing
<1>7. Renamed(h)'
  BY <1>1, <1>2, <1>4 DEF NamesInv, Renamed, SameIndex, Updating
<1>q. QED
  BY <1>5, <1>6, <1>7 DEF NamesInv

\* Taking the lock, and leaving it.
LEMMA NamesBegins ==
  ASSUME TrustInv, NEW h, NamesInv(h), TypeOK', NEW i \in Indexers, Acquire(i) \/ AcquireRemove(i)
  PROVE  NamesInv(h)'
<1>1. lock = None /\ disk' = disk /\ nextInc' = nextInc
  BY DEF Acquire, AcquireRemove
<1>2. pc'[i] \in {"inspect", "wipe"}
  BY DEF Acquire, AcquireRemove, Goto, TrustInv, TypeOK, LockOK
<1>3. Phase' \in {"inspect", "wipe"} /\ ~Removing
  BY <1>1, <1>2, HolderNext DEF Removing
<1>q. QED
  BY <1>1, <1>3, NothingNamedNext, NamesLeft

\* A run ends, or is killed; a removal is not cut short.
LEMMA NamesEnds ==
  ASSUME TrustInv, NEW h, NamesInv(h), TypeOK', ~RemovalCutShort, NEW i \in Indexers,
         Unlock(i) \/ FailEarly(i) \/ (Crash(i) /\ lock = i)
  PROVE  NamesInv(h)'
<1>1. lock = i /\ Phase = pc[i] /\ pc[i] \notin {"idle", "drop"} /\ disk \in DiskType
  BY Holder, NoneAssumption
  DEF TrustInv, Unlock, FailEarly, Early, Crash, TypeOK, LockOK
<1>2. ~Removing
  BY <1>1 DEF TrustInv, Vouched, Unlock, RemovalCutShort, Removing
<1>3. lock' = None /\ nextInc' = nextInc
  BY DEF Unlock, FailEarly, Crash
<1>4. /\ disk'.incarnation = disk.incarnation /\ disk'.meta = disk.meta
      /\ disk'.sqlite = disk.sqlite /\ disk'.incomplete = disk.incomplete
      /\ disk'.backup = disk.backup
  BY <1>1 DEF Unlock, FailEarly, Crash, DiskType
<1>5. Phase' = "none"
  BY <1>3 DEF Phase
<1>q. QED
  BY <1>2, <1>3, <1>4, <1>5, NothingNamedNext, NamesLeft

\* The steps of a run that leave what names the content, up to the scan.
LEMMA NamesInspect ==
  ASSUME TrustInv, NEW h, NamesInv(h), TypeOK', NEW i \in Indexers, Inspect(i)
  PROVE  NamesInv(h)'
<1>1. lock = i /\ lock # None /\ Phase = "inspect" /\ run \in RunType /\ disk \in DiskType
  BY Holder DEF TrustInv, Inspect
<1>2. /\ disk'.incarnation = disk.incarnation /\ disk'.meta = disk.meta
      /\ disk'.sqlite = disk.sqlite /\ disk'.incomplete = disk.incomplete
      /\ disk'.backup \in {disk.backup, None}
  BY <1>1 DEF Inspect, DiskType, KeptBackup
<1>3. nextInc' = nextInc /\ lock' = lock /\ run'.remove = run.remove
  BY <1>1 DEF Inspect, RunType
<1>4. pc'[i] \in {"wipe", "identify"}
  BY DEF Inspect, Goto, TrustInv, TypeOK, LockOK
<1>5. Phase' \in {"wipe", "identify"}
  BY <1>4, HolderNext
<1>q. QED
  BY <1>1, <1>2, <1>3, <1>5, NothingNamedNext, NamesLeft DEF Removing

\* A wipe that is no removal starts without the marker, and names nothing anew.
LEMMA NamesWipe ==
  ASSUME TrustInv, NEW h, NamesInv(h), TypeOK', NEW i \in Indexers, Wipe(i)
  PROVE  NamesInv(h)'
<1>1. lock = i /\ lock # None /\ Phase = "wipe" /\ run \in RunType /\ disk \in DiskType
  BY Holder DEF TrustInv, Wipe
<1>2. /\ lock' = lock /\ run' = run /\ pc' = pc /\ nextInc' = nextInc
  BY DEF Wipe
<1>3. Phase' = "wipe" /\ (Removing' <=> Removing)
  BY <1>1, <1>2 DEF Phase, Removing
<1>4. PICK a \in DOMAIN disk :
         disk' = [disk EXCEPT ![a] = IF a = "tantivy" /\ @ # Damaged THEN Damaged ELSE None]
  BY DEF Wipe
<1>5. /\ disk'.incarnation \in {disk.incarnation, None} /\ disk'.meta \in {disk.meta, None}
      /\ disk'.sqlite \in {disk.sqlite, None} /\ disk'.incomplete \in {disk.incomplete, None}
      /\ disk'.backup \in {disk.backup, None}
  BY <1>1, <1>4 DEF DiskType
<1>6. GivenOut(h)'
  BY <1>2, <1>5 DEF NamesInv, GivenOut
<1>7. UnmarkedNamed(h)'
  <2>1. Removing \/ disk.incomplete = None
    BY <1>1 DEF TrustInv, Vouched, Removing
  <2>2. SameIndex(h)' => SameIndex(h)
    BY <1>2, <1>5, AbsenceAssumption DEF SameIndex, NamesInv, GivenOut
  <2>q. QED
    BY <1>2, <1>3, <1>5, <2>1, <2>2 DEF NamesInv, UnmarkedNamed
<1>q. QED
  BY <1>3, <1>6, <1>7, NothingNamedNext DEF NamesInv

\* An emptied directory has no store to name.
LEMMA NamesWipeDone ==
  ASSUME TrustInv, NEW h, NamesInv(h), TypeOK', NEW i \in Indexers, WipeDone(i)
  PROVE  NamesInv(h)'
<1>1. lock = i /\ lock # None /\ Phase = "wipe" /\ run \in RunType /\ disk \in DiskType
  BY Holder DEF TrustInv, WipeDone
<1>2. disk.sqlite = None /\ disk.incarnation = None /\ disk.backup = None
  BY <1>1 DEF WipeDone, DiskType
<1>3. disk'.sqlite = None /\ disk'.incarnation = None /\ disk'.backup = None
  BY <1>1, <1>2 DEF WipeDone, DiskType
<1>4. nextInc' = nextInc
  BY DEF WipeDone
<1>5. Phase' \in {"none", "identify"}
  <2>1. CASE run.remove
    BY <2>1 DEF WipeDone, Phase
  <2>2. CASE ~run.remove
    <3>1. pc'[i] = "identify"
      BY <2>2 DEF WipeDone, Goto, TrustInv, TypeOK, LockOK
    <3>q. QED
      BY <3>1, HolderNext
  <2>q. QED
    BY <2>1, <2>2
<1>6. GivenOut(h)' /\ UnmarkedNamed(h)'
  BY <1>3, <1>4 DEF NamesInv, GivenOut, UnmarkedNamed
<1>q. QED
  BY <1>5, <1>6, NothingNamedNext DEF NamesInv

\* An incarnation that is made up for an index without one is a new one.
LEMMA NamesIdentify ==
  ASSUME TrustInv, NEW h, NamesInv(h), TypeOK', NEW i \in Indexers, Identify(i)
  PROVE  NamesInv(h)'
<1>1. /\ lock = i /\ lock # None /\ Phase = "identify" /\ run \in RunType
      /\ disk \in DiskType /\ nextInc \in Nat
  BY Holder DEF TrustInv, Identify, TypeOK, OthersOK
<1>2. pc'[i] = "announce" /\ lock' = lock /\ run'.remove = run.remove
  BY <1>1 DEF Identify, Goto, TrustInv, TypeOK, LockOK, RunType
<1>3. Phase' = "announce" /\ ~Removing /\ ~Removing'
  BY <1>1, <1>2, HolderNext DEF TrustInv, Vouched, Removing
<1>4. Renamed(h)'
  BY <1>3 DEF Renamed, Updating
<1>5. CASE disk.incarnation = None
  <2> DEFINE n == nextInc + 1
  <2>1. nextInc' = n /\ disk' = [disk EXCEPT !.incarnation = n] /\ n \in Nat
    BY <1>1, <1>5 DEF Identify
  <2> HIDE DEF n
  <2>2. /\ disk'.incarnation = n /\ disk'.meta = disk.meta
        /\ disk'.sqlite = disk.sqlite /\ disk'.incomplete = disk.incomplete
        /\ disk'.backup = disk.backup
    BY <1>1, <2>1 DEF DiskType
  <2>3. n > nextInc /\ n # None
    BY <1>1, <2>1, AbsenceAssumption DEF n
  <2>4. disk.backup # None /\ disk.backup.old.incarnation # None
           => disk.backup.old.incarnation \in Nat
    BY <1>1 DEF DiskType, BackupType, StoresType
  <2>5. GivenOut(h)'
    BY <1>1, <1>2, <2>1, <2>2, <2>3, <2>4 DEF NamesInv, GivenOut
  <2>6. ~SameIndex(h)'
    BY <1>1, <1>2, <2>1, <2>2, <2>3 DEF SameIndex, NamesInv, GivenOut
  <2>q. QED
    BY <1>3, <1>4, <2>2, <2>3, <2>5, <2>6 DEF NamesInv, UnmarkedNamed, Incarnate
<1>6. CASE disk.incarnation # None
  <2>1. disk' = disk /\ nextInc' = nextInc
    BY <1>6 DEF Identify
  <2>q. QED
    BY <1>2, <1>3, <1>4, <1>6, <2>1, NamesLeft DEF Incarnate
<1>q. QED
  BY <1>5, <1>6

\* The pid file is no name.
LEMMA NamesAnnounce ==
  ASSUME TrustInv, NEW h, NamesInv(h), TypeOK', NEW i \in Indexers, Announce(i)
  PROVE  NamesInv(h)'
<1>1. lock = i /\ lock # None /\ Phase = "announce" /\ run \in RunType /\ disk \in DiskType
  BY Holder DEF TrustInv, Announce
<1>2. /\ disk'.incarnation = disk.incarnation /\ disk'.meta = disk.meta
      /\ disk'.sqlite = disk.sqlite /\ disk'.incomplete = disk.incomplete
      /\ disk'.backup = disk.backup
  BY <1>1 DEF Announce, DiskType
<1>3. /\ nextInc' = nextInc /\ lock' = lock /\ run' = run
      /\ pc'[i] = "scan"
  BY DEF Announce, Goto, TrustInv, TypeOK, LockOK
<1>4. Phase' = "scan"
  BY <1>3, HolderNext
<1>5. Incarnate' /\ Renamed(h)'
  BY <1>1, <1>2, <1>4 DEF NamesInv, Incarnate, Renamed, Updating
<1>q. QED
  BY <1>2, <1>3, <1>5, NamesLeft DEF Removing

\* A run without work keeps the name and the content.
LEMMA NamesShortcut ==
  ASSUME TrustInv, NEW h, NamesInv(h), TypeOK', NEW i \in Indexers, TrustWatcher(i) \/ ScanNoOp(i)
  PROVE  NamesInv(h)'
<1>1. /\ lock = i /\ lock # None /\ Phase = "scan" /\ run \in RunType /\ disk \in DiskType
  BY Holder DEF TrustInv, TrustWatcher, ScanNoOp
<1>2. /\ disk' = disk /\ nextInc' = nextInc /\ lock' = lock
      /\ run'.remove = run.remove /\ pc'[i] = "settle"
  BY <1>1 DEF TrustWatcher, ScanNoOp, Goto, TrustInv, TypeOK, LockOK, RunType
<1>3. disk.incomplete = None /\ disk.meta # None /\ disk.meta.done
  BY DEF TrustWatcher, ScanNoOp, RebuildMain, Queryable, Healthy
<1>4. Phase' = "settle"
  BY <1>2, HolderNext
<1>5. Incarnate' /\ Renamed(h)'
  BY <1>1, <1>2, <1>3, <1>4 DEF NamesInv, Incarnate, Renamed, Updating, Working
<1>q. QED
  BY <1>2, <1>5, NamesLeft DEF Removing

\* An update starts from an index whose generation has not gone back.
LEMMA NamesScanIncremental ==
  ASSUME TrustInv, NEW h, NamesInv(h), TypeOK', NEW i \in Indexers, ScanIncremental(i)
  PROVE  NamesInv(h)'
<1>1. lock = i /\ lock # None /\ Phase = "scan" /\ run \in RunType /\ disk \in DiskType
  BY Holder DEF TrustInv, ScanIncremental
<1>2. /\ disk' = disk /\ nextInc' = nextInc /\ lock' = lock
      /\ run'.remove = run.remove /\ pc'[i] = "mark"
  BY <1>1 DEF ScanIncremental, Goto, TrustInv, TypeOK, LockOK, RunType
<1>3. /\ disk.incomplete = None /\ disk.meta # None /\ disk.meta.done /\ disk.sqlite # None
  BY DEF ScanIncremental, RebuildMain, Queryable, Healthy
<1>4. Phase' = "mark" /\ ~Removing
  BY <1>1, <1>2, HolderNext DEF TrustInv, Vouched
<1>5. SameIndex(h) => disk.meta.gen >= h.id.gen
  BY <1>3, <1>4 DEF NamesInv, UnmarkedNamed
<1>6. Incarnate' /\ Renamed(h)'
  BY <1>1, <1>2, <1>3, <1>4, <1>5
  DEF NamesInv, Incarnate, Renamed, Updating, Working, SameIndex
<1>q. QED
  BY <1>2, <1>4, <1>6, NamesLeft

\* A rebuild may find no metadata; what it writes then says that no run completed.
LEMMA NamesScanFresh ==
  ASSUME TrustInv, NEW h, NamesInv(h), TypeOK', NEW i \in Indexers, ScanFresh(i)
  PROVE  NamesInv(h)'
<1>1. lock = i /\ lock # None /\ Phase = "scan" /\ run \in RunType /\ disk \in DiskType
  BY Holder DEF TrustInv, ScanFresh
<1>2. /\ nextInc' = nextInc /\ lock' = lock
      /\ run'.remove = run.remove /\ run'.fresh /\ pc'[i] = "persist"
  BY <1>1 DEF ScanFresh, Goto, TrustInv, TypeOK, LockOK, RunType
<1>3. /\ disk'.incarnation = disk.incarnation /\ disk'.meta = EarlyMeta
      /\ disk'.sqlite = disk.sqlite /\ disk'.incomplete = disk.incomplete
      /\ disk'.backup = disk.backup
  BY <1>1 DEF ScanFresh, DiskType
<1>4. Phase' = "persist"
  BY <1>2, HolderNext
<1>5. Incarnate' /\ Renamed(h)'
  BY <1>1, <1>2, <1>3, <1>4 DEF NamesInv, Incarnate, Renamed, Updating, Working
<1>6. GivenOut(h)'
  BY <1>2, <1>3 DEF NamesInv, GivenOut
<1>7. disk'.meta = disk.meta \/ ~disk'.meta.done
  BY <1>3 DEF EarlyMeta
<1>8. UnmarkedNamed(h)'
  BY <1>2, <1>3, <1>7 DEF NamesInv, UnmarkedNamed, SameIndex, Removing
<1>q. QED
  BY <1>5, <1>6, <1>8 DEF NamesInv

\* The update, from the marker to the last commit.
LEMMA NamesUpdate ==
  ASSUME TrustInv, NEW h, NamesInv(h), TypeOK', NEW i \in Indexers,
         MarkIncremental(i) \/ CommitSqlite(i) \/ CommitTantivy(i)
  PROVE  NamesInv(h)'
<1>1. /\ lock = i /\ lock # None /\ Phase = pc[i] /\ run \in RunType /\ disk \in DiskType
      /\ Phase \in {"mark", "commit"} \/ (Phase = "persist" /\ ~run.fresh)
  BY Holder DEF TrustInv, MarkIncremental, CommitSqlite, CommitTantivy
<1>2. /\ nextInc' = nextInc /\ lock' = lock /\ run' = run
      /\ pc'[i] \in {"persist", "commit", "metadata"}
  BY DEF MarkIncremental, CommitSqlite, CommitTantivy, Goto, TrustInv, TypeOK, LockOK
<1>3. /\ disk'.incarnation = disk.incarnation /\ disk'.meta = disk.meta
      /\ disk'.backup = disk.backup
  BY <1>1 DEF MarkIncremental, CommitSqlite, CommitTantivy, DiskType
<1>4. disk'.incomplete # None
  <2>1. CASE MarkIncremental(i)
    BY <1>1, <2>1, AbsenceAssumption DEF MarkIncremental, DiskType
  <2>2. CASE CommitSqlite(i) \/ CommitTantivy(i)
    <3>1. Updating
      BY <1>1, <2>2 DEF CommitSqlite, CommitTantivy, Updating
    <3>2. disk'.incomplete = disk.incomplete
      BY <1>1, <2>2 DEF CommitSqlite, CommitTantivy, DiskType
    <3>q. QED
      BY <3>1, <3>2 DEF TrustInv, Marked
  <2>q. QED
    BY <2>1, <2>2
<1>5. Phase' \in {"persist", "commit", "metadata"}
  BY <1>2, HolderNext
<1>6. SameIndex(h) => disk.meta # None /\ disk.meta.gen >= h.id.gen
  BY <1>1 DEF NamesInv, Renamed, Updating
<1>7. Incarnate' /\ Renamed(h)'
  BY <1>1, <1>2, <1>3, <1>5, <1>6
  DEF NamesInv, Incarnate, Renamed, Updating, Working, SameIndex
<1>8. GivenOut(h)'
  BY <1>2, <1>3 DEF NamesInv, GivenOut
<1>q. QED
  BY <1>4, <1>7, <1>8, NamesBehindMarker

\* Reading files names nothing.
LEMMA NamesPersistPath ==
  ASSUME TrustInv, NEW h, NamesInv(h), TypeOK', NEW i \in Indexers, PersistPath(i)
  PROVE  NamesInv(h)'
<1>1. lock = i /\ lock # None /\ Phase = "persist" /\ run \in RunType
  BY Holder DEF TrustInv, PersistPath
<1>2. disk' = disk /\ nextInc' = nextInc /\ lock' = lock /\ pc' = pc
  BY DEF PersistPath
<1>3. run'.remove = run.remove /\ run'.fresh = run.fresh
  <2>1. PICK q \in run.todo :
          LET seen == IF run.snap[q] = 0 THEN 0 ELSE files[q]
          IN run' = [run EXCEPT !.todo = @ \ {q}, !.sq[q] = seen,
                                !.snap[q] = IF @ # 0 /\ seen = 0 THEN Vanished ELSE @]
    BY DEF PersistPath
  <2>q. QED
    BY <1>1, <2>1 DEF RunType
<1>4. Phase' = "persist"
  BY <1>1, <1>2 DEF Phase
<1>5. Incarnate' /\ Renamed(h)'
  BY <1>1, <1>2, <1>3, <1>4 DEF NamesInv, Incarnate, Renamed, Updating, Working, SameIndex
<1>q. QED
  BY <1>2, <1>3, <1>5, NamesLeft DEF Removing

\* A promotion puts the old incarnation aside ...
LEMMA NamesBackup ==
  ASSUME TrustInv, NEW h, NamesInv(h), TypeOK', NEW i \in Indexers, MarkPromotion(i) \/ Backup(i)
  PROVE  NamesInv(h)'
<1>1. CASE MarkPromotion(i)
  <2>1. lock = i /\ Phase = "persist" /\ run \in RunType /\ disk \in DiskType
    BY <1>1, Holder DEF TrustInv, MarkPromotion
  <2>2. nextInc' = nextInc /\ pc'[i] = "backup"
    BY <1>1 DEF MarkPromotion, Goto, TrustInv, TypeOK, LockOK
  <2>3. /\ disk'.incarnation = disk.incarnation /\ disk'.incomplete = "pending"
        /\ disk'.backup.old.incarnation = None
    BY <1>1, <2>1 DEF MarkPromotion, DiskType, NoStores
  <2>4. Phase' = "backup"
    BY <2>2, HolderNext
  <2>5. GivenOut(h)'
    BY <2>2, <2>3 DEF NamesInv, GivenOut
  <2>q. QED
    BY <2>3, <2>4, <2>5, NothingNamedNext, NamesBehindMarker, AbsenceAssumption
<1>2. CASE Backup(i)
  <2>1. /\ lock = i /\ Phase = "backup" /\ run \in RunType /\ disk \in DiskType
        /\ disk'.incomplete # None
    BY <1>2, PromotionStays DEF Backup
  <2>2. nextInc' = nextInc
    BY <1>2 DEF Backup
  <2>3. Phase' \in {"backup", "promote"} /\ (Phase' = "promote" => run'.step = 1)
    <3>1. \/ pc'[i] = "backup"
          \/ pc'[i] = "promote" /\ run'.step = 1
      BY <1>2, <2>1 DEF Backup, Goto, TrustInv, TypeOK, LockOK, RunType
    <3>q. QED
      BY <3>1, HolderNext
  <2>4. run.step \in 1 .. 4 /\ disk.backup \in BackupType
    BY <1>2 DEF Backup, TrustInv, TypeOK, PhaseOK, Promoting
  <2> DEFINE a == Artifact[run.step]
  <2>5. disk' = [disk EXCEPT ![a] = None, !.backup.old[a] = disk[a]]
    BY <1>2 DEF Backup
  <2>6. a \in Stores /\ disk.backup # None
    BY <2>4, ArtifactOrder, AbsenceAssumption
  <2> HIDE DEF a
  <2>7. disk'.incarnation \in {disk.incarnation, None}
    BY <2>1, <2>5, <2>6 DEF DiskType, Stores
  <2>8. disk'.backup.old.incarnation \in {disk.backup.old.incarnation, disk.incarnation}
    <3>1. disk'.backup = [disk.backup EXCEPT !.old[a] = disk[a]]
      BY <2>1, <2>5, <2>6 DEF DiskType, Stores
    <3>2. disk'.backup.old = [disk.backup.old EXCEPT ![a] = disk[a]]
      BY <2>4, <3>1 DEF BackupType
    <3>3. disk.backup.old \in StoresType
      BY <2>4 DEF BackupType
    <3>q. QED
      BY <3>2, <3>3 DEF StoresType
  <2>9. GivenOut(h)'
    BY <2>2, <2>6, <2>7, <2>8 DEF NamesInv, GivenOut
  <2>q. QED
    BY <2>1, <2>3, <2>9, NothingNamedNext, NamesBehindMarker
<1>q. QED
  BY <1>1, <1>2

\* ... and brings a new one before it brings a store.
LEMMA NamesPromote ==
  ASSUME TrustInv, NEW h, NamesInv(h), TypeOK', NEW i \in Indexers, Promote(i)
  PROVE  NamesInv(h)'
<1>1. /\ Phase = "promote" /\ disk'.incomplete # None /\ disk \in DiskType /\ run \in RunType
      /\ nextInc \in Nat
  BY PromotionStays DEF Promote, TrustInv, TypeOK, OthersOK
<1>2. run.step \in 1 .. 4
  BY DEF Promote, TrustInv, TypeOK, PhaseOK
<1> DEFINE a == Artifact[run.step]
           v == Staged(a)
<1>3. /\ disk' = [disk EXCEPT ![a] = v, !.backup = IF run.step = 4 THEN None ELSE @]
      /\ nextInc' = IF a = "incarnation" THEN nextInc + 1 ELSE nextInc
  BY DEF Promote
<1>4. /\ run.step = 1 => a = "incarnation" /\ v = nextInc + 1
      /\ run.step # 1 => a \in {"sqlite", "tantivy", "vectors"}
  BY <1>2 DEF Artifact, Staged
<1> HIDE DEF a, v
<1>5. disk'.backup \in {disk.backup, None}
  BY <1>1, <1>2, <1>3, <1>4 DEF DiskType
<1>6. disk.backup # None /\ disk.backup.old.incarnation # None
         => disk.backup.old.incarnation \in Nat
  BY <1>1 DEF DiskType, BackupType, StoresType
<1>7. Phase' = "metadata" \/ (Phase' = "promote" /\ run'.step > 1)
  <2>1. CASE run.step < 4
    <3>1. pc'[i] = "promote" /\ run'.step = run.step + 1
      BY <1>1, <2>1 DEF Promote, Goto, TrustInv, TypeOK, LockOK, RunType
    <3>q. QED
      BY <1>2, <3>1, HolderNext
  <2>2. CASE ~(run.step < 4)
    <3>1. pc'[i] = "metadata"
      BY <2>2 DEF Promote, Goto, TrustInv, TypeOK, LockOK
    <3>q. QED
      BY <3>1, HolderNext
  <2>q. QED
    BY <2>1, <2>2
<1>9. GivenOut(h)' /\ ~SameIndex(h)' /\ disk'.incarnation # None
  <2>1. CASE run.step = 1
    <3>1. disk'.incarnation = nextInc + 1 /\ nextInc' = nextInc + 1
      BY <1>1, <1>3, <1>4, <2>1 DEF DiskType
    <3>2. nextInc + 1 \in Nat
      BY <1>1
    <3>3. disk'.incarnation # None
      BY <3>1, <3>2, AbsenceAssumption
    <3>4. h # None => h.id.inc \in Nat /\ h.id.inc < nextInc + 1
      BY <1>1 DEF NamesInv, GivenOut
    <3>5. disk'.backup # None /\ disk'.backup.old.incarnation # None
             => disk'.backup.old.incarnation <= nextInc + 1
      BY <1>1, <1>5, <1>6 DEF NamesInv, GivenOut
    <3>6. h # None => h.id.gen \in Nat
      BY DEF NamesInv, GivenOut
    <3>7. GivenOut(h)'
      BY <1>1, <3>1, <3>4, <3>5, <3>6 DEF GivenOut
    <3>8. ~SameIndex(h)'
      BY <1>1, <3>1, <3>4 DEF SameIndex
    <3>q. QED
      BY <3>3, <3>7, <3>8
  <2>2. CASE run.step # 1
    <3>1. disk'.incarnation = disk.incarnation
      BY <1>1, <1>3, <1>4, <2>2 DEF DiskType
    <3>2. nextInc' = nextInc /\ run.step > 1
      <4>1. a # "incarnation"
        BY <1>4, <2>2
      <4>2. nextInc' = nextInc
        BY <1>3, <4>1
      <4>3. run.step > 1
        BY <1>2, <2>2
      <4>q. QED
        BY <4>2, <4>3
    <3>3. GivenOut(h)'
      BY <1>5, <3>1, <3>2 DEF NamesInv, GivenOut
    <3>4. ~SameIndex(h)' /\ disk'.incarnation # None
      BY <1>1, <3>1, <3>2 DEF SameIndex, NamesInv, Renamed, Incarnate
    <3>q. QED
      BY <3>3, <3>4
  <2>q. QED
    BY <2>1, <2>2
<1>10. Incarnate' /\ Renamed(h)'
  BY <1>7, <1>9 DEF Incarnate, Renamed, Updating
<1>q. QED
  BY <1>1, <1>9, <1>10, NamesBehindMarker

\* A rollback brings back an incarnation that was given out before.
LEMMA NamesRollback ==
  ASSUME TrustInv, NEW h, NamesInv(h), TypeOK', NEW i \in Indexers,
         \/ BackupFails(i) \/ PromoteFails(i)
         \/ Unpromote(i) \/ Restore(i) \/ RollbackFails(i)
  PROVE  NamesInv(h)'
<1>1. /\ disk'.incomplete # None /\ disk \in DiskType /\ run \in RunType
      /\ lock = i /\ Phase = pc[i] /\ pc[i] \in Promoting
  BY PromotionStays
<1>2. Phase' \in {"unpromote", "restore", "unlock"}
  <2>1. pc'[i] \in {"unpromote", "restore", "unlock"}
    BY DEF BackupFails, PromoteFails, Unpromote, Restore, RollbackFails, Goto,
       TrustInv, TypeOK, LockOK
  <2>q. QED
    BY <2>1, HolderNext
<1>3. nextInc' = nextInc
  BY DEF BackupFails, PromoteFails, Unpromote, Restore, RollbackFails
<1>4. disk.backup \in BackupType /\ disk.backup # None /\ disk.backup.old \in StoresType
  <2>1. disk.backup \in BackupType
    BY <1>1 DEF TrustInv, TypeOK, PhaseOK
  <2>q. QED
    BY <2>1, AbsenceAssumption DEF BackupType
<1>5. run.step \in 0 .. 4
  BY <1>1 DEF RunType
<1>6. GivenOut(h)'
  <2>1. CASE BackupFails(i) \/ PromoteFails(i)
    BY <1>3, <2>1 DEF BackupFails, PromoteFails, NamesInv, GivenOut
  <2>2. CASE RollbackFails(i)
    <3>1. disk'.incarnation = disk.incarnation
          /\ disk'.backup = [disk.backup EXCEPT !.retained = TRUE]
      BY <1>1, <2>2 DEF RollbackFails, DiskType
    <3>2. disk'.backup.old = disk.backup.old
      BY <1>4, <3>1 DEF BackupType
    <3>q. QED
      BY <1>3, <1>4, <3>1, <3>2 DEF NamesInv, GivenOut
  <2>3. CASE Unpromote(i)
    <3>1. disk'.incarnation \in {disk.incarnation, None} /\ disk'.backup = disk.backup
      <4>1. run.step # 0 => Artifact[run.step] \in Stores
        BY <1>5, ArtifactOrder
      <4>q. QED
        BY <1>1, <2>3, <4>1 DEF Unpromote, DiskType, Stores
    <3>q. QED
      BY <1>3, <3>1 DEF NamesInv, GivenOut
  <2>4. CASE Restore(i) /\ run.step = 0
    <3>1. disk'.incarnation = disk.incarnation /\ disk'.backup = None
      BY <1>1, <2>4 DEF Restore, DiskType
    <3>q. QED
      BY <1>3, <3>1 DEF NamesInv, GivenOut
  <2>5. CASE Restore(i) /\ run.step # 0
    <3> DEFINE a == Artifact[run.step]
               v == disk.backup.old[a]
    <3>1. disk' = [disk EXCEPT ![a] = v, !.backup.old[a] = None]
      BY <2>5 DEF Restore
    <3>2. a \in Stores
      BY <1>5, <2>5, ArtifactOrder
    <3>3. a = "incarnation" => v = disk.backup.old.incarnation
      OBVIOUS
    <3> HIDE DEF a, v
    <3>4. disk'.incarnation \in {disk.incarnation, disk.backup.old.incarnation}
      BY <1>1, <3>1, <3>2, <3>3 DEF DiskType, Stores
    <3>5. disk'.backup = [disk.backup EXCEPT !.old[a] = None]
      BY <1>1, <3>1, <3>2 DEF DiskType, Stores
    <3>6. disk'.backup.old = [disk.backup.old EXCEPT ![a] = None]
      BY <1>4, <3>5 DEF BackupType
    <3>7. disk'.backup.old.incarnation \in {disk.backup.old.incarnation, None}
      BY <1>4, <3>6 DEF StoresType
    <3>q. QED
      BY <1>3, <1>4, <3>4, <3>7 DEF NamesInv, GivenOut
  <2>q. QED
    BY <2>1, <2>2, <2>3, <2>4, <2>5
<1>q. QED
  BY <1>1, <1>2, <1>6, NothingNamedNext, NamesBehindMarker

\* The generation goes up before the marker goes away.
LEMMA NamesWriteMetadata ==
  ASSUME TrustInv, NEW h, NamesInv(h), TypeOK', NEW i \in Indexers, WriteMetadata(i)
  PROVE  NamesInv(h)'
<1>1. /\ lock = i /\ Phase = "metadata" /\ disk \in DiskType
  BY Holder DEF TrustInv, WriteMetadata
<1>2. nextInc' = nextInc /\ pc'[i] = "format"
  BY DEF WriteMetadata, Goto, TrustInv, TypeOK, LockOK
<1> DEFINE m == [gen |-> EarlyMeta.gen + 1, done |-> TRUE]
<1>3. disk' = [disk EXCEPT !.meta = m]
  BY DEF WriteMetadata
<1>4. m.gen = EarlyMeta.gen + 1 /\ m.done
  OBVIOUS
<1> HIDE DEF m
<1>5. /\ disk'.incarnation = disk.incarnation /\ disk'.meta = m
      /\ disk'.incomplete = disk.incomplete /\ disk'.backup = disk.backup
  BY <1>1, <1>3 DEF DiskType
<1>6. disk.incomplete # None
  BY <1>1 DEF TrustInv, Marked, Publishing
<1>7. Phase' = "format"
  BY <1>2, HolderNext
<1>8. m # None
  <2>1. EarlyMeta.gen \in Nat
    BY <1>1 DEF EarlyMeta, DiskType, Metas
  <2>2. m \in Metas
    BY <2>1 DEF m, Metas
  <2>q. QED
    BY <2>2, AbsenceAssumption
<1>9. SameIndex(h) => disk.meta # None /\ disk.meta.gen >= h.id.gen /\ h.id.gen \in Nat
  BY <1>1 DEF NamesInv, Renamed, GivenOut, SameIndex
<1>10. SameIndex(h) => m.gen > h.id.gen
  <2>1. disk.meta # None => disk.meta.gen \in Nat
    BY <1>1 DEF DiskType, Metas
  <2>2. disk.meta # None => m.gen = disk.meta.gen + 1
    BY <1>4 DEF EarlyMeta
  <2>q. QED
    BY <1>9, <2>1, <2>2
<1>11. Incarnate'
  BY <1>1, <1>5 DEF NamesInv, Incarnate, Working
<1>12. Renamed(h)'
  BY <1>2, <1>4, <1>5, <1>7, <1>8, <1>10 DEF Renamed, Updating, SameIndex
<1>13. GivenOut(h)'
  BY <1>2, <1>5 DEF NamesInv, GivenOut
<1>q. QED
  BY <1>5, <1>6, <1>11, <1>12, <1>13, NamesBehindMarker

\* Format version and snapshot come behind the marker, too.
LEMMA NamesPublish ==
  ASSUME TrustInv, NEW h, NamesInv(h), TypeOK', NEW i \in Indexers, WriteFormat(i) \/ SaveSnapshot(i)
  PROVE  NamesInv(h)'
<1>1. /\ lock = i /\ Phase \in {"format", "snapshot"} /\ disk \in DiskType
  BY Holder DEF TrustInv, WriteFormat, SaveSnapshot
<1>2. nextInc' = nextInc /\ pc'[i] \in {"snapshot", "settle"}
  BY DEF WriteFormat, SaveSnapshot, Goto, TrustInv, TypeOK, LockOK
<1>3. /\ disk'.incarnation = disk.incarnation /\ disk'.meta = disk.meta
      /\ disk'.incomplete = disk.incomplete /\ disk'.backup = disk.backup
  BY <1>1 DEF WriteFormat, SaveSnapshot, DiskType
<1>4. disk.incomplete # None
  BY <1>1 DEF TrustInv, Marked, Publishing
<1>5. Phase' \in {"snapshot", "settle"}
  BY <1>2, HolderNext
<1>6. Incarnate'
  BY <1>1, <1>3 DEF NamesInv, Incarnate, Working
<1>7. /\ SameIndex(h) => disk.meta.gen > h.id.gen
      /\ disk.meta # None /\ disk.meta.done
  BY <1>1 DEF NamesInv, Renamed
<1>8. Renamed(h)'
  BY <1>2, <1>3, <1>5, <1>7 DEF Renamed, Updating, SameIndex
<1>9. GivenOut(h)'
  BY <1>2, <1>3 DEF NamesInv, GivenOut
<1>q. QED
  BY <1>3, <1>4, <1>6, <1>8, <1>9, NamesBehindMarker

\* What a run that ends well publishes has a name of its own, unless it is what
\* was published under that name before.
LEMMA SettledIsNamed ==
  ASSUME TrustInv, NEW h, NamesInv(h), NEW i \in Indexers, pc[i] = "settle"
  PROVE  /\ disk.incarnation \in Nat /\ disk.incarnation <= nextInc
         /\ disk.sqlite \in Content /\ disk.meta # None /\ Identity = [inc |-> disk.incarnation, gen |-> disk.meta.gen]
         /\ h # None /\ Identity = h.id => disk.sqlite = h.content
<1>1. lock = i /\ lock # None /\ Phase = "settle" /\ disk \in DiskType
  BY Holder DEF TrustInv
<1>2. ~Removing /\ disk.sqlite # None /\ disk.sqlite \in Content
  BY <1>1 DEF TrustInv, Vouched, Marked, DiskType
<1>3. disk.incarnation # None
  BY <1>1 DEF NamesInv, Incarnate, Working
<1>4. disk.incarnation \in Nat /\ disk.incarnation <= nextInc
  BY <1>1, <1>3 DEF NamesInv, GivenOut, DiskType
<1>5. /\ disk.meta # None /\ disk.meta.done
      /\ disk.incomplete # None => (SameIndex(h) => disk.meta.gen > h.id.gen)
  BY <1>1 DEF NamesInv, Renamed
<1>6. Identity = [inc |-> disk.incarnation, gen |-> disk.meta.gen]
  BY <1>5 DEF Identity
<1>7. ASSUME h # None, Identity = h.id
      PROVE  disk.sqlite = h.content
  <2>1. h.id.inc = disk.incarnation /\ h.id.gen = disk.meta.gen
    BY <1>6, <1>7
  <2>2. h.id.gen \in Nat
    BY <1>7 DEF NamesInv, GivenOut
  <2>3. SameIndex(h) /\ disk.incomplete = None
    BY <1>5, <1>7, <2>1, <2>2 DEF SameIndex
  <2>q. QED
    BY <1>2, <1>5, <2>1, <2>3 DEF NamesInv, UnmarkedNamed
<1>q. QED
  BY <1>2, <1>4, <1>5, <1>6, <1>7

\* The marker goes away: what was published before keeps its name.
LEMMA NamesClearMarker ==
  ASSUME TrustInv, NEW h, NamesInv(h), TypeOK', NEW i \in Indexers, ClearMarker(i)
  PROVE  NamesInv(h)'
<1>1. lock = i /\ lock # None /\ Phase = "settle" /\ disk \in DiskType /\ pc[i] = "settle"
  BY Holder DEF TrustInv, ClearMarker
<1>2. /\ nextInc' = nextInc /\ pc'[i] = "unlock" /\ lock' = lock /\ run' = run
  BY DEF ClearMarker, Goto, TrustInv, TypeOK, LockOK
<1>3. /\ disk'.incarnation = disk.incarnation /\ disk'.meta = disk.meta
      /\ disk'.sqlite = disk.sqlite /\ disk'.backup = disk.backup
  BY <1>1 DEF ClearMarker, DiskType
<1>4. Phase' = "unlock" /\ ~Removing
  BY <1>1, <1>2, HolderNext DEF TrustInv, Vouched
<1>5. disk.meta # None /\ disk.meta.gen \in Nat
  BY <1>1 DEF NamesInv, Renamed, DiskType, Metas
<1>6. SameIndex(h) /\ disk.incomplete # None => disk.meta.gen > h.id.gen /\ h.id.gen \in Nat
  BY <1>1 DEF NamesInv, Renamed, GivenOut, SameIndex
<1>7. GivenOut(h)'
  BY <1>2, <1>3 DEF NamesInv, GivenOut
<1>8. UnmarkedNamed(h)'
  BY <1>3, <1>4, <1>5, <1>6 DEF NamesInv, UnmarkedNamed, SameIndex
<1>q. QED
  BY <1>4, <1>7, <1>8, NothingNamedNext DEF NamesInv

\* The marker goes away: the index now has the name of this publication.
LEMMA NamesNewest ==
  ASSUME TrustInv, NEW h, NamesInv(h), TypeOK', NEW i \in Indexers, ClearMarker(i),
         NEW g, g = [id |-> Identity, content |-> disk.sqlite]
  PROVE  NamesInv(g)'
<1>1. lock = i /\ Phase = "settle" /\ disk \in DiskType /\ pc[i] = "settle"
  BY Holder DEF TrustInv, ClearMarker
<1>2. nextInc' = nextInc /\ pc'[i] = "unlock"
  BY DEF ClearMarker, Goto, TrustInv, TypeOK, LockOK
<1>3. /\ disk'.incarnation = disk.incarnation /\ disk'.meta = disk.meta
      /\ disk'.sqlite = disk.sqlite /\ disk'.backup = disk.backup
  BY <1>1 DEF ClearMarker, DiskType
<1>4. /\ disk.incarnation \in Nat /\ disk.incarnation <= nextInc
      /\ disk.meta # None /\ Identity = [inc |-> disk.incarnation, gen |-> disk.meta.gen]
  BY <1>1, SettledIsNamed
<1>5. disk.meta.gen \in Nat
  BY <1>1, <1>4 DEF DiskType, Metas
<1>6. /\ g.id.inc = disk.incarnation /\ g.id.gen = disk.meta.gen
      /\ g.content = disk.sqlite
  BY <1>4
<1>7. Phase' = "unlock"
  BY <1>2, HolderNext
<1>8. GivenOut(g)'
  BY <1>2, <1>3, <1>4, <1>5, <1>6 DEF NamesInv, GivenOut
<1>9. UnmarkedNamed(g)'
  BY <1>3, <1>5, <1>6 DEF UnmarkedNamed
<1>q. QED
  BY <1>7, <1>8, <1>9, NothingNamedNext DEF NamesInv

\* An error ends a run, or has it start over.
LEMMA NamesFail ==
  ASSUME TrustInv, NEW h, NamesInv(h), TypeOK', NEW i \in Indexers, Fail(i) \/ RetryTantivy(i)
  PROVE  NamesInv(h)'
<1>1. /\ lock = i /\ lock # None /\ Phase = pc[i] /\ Phase \in Working /\ run \in RunType
  BY Holder DEF TrustInv, Fail, RetryTantivy, Working
<1>2. disk' = disk /\ nextInc' = nextInc /\ lock' = lock
  BY DEF Fail, RetryTantivy
<1>3. ~Removing
  BY <1>1 DEF TrustInv, Vouched, Working
<1>4. pc'[i] \in {"unlock", "scan"}
  BY DEF Fail, RetryTantivy, Goto, TrustInv, TypeOK, LockOK
<1>5. Phase' \in {"unlock", "scan"}
  BY <1>4, HolderNext
<1>6. Incarnate' /\ Renamed(h)'
  BY <1>1, <1>2, <1>5 DEF NamesInv, Incarnate, Renamed, Updating, Working
<1>q. QED
  BY <1>2, <1>3, <1>6, NamesLeft

\* What the names need of a step.
Orderly == ~RemovalCutShort /\ ~StaleAdd

\* Every such step keeps the names.
LEMMA NamesStep ==
  ASSUME TrustInv, NEW h, NamesInv(h), [Next]_vars, Orderly \/ UNCHANGED vars
  PROVE  NamesInv(h)'
<1>1. TypeOK'
  BY TypeStep DEF TrustInv
<1>2. CASE UNCHANGED vars
  BY <1>2 DEF vars, NamesInv, GivenOut, Incarnate, UnmarkedNamed, Renamed, SameIndex, Removing,
     Updating, Phase
<1>3. CASE Others /\ Orderly
  BY <1>1, <1>3, NamesBystander DEF Bystander, Orderly
<1>4. ASSUME NEW i \in Indexers, Acquire(i) \/ AcquireRemove(i) PROVE NamesInv(h)'
  BY <1>1, <1>4, NamesBegins
<1>5. ASSUME NEW i \in Indexers, Step(i), Orderly PROVE NamesInv(h)'
  <2>1. CASE DropGuard(i)
    BY <1>1, <1>5, <2>1, NamesBystander DEF Bystander, Orderly
  <2>q. QED
    BY <1>1, <1>5, <2>1, NamesInspect, NamesWipe, NamesWipeDone, NamesIdentify,
       NamesAnnounce, NamesShortcut, NamesScanIncremental, NamesScanFresh, NamesUpdate,
       NamesPersistPath, NamesBackup, NamesPromote, NamesRollback, NamesWriteMetadata,
       NamesPublish, NamesClearMarker, NamesEnds DEF Step, Orderly
<1>6. ASSUME NEW i \in Indexers, Failure(i), Orderly PROVE NamesInv(h)'
  <2>1. CASE Crash(i) /\ lock # i
    BY <1>1, <1>6, <2>1, NamesBystander DEF Bystander, Orderly
  <2>q. QED
    BY <1>1, <1>6, <2>1, NamesRollback, NamesFail, NamesEnds DEF Failure, Orderly
<1>q. QED
  BY <1>2, <1>3, <1>4, <1>5, <1>6 DEF Next

\* Every publication so far has its name.
Named ==
    /\ None \notin settled
    /\ IdentityIsName
    /\ \A h \in settled \cup {None} : NamesInv(h)

\* Only the end of a run that went well adds to the publications.
LEMMA HistoryGrows ==
  ASSUME Next, \A i \in Indexers : ~ClearMarker(i)
  PROVE  settled' = settled
<1>1. CASE Others
  BY <1>1 DEF Others, ReaderSeesStalePid, ReaderUnlinksPid, AddReads, AddWrites, Upgrade, Edit,
     Return, index
<1>2. CASE \E i \in Indexers : Acquire(i) \/ AcquireRemove(i) \/ Failure(i)
  BY <1>2 DEF Acquire, AcquireRemove, Failure, BackupFails, PromoteFails, RollbackFails,
     FailEarly, Fail, RetryTantivy, Crash
<1>3. ASSUME NEW i \in Indexers, Step(i) PROVE settled' = settled
  BY <1>3 DEF Step, Inspect, Wipe, WipeDone, Identify, Announce, TrustWatcher, ScanNoOp,
     ScanIncremental, ScanFresh, MarkIncremental, PersistPath, CommitSqlite, CommitTantivy,
     MarkPromotion, Backup, Promote, Unpromote, Restore, WriteMetadata, WriteFormat,
     SaveSnapshot, Unlock, DropGuard
<1>q. QED
  BY <1>1, <1>2, <1>3 DEF Next

\* A metadata write that brings back an old generation is remembered.
LEMMA RewindIsSeen ==
  ASSUME TrustInv, Next, ~rewound' PROVE ~rewound /\ ~StaleAdd
<1>1. ASSUME Others, rewound PROVE rewound'
  <2>1. CASE AddWrites
    BY <1>1, <2>1, Zenon DEF AddWrites
  <2>2. CASE Others /\ ~AddWrites
    BY <1>1, <2>2 DEF Others, ReaderSeesStalePid, ReaderUnlinksPid, AddReads, Upgrade, Edit,
       Return, index, outside
  <2>q. QED
    BY <1>1, <2>1, <2>2
<1>2. ASSUME NEW i \in Indexers, Acquire(i) \/ AcquireRemove(i) \/ Failure(i)
      PROVE  rewound' = rewound /\ add' = add
  BY <1>2 DEF Acquire, AcquireRemove, Failure, BackupFails, PromoteFails, RollbackFails,
     FailEarly, Fail, RetryTantivy, Crash, outside
<1>3. ASSUME NEW i \in Indexers, Step(i) PROVE rewound' = rewound /\ add' = add
  BY <1>3 DEF Step, Inspect, Wipe, WipeDone, Identify, Announce, TrustWatcher, ScanNoOp,
     ScanIncremental, ScanFresh, MarkIncremental, PersistPath, CommitSqlite, CommitTantivy,
     MarkPromotion, Backup, Promote, Unpromote, Restore, WriteMetadata, WriteFormat,
     SaveSnapshot, ClearMarker, Unlock, DropGuard, outside
<1>4. StaleAdd => rewound'
  BY Zenon DEF StaleAdd, AddWrites
<1>q. QED
  BY <1>1, <1>2, <1>3, <1>4 DEF Next

\* A step keeps every name, and a new publication gets one of its own.
LEMMA NamedStep ==
  ASSUME TrustInv, Named, [Next]_vars, Orderly \/ UNCHANGED vars
  PROVE  Named'
<1>1. \A h \in settled \cup {None} : NamesInv(h)'
  BY NamesStep DEF Named
<1>2. CASE settled' = settled
  BY <1>1, <1>2 DEF Named, IdentityIsName
<1>3. CASE settled' # settled
  <2>1. Next /\ TypeOK'
    BY <1>3, TypeStep DEF vars, TrustInv
  <2>2. PICK i \in Indexers : ClearMarker(i)
    BY <1>3, <2>1, HistoryGrows
  <2> DEFINE g == [id |-> Identity, content |-> disk.sqlite]
  <2>3. settled' = settled \cup {g} /\ pc[i] = "settle"
    BY <2>2 DEF ClearMarker
  <2>4. ASSUME NEW c, c = g PROVE NamesInv(c)'
    BY <2>1, <2>2, <2>4, NamesNewest DEF Named
  <2>5. None \in settled \cup {None} /\ NamesInv(None)
    BY DEF Named
  <2>6. ASSUME NEW h \in settled PROVE Identity = h.id => disk.sqlite = h.content
    <3>1. NamesInv(h) /\ h # None
      BY DEF Named
    <3>q. QED
      BY <2>3, <3>1, SettledIsNamed
  <2>7. g \in [id : [inc : Nat, gen : Nat], content : Content]
    <3>1. /\ disk.incarnation \in Nat /\ disk.sqlite \in Content /\ disk.meta # None
          /\ Identity = [inc |-> disk.incarnation, gen |-> disk.meta.gen]
      BY <2>3, <2>5, SettledIsNamed
    <3>2. disk.meta.gen \in Nat
      BY <3>1 DEF TrustInv, TypeOK, DiskType, Metas
    <3>q. QED
      BY <3>1, <3>2
  <2>8. g # None /\ g.id = Identity /\ g.content = disk.sqlite
    BY <2>7, AbsenceAssumption
  <2> HIDE DEF g
  <2>9. None \notin settled'
    BY <2>3, <2>8 DEF Named
  <2>10. IdentityIsName'
    BY <2>3, <2>6, <2>8 DEF Named, IdentityIsName
  <2>11. \A h \in settled' \cup {None} : NamesInv(h)'
    BY <1>1, <2>3, <2>4
  <2>q. QED
    BY <2>9, <2>10, <2>11 DEF Named
<1>q. QED
  BY <1>2, <1>3

\* As long as no removal is cut short, and up to the moment at which an `ig --add`
\* writes back metadata that has changed since it read it (run_add), incarnation
\* and generation never name two of all the contents that were published: an
\* overlay that recorded them (base_ref.json), however long ago, is right to take
\* the index for the one it saw, whatever crashed, failed, was rolled back or
\* was removed and built anew in between.
THEOREM IdentityIsUnique ==
  Spec /\ [][~RemovalCutShort]_vars => []IdentityNamesContent
<1> DEFINE NInv == TrustInv /\ (~rewound => Named)
<1>1. Init => NInv
  BY TrustInit, NamesInit DEF Named, IdentityIsName, Init
<1>2. NInv /\ [Next]_vars /\ [~RemovalCutShort]_vars => NInv'
  <2>1. SUFFICES ASSUME NInv, [Next]_vars, [~RemovalCutShort]_vars PROVE NInv'
    OBVIOUS
  <2>2. TrustInv'
    BY <2>1, TrustStep
  <2>3. CASE UNCHANGED vars
    <3>1. rewound' = rewound
      BY <2>3 DEF vars
    <3>q. QED
      BY <2>1, <2>2, <2>3, <3>1, NamedStep
  <2>4. CASE Next /\ ~RemovalCutShort
    BY <2>1, <2>2, <2>4, RewindIsSeen, NamedStep DEF Orderly
  <2>q. QED
    BY <2>1, <2>3, <2>4
<1>3. NInv => IdentityNamesContent
  BY DEF Named, IdentityNamesContent
<1>q. QED
  BY <1>1, <1>2, <1>3, PTL DEF Spec
===============================================================================
