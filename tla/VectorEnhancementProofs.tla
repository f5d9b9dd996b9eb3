------------------------ MODULE VectorEnhancementProofs ------------------------
(***************************************************************************)
(* StaleIsJournalled, HashComplete, ModelNamed and NeuralComplete of       *)
(* VectorEnhancement, for any keys, workers and models and any number of   *)
(* runs, faults and changes of the configured model.                       *)
(***************************************************************************)
EXTENDS VectorEnhancement, FiniteSetTheorems, TLAPS

\* A published index of an empty tree is well typed.
LEMMA TypeInit == Init => TypeOK
<1> SUFFICES ASSUME Init PROVE TypeOK
  OBVIOUS
<1>1. Idle \in WorkerType
  BY NamesAssumption DEF Idle, WorkerType, Tier
<1>2. worker \in [Workers -> WorkerType] /\ \A w \in Workers : worker[w].pc = "idle"
  BY <1>1 DEF Init, Idle
<1>3. configured \in Models
  BY NamesAssumption DEF Init
<1>4. budget \in BudgetType
  BY BoundsAssumption DEF Init
<1>5. /\ store \in [Tier -> (SUBSET Keys) \cup {None}]
      /\ pending \in [Tier -> (SUBSET Keys) \cup {None}]
      /\ processing \in [Tier -> (SUBSET Keys) \cup {None}]
      /\ mark \in [Tier -> Nat]
  BY DEF Init
<1>6. /\ ix.pc = "idle" /\ ilock # Indexer
      /\ \A w \in Workers : ilock # w /\ wlock # w
      /\ ix \in [pc : {"idle", "replace", "update", "journal", "commit",
                     "metadata", "clear"}, tx : SUBSET Keys]
  BY NamesAssumption DEF Init
<1>8. job \in [owner : Workers \cup {None}, refused : BOOLEAN] /\ survived = {}
  BY DEF Init
<1>7. QED
  BY <1>2, <1>3, <1>4, <1>5, <1>6, <1>8 DEF Init, TypeOK, Outside

\* A budget stays a budget.
LEMMA SpendType ==
    ASSUME TypeOK, NEW kind \in {"runs", "faults", "config"}, Spend(kind)
    PROVE  budget' \in BudgetType
BY DEF TypeOK, Spend, BudgetType

\* The steps of an index run keep the types and the locks.
LEMMA IndexType == TypeOK /\ (IndexStep \/ IxFails) => TypeOK'
<1> SUFFICES ASSUME TypeOK, IndexStep \/ IxFails PROVE TypeOK'
  OBVIOUS
<1> USE NamesAssumption
<1>1. CASE IxBegin
  <2>1. budget' \in BudgetType
    BY <1>1, SpendType DEF IxBegin
  <2>2. QED
    BY <1>1, <2>1 DEF IxBegin, IxGoto, TypeOK, disk, workers
<1>2. CASE IxReplace
  <2>1. /\ store' \in [Tier -> (SUBSET Keys) \cup {None}]
        /\ pending' \in [Tier -> (SUBSET Keys) \cup {None}]
        /\ processing' \in [Tier -> (SUBSET Keys) \cup {None}]
        /\ mark' \in [Tier -> Nat]
    BY <1>2 DEF IxReplace, TypeOK
  <2>4. sqlite' \in SUBSET Keys /\ gen' \in Nat /\ inc' \in Nat
    BY <1>2 DEF IxReplace, TypeOK
  <2>2. ix' \in [pc : {"idle", "replace", "update", "journal", "commit",
                     "metadata", "clear"}, tx : SUBSET Keys] /\ ix'.pc = "metadata"
    BY <1>2 DEF IxReplace, IxGoto, TypeOK
  <2>3. QED
    BY <1>2, <2>1, <2>2, <2>4 DEF IxReplace, TypeOK, workers
<1>3. CASE IxTransaction
  <2>1. PICK keys \in SUBSET Keys : /\ Append("hash", sqlite \ keys)
                                    /\ ix' = [ix EXCEPT !.pc = "journal", !.tx = keys]
    BY <1>3 DEF IxTransaction
  <2>2. pending' \in [Tier -> (SUBSET Keys) \cup {None}]
    BY <2>1 DEF Append, KeysOf, TypeOK
  <2>3. ix' \in [pc : {"idle", "replace", "update", "journal", "commit",
                     "metadata", "clear"}, tx : SUBSET Keys] /\ ix'.pc = "journal"
    BY <2>1 DEF TypeOK
  <2>4. QED
    BY <1>3, <2>2, <2>3 DEF IxTransaction, TypeOK, workers
<1>4. CASE IxJournalNeural
  <2>1. pending' \in [Tier -> (SUBSET Keys) \cup {None}]
    BY <1>4 DEF IxJournalNeural, Append, KeysOf, TypeOK
  <2>2. ix' \in [pc : {"idle", "replace", "update", "journal", "commit",
                     "metadata", "clear"}, tx : SUBSET Keys] /\ ix'.pc = "commit"
    BY <1>4 DEF IxJournalNeural, IxGoto, TypeOK
  <2>3. QED
    BY <1>4, <2>1, <2>2 DEF IxJournalNeural, TypeOK, workers
<1>5. CASE IxCommit
  BY <1>5 DEF IxCommit, TypeOK, disk, workers
<1>6. CASE IxMetadata
  BY <1>6 DEF IxMetadata, IxGoto, TypeOK, disk, workers
<1>7. CASE IxClear
  <2>1. ix' \in [pc : {"idle", "replace", "update", "journal", "commit",
                     "metadata", "clear"}, tx : SUBSET Keys] /\ ix'.pc = "idle"
    BY <1>7 DEF IxClear
  <2>2. ilock = Indexer /\ ilock' = None
    BY <1>7 DEF IxClear, TypeOK
  <2>3. \A w \in Workers :
          /\ worker'[w].pc \in {"reset", "claim", "release", "mark"} <=> ilock' = w
          /\ worker'[w].pc \notin Outside <=> wlock' = w
    BY <1>7, <2>2 DEF IxClear, TypeOK, workers
  <2>4. QED
    BY <1>7, <2>1, <2>2, <2>3 DEF IxClear, TypeOK, disk, workers
<1>8. CASE IxFails
  <2>1. budget' \in BudgetType
    BY <1>8, SpendType DEF IxFails
  <2>2. pending' \in [Tier -> (SUBSET Keys) \cup {None}]
    BY <1>8 DEF IxFails, Append, KeysOf, TypeOK
  <2>3. ix' \in [pc : {"idle", "replace", "update", "journal", "commit",
                     "metadata", "clear"}, tx : SUBSET Keys] /\ ix'.pc = "idle"
    BY <1>8 DEF IxFails
  <2>4. QED
    BY <1>8, <2>1, <2>2, <2>3 DEF IxFails, TypeOK, workers
<1>9. QED
  BY <1>1, <1>2, <1>3, <1>4, <1>5, <1>6, <1>7, <1>8 DEF IndexStep

\* A removal that fails, or a worker that does.
Failing(w) == ResetIgnores(w) \/ WorkerFails(w)

\* A worker's record is replaced by one of the right type, which says truly
\* which locks it holds.
LEMMA WorkerMoves ==
    ASSUME TypeOK, NEW w \in Workers, NEW rec \in WorkerType, Set(w, rec),
           UNCHANGED index, UNCHANGED configured,
           store' \in [Tier -> (SUBSET Keys) \cup {None}],
           pending' \in [Tier -> (SUBSET Keys) \cup {None}],
           processing' \in [Tier -> (SUBSET Keys) \cup {None}],
           mark' \in [Tier -> Nat],
           model' \in Models \cup {None}, made' \in SUBSET Models,
           job' \in [owner : Workers \cup {None}, refused : BOOLEAN],
           survived' \subseteq {"store", "mark"},
           budget' \in BudgetType,
           rec.pc \in {"reset", "claim", "release", "mark"} <=> ilock' = w,
           rec.pc \notin Outside <=> wlock' = w,
           ilock' = ilock \/ ilock = None \/ (ilock = w /\ ilock' = None),
           ilock' \in {ilock, w, None},
           wlock' = wlock \/ (wlock = None /\ wlock' = w) \/ (wlock = w /\ wlock' = None)
    PROVE  TypeOK'
<1> USE NamesAssumption
<1>1. worker' \in [Workers -> WorkerType]
  BY DEF Set, TypeOK
<1>2. \A x \in Workers : worker'[x] = IF x = w THEN rec ELSE worker[x]
  BY DEF Set, TypeOK
<1>3. \A x \in Workers :
          /\ worker'[x].pc \in {"reset", "claim", "release", "mark"} <=> ilock' = x
          /\ worker'[x].pc \notin Outside <=> wlock' = x
  <2> SUFFICES ASSUME NEW x \in Workers
               PROVE  /\ worker'[x].pc \in {"reset", "claim", "release", "mark"} <=> ilock' = x
                      /\ worker'[x].pc \notin Outside <=> wlock' = x
    OBVIOUS
  <2>1. CASE x = w
    BY <2>1, <1>2
  <2>2. CASE x # w
    <3>1. worker'[x] = worker[x]
      BY <2>2, <1>2
    <3>2. (ilock' = x <=> ilock = x) /\ (wlock' = x <=> wlock = x)
      BY <2>2
    <3>3. QED
      BY <3>1, <3>2 DEF TypeOK
  <2>3. QED
    BY <2>1, <2>2
<1>4. ix.pc # "idle" <=> ilock' = Indexer
  BY DEF TypeOK
<1>5. QED
  BY <1>1, <1>3, <1>4 DEF TypeOK, index

\* So do the steps of a worker, one per action.
LEMMA WorkerTypes ==
    ASSUME TypeOK, NEW w \in Workers, WorkerStep(w) \/ Failing(w),
           worker[w].pc = "reset" => worker[w].step \in 1 .. 5,
           worker[w].tier = "neural" => worker[w].model \in Models
    PROVE  TypeOK'
<1> USE NamesAssumption
<1> DEFINE q == worker[w]
<1>q. /\ q \in WorkerType /\ Idle \in WorkerType
      /\ q.pc \in {"reset", "claim", "release", "mark"} <=> ilock = w
      /\ q.pc \notin Outside <=> wlock = w
      /\ gen \in Nat /\ inc \in Nat /\ configured \in Models
  BY DEF TypeOK, Idle, WorkerType, Tier
<1>o. /\ {"idle", "start", "wait", "cleanup", "refused"} \subseteq Outside
      /\ \A pc \in {"open", "reset", "claim", "read", "embed", "checkpoint", "release",
                     "mark"} : pc \notin Outside
  BY DEF Outside
<1>j. /\ job \in [owner : Workers \cup {None}, refused : BOOLEAN]
      /\ survived \subseteq {"store", "mark"}
      /\ JobOf(w) => job' \in [owner : Workers \cup {None}, refused : BOOLEAN]
  BY DEF TypeOK, JobOf
<1>f. /\ store \in [Tier -> (SUBSET Keys) \cup {None}]
      /\ pending \in [Tier -> (SUBSET Keys) \cup {None}]
      /\ processing \in [Tier -> (SUBSET Keys) \cup {None}]
      /\ mark \in [Tier -> Nat] /\ sqlite \in SUBSET Keys
      /\ model \in Models \cup {None} /\ made \in SUBSET Models
      /\ budget \in BudgetType
  BY DEF TypeOK
<1>1. CASE Launch(w)
  <2>1. PICK full \in BOOLEAN : Set(w, [Idle EXCEPT !.pc = "start", !.full = full])
    BY <1>1 DEF Launch
  <2> DEFINE rec == [Idle EXCEPT !.pc = "start", !.full = full]
  <2>2. rec \in WorkerType /\ rec.pc = "start"
    BY <1>q DEF WorkerType
  <2> HIDE DEF rec
  <2>3. QED
    BY <1>1, <1>q, <1>f, <1>o, <1>j, <2>1, <2>2, WorkerMoves DEF Launch, disk, rec
<1>b. CASE Begin(w)
  <2> DEFINE rec == [q EXCEPT !.pc = "wait", !.inc = inc]
  <2>1. rec \in WorkerType /\ rec.pc = "wait"
    BY <1>q DEF WorkerType
  <2>2. Set(w, rec)
    BY <1>b DEF Begin
  <2>3. job' \in [owner : Workers \cup {None}, refused : BOOLEAN]
    BY <1>b, <1>j DEF Begin
  <2> HIDE DEF rec
  <2>4. QED
    BY <1>b, <1>q, <1>f, <1>o, <1>j, <2>1, <2>2, <2>3, WorkerMoves DEF Begin, disk
<1>2. CASE LockWorker(w)
  <2> DEFINE rec == [q EXCEPT !.pc = "open"]
  <2>1. rec \in WorkerType /\ rec.pc = "open"
    BY <1>q DEF WorkerType
  <2>2. Set(w, rec)
    BY <1>2 DEF LockWorker
  <2> HIDE DEF rec
  <2>3. QED
    BY <1>2, <1>q, <1>f, <1>o, <1>j, <2>1, <2>2, WorkerMoves DEF LockWorker, disk
<1>3. CASE Superseded(w)
  <2>1. Idle.pc = "idle"
    BY DEF Idle
  <2>2. QED
    BY <1>3, <1>q, <1>f, <1>o, <1>j, <2>1, WorkerMoves DEF Superseded, disk, Leave
<1>4. CASE Open(w)
  <2> DEFINE pc == IF ModelMatches(w) THEN "claim" ELSE "reset"
             rec == [q EXCEPT !.gen = gen, !.step = 1, !.pc = pc]
  <2>2. Set(w, rec)
    BY <1>4 DEF Open
  <2>4. pc \in {"claim", "reset"}
    OBVIOUS
  <2>5. q \in WorkerType /\ gen \in Nat /\ 1 \in 0 .. 6
    BY <1>q
  <2> HIDE DEF pc, q
  <2>1. rec \in WorkerType /\ rec.pc \in {"claim", "reset"}
    BY <2>4, <2>5 DEF WorkerType
  <2> HIDE DEF rec
  <2>3. QED
    BY <1>4, <1>q, <1>f, <1>o, <1>j, <2>1, <2>2, WorkerMoves DEF Open, LockCurrent, disk, q
<1>5. CASE ResetNeural(w)
  <2> DEFINE s == q.step
             pc == IF s = 5 THEN "claim" ELSE "reset"
             rec == [q EXCEPT !.step = s + 1, !.pc = pc]
  <2>1. Set(w, rec) /\ pc \in {"claim", "reset"}
    BY <1>5 DEF ResetNeural
  <2>2. s + 1 \in 0 .. 6
    BY <1>5 DEF ResetNeural
  <2> HIDE DEF pc
  <2>3. rec \in WorkerType /\ rec.pc \in {"claim", "reset"}
    BY <1>q, <2>1, <2>2 DEF WorkerType
  <2> HIDE DEF rec
  <2>4. /\ store' \in [Tier -> (SUBSET Keys) \cup {None}] /\ made' \in SUBSET Models
        /\ pending' \in [Tier -> (SUBSET Keys) \cup {None}]
        /\ processing' \in [Tier -> (SUBSET Keys) \cup {None}]
        /\ mark' \in [Tier -> Nat] /\ model' \in Models \cup {None}
    BY <1>5, <1>f, <1>q DEF ResetNeural, WorkerType
  <2>5. QED
    BY <1>5, <1>q, <1>f, <1>o, <1>j, <2>1, <2>3, <2>4, WorkerMoves DEF ResetNeural
<1>6. CASE Claim(w)
  <2> DEFINE t == q.tier
             journal == Or(processing[t], pending[t])
             mem == KeysOf(store[t]) \ KeysOf(journal)
             by == IF t = "neural" THEN made ELSE {}
             claimed == (journal # None)
             empty == (sqlite = {})
             save == (journal # None \/ (t = "neural" /\ store[t] = None))
             rec == [q EXCEPT
                      !.pc = "read", !.step = 0, !.mem = mem, !.made = by,
                      !.todo = sqlite \ mem, !.claimed = claimed,
                      !.empty = empty, !.save = save]
  <2>1. t \in Tier /\ journal \in (SUBSET Keys) \cup {None} /\ mem \in SUBSET Keys
    BY <1>q, <1>f DEF WorkerType, Or, KeysOf
  <2>2. /\ Set(w, rec)
        /\ processing' = [processing EXCEPT ![t] = journal]
        /\ pending' = IF processing[t] = None
                      THEN [pending EXCEPT ![t] = None] ELSE pending
    BY <1>6 DEF Claim
  <2>6. /\ claimed \in BOOLEAN /\ empty \in BOOLEAN /\ save \in BOOLEAN
        /\ by \in SUBSET Models
    BY <1>f
  <2>7. q \in WorkerType /\ 0 \in 0 .. 6 /\ sqlite \ mem \in SUBSET Keys
    BY <1>q, <1>f
  <2> HIDE DEF t, journal, mem, by, claimed, empty, save, q
  <2>3. rec \in WorkerType /\ rec.pc = "read"
    BY <2>1, <2>6, <2>7 DEF WorkerType
  <2> HIDE DEF rec
  <2>4. /\ processing' \in [Tier -> (SUBSET Keys) \cup {None}]
        /\ pending' \in [Tier -> (SUBSET Keys) \cup {None}]
    BY <1>f, <1>o, <1>j, <2>1, <2>2
  <2>5. QED
    BY <1>6, <1>q, <1>f, <1>o, <1>j, <2>2, <2>3, <2>4, WorkerMoves DEF Claim, q
<1>7. CASE ReadBatch(w)
  <2>1. PICK keys \in SUBSET q.todo :
            Set(w, [q EXCEPT !.pc = "embed", !.batch = keys \cap sqlite,
                             !.todo = @ \ keys])
    BY <1>7 DEF ReadBatch
  <2> DEFINE rec == [q EXCEPT !.pc = "embed", !.batch = keys \cap sqlite,
                              !.todo = @ \ keys]
  <2>2. rec \in WorkerType /\ rec.pc = "embed"
    BY <1>q, <1>f DEF WorkerType
  <2>3. Set(w, rec)
    BY <2>1
  <2> HIDE DEF rec
  <2>4. QED
    BY <1>7, <1>q, <1>f, <1>o, <1>j, <2>2, <2>3, WorkerMoves DEF ReadBatch, disk
<1>8. CASE Embed(w)
  <2> DEFINE by == IF q.tier = "neural" /\ q.batch # {}
                   THEN q.made \cup {q.model} ELSE q.made
             save == q.save \/ q.batch # {}
             rec == [q EXCEPT !.pc = "checkpoint", !.batch = {},
                              !.mem = q.mem \cup q.batch, !.made = by, !.save = save]
  <2>2. Set(w, rec)
    BY <1>8 DEF Embed
  <2>3. by \in SUBSET Models /\ save \in BOOLEAN
    BY <1>q DEF WorkerType
  <2> HIDE DEF by, save
  <2>1. rec \in WorkerType /\ rec.pc = "checkpoint"
    BY <1>q, <1>f, <1>o, <1>j, <2>3 DEF WorkerType
  <2> HIDE DEF rec
  <2>4. QED
    BY <1>8, <1>q, <1>f, <1>o, <1>j, <2>1, <2>2, WorkerMoves DEF Embed, disk
<1>s. ASSUME NEW keys \in SUBSET Keys, Save(w, keys)
      PROVE  store' \in [Tier -> (SUBSET Keys) \cup {None}] /\ made' \in SUBSET Models
  BY <1>s, <1>q, <1>f DEF Save, WorkerType
<1>9. CASE Checkpoint(w)
  <2> DEFINE rec == [q EXCEPT !.pc = "read"]
  <2>1. rec \in WorkerType /\ rec.pc = "read" /\ q.mem \in SUBSET Keys
    BY <1>q, <1>f DEF WorkerType
  <2>2. Set(w, rec)
    BY <1>9 DEF Checkpoint
  <2> HIDE DEF rec
  <2>3. store' \in [Tier -> (SUBSET Keys) \cup {None}] /\ made' \in SUBSET Models
    BY <1>9, <1>f, <1>o, <1>j, <1>s, <2>1 DEF Checkpoint
  <2>4. QED
    BY <1>9, <1>q, <1>f, <1>o, <1>j, <2>1, <2>2, <2>3, WorkerMoves DEF Checkpoint
<1>10. CASE FinishSave(w)
  <2> DEFINE rec == [q EXCEPT !.pc = "release"]
  <2>1. rec \in WorkerType /\ rec.pc = "release" /\ q.mem \in SUBSET Keys
    BY <1>q, <1>f DEF WorkerType
  <2>2. Set(w, rec)
    BY <1>10 DEF FinishSave
  <2> HIDE DEF rec
  <2>3. store' \in [Tier -> (SUBSET Keys) \cup {None}] /\ made' \in SUBSET Models
    BY <1>10, <1>f, <1>o, <1>j, <1>s, <2>1 DEF FinishSave
  <2>4. QED
    BY <1>10, <1>q, <1>f, <1>o, <1>j, <2>1, <2>2, <2>3, WorkerMoves DEF FinishSave, LockCurrent
<1>11. CASE FinishJournal(w)
  <2> DEFINE rec == [q EXCEPT !.pc = "mark"]
  <2>1. rec \in WorkerType /\ rec.pc = "mark" /\ q.tier \in Tier
    BY <1>q, <1>f DEF WorkerType
  <2>2. Set(w, rec)
    BY <1>11 DEF FinishJournal
  <2> HIDE DEF rec
  <2>3. processing' \in [Tier -> (SUBSET Keys) \cup {None}]
    BY <1>11, <1>f, <1>o, <1>j, <2>1 DEF FinishJournal
  <2>4. QED
    BY <1>11, <1>q, <1>f, <1>o, <1>j, <2>1, <2>2, <2>3, WorkerMoves DEF FinishJournal
<1>12. CASE FinishMark(w)
  <2>1. PICK rec \in WorkerType : Set(w, rec) /\ rec.pc \in {"wait", "cleanup", "refused"}
    <3> DEFINE r0 == [Idle EXCEPT !.full = q.full, !.inc = q.inc]
               r1 == [r0 EXCEPT !.pc = "wait", !.tier = "neural", !.model = configured]
               r2 == [r0 EXCEPT !.pc = "refused"]
               r3 == [r0 EXCEPT !.pc = "cleanup"]
    <3>1. r0 \in WorkerType
      BY <1>q DEF WorkerType
    <3>3. Set(w, r1) \/ Set(w, r2) \/ Set(w, r3)
      BY <1>12 DEF FinishMark, NextPass
    <3> HIDE DEF r0
    <3>2. /\ r1 \in WorkerType /\ r1.pc = "wait" /\ r2 \in WorkerType /\ r2.pc = "refused"
          /\ r3 \in WorkerType /\ r3.pc = "cleanup"
      BY <1>q, <3>1 DEF WorkerType, Tier
    <3> HIDE DEF r1, r2, r3
    <3>4. QED
      BY <3>2, <3>3
  <2>2. mark' \in [Tier -> Nat]
    BY <1>12, <1>f, <1>q DEF FinishMark, WorkerType
  <2>3. QED
    BY <1>12, <1>q, <1>f, <1>o, <1>j, <2>1, <2>2, WorkerMoves DEF FinishMark
<1>c. CASE Cleanup(w)
  <2>1. Idle.pc = "idle"
    BY DEF Idle
  <2>2. job' \in [owner : Workers \cup {None}, refused : BOOLEAN]
    <3> DEFINE b == (q.pc = "refused")
    <3>1. job' = job \/ job' = [owner |-> None, refused |-> b]
      BY <1>c DEF Cleanup
    <3>2. b \in BOOLEAN
      OBVIOUS
    <3> HIDE DEF b
    <3>3. QED
      BY <1>j, <3>1, <3>2
  <2>3. QED
    BY <1>c, <1>q, <1>f, <1>o, <1>j, <2>1, <2>2, WorkerMoves DEF Cleanup, LockCurrent, disk, Leave
<1>i. CASE ResetIgnores(w)
  <2> DEFINE rec == [q EXCEPT !.step = q.step + 1]
  <2>1. Set(w, rec) /\ q.pc = "reset" /\ q.step + 1 \in 0 .. 6
    BY <1>i DEF ResetIgnores
  <2>2. rec \in WorkerType /\ rec.pc = "reset"
    BY <1>q, <2>1 DEF WorkerType
  <2> HIDE DEF rec
  <2>3. budget' \in BudgetType
    BY <1>i, SpendType DEF ResetIgnores
  <2>4. survived' \subseteq {"store", "mark"}
    BY <1>i, <1>j DEF ResetIgnores
  <2>5. QED
    BY <1>i, <1>q, <1>f, <1>o, <1>j, <2>1, <2>2, <2>3, <2>4, WorkerMoves DEF ResetIgnores, disk
<1>13. CASE WorkerFails(w)
  <2>1. Idle.pc = "idle"
    BY DEF Idle
  <2>2. budget' \in BudgetType
    BY <1>13, SpendType DEF WorkerFails
  <2>3. QED
    BY <1>13, <1>q, <1>f, <1>o, <1>j, <2>1, <2>2, WorkerMoves DEF WorkerFails, disk, Leave
<1>14. QED
  BY <1>1, <1>2, <1>3, <1>4, <1>5, <1>6, <1>7, <1>8, <1>9, <1>10, <1>11, <1>12, <1>13,
     <1>b, <1>c, <1>i DEF WorkerStep, Failing

-----------------------------------------------------------------------------
(* What each step of a worker does to its locals.                          *)

Others(w) == \A x \in Workers : x # w => worker'[x] = worker[x]

\* What stays for a whole pass, and what it gathers.
SamePass(a, b) == a.tier = b.tier /\ a.inc = b.inc /\ a.model = b.model
SameLoad(a, b) ==
    /\ a.mem = b.mem /\ a.made = b.made /\ a.todo = b.todo /\ a.batch = b.batch
    /\ a.claimed = b.claimed /\ a.empty = b.empty /\ a.save = b.save

\* Set replaces one record.
LEMMA SetFields ==
    ASSUME TypeOK, NEW w \in Workers, NEW rec, Set(w, rec)
    PROVE  worker'[w] = rec /\ Others(w)
BY DEF Set, TypeOK, Others

\* A worker starts with a hash pass, bound to nothing yet.
LEMMA LaunchFields ==
    ASSUME TypeOK, NEW w \in Workers, Launch(w)
    PROVE  /\ Others(w) /\ worker[w].pc = "idle"
           /\ worker'[w].pc = "start" /\ worker'[w].tier = "hash"
           /\ worker'[w].inc = 0 /\ worker'[w].batch = {}
<1>1. PICK full \in BOOLEAN : Set(w, [Idle EXCEPT !.pc = "start", !.full = full])
  BY DEF Launch
<1> DEFINE rec == [Idle EXCEPT !.pc = "start", !.full = full]
<1>2. rec.pc = "start" /\ rec.tier = "hash" /\ rec.inc = 0 /\ rec.batch = {}
  BY DEF Idle
<1> HIDE DEF rec
<1>3. worker'[w] = rec /\ Others(w)
  BY <1>1, SetFields DEF rec
<1>4. QED
  BY <1>2, <1>3 DEF Launch

\* EnhancementSnapshot::begin binds it to the incarnation it sees.
LEMMA BeginFields ==
    ASSUME TypeOK, NEW w \in Workers, Begin(w)
    PROVE  /\ Others(w) /\ worker[w].pc = "start" /\ worker'[w].pc = "wait"
           /\ worker'[w].inc = inc /\ worker'[w].tier = worker[w].tier
           /\ worker'[w].model = worker[w].model /\ worker'[w].batch = worker[w].batch
<1>1. worker[w] \in WorkerType
  BY DEF TypeOK
<1>2. worker'[w] = [worker[w] EXCEPT !.pc = "wait", !.inc = inc]
  BY SetFields DEF Begin
<1>3. QED
  BY <1>1, <1>2, SetFields DEF Begin, WorkerType

\* lock_worker changes nothing but the place.
LEMMA LockFields ==
    ASSUME TypeOK, NEW w \in Workers, LockWorker(w)
    PROVE  /\ Others(w) /\ worker[w].pc = "wait" /\ worker'[w].pc = "open"
           /\ SamePass(worker'[w], worker[w]) /\ SameLoad(worker'[w], worker[w])
<1>1. worker[w] \in WorkerType
  BY DEF TypeOK
<1>2. worker'[w] = [worker[w] EXCEPT !.pc = "open"]
  BY SetFields DEF LockWorker
<1>3. QED
  BY <1>1, <1>2, SetFields DEF LockWorker, SamePass, SameLoad, WorkerType

\* A worker that ends, gives up or dies leaves nothing behind.
LEMMA LeaveFields ==
    ASSUME TypeOK, NEW w \in Workers, Superseded(w) \/ Cleanup(w) \/ WorkerFails(w)
    PROVE  /\ Others(w) /\ worker'[w].pc = "idle" /\ worker'[w].tier = "hash"
           /\ worker'[w].inc = 0 /\ worker'[w].batch = {}
BY SetFields DEF Superseded, Cleanup, WorkerFails, Leave, Idle

\* The pass takes down the generation it begins with.
LEMMA OpenFields ==
    ASSUME TypeOK, NEW w \in Workers, Open(w)
    PROVE  /\ Others(w) /\ worker[w].pc = "open"
           /\ worker'[w].pc = IF ModelMatches(w) THEN "claim" ELSE "reset"
           /\ worker'[w].gen = gen /\ worker'[w].step = 1
           /\ SamePass(worker'[w], worker[w]) /\ SameLoad(worker'[w], worker[w])
<1> DEFINE pc == IF ModelMatches(w) THEN "claim" ELSE "reset"
<1>1. worker[w] \in WorkerType
  BY DEF TypeOK
<1>2. worker'[w] = [worker[w] EXCEPT !.gen = gen, !.step = 1, !.pc = pc]
  BY SetFields DEF Open
<1> HIDE DEF pc
<1>3. /\ worker'[w].pc = pc /\ worker'[w].gen = gen /\ worker'[w].step = 1
      /\ SamePass(worker'[w], worker[w]) /\ SameLoad(worker'[w], worker[w])
  BY <1>1, <1>2 DEF SamePass, SameLoad, WorkerType
<1>4. QED
  BY <1>3, SetFields DEF Open, pc

\* One step of a reset.
LEMMA ResetFields ==
    ASSUME TypeOK, NEW w \in Workers, ResetNeural(w)
    PROVE  /\ Others(w) /\ worker[w].pc = "reset"
           /\ worker'[w].pc = IF worker[w].step = 5 THEN "claim" ELSE "reset"
           /\ worker'[w].gen = worker[w].gen /\ worker'[w].step = worker[w].step + 1
           /\ SamePass(worker'[w], worker[w]) /\ SameLoad(worker'[w], worker[w])
<1> DEFINE pc == IF worker[w].step = 5 THEN "claim" ELSE "reset"
<1>1. worker[w] \in WorkerType
  BY DEF TypeOK
<1>2. worker'[w] = [worker[w] EXCEPT !.step = worker[w].step + 1, !.pc = pc]
  BY SetFields DEF ResetNeural
<1> HIDE DEF pc
<1>3. /\ worker'[w].pc = pc /\ worker'[w].gen = worker[w].gen
      /\ worker'[w].step = worker[w].step + 1
      /\ SamePass(worker'[w], worker[w]) /\ SameLoad(worker'[w], worker[w])
  BY <1>1, <1>2 DEF SamePass, SameLoad, WorkerType
<1>4. QED
  BY <1>3, SetFields DEF ResetNeural, pc

\* So does a removal that fails.
LEMMA IgnoreFields ==
    ASSUME TypeOK, NEW w \in Workers, ResetIgnores(w)
    PROVE  /\ Others(w) /\ worker[w].pc = "reset" /\ worker'[w].pc = "reset"
           /\ worker'[w].gen = worker[w].gen /\ worker'[w].step = worker[w].step + 1
           /\ SamePass(worker'[w], worker[w]) /\ SameLoad(worker'[w], worker[w])
<1>1. worker[w] \in WorkerType
  BY DEF TypeOK
<1>2. worker'[w] = [worker[w] EXCEPT !.step = worker[w].step + 1]
  BY SetFields DEF ResetIgnores
<1>3. /\ worker'[w].pc = worker[w].pc /\ worker'[w].gen = worker[w].gen
      /\ worker'[w].step = worker[w].step + 1
      /\ SamePass(worker'[w], worker[w]) /\ SameLoad(worker'[w], worker[w])
  BY <1>1, <1>2 DEF SamePass, SameLoad, WorkerType
<1>4. QED
  BY <1>3, SetFields DEF ResetIgnores

JournalOf(t) == Or(processing[t], pending[t])

\* What is in hand after the claim, and what is left to embed.
LEMMA ClaimFields ==
    ASSUME TypeOK, NEW w \in Workers, Claim(w)
    PROVE  LET t == worker[w].tier IN
           /\ Others(w) /\ worker[w].pc = "claim" /\ worker'[w].pc = "read"
           /\ worker'[w].gen = worker[w].gen /\ worker'[w].batch = worker[w].batch
           /\ SamePass(worker'[w], worker[w])
           /\ worker'[w].mem = KeysOf(store[t]) \ KeysOf(JournalOf(t))
           /\ worker'[w].made = IF t = "neural" THEN made ELSE {}
           /\ worker'[w].todo = sqlite \ worker'[w].mem
           /\ worker'[w].claimed <=> JournalOf(t) # None
           /\ worker'[w].empty <=> sqlite = {}
           /\ worker'[w].save <=> JournalOf(t) # None \/ (t = "neural" /\ store[t] = None)
<1> DEFINE t == worker[w].tier
           journal == JournalOf(t)
           mem == KeysOf(store[t]) \ KeysOf(journal)
           by == IF t = "neural" THEN made ELSE {}
           claimed == (journal # None)
           empty == (sqlite = {})
           save == (journal # None \/ (t = "neural" /\ store[t] = None))
<1>1. worker[w] \in WorkerType
  BY DEF TypeOK
<1>2. worker'[w] = [worker[w] EXCEPT
          !.pc = "read", !.step = 0, !.mem = mem, !.made = by, !.todo = sqlite \ mem,
          !.claimed = claimed, !.empty = empty, !.save = save]
  BY SetFields DEF Claim, JournalOf
<1> HIDE DEF mem, by, claimed, empty, save
<1>3. /\ worker'[w].pc = "read" /\ worker'[w].mem = mem /\ worker'[w].made = by
      /\ worker'[w].todo = sqlite \ mem /\ worker'[w].claimed = claimed
      /\ worker'[w].empty = empty /\ worker'[w].save = save
      /\ worker'[w].gen = worker[w].gen /\ worker'[w].batch = worker[w].batch
      /\ SamePass(worker'[w], worker[w])
  BY <1>1, <1>2 DEF SamePass, WorkerType
<1>4. Others(w) /\ worker[w].pc = "claim"
  BY SetFields DEF Claim
<1>5. QED
  BY <1>3, <1>4 DEF mem, by, claimed, empty, save

\* Keys that are still there are in the batch or still to be read.
LEMMA ReadFields ==
    ASSUME TypeOK, NEW w \in Workers, ReadBatch(w)
    PROVE  /\ Others(w) /\ worker[w].pc = "read" /\ worker'[w].pc = "embed"
           /\ worker'[w].gen = worker[w].gen /\ SamePass(worker'[w], worker[w])
           /\ worker'[w].mem = worker[w].mem /\ worker'[w].made = worker[w].made
           /\ worker'[w].claimed = worker[w].claimed
           /\ worker'[w].empty = worker[w].empty /\ worker'[w].save = worker[w].save
           /\ worker'[w].batch \subseteq sqlite
           /\ worker[w].todo \cap sqlite \subseteq worker'[w].batch \cup worker'[w].todo
<1>1. PICK keys \in SUBSET worker[w].todo :
          Set(w, [worker[w] EXCEPT !.pc = "embed", !.batch = keys \cap sqlite,
                                   !.todo = @ \ keys])
  BY DEF ReadBatch
<1>2. worker[w] \in WorkerType
  BY DEF TypeOK
<1>3. worker'[w] = [worker[w] EXCEPT !.pc = "embed", !.batch = keys \cap sqlite,
                                     !.todo = @ \ keys]
  BY <1>1, SetFields
<1>4. QED
  BY <1>1, <1>2, <1>3, SetFields DEF ReadBatch, SamePass, WorkerType

\* The batch joins what is in hand.
LEMMA EmbedFields ==
    ASSUME TypeOK, NEW w \in Workers, Embed(w)
    PROVE  /\ Others(w) /\ worker[w].pc = "embed" /\ worker'[w].pc = "checkpoint"
           /\ worker'[w].gen = worker[w].gen /\ SamePass(worker'[w], worker[w])
           /\ worker'[w].batch = {} /\ worker'[w].todo = worker[w].todo
           /\ worker'[w].mem = worker[w].mem \cup worker[w].batch
           /\ worker'[w].made = IF worker[w].tier = "neural" /\ worker[w].batch # {}
                                THEN worker[w].made \cup {worker[w].model}
                                ELSE worker[w].made
           /\ worker'[w].claimed = worker[w].claimed
           /\ worker'[w].empty = worker[w].empty
           /\ worker'[w].save <=> worker[w].save \/ worker[w].batch # {}
<1> DEFINE q == worker[w]
           by == IF q.tier = "neural" /\ q.batch # {}
                 THEN q.made \cup {q.model} ELSE q.made
           save == q.save \/ q.batch # {}
<1>1. worker[w] \in WorkerType
  BY DEF TypeOK
<1>2. worker'[w] = [worker[w] EXCEPT !.pc = "checkpoint", !.batch = {},
                        !.mem = q.mem \cup q.batch, !.made = by, !.save = save]
  BY SetFields DEF Embed
<1> HIDE DEF by, save
<1>3. /\ worker'[w].pc = "checkpoint" /\ worker'[w].batch = {}
      /\ worker'[w].mem = q.mem \cup q.batch /\ worker'[w].made = by
      /\ worker'[w].save = save /\ worker'[w].todo = q.todo
      /\ worker'[w].claimed = q.claimed /\ worker'[w].empty = q.empty
      /\ worker'[w].gen = q.gen /\ SamePass(worker'[w], worker[w])
  BY <1>1, <1>2 DEF SamePass, WorkerType
<1>4. Others(w) /\ worker[w].pc = "embed"
  BY SetFields DEF Embed
<1>5. QED
  BY <1>3, <1>4 DEF by, save

\* Only the place changes.
LEMMA PlaceFields ==
    ASSUME TypeOK, NEW w \in Workers, NEW pc,
           Set(w, [worker[w] EXCEPT !.pc = pc])
    PROVE  /\ Others(w) /\ worker'[w].gen = worker[w].gen /\ worker'[w].pc = pc
           /\ SamePass(worker'[w], worker[w]) /\ SameLoad(worker'[w], worker[w])
<1>1. worker[w] \in WorkerType
  BY DEF TypeOK
<1>2. worker'[w] = [worker[w] EXCEPT !.pc = pc] /\ Others(w)
  BY SetFields
<1>3. QED
  BY <1>1, <1>2 DEF SamePass, SameLoad, WorkerType

\* A checkpoint keeps what is in hand.
LEMMA CheckpointFields ==
    ASSUME TypeOK, NEW w \in Workers, Checkpoint(w)
    PROVE  /\ Others(w) /\ worker'[w].gen = worker[w].gen
           /\ worker[w].pc = "checkpoint" /\ worker'[w].pc = "read"
           /\ SamePass(worker'[w], worker[w]) /\ SameLoad(worker'[w], worker[w])
<1>1. worker[w].pc = "checkpoint" /\ Set(w, [worker[w] EXCEPT !.pc = "read"])
  BY DEF Checkpoint
<1>2. QED
  BY <1>1, PlaceFields

\* So does the final save.
LEMMA SaveFields ==
    ASSUME TypeOK, NEW w \in Workers, FinishSave(w)
    PROVE  /\ Others(w) /\ worker'[w].gen = worker[w].gen
           /\ worker[w].pc = "read" /\ worker'[w].pc = "release"
           /\ SamePass(worker'[w], worker[w]) /\ SameLoad(worker'[w], worker[w])
<1>1. worker[w].pc = "read" /\ Set(w, [worker[w] EXCEPT !.pc = "release"])
  BY DEF FinishSave
<1>2. QED
  BY <1>1, PlaceFields

\* So does the removal of the claimed journal.
LEMMA JournalFields ==
    ASSUME TypeOK, NEW w \in Workers, FinishJournal(w)
    PROVE  /\ Others(w) /\ worker'[w].gen = worker[w].gen
           /\ worker[w].pc = "release" /\ worker'[w].pc = "mark"
           /\ SamePass(worker'[w], worker[w]) /\ SameLoad(worker'[w], worker[w])
<1>1. worker[w].pc = "release" /\ Set(w, [worker[w] EXCEPT !.pc = "mark"])
  BY DEF FinishJournal
<1>2. QED
  BY <1>1, PlaceFields

\* After the mark the worker waits for its neural pass or for its end.
LEMMA MarkFields ==
    ASSUME TypeOK, NEW w \in Workers, FinishMark(w)
    PROVE  /\ Others(w) /\ worker[w].pc = "mark"
           /\ worker'[w].pc \in {"wait", "cleanup", "refused"} /\ worker'[w].batch = {}
           /\ worker'[w].inc = worker[w].inc
           /\ worker'[w].tier = "neural" => worker'[w].model = configured
<1> DEFINE r0 == [Idle EXCEPT !.full = worker[w].full, !.inc = worker[w].inc]
           r1 == [r0 EXCEPT !.pc = "wait", !.tier = "neural", !.model = configured]
           r2 == [r0 EXCEPT !.pc = "refused"]
           r3 == [r0 EXCEPT !.pc = "cleanup"]
<1>1. worker[w].pc = "mark" /\ (Set(w, r1) \/ Set(w, r2) \/ Set(w, r3))
  BY DEF FinishMark, NextPass
<1>2. Others(w) /\ (worker'[w] = r1 \/ worker'[w] = r2 \/ worker'[w] = r3)
  BY <1>1, SetFields
<1>3. /\ r1.pc = "wait" /\ r1.batch = {} /\ r1.inc = worker[w].inc
      /\ r1.model = configured
      /\ r2.pc = "refused" /\ r2.batch = {} /\ r2.inc = worker[w].inc /\ r2.tier = "hash"
      /\ r3.pc = "cleanup" /\ r3.batch = {} /\ r3.inc = worker[w].inc /\ r3.tier = "hash"
  BY DEF Idle
<1> HIDE DEF r0, r1, r2, r3
<1>4. QED
  BY <1>1, <1>2, <1>3

-----------------------------------------------------------------------------
(* Sound locals.                                                           *)

\* A worker never knows of an incarnation to come; a neural pass has a model;
\* only a neural pass discards a store, in five steps; a batch is in hand only
\* while it is embedded.
Sane(w) ==
    /\ worker[w].inc <= inc
    /\ worker[w].tier = "neural" => worker[w].model \in Models
    /\ worker[w].pc = "reset" => worker[w].tier = "neural" /\ worker[w].step \in 1 .. 5
    /\ worker[w].pc # "embed" => worker[w].batch = {}

WorkersSane == \A w \in Workers : Sane(w)

\* No worker has started.
LEMMA SaneInit == Init => WorkersSane
BY DEF Init, WorkersSane, Sane, Idle

\* enhancement.lock: one worker at a time is past its wait.
LEMMA Alone ==
    ASSUME TypeOK, NEW w \in Workers, worker[w].pc \notin Outside,
           NEW x \in Workers, x # w
    PROVE  worker[x].pc \in Outside
BY DEF TypeOK

\* The locals of workers stay sound.
LEMMA SaneStep == TypeOK /\ WorkersSane /\ [Next]_vars => WorkersSane'
<1> SUFFICES ASSUME TypeOK, WorkersSane, [Next]_vars PROVE WorkersSane'
  OBVIOUS
<1>i. inc \in Nat /\ configured \in Models
  BY DEF TypeOK
<1>1. CASE worker' = worker
  <2>1. inc' = inc \/ inc' = inc + 1
    BY <1>1 DEF Next, IndexStep, IxBegin, IxReplace, IxTransaction, IxJournalNeural,
       IxCommit, IxMetadata, IxClear, IxFails, Reconfigure, WorkerStep, WorkerFails,
       Launch, Begin, LockWorker, Superseded, Open, ResetNeural, ResetIgnores, Claim,
       ReadBatch, Embed, Checkpoint, FinishSave, FinishJournal, FinishMark, Cleanup,
       index, vars
  <2>2. \A w \in Workers : worker[w].inc \in Nat
    BY DEF TypeOK, WorkerType
  <2>3. ASSUME NEW w \in Workers PROVE Sane(w)'
    <3>1. worker[w].inc <= inc'
      BY <2>1, <2>2, <1>i DEF WorkersSane, Sane
    <3>2. QED
      BY <1>1, <3>1 DEF WorkersSane, Sane
  <2>4. QED
    BY <2>3 DEF WorkersSane
<1>2. ASSUME NEW w \in Workers, WorkerStep(w) \/ Failing(w) PROVE WorkersSane'
  <2>1. inc' = inc
    BY <1>2 DEF WorkerStep, Failing, WorkerFails, Launch, Begin, LockWorker, Superseded,
       Open, ResetNeural, ResetIgnores, Claim, ReadBatch, Embed, Checkpoint, FinishSave,
       FinishJournal, FinishMark, Cleanup, index
  <2>2. worker[w].inc \in Nat /\ worker[w].step \in 0 .. 6 /\ Sane(w)
    BY DEF TypeOK, WorkerType, WorkersSane
  <2>3. Others(w) /\ Sane(w)'
    <3>1. CASE Launch(w)
      BY <3>1, <2>1, <1>i, LaunchFields DEF Sane
    <3>2. CASE LockWorker(w)
      BY <3>2, <2>1, <2>2, LockFields DEF Sane, SamePass, SameLoad
    <3>b. CASE Begin(w)
      BY <3>b, <2>1, <2>2, <1>i, BeginFields DEF Sane
    <3>r. CASE ResetIgnores(w)
      BY <3>r, <2>1, <2>2, IgnoreFields DEF Sane, SamePass, SameLoad, ResetIgnores
    <3>3. CASE Superseded(w) \/ Cleanup(w) \/ WorkerFails(w)
      BY <3>3, <2>1, <1>i, LeaveFields DEF Sane
    <3>4. CASE Open(w)
      BY <3>4, <2>1, <2>2, OpenFields DEF Sane, SamePass, SameLoad, ModelMatches, TypeOK, WorkerType, Tier
    <3>5. CASE ResetNeural(w)
      BY <3>5, <2>1, <2>2, ResetFields DEF Sane, SamePass, SameLoad
    <3>6. CASE Claim(w)
      BY <3>6, <2>1, <2>2, ClaimFields DEF Sane, SamePass
    <3>7. CASE ReadBatch(w)
      BY <3>7, <2>1, <2>2, ReadFields DEF Sane, SamePass
    <3>8. CASE Embed(w)
      BY <3>8, <2>1, <2>2, EmbedFields DEF Sane, SamePass
    <3>9. CASE Checkpoint(w)
      BY <3>9, <2>1, <2>2, CheckpointFields DEF Sane, SamePass, SameLoad
    <3>10. CASE FinishSave(w)
      BY <3>10, <2>1, <2>2, SaveFields DEF Sane, SamePass, SameLoad
    <3>11. CASE FinishJournal(w)
      BY <3>11, <2>1, <2>2, JournalFields DEF Sane, SamePass, SameLoad
    <3>12. CASE FinishMark(w)
      BY <3>12, <2>1, <2>2, <1>i, MarkFields DEF Sane
    <3>13. QED
      BY <1>2, <3>1, <3>2, <3>3, <3>4, <3>5, <3>6, <3>7, <3>8, <3>9, <3>10, <3>11, <3>12,
         <3>b, <3>r DEF WorkerStep, Failing
  <2>4. \A x \in Workers : x # w => Sane(x)'
    BY <2>1, <2>3 DEF WorkersSane, Sane, Others
  <2>5. QED
    BY <2>3, <2>4 DEF WorkersSane
<1>3. worker' = worker \/ \E w \in Workers : WorkerStep(w) \/ Failing(w)
  BY DEF Next, Failing, IndexStep, IxBegin, IxReplace, IxTransaction, IxJournalNeural,
     IxCommit, IxMetadata, IxClear, IxFails, Reconfigure, workers, vars
<1>4. QED
  BY <1>1, <1>2, <1>3

\* With sound locals, types and locks are inductive.
LEMMA TypeStep == TypeOK /\ WorkersSane /\ [Next]_vars => TypeOK'
<1> SUFFICES ASSUME TypeOK, WorkersSane, [Next]_vars PROVE TypeOK'
  OBVIOUS
<1>1. CASE IndexStep \/ IxFails
  BY <1>1, IndexType
<1>2. CASE Reconfigure
  <2>1. budget' \in BudgetType
    BY <1>2, SpendType DEF Reconfigure
  <2>2. QED
    BY <1>2, <2>1 DEF Reconfigure, TypeOK, index, disk
<1>3. ASSUME NEW w \in Workers, WorkerStep(w) \/ Failing(w) PROVE TypeOK'
  BY <1>3, WorkerTypes DEF WorkersSane, Sane
<1>4. CASE UNCHANGED vars
  BY <1>4 DEF vars, TypeOK
<1>5. QED
  BY <1>1, <1>2, <1>3, <1>4 DEF Next, Failing

-----------------------------------------------------------------------------
(* Nothing stale is forgotten.                                             *)

\* A worker that gathers what it will publish.
Gathering == {"read", "embed", "checkpoint"}

\* What a transaction is about to delete is in the journals it has flushed.
Flushed ==
    /\ ix.pc \in {"journal", "commit"} => sqlite \ ix.tx \subseteq KeysOf(pending["hash"])
    /\ ix.pc = "commit" => sqlite \ ix.tx \subseteq KeysOf(pending["neural"])

\* A store that a reset could not remove.
Kept(t) == t = "neural" /\ "store" \in survived

\* Unless it comes from such a store, what a worker carries that is stale by
\* now is named by the journal that index runs append to, not only by the one
\* the worker will remove; and a claimed journal is removed only after a save.
Carries(w) ==
    /\ worker[w].pc \in Gathering /\ worker[w].inc = inc =>
          /\ ~Kept(worker[w].tier) =>
                (worker[w].mem \cup worker[w].batch) \ sqlite
                   \subseteq KeysOf(pending[worker[w].tier])
          /\ worker[w].claimed => worker[w].save
    /\ worker[w].pc = "release" /\ worker[w].claimed /\ ~Kept(worker[w].tier) =>
          KeysOf(store[worker[w].tier]) \ sqlite \subseteq KeysOf(pending[worker[w].tier])

CarriedIsJournalled == \A w \in Workers : Carries(w)

JournalInv == TypeOK /\ WorkersSane /\ Flushed /\ CarriedIsJournalled /\ StaleIsJournalled

\* The store of another model goes before its journals do.
ResetClears ==
    \A w \in Workers :
        worker[w].pc = "reset" /\ worker[w].step > 1 =>
            store["neural"] = None \/ Kept("neural")

\* At first there is nothing to journal.
LEMMA JournalInit == Init => Flushed /\ CarriedIsJournalled /\ StaleIsJournalled /\ ResetClears
BY DEF Init, Flushed, CarriedIsJournalled, Carries, StaleIsJournalled, ResetClears,
       Idle, Gathering, KeysOf, Tier, Kept

\* Journals only grow and the chunks stay: nothing becomes stale.
LEMMA GrowKeeps ==
    ASSUME CarriedIsJournalled, StaleIsJournalled, TypeOK,
           \A t \in Tier : KeysOf(pending[t]) \subseteq KeysOf(pending'[t]),
           UNCHANGED <<sqlite, inc, store, processing, worker, survived>>
    PROVE  CarriedIsJournalled' /\ StaleIsJournalled'
<1>1. ASSUME NEW w \in Workers PROVE Carries(w)'
  <2>1. Carries(w) /\ worker[w].tier \in Tier
    BY DEF CarriedIsJournalled, TypeOK, WorkerType
  <2>2. KeysOf(pending[worker[w].tier]) \subseteq KeysOf(pending'[worker[w].tier])
    BY <2>1
  <2>3. QED
    BY <2>1, <2>2 DEF Carries, KeysOf, Kept
<1>2. ASSUME NEW t \in Tier, ~Kept(t)
      PROVE  KeysOf(store'[t]) \ sqlite' \subseteq KeysOf(pending'[t]) \cup KeysOf(processing'[t])
  BY <1>2 DEF StaleIsJournalled, KeysOf, Kept
<1>3. QED
  BY <1>1, <1>2 DEF CarriedIsJournalled, StaleIsJournalled, KeysOf, Kept

\* append_and_sync_vector_tombstones only adds to a journal.
LEMMA AppendGrows ==
    ASSUME TypeOK, NEW t \in Tier, NEW keys \in SUBSET Keys, Append(t, keys)
    PROVE  /\ \A u \in Tier : KeysOf(pending[u]) \subseteq KeysOf(pending'[u])
           /\ keys \subseteq KeysOf(pending'[t])
BY NamesAssumption DEF Append, KeysOf, TypeOK

\* The steps of an index run keep everything stale in a journal.
LEMMA IndexJournals ==
    ASSUME TypeOK, WorkersSane, Flushed, CarriedIsJournalled, StaleIsJournalled,
           ResetClears, IndexStep \/ IxFails
    PROVE  Flushed' /\ CarriedIsJournalled' /\ StaleIsJournalled' /\ ResetClears'
<1> USE NamesAssumption
<1>i. /\ inc \in Nat /\ sqlite \in SUBSET Keys
      /\ ix \in [pc : {"idle", "replace", "update", "journal", "commit",
                       "metadata", "clear"}, tx : SUBSET Keys]
      /\ \A w \in Workers : worker[w].inc \in Nat /\ worker[w].tier \in Tier
  BY DEF TypeOK, WorkerType
<1>1. CASE IxBegin
  <2>1. UNCHANGED <<sqlite, inc, store, pending, processing, worker, survived>>
    BY <1>1 DEF IxBegin, disk, workers
  <2>2. ix'.pc \in {"replace", "update"}
    BY <1>1, <1>i DEF IxBegin, IxGoto
  <2>3. QED
    BY <2>1, <2>2, GrowKeeps DEF Flushed, ResetClears, Kept
<1>2. CASE IxReplace
  <2>1. ix'.pc = "metadata" /\ inc' = inc + 1 /\ worker' = worker /\ ilock = Indexer
    BY <1>2, <1>i DEF IxReplace, IxGoto, workers, TypeOK
  <2>2. \A w \in Workers : worker[w].pc \notin {"reset", "release"} /\ worker[w].inc # inc'
    BY <2>1, <1>i DEF TypeOK, WorkersSane, Sane
  <2>3. \A t \in Tier : KeysOf(store'[t]) = {}
    BY <1>2 DEF IxReplace, TypeOK, Tier, KeysOf
  <2>4. QED
    BY <2>1, <2>2, <2>3 DEF Flushed, CarriedIsJournalled, Carries, StaleIsJournalled, ResetClears, KeysOf
<1>3. CASE IxTransaction
  <2>1. PICK keys \in SUBSET Keys : /\ Append("hash", sqlite \ keys)
                                    /\ ix' = [ix EXCEPT !.pc = "journal", !.tx = keys]
    BY <1>3 DEF IxTransaction
  <2>2. /\ \A u \in Tier : KeysOf(pending[u]) \subseteq KeysOf(pending'[u])
        /\ sqlite \ keys \subseteq KeysOf(pending'["hash"])
    BY <2>1, <1>i, AppendGrows DEF Tier
  <2>3. UNCHANGED <<sqlite, inc, store, processing, worker, survived>>
    BY <1>3 DEF IxTransaction, workers
  <2>4. ix'.pc = "journal" /\ ix'.tx = keys
    BY <2>1, <1>i
  <2>5. Flushed' /\ ResetClears'
    BY <2>2, <2>3, <2>4 DEF Flushed, ResetClears, KeysOf, Kept
  <2>6. QED
    BY <2>2, <2>3, <2>5, GrowKeeps
<1>4. CASE IxJournalNeural
  <2>1. Append("neural", sqlite \ ix.tx) /\ ix' = [ix EXCEPT !.pc = "commit"] /\ ix.pc = "journal"
    BY <1>4 DEF IxJournalNeural, IxGoto
  <2>2. /\ \A u \in Tier : KeysOf(pending[u]) \subseteq KeysOf(pending'[u])
        /\ sqlite \ ix.tx \subseteq KeysOf(pending'["neural"])
    BY <2>1, <1>i, AppendGrows DEF Tier
  <2>3. UNCHANGED <<sqlite, inc, store, processing, worker, survived>>
    BY <1>4 DEF IxJournalNeural, workers
  <2>4. ix'.pc = "commit" /\ ix'.tx = ix.tx
    BY <2>1, <1>i
  <2>5. sqlite \ ix.tx \subseteq KeysOf(pending'["hash"])
    BY <2>1, <2>2 DEF Flushed, Tier
  <2>6. Flushed' /\ ResetClears'
    BY <2>2, <2>3, <2>4, <2>5 DEF Flushed, ResetClears, KeysOf, Kept
  <2>7. QED
    BY <2>2, <2>3, <2>6, GrowKeeps
<1>5. CASE IxCommit
  <2>1. /\ UNCHANGED <<inc, store, pending, processing, worker, survived>>
        /\ sqlite' = ix.tx /\ ix.pc = "commit" /\ ix'.pc \in {"update", "metadata"}
    BY <1>5 DEF IxCommit, disk, workers
  <2>2. \A t \in Tier : sqlite \ sqlite' \subseteq KeysOf(pending[t])
    BY <2>1 DEF Flushed, Tier
  <2>3. ASSUME NEW w \in Workers PROVE Carries(w)'
    <3>1. Carries(w) /\ sqlite \ sqlite' \subseteq KeysOf(pending[worker[w].tier])
      BY <1>i, <2>2 DEF CarriedIsJournalled
    <3>2. QED
      BY <2>1, <3>1 DEF Carries, KeysOf, Kept
  <2>4. ASSUME NEW t \in Tier, ~Kept(t)
        PROVE  KeysOf(store[t]) \ sqlite' \subseteq KeysOf(pending[t]) \cup KeysOf(processing[t])
    BY <2>2, <2>4 DEF StaleIsJournalled, Kept
  <2>5. StaleIsJournalled'
    BY <2>1, <2>4 DEF StaleIsJournalled, KeysOf, Kept
  <2>6. QED
    BY <2>1, <2>3, <2>5 DEF Flushed, CarriedIsJournalled, ResetClears, Kept
<1>6. CASE IxMetadata \/ IxClear
  <2>1. UNCHANGED <<sqlite, inc, store, pending, processing, worker, survived>>
    BY <1>6 DEF IxMetadata, IxClear, disk, workers
  <2>2. ix'.pc \in {"clear", "idle"}
    BY <1>6, <1>i DEF IxMetadata, IxClear, IxGoto
  <2>3. QED
    BY <2>1, <2>2, GrowKeeps DEF Flushed, ResetClears, Kept
<1>7. CASE IxFails
  <2>1. UNCHANGED <<sqlite, inc, store, processing, worker, survived>> /\ ix'.pc = "idle"
    BY <1>7 DEF IxFails, workers
  <2>2. \A u \in Tier : KeysOf(pending[u]) \subseteq KeysOf(pending'[u])
    <3>1. CASE pending' = pending
      BY <3>1
    <3>2. CASE \E keys \in SUBSET sqlite : Append("hash", keys)
      BY <3>2, <1>i, AppendGrows DEF Tier
    <3>3. CASE \E keys \in SUBSET (sqlite \ ix.tx) : Append("neural", keys)
      BY <3>3, <1>i, AppendGrows DEF Tier
    <3>4. QED
      BY <1>7, <3>1, <3>2, <3>3 DEF IxFails
  <2>3. QED
    BY <2>1, <2>2, GrowKeeps DEF Flushed, ResetClears, Kept
<1>8. QED
  BY <1>1, <1>2, <1>3, <1>4, <1>5, <1>6, <1>7 DEF IndexStep

\* The steps at which a worker touches no file of the index or of the stores.
LEMMA QuietSteps ==
    ASSUME TypeOK, NEW w \in Workers,
           \/ Launch(w) \/ Begin(w) \/ LockWorker(w) \/ Superseded(w) \/ Cleanup(w)
           \/ Failing(w) \/ Open(w) \/ ReadBatch(w) \/ Embed(w) \/ FinishMark(w)
    PROVE  UNCHANGED <<sqlite, gen, dirty, inc, ix, store, pending, processing, model, made>>
BY DEF Launch, Begin, LockWorker, Superseded, Cleanup, Failing, WorkerFails, ResetIgnores,
       Open, ReadBatch, Embed, FinishMark, index, disk

\* What is kept of a discarded store stays kept until a removal succeeds.
LEMMA KeptStays ==
    ASSUME NEW w \in Workers, (WorkerStep(w) /\ ~ResetNeural(w)) \/ Failing(w), NEW t, Kept(t)
    PROVE  Kept(t)'
BY DEF Kept, WorkerStep, Launch, Begin, LockWorker, Superseded, Cleanup, Failing, WorkerFails,
       ResetIgnores, Open, Claim, ReadBatch, Embed, Checkpoint, FinishSave, FinishJournal,
       FinishMark

\* A worker that holds enhancement.lock concerns no other one; any other step
\* leaves what the others carry as it is.
LEMMA CarriesFrame ==
    ASSUME TypeOK, CarriedIsJournalled, NEW w \in Workers, Others(w), Carries(w)',
           \/ worker[w].pc \notin Outside
           \/ UNCHANGED <<sqlite, inc, store, pending>> /\ \A t \in Tier : Kept(t) => Kept(t)'
    PROVE  CarriedIsJournalled'
<1>1. ASSUME NEW x \in Workers, x # w PROVE Carries(x)'
  <2>1. worker'[x] = worker[x]
    BY <1>1 DEF Others
  <2>2. CASE worker[w].pc \notin Outside
    <3>1. worker[x].pc \in Outside
      BY <1>1, <2>2, Alone
    <3>2. QED
      BY <2>1, <3>1 DEF Carries, Gathering, Outside
  <2>3. CASE UNCHANGED <<sqlite, inc, store, pending>> /\ \A t \in Tier : Kept(t) => Kept(t)'
    <3>1. Carries(x) /\ worker[x].tier \in Tier
      BY DEF CarriedIsJournalled, TypeOK, WorkerType
    <3>2. QED
      BY <2>1, <2>3, <3>1 DEF Carries
  <2>4. QED
    BY <2>2, <2>3
<1>2. QED
  BY <1>1 DEF CarriedIsJournalled

\* So do the steps of a worker.
LEMMA WorkerJournals ==
    ASSUME TypeOK, WorkersSane, Flushed, CarriedIsJournalled, StaleIsJournalled,
           ResetClears, NEW w \in Workers, WorkerStep(w) \/ Failing(w)
    PROVE  Flushed' /\ CarriedIsJournalled' /\ StaleIsJournalled' /\ ResetClears'
<1> USE NamesAssumption
<1> DEFINE q == worker[w]
           t == q.tier
<1>i. /\ q \in WorkerType /\ t \in Tier /\ q.step \in 0 .. 6 /\ Sane(w) /\ Carries(w)
      /\ store \in [Tier -> (SUBSET Keys) \cup {None}]
      /\ pending \in [Tier -> (SUBSET Keys) \cup {None}]
      /\ processing \in [Tier -> (SUBSET Keys) \cup {None}]
      /\ q.pc \in {"reset", "claim", "release", "mark"} => ilock = w
      /\ ilock = w => ix.pc = "idle"
  BY DEF TypeOK, WorkerType, WorkersSane, CarriedIsJournalled
<1>1. CASE \/ Launch(w) \/ Begin(w) \/ LockWorker(w) \/ Superseded(w) \/ Cleanup(w)
           \/ WorkerFails(w) \/ Open(w) \/ ReadBatch(w) \/ Embed(w) \/ FinishMark(w)
  <2>1. UNCHANGED <<sqlite, inc, ix, store, pending, processing>>
    BY <1>1, QuietSteps DEF Failing
  <2>k. \A u \in Tier : Kept(u) => Kept(u)'
    BY <1>1, KeptStays DEF WorkerStep, Failing, Launch, Begin, LockWorker, Superseded, Cleanup,
       WorkerFails, Open, ReadBatch, Embed, FinishMark, Kept
  <2>2. Flushed' /\ StaleIsJournalled'
    BY <2>1, <2>k DEF Flushed, StaleIsJournalled, Kept
  <2>3. Others(w) /\ Carries(w)' /\ (worker'[w].pc = "reset" => worker'[w].step = 1)
    <3>b. CASE Begin(w)
      BY <3>b, BeginFields DEF Carries, Gathering
    <3>1. CASE Launch(w)
      BY <3>1, LaunchFields DEF Carries, Gathering
    <3>2. CASE LockWorker(w)
      BY <3>2, LockFields DEF Carries, Gathering
    <3>3. CASE Superseded(w) \/ Cleanup(w) \/ WorkerFails(w)
      BY <3>3, LeaveFields DEF Carries, Gathering
    <3>4. CASE Open(w)
      BY <3>4, OpenFields DEF Carries, Gathering
    <3>5. CASE ReadBatch(w)
      <4>1. /\ worker'[w].pc = "embed" /\ worker'[w].inc = q.inc /\ worker'[w].tier = t
            /\ worker'[w].mem = q.mem /\ worker'[w].batch \subseteq sqlite
            /\ worker'[w].claimed = q.claimed /\ worker'[w].save = q.save /\ q.pc = "read"
            /\ Others(w)
        BY <3>5, ReadFields DEF SamePass
      <4>2. QED
        BY <4>1, <2>1, <2>k, <1>i DEF Carries, Gathering
    <3>6. CASE Embed(w)
      <4>1. /\ worker'[w].pc = "checkpoint" /\ worker'[w].inc = q.inc /\ worker'[w].tier = t
            /\ worker'[w].mem = q.mem \cup q.batch /\ worker'[w].batch = {}
            /\ worker'[w].claimed = q.claimed /\ (q.save => worker'[w].save) /\ q.pc = "embed"
            /\ Others(w)
        BY <3>6, EmbedFields DEF SamePass
      <4>2. QED
        BY <4>1, <2>1, <2>k, <1>i DEF Carries, Gathering
    <3>7. CASE FinishMark(w)
      BY <3>7, MarkFields DEF Carries, Gathering
    <3>8. QED
      BY <1>1, <3>1, <3>2, <3>3, <3>4, <3>5, <3>6, <3>7, <3>b
  <2>4. CarriedIsJournalled'
    BY <2>1, <2>k, <2>3, CarriesFrame
  <2>5. ResetClears'
    BY <2>1, <2>k, <2>3 DEF ResetClears, Others, Tier
  <2>6. QED
    BY <2>2, <2>4, <2>5
<1>2. CASE ResetNeural(w)
  <2>1. /\ Others(w) /\ q.pc = "reset" /\ worker'[w].pc \in {"reset", "claim"}
        /\ worker'[w].step = q.step + 1
    BY <1>2, ResetFields
  <2>2. /\ q.step \in 1 .. 5 /\ ix.pc = "idle"
        /\ q.step > 1 => store["neural"] = None \/ Kept("neural")
    BY <2>1, <1>i DEF Sane, ResetClears
  <2>3. /\ UNCHANGED <<sqlite, ix>> /\ store'["hash"] = store["hash"]
        /\ pending'["hash"] = pending["hash"] /\ processing'["hash"] = processing["hash"]
    BY <1>2, <1>i DEF ResetNeural, index, Tier
  <2>4. store'["neural"] = None \/ Kept("neural")'
    BY <1>2, <2>2, <1>i DEF ResetNeural, Tier, Kept
  <2>5. StaleIsJournalled'
    BY <2>3, <2>4 DEF StaleIsJournalled, KeysOf, Tier, Kept
  <2>6. CarriedIsJournalled'
    BY <2>1, CarriesFrame DEF Carries, Gathering, Outside
  <2>7. QED
    BY <2>2, <2>3, <2>4, <2>5, <2>6 DEF Flushed, ResetClears
<1>r. CASE ResetIgnores(w)
  <2>1. /\ Others(w) /\ q.pc = "reset" /\ worker'[w].pc = "reset"
        /\ worker'[w].step = q.step + 1
    BY <1>r, IgnoreFields
  <2>2. /\ q.step \in 1 .. 5 /\ ix.pc = "idle"
        /\ q.step > 1 => store["neural"] = None \/ Kept("neural")
    BY <2>1, <1>i DEF Sane, ResetClears
  <2>3. UNCHANGED <<sqlite, inc, ix, store, pending, processing>>
    BY <1>r DEF ResetIgnores, index, disk
  <2>4. store'["neural"] = None \/ Kept("neural")'
    BY <1>r, <2>2 DEF ResetIgnores, disk, Kept
  <2>5. StaleIsJournalled'
    BY <2>3, <2>4 DEF StaleIsJournalled, KeysOf, Tier, Kept
  <2>6. CarriedIsJournalled'
    BY <2>1, CarriesFrame DEF Carries, Gathering, Outside
  <2>7. QED
    BY <2>2, <2>3, <2>4, <2>5, <2>6 DEF Flushed, ResetClears
<1>3. CASE Claim(w)
  <2> DEFINE journal == JournalOf(t)
  <2>1. /\ Others(w) /\ q.pc = "claim" /\ worker'[w].pc = "read" /\ worker'[w].tier = t
        /\ worker'[w].batch = q.batch
        /\ worker'[w].mem = KeysOf(store[t]) \ KeysOf(journal)
        /\ worker'[w].claimed => worker'[w].save
    BY <1>3, ClaimFields DEF SamePass
  <2>2. /\ processing' = [processing EXCEPT ![t] = journal]
        /\ pending' = IF processing[t] = None
                      THEN [pending EXCEPT ![t] = None] ELSE pending
        /\ UNCHANGED <<sqlite, ix, store, survived>> /\ ix.pc = "idle"
    BY <1>3, <1>i DEF Claim, JournalOf, index
  <2>3. q.batch = {}
    BY <2>1, <1>i DEF Sane
  <2>4. /\ KeysOf(pending[t]) \cup KeysOf(processing[t])
              = KeysOf(pending'[t]) \cup KeysOf(processing'[t])
        /\ (KeysOf(pending[t]) \cup KeysOf(processing[t])) \ KeysOf(journal)
              \subseteq KeysOf(pending'[t])
    <3>1. CASE processing[t] = None
      <4>1. journal = pending[t] /\ processing'[t] = pending[t] /\ pending'[t] = None
        BY <3>1, <2>2, <1>i DEF JournalOf, Or
      <4>2. QED
        BY <3>1, <4>1 DEF KeysOf
    <3>2. CASE processing[t] # None
      <4>1. journal = processing[t] /\ processing'[t] = processing[t] /\ pending' = pending
        BY <3>2, <2>2, <1>i DEF JournalOf, Or
      <4>2. QED
        BY <3>2, <4>1 DEF KeysOf
    <3>3. QED
      BY <3>1, <3>2
  <2>5. \A u \in Tier : u # t => pending'[u] = pending[u] /\ processing'[u] = processing[u]
    BY <2>2, <1>i
  <2>6. ASSUME NEW u \in Tier, ~Kept(u)
        PROVE  KeysOf(store[u]) \ sqlite \subseteq KeysOf(pending'[u]) \cup KeysOf(processing'[u])
    <3>1. KeysOf(store[u]) \ sqlite \subseteq KeysOf(pending[u]) \cup KeysOf(processing[u])
      BY <2>6 DEF StaleIsJournalled, Kept
    <3>2. QED
      BY <3>1, <2>4, <2>5
  <2>7. StaleIsJournalled'
    BY <2>2, <2>6 DEF StaleIsJournalled, KeysOf, Kept
  <2>8. ~Kept(t) => KeysOf(store[t]) \ sqlite \subseteq KeysOf(pending[t]) \cup KeysOf(processing[t])
    BY <1>i DEF StaleIsJournalled, Kept
  <2>9. ~Kept(t) => worker'[w].mem \ sqlite \subseteq KeysOf(pending'[t])
    BY <2>1, <2>4, <2>8
  <2>10. Carries(w)'
    BY <2>1, <2>2, <2>3, <2>9 DEF Carries, Gathering, KeysOf, Kept
  <2>11. CarriedIsJournalled'
    BY <2>1, <2>10, CarriesFrame DEF Outside
  <2>12. ResetClears'
    BY <2>1, <2>2 DEF ResetClears, Others, Kept
  <2>13. QED
    BY <2>2, <2>7, <2>11, <2>12 DEF Flushed
<1>4. CASE Checkpoint(w) \/ FinishSave(w)
  <2>1. /\ Others(w) /\ q.pc \in Gathering /\ q.inc = inc /\ worker'[w].tier = t
        /\ worker'[w].pc \in {"read", "release"} /\ worker'[w].inc = q.inc
        /\ worker'[w].mem = q.mem /\ worker'[w].batch = {}
        /\ worker'[w].claimed = q.claimed /\ worker'[w].save = q.save
    BY <1>4, <1>i, CheckpointFields, SaveFields
       DEF SamePass, SameLoad, Sane, Checkpoint, FinishSave, LockCurrent, Gathering
  <2>2. UNCHANGED <<sqlite, inc, ix, pending, processing, survived>>
    BY <1>4 DEF Checkpoint, FinishSave, index
  <2>3. (~Kept(t) => q.mem \ sqlite \subseteq KeysOf(pending[t])) /\ (q.claimed => q.save)
    BY <2>1, <1>i DEF Carries
  <2>4. \A u \in Tier : u # t => store'[u] = store[u]
    BY <1>4, <1>i DEF Checkpoint, FinishSave, Save
  <2>5. store'[t] \in {store[t], q.mem, {}}
    BY <1>4, <1>i DEF Checkpoint, FinishSave, Save
  <2>6. worker'[w].pc = "release" /\ q.claimed => store'[t] \in {q.mem, {}}
    BY <1>4, <1>i, <2>3, CheckpointFields, SaveFields DEF FinishSave, Save
  <2>7. StaleIsJournalled'
    <3>1. ASSUME NEW u \in Tier, ~Kept(u)
          PROVE  KeysOf(store'[u]) \ sqlite \subseteq KeysOf(pending[u]) \cup KeysOf(processing[u])
      <4>1. KeysOf(store[u]) \ sqlite \subseteq KeysOf(pending[u]) \cup KeysOf(processing[u])
        BY <3>1 DEF StaleIsJournalled, Kept
      <4>2. QED
        BY <3>1, <4>1, <2>3, <2>4, <2>5 DEF KeysOf
    <3>2. QED
      BY <2>2, <3>1 DEF StaleIsJournalled, KeysOf, Kept
  <2>8. Carries(w)'
    BY <2>1, <2>2, <2>3, <2>6 DEF Carries, Gathering, KeysOf, Kept
  <2>9. CarriedIsJournalled'
    BY <2>1, <2>8, CarriesFrame DEF Gathering, Outside
  <2>10. ResetClears'
    BY <2>1, Alone DEF ResetClears, Others, Gathering, Outside
  <2>11. QED
    BY <2>2, <2>7, <2>9, <2>10 DEF Flushed
<1>5. CASE FinishJournal(w)
  <2>1. Others(w) /\ q.pc = "release" /\ worker'[w].pc = "mark"
    BY <1>5, JournalFields
  <2>2. UNCHANGED <<sqlite, ix, store, pending, survived>>
    BY <1>5 DEF FinishJournal, index
  <2>3. ASSUME NEW u \in Tier, ~Kept(u)
        PROVE  KeysOf(store[u]) \ sqlite \subseteq KeysOf(pending[u]) \cup KeysOf(processing'[u])
    <3>1. CASE q.claimed /\ u = t
      BY <3>1, <2>1, <2>3, <1>i DEF Carries
    <3>2. CASE ~(q.claimed /\ u = t)
      <4>1. processing'[u] = processing[u]
        BY <3>2, <1>5, <1>i DEF FinishJournal
      <4>2. QED
        BY <4>1, <2>3 DEF StaleIsJournalled, Kept
    <3>3. QED
      BY <3>1, <3>2
  <2>4. StaleIsJournalled'
    BY <2>2, <2>3 DEF StaleIsJournalled, KeysOf, Kept
  <2>5. CarriedIsJournalled'
    BY <2>1, CarriesFrame DEF Carries, Gathering, Outside
  <2>6. QED
    BY <2>1, <2>2, <2>4, <2>5 DEF Flushed, ResetClears, Others, Kept
<1>6. QED
  BY <1>1, <1>2, <1>r, <1>3, <1>4, <1>5 DEF WorkerStep, Failing

\* The first invariant is inductive.
LEMMA JournalStep ==
    JournalInv /\ ResetClears /\ [Next]_vars => JournalInv' /\ ResetClears'
<1> SUFFICES ASSUME JournalInv, ResetClears, [Next]_vars
             PROVE  JournalInv' /\ ResetClears'
  OBVIOUS
<1>0. TypeOK /\ WorkersSane /\ Flushed /\ CarriedIsJournalled /\ StaleIsJournalled
  BY DEF JournalInv
<1>1. TypeOK' /\ WorkersSane'
  BY <1>0, TypeStep, SaneStep
<1>2. CASE IndexStep \/ IxFails
  BY <1>0, <1>1, <1>2, IndexJournals DEF JournalInv
<1>3. CASE \E w \in Workers : WorkerStep(w) \/ Failing(w)
  BY <1>0, <1>1, <1>3, WorkerJournals DEF JournalInv
<1>4. CASE Reconfigure \/ UNCHANGED vars
  <2>1. UNCHANGED <<sqlite, inc, ix, store, pending, processing, worker, survived>>
    BY <1>4 DEF Reconfigure, index, disk, vars
  <2>2. CarriedIsJournalled' /\ StaleIsJournalled'
    BY <1>0, <2>1, GrowKeeps
  <2>3. Flushed' /\ ResetClears'
    BY <1>0, <2>1 DEF Flushed, ResetClears, Kept
  <2>4. QED
    BY <1>1, <2>2, <2>3 DEF JournalInv
<1>5. QED
  BY <1>2, <1>3, <1>4 DEF Next, Failing

\* It holds of every behaviour.
LEMMA JournalHolds == Spec => [](JournalInv /\ ResetClears)
<1>1. Init => JournalInv /\ ResetClears
  BY TypeInit, SaneInit, JournalInit DEF JournalInv
<1>2. QED
  BY <1>1, JournalStep, PTL DEF Spec

\* Whatever workers compute, publish or die of while index runs delete chunks,
\* a vector whose chunk is gone is named by a journal that is still to be
\* applied (commit_with_vector_tombstones, claim_vector_tombstones), except in
\* a neural store that a reset could not remove.
THEOREM StaleVectorsAreJournalled == Spec => []StaleIsJournalled
BY JournalHolds, PTL DEF JournalInv

\* A set of keys inside another one, and not smaller, is that other one.
LEMMA SameSize ==
    ASSUME NEW A \in SUBSET Keys, NEW B \in SUBSET A, ~(Cardinality(B) < Cardinality(A))
    PROVE  B = A
<1>1. IsFiniteSet(A)
  BY BoundsAssumption, FS_Subset
<1>2. /\ Cardinality(A) \in Nat /\ Cardinality(B) \in Nat
      /\ Cardinality(B) = Cardinality(A) => B = A
      /\ Cardinality(B) <= Cardinality(A)
  BY <1>1, FS_Subset, FS_CardinalityType
<1>3. QED
  BY <1>2

\* A tier with no journal and no lag in size has exactly the chunks' keys.
LEMMA CountsSuffice ==
    ASSUME TypeOK, StaleIsJournalled, NEW t \in Tier, ~Kept(t), ~Journalled(t), ~SizeLags(t)
    PROVE  store[t] # None /\ store[t] = sqlite
<1>1. /\ KeysOf(store[t]) \subseteq sqlite /\ store[t] # None /\ sqlite \in SUBSET Keys
      /\ ~(Cardinality(KeysOf(store[t])) < Cardinality(sqlite))
  BY DEF StaleIsJournalled, Journalled, SizeLags, KeysOf, TypeOK, Kept
<1>2. KeysOf(store[t]) = sqlite
  BY <1>1, SameSize
<1>3. QED
  BY <1>1, <1>2 DEF KeysOf

\* The hash tier: the counts are enough once no journal is left.
LEMMA JournalImpliesHash == TypeOK /\ StaleIsJournalled => HashComplete
<1> SUFFICES ASSUME TypeOK, StaleIsJournalled, ~NeedsHash
             PROVE  KeysOf(store["hash"]) = sqlite
  BY DEF HashComplete
<1>1. CASE sqlite = {}
  <2>1. ~Journalled("hash") /\ KeysOf(store["hash"]) \subseteq KeysOf(pending["hash"]) \cup KeysOf(processing["hash"])
    BY <1>1 DEF NeedsHash, StaleIsJournalled, Tier
  <2>2. QED
    BY <1>1, <2>1 DEF Journalled, KeysOf
<1>2. CASE sqlite # {}
  BY <1>2, CountsSuffice DEF NeedsHash, HashGenerationCurrent, KeysOf, Tier, Kept
<1>3. QED
  BY <1>1, <1>2

\* When needs_hash_enhancement finds nothing to do, whatever runs and workers
\* have done or are doing, the hash store holds exactly the chunks' keys: the
\* two counts it compares are enough.
THEOREM HashNothingToDo == Spec => []HashComplete
<1>1. JournalInv => HashComplete
  BY JournalImpliesHash DEF JournalInv
<1>2. QED
  BY <1>1, JournalHolds, PTL

-----------------------------------------------------------------------------
(* The vectors of one model.                                               *)

\* The model of a neural pass is the one that the identity file names, and it
\* made the vectors the pass carries, unless they come from a store that a
\* reset could not remove.
Named(w) ==
    worker[w].tier = "neural" =>
        /\ worker[w].pc \in {"claim", "release", "mark"} => model = worker[w].model
        /\ worker[w].pc \in Gathering /\ worker[w].inc = inc =>
              /\ model = worker[w].model
              /\ ~Kept("neural") => worker[w].made \subseteq {worker[w].model}

CarriedIsNamed == \A w \in Workers : Named(w)

\* But for such a store, the model that made what the neural store holds is
\* named, and there is none without a store.
MadeIsNamed ==
    ~Kept("neural") => made \subseteq {model} /\ (store["neural"] = None => made = {})

NameInv == CarriedIsNamed /\ MadeIsNamed

\* What a worker does with enhancement.lock concerns no other worker's model.
LEMMA NamedFrame ==
    ASSUME TypeOK, CarriedIsNamed, NEW w \in Workers, Others(w), Named(w)',
           \/ worker[w].pc \notin Outside
           \/ UNCHANGED <<model, inc>> /\ (Kept("neural") => Kept("neural")')
    PROVE  CarriedIsNamed'
<1>1. ASSUME NEW x \in Workers, x # w PROVE Named(x)'
  <2>1. worker'[x] = worker[x]
    BY <1>1 DEF Others
  <2>2. CASE worker[w].pc \notin Outside
    <3>1. worker[x].pc \in Outside
      BY <1>1, <2>2, Alone
    <3>2. QED
      BY <2>1, <3>1 DEF Named, Gathering, Outside
  <2>3. CASE UNCHANGED <<model, inc>> /\ (Kept("neural") => Kept("neural")')
    BY <2>1, <2>3 DEF Named, CarriedIsNamed
  <2>4. QED
    BY <2>2, <2>3
<1>2. QED
  BY <1>1 DEF CarriedIsNamed

\* The steps of a worker never mix models.
LEMMA WorkerNames ==
    ASSUME TypeOK, WorkersSane, ResetClears, CarriedIsNamed, MadeIsNamed,
           NEW w \in Workers, WorkerStep(w) \/ Failing(w)
    PROVE  CarriedIsNamed' /\ MadeIsNamed'
<1> USE NamesAssumption
<1> DEFINE q == worker[w]
           t == q.tier
<1>i. /\ q \in WorkerType /\ t \in Tier /\ q.step \in 0 .. 6 /\ Sane(w) /\ Named(w)
      /\ q.mem \in SUBSET Keys
      /\ store \in [Tier -> (SUBSET Keys) \cup {None}]
  BY DEF TypeOK, WorkerType, WorkersSane, CarriedIsNamed
<1>1. CASE \/ Launch(w) \/ Begin(w) \/ LockWorker(w) \/ Superseded(w) \/ Cleanup(w)
           \/ WorkerFails(w) \/ Open(w) \/ ReadBatch(w) \/ Embed(w) \/ FinishMark(w)
  <2>1. UNCHANGED <<inc, store, model, made>>
    BY <1>1, QuietSteps DEF Failing
  <2>k. Kept("neural") => Kept("neural")'
    BY <1>1, KeptStays DEF WorkerStep, Failing, Launch, Begin, LockWorker, Superseded, Cleanup,
       WorkerFails, Open, ReadBatch, Embed, FinishMark, Kept
  <2>2. MadeIsNamed'
    BY <2>1, <2>k DEF MadeIsNamed
  <2>3. Others(w) /\ Named(w)'
    <3>b. CASE Begin(w)
      BY <3>b, BeginFields DEF Named, Gathering
    <3>1. CASE Launch(w)
      BY <3>1, LaunchFields DEF Named, Gathering
    <3>2. CASE LockWorker(w)
      BY <3>2, LockFields DEF Named, Gathering
    <3>3. CASE Superseded(w) \/ Cleanup(w) \/ WorkerFails(w)
      BY <3>3, LeaveFields DEF Named, Gathering
    <3>4. CASE Open(w)
      BY <3>4, <2>1, OpenFields DEF Named, Gathering, ModelMatches, SamePass
    <3>5. CASE ReadBatch(w)
      <4>1. /\ worker'[w].pc = "embed" /\ SamePass(worker'[w], q) /\ q.pc = "read"
            /\ worker'[w].made = q.made /\ Others(w)
        BY <3>5, ReadFields
      <4>2. QED
        BY <4>1, <2>1, <2>k, <1>i DEF Named, Gathering, SamePass
    <3>6. CASE Embed(w)
      <4>1. /\ worker'[w].pc = "checkpoint" /\ SamePass(worker'[w], q) /\ q.pc = "embed"
            /\ worker'[w].made \subseteq q.made \cup {q.model} /\ Others(w)
        BY <3>6, EmbedFields
      <4>2. QED
        BY <4>1, <2>1, <2>k, <1>i DEF Named, Gathering, SamePass
    <3>7. CASE FinishMark(w)
      BY <3>7, MarkFields DEF Named, Gathering
    <3>8. QED
      BY <1>1, <3>1, <3>2, <3>3, <3>4, <3>5, <3>6, <3>7, <3>b
  <2>4. QED
    BY <2>1, <2>k, <2>2, <2>3, NamedFrame
<1>2. CASE ResetNeural(w)
  <2>1. /\ Others(w) /\ q.pc = "reset" /\ SamePass(worker'[w], q)
        /\ worker'[w].pc = IF q.step = 5 THEN "claim" ELSE "reset"
    BY <1>2, ResetFields
  <2>2. /\ q.step \in 1 .. 5 /\ t = "neural"
        /\ q.step > 1 => store["neural"] = None \/ Kept("neural")
    BY <2>1, <1>i DEF Sane, ResetClears
  <2>3. (store'["neural"] = None /\ made' = {}) \/ Kept("neural")'
    <3>1. CASE q.step = 1
      BY <3>1, <1>2, <1>i DEF ResetNeural, Tier
    <3>2. CASE q.step > 1
      BY <3>2, <1>2, <2>2, <1>i DEF ResetNeural, Tier, MadeIsNamed, Kept
    <3>3. QED
      BY <2>2, <3>1, <3>2
  <2>4. q.step = 5 => model' = q.model
    BY <1>2 DEF ResetNeural
  <2>5. Named(w)'
    BY <2>1, <2>4 DEF Named, Gathering, SamePass
  <2>6. QED
    BY <2>1, <2>3, <2>5, NamedFrame DEF MadeIsNamed, Outside
<1>r. CASE ResetIgnores(w)
  <2>1. Others(w) /\ q.pc = "reset" /\ worker'[w].pc = "reset"
    BY <1>r, IgnoreFields
  <2>2. UNCHANGED <<inc, store, model, made>>
    BY <1>r DEF ResetIgnores, index, disk
  <2>3. Kept("neural") => Kept("neural")'
    BY <1>r, KeptStays DEF Failing
  <2>4. Named(w)' /\ MadeIsNamed'
    BY <2>1, <2>2, <2>3 DEF Named, Gathering, MadeIsNamed
  <2>5. QED
    BY <2>1, <2>4, NamedFrame DEF Outside
<1>3. CASE Claim(w)
  <2>1. /\ Others(w) /\ q.pc = "claim" /\ worker'[w].pc = "read" /\ SamePass(worker'[w], q)
        /\ t = "neural" => worker'[w].made = made
    BY <1>3, ClaimFields
  <2>2. UNCHANGED <<inc, store, model, made, survived>>
    BY <1>3 DEF Claim, index
  <2>3. Named(w)'
    BY <2>1, <2>2, <1>i DEF Named, Gathering, SamePass, MadeIsNamed, Kept
  <2>4. QED
    BY <2>1, <2>2, <2>3, NamedFrame DEF MadeIsNamed, Outside, Kept
<1>4. CASE Checkpoint(w) \/ FinishSave(w)
  <2>1. /\ Others(w) /\ q.pc \in Gathering /\ q.inc = inc /\ SamePass(worker'[w], q)
        /\ worker'[w].pc \in {"read", "release"} /\ worker'[w].made = q.made
    BY <1>4, <1>i, CheckpointFields, SaveFields
       DEF SameLoad, Checkpoint, FinishSave, LockCurrent, Gathering
  <2>2. UNCHANGED <<inc, model, survived>>
    BY <1>4 DEF Checkpoint, FinishSave, index
  <2>3. Named(w)'
    BY <2>1, <2>2, <1>i DEF Named, Gathering, SamePass, Kept
  <2>4. MadeIsNamed'
    <3>1. CASE UNCHANGED <<store, made>>
      BY <3>1, <2>2 DEF MadeIsNamed, Kept
    <3>2. CASE \E keys \in SUBSET Keys : Save(w, keys)
      <4>1. CASE t = "neural"
        <5>1. /\ made' = q.made /\ store'["neural"] # None
              /\ ~Kept("neural") => q.made \subseteq {model}
          BY <3>2, <4>1, <2>1, <1>i DEF Save, Named, Tier
        <5>2. QED
          BY <5>1, <2>2 DEF MadeIsNamed, Kept
      <4>2. CASE t # "neural"
        <5>1. made' = made /\ store'["neural"] = store["neural"]
          BY <3>2, <4>2, <1>i DEF Save, Tier
        <5>2. QED
          BY <5>1, <2>2 DEF MadeIsNamed, Kept
      <4>3. QED
        BY <4>1, <4>2
    <3>3. QED
      BY <1>4, <1>i, <3>1, <3>2 DEF Checkpoint, FinishSave
  <2>5. QED
    BY <2>1, <2>3, <2>4, NamedFrame DEF Gathering, Outside
<1>5. CASE FinishJournal(w)
  <2>1. /\ Others(w) /\ q.pc = "release" /\ worker'[w].pc = "mark" /\ SamePass(worker'[w], q)
        /\ UNCHANGED <<store, made, model, survived>>
    BY <1>5, JournalFields DEF FinishJournal
  <2>2. Named(w)'
    BY <2>1, <1>i DEF Named, Gathering, SamePass
  <2>3. QED
    BY <2>1, <2>2, NamedFrame DEF MadeIsNamed, Outside, Kept
<1>6. QED
  BY <1>1, <1>2, <1>r, <1>3, <1>4, <1>5 DEF WorkerStep, Failing

\* The invariant about models is inductive.
LEMMA NameStep == JournalInv /\ ResetClears /\ NameInv /\ [Next]_vars => NameInv'
<1> SUFFICES ASSUME JournalInv, ResetClears, NameInv, [Next]_vars PROVE NameInv'
  OBVIOUS
<1>0. TypeOK /\ WorkersSane /\ CarriedIsNamed /\ MadeIsNamed
  BY DEF JournalInv, NameInv
<1>1. CASE \E w \in Workers : WorkerStep(w) \/ Failing(w)
  BY <1>0, <1>1, WorkerNames DEF NameInv
<1>2. CASE IxReplace
  <2>1. /\ inc' = inc + 1 /\ worker' = worker /\ ilock = Indexer /\ inc \in Nat
        /\ made' = {}
    BY <1>0, <1>2 DEF IxReplace, workers, TypeOK
  <2>2. \A w \in Workers : /\ worker[w].pc \notin {"claim", "release", "mark"}
                           /\ worker[w].inc # inc'
    BY <1>0, <2>1, NamesAssumption DEF TypeOK, WorkerType, WorkersSane, Sane
  <2>3. QED
    BY <2>1, <2>2 DEF NameInv, CarriedIsNamed, Named, MadeIsNamed
<1>3. CASE UNCHANGED <<inc, store, model, made, worker, survived>>
  BY <1>0, <1>3 DEF NameInv, CarriedIsNamed, Named, MadeIsNamed, Kept
<1>4. QED
  <2>1. \/ UNCHANGED <<inc, store, model, made, worker, survived>> \/ IxReplace
        \/ \E w \in Workers : WorkerStep(w) \/ Failing(w)
    BY DEF Next, Failing, IndexStep, IxBegin, IxTransaction, IxJournalNeural, IxCommit,
       IxMetadata, IxClear, IxFails, Reconfigure, index, disk, workers, vars
  <2>2. QED
    BY <1>1, <1>2, <1>3, <2>1

\* neural_model.json names the one model that made the vectors of the neural
\* store, whatever worker dies while it discards the store of another model,
\* whichever removal of a journal or a generation file fails, and however often
\* the configured model changes, unless the store itself could not be removed.
THEOREM ModelsNeverMix == Spec => []ModelNamed
<1>1. Init => JournalInv /\ ResetClears /\ NameInv
  <2>1. Init => NameInv
    BY DEF Init, NameInv, CarriedIsNamed, Named, MadeIsNamed, Idle
  <2>2. QED
    BY <2>1, TypeInit, SaneInit, JournalInit DEF JournalInv
<1>2. NameInv => ModelNamed
  BY DEF NameInv, MadeIsNamed, ModelNamed, ModelsApart, Kept
<1>3. QED
  BY <1>1, <1>2, JournalStep, NameStep, PTL DEF Spec

-----------------------------------------------------------------------------
(* Completeness of the neural store.                                       *)

\* A worker that holds index.lock.
Locked == {"reset", "claim", "release", "mark"}

\* A mark that a reset did not remove.
Outlived(t) == t = "neural" /\ "mark" \in survived

\* A reset removes the mark before it writes the new identity.
Unmarked(w) ==
    worker[w].pc = "reset" /\ worker[w].step = 5 => mark["neural"] = 0 \/ Outlived("neural")

\* A pass began with a generation that is not ahead of the index, nor behind
\* the mark, and behind an index run that is done.
Behind(w) ==
    /\ worker[w].pc \in Locked => worker[w].inc = inc
    /\ worker[w].pc \in Gathering \cup Locked /\ worker[w].inc = inc =>
          /\ worker[w].gen <= gen /\ mark[worker[w].tier] <= worker[w].gen
          /\ ix.pc = "clear" => worker[w].gen < gen

\* The index is published and still the one the pass began with.
Unmoved(w) == ~dirty /\ worker[w].gen = gen

\* What a worker has, reads and will read is all that its mark will claim.
Whole(w) ==
    LET q == worker[w]
        t == worker[w].tier
    IN
    /\ q.pc \in Gathering /\ q.inc = inc =>
          /\ q.claimed => processing[t] # None
          /\ ~q.claimed => KeysOf(store[t]) \subseteq q.mem
          /\ ~q.save => q.mem \subseteq KeysOf(store[t])
          /\ Unmoved(w) => sqlite \subseteq q.mem \cup q.batch \cup q.todo
          /\ Unmoved(w) /\ q.empty => sqlite = {}
    /\ q.pc \in {"release", "mark"} /\ Unmoved(w) => sqlite \subseteq KeysOf(store[t])

Pass(w) == Unmarked(w) /\ Behind(w) /\ Whole(w)
Passes == \A w \in Workers : Pass(w)

\* Generations grow: a mark is never ahead, and behind when a run is done.
MarksBehind ==
    /\ ~dirty \/ ix.pc = "clear" => gen >= 1
    /\ \A t \in Tier : mark[t] <= gen /\ (ix.pc = "clear" => mark[t] < gen)

\* A worker has removed the neural store, and is at work on what goes with it.
Discarded(t) ==
    t = "neural" /\ \E w \in Workers : worker[w].pc = "reset" /\ worker[w].step > 1

\* A tier that is marked for the generation, with no journal to apply, has
\* every key, unless it is being discarded or the mark outlived its store.
MarkedIsWhole ==
    \A t \in Tier :
        ~dirty /\ mark[t] = gen /\ ~Journalled(t) =>
            sqlite \subseteq KeysOf(store[t]) \/ Discarded(t) \/ Outlived(t)

MarkInv == Passes /\ MarksBehind /\ MarkedIsWhole

\* At first nothing is marked.
LEMMA MarkInit == Init => MarkInv
<1> SUFFICES ASSUME Init PROVE MarkInv
  OBVIOUS
<1>1. \A w \in Workers : worker[w].pc = "idle" /\ worker[w].tier = "hash"
  BY DEF Init, Idle
<1>2. Passes
  BY <1>1 DEF Passes, Pass, Unmarked, Behind, Whole, Gathering, Locked
<1>3. MarksBehind /\ MarkedIsWhole
  BY DEF Init, MarksBehind, MarkedIsWhole, Tier
<1>4. QED
  BY <1>2, <1>3 DEF MarkInv

\* Steps of a run other than a replacement: the index is being changed or, at
\* its end, has a generation no worker began with.
LEMMA RunPasses ==
    ASSUME TypeOK, MarkInv, UNCHANGED <<inc, store, processing, mark, worker, survived>>,
           gen' \in {gen, gen + 1}, ix'.pc = "clear" => gen' = gen + 1,
           dirty' \/ (ix.pc = "clear" /\ gen' = gen)
    PROVE  MarkInv'
<1> USE NamesAssumption
<1>i. /\ gen \in Nat /\ mark \in [Tier -> Nat]
      /\ \A w \in Workers : worker[w].gen \in Nat /\ worker[w].tier \in Tier
      /\ \A w \in Workers : ix.pc = "clear" => worker[w].pc \notin Locked
  BY DEF TypeOK, WorkerType, Locked
<1>1. ASSUME NEW w \in Workers PROVE Pass(w)'
  <2>1. Pass(w)
    BY DEF MarkInv, Passes
  <2>2. Unmarked(w)'
    BY <2>1 DEF Pass, Unmarked, Outlived
  <2>3. worker[w].gen \in Nat /\ mark[worker[w].tier] \in Nat
    BY <1>i
  <2>4. Behind(w)'
    BY <2>1, <2>3, <1>i DEF Pass, Behind
  <2>5. worker[w].pc \in Gathering \cup Locked /\ worker[w].inc = inc => ~Unmoved(w)'
    <3>1. CASE dirty'
      BY <3>1 DEF Unmoved
    <3>2. CASE ix.pc = "clear" /\ gen' = gen
      BY <3>2, <2>1, <2>3, <1>i DEF Unmoved, Pass, Behind, Gathering, Locked
    <3>3. QED
      BY <3>1, <3>2
  <2>6. worker[w].pc \in Locked => worker[w].inc = inc
    BY <2>1 DEF Pass, Behind
  <2>7. Whole(w)'
    BY <2>1, <2>5, <2>6 DEF Pass, Whole, Locked, KeysOf
  <2>8. QED
    BY <2>2, <2>4, <2>7 DEF Pass
<1>3. MarksBehind'
  BY <1>i DEF MarkInv, MarksBehind
<1>4. MarkedIsWhole'
  <2>1. CASE dirty'
    BY <2>1 DEF MarkedIsWhole
  <2>2. CASE ix.pc = "clear" /\ gen' = gen
    BY <2>2, <1>i DEF MarkInv, MarkedIsWhole, MarksBehind
  <2>3. QED
    BY <2>1, <2>2
<1>5. QED
  BY <1>1, <1>3, <1>4 DEF MarkInv, Passes

\* The steps of an index run keep marks truthful.
LEMMA IndexMarks == TypeOK /\ WorkersSane /\ MarkInv /\ (IndexStep \/ IxFails) => MarkInv'
<1> SUFFICES ASSUME TypeOK, WorkersSane, MarkInv, IndexStep \/ IxFails PROVE MarkInv'
  OBVIOUS
<1>i. /\ ix \in [pc : {"idle", "replace", "update", "journal", "commit",
                       "metadata", "clear"}, tx : SUBSET Keys]
      /\ ix.pc # "idle" => dirty
      /\ gen \in Nat /\ inc \in Nat
  BY DEF TypeOK
<1>1. CASE IxReplace
  <2>1. /\ inc' = inc + 1 /\ worker' = worker
        /\ ilock = Indexer /\ ix'.pc = "metadata" /\ dirty' /\ gen' \in Nat
        /\ \A t \in Tier : mark'[t] = 0
    BY <1>1, <1>i DEF IxReplace, IxGoto, workers, TypeOK
  <2>2. \A w \in Workers : /\ worker[w].pc \notin Locked /\ worker[w].inc # inc'
    BY <1>i, <2>1, NamesAssumption DEF TypeOK, WorkerType, WorkersSane, Sane, Locked
  <2>3. Passes'
    BY <2>1, <2>2 DEF MarkInv, Passes, Pass, Unmarked, Behind, Whole, Locked
  <2>4. MarksBehind' /\ MarkedIsWhole'
    BY <2>1 DEF MarksBehind, MarkedIsWhole, Tier
  <2>5. QED
    BY <2>3, <2>4 DEF MarkInv
<1>2. CASE IxBegin \/ IxTransaction \/ IxJournalNeural \/ IxCommit \/ IxFails
  <2>1. /\ UNCHANGED <<gen, inc, store, processing, mark, worker, survived>>
        /\ dirty' /\ ix'.pc # "clear"
    <3>1. CASE IxBegin
      BY <3>1, <1>i DEF IxBegin, IxGoto, disk, workers
    <3>2. CASE IxTransaction
      BY <3>2, <1>i DEF IxTransaction, workers
    <3>3. CASE IxJournalNeural
      BY <3>3, <1>i DEF IxJournalNeural, IxGoto, workers
    <3>4. CASE IxCommit
      BY <3>4, <1>i DEF IxCommit, disk, workers
    <3>5. CASE IxFails
      BY <3>5, <1>i DEF IxFails, workers
    <3>6. QED
      BY <1>2, <3>1, <3>2, <3>3, <3>4, <3>5
  <2>2. QED
    BY <2>1, RunPasses
<1>3. CASE IxMetadata
  <2>1. /\ UNCHANGED <<inc, store, processing, mark, worker, survived>>
        /\ gen' = gen + 1 /\ dirty'
    BY <1>3, <1>i DEF IxMetadata, disk, workers
  <2>2. QED
    BY <2>1, RunPasses
<1>4. CASE IxClear
  <2>1. /\ UNCHANGED <<gen, inc, store, processing, mark, worker, survived>>
        /\ ix.pc = "clear" /\ ix'.pc = "idle"
    BY <1>4 DEF IxClear, disk, workers
  <2>2. QED
    BY <2>1, RunPasses
<1>5. QED
  BY <1>1, <1>2, <1>3, <1>4 DEF IndexStep

\* A worker with enhancement.lock concerns no other pass.
LEMMA PassFrame ==
    ASSUME TypeOK, Passes, NEW w \in Workers, Others(w), Pass(w)',
           \/ worker[w].pc \notin Outside
           \/ /\ UNCHANGED <<sqlite, gen, dirty, inc, ix, store, processing, mark>>
              /\ Outlived("neural") => Outlived("neural")'
    PROVE  Passes'
<1>1. ASSUME NEW x \in Workers, x # w PROVE Pass(x)'
  <2>1. worker'[x] = worker[x] /\ Pass(x)
    BY <1>1 DEF Others, Passes
  <2>2. CASE worker[w].pc \notin Outside
    <3>1. worker[x].pc \in Outside
      BY <1>1, <2>2, Alone
    <3>2. QED
      BY <2>1, <3>1 DEF Pass, Unmarked, Behind, Whole, Gathering, Locked, Outside
  <2>3. CASE /\ UNCHANGED <<sqlite, gen, dirty, inc, ix, store, processing, mark>>
             /\ Outlived("neural") => Outlived("neural")'
    <3>1. Unmarked(x)' /\ Behind(x)'
      BY <2>1, <2>3 DEF Pass, Unmarked, Behind
    <3>2. Whole(x)'
      BY <2>1, <2>3 DEF Pass, Whole, Unmoved
    <3>3. QED
      BY <3>1, <3>2 DEF Pass
  <2>4. QED
    BY <2>2, <2>3
<1>2. QED
  BY <1>1 DEF Passes

\* A worker that is not past its wait satisfies its part.
LEMMA WaitingPass ==
    ASSUME NEW w \in Workers, worker'[w].pc \in Outside \cup {"open"}
    PROVE  Pass(w)'
BY DEF Pass, Unmarked, Behind, Whole, Gathering, Locked, Outside

\* A store that is being discarded is until its worker goes on.
LEMMA DiscardedFrame ==
    ASSUME NEW w \in Workers, Others(w), worker[w].pc # "reset", NEW t, Discarded(t)
    PROVE  Discarded(t)'
BY DEF Discarded, Others

\* Steps that leave the stores and the marks alone.
LEMMA QuietMarks ==
    ASSUME TypeOK, WorkersSane, MarkInv, NEW w \in Workers, worker[w].pc # "reset",
           \/ Launch(w) \/ Begin(w) \/ LockWorker(w) \/ Superseded(w) \/ Cleanup(w)
           \/ WorkerFails(w) \/ Open(w) \/ ReadBatch(w) \/ Embed(w)
    PROVE  MarkInv'
<1> DEFINE q == worker[w]
<1>i. /\ q \in WorkerType /\ gen \in Nat /\ mark \in [Tier -> Nat] /\ q.tier \in Tier
      /\ Sane(w) /\ Pass(w) /\ MarksBehind /\ MarkedIsWhole
      /\ ilock = None => ix.pc = "idle"
  BY NamesAssumption DEF TypeOK, WorkerType, WorkersSane, MarkInv, Passes
<1>1. /\ UNCHANGED <<sqlite, gen, dirty, inc, ix, store, pending, processing, mark>>
      /\ Outlived("neural") => Outlived("neural")'
  BY QuietSteps DEF Launch, Begin, LockWorker, Superseded, Cleanup, Failing, WorkerFails,
     Open, ReadBatch, Embed, disk, index, Outlived
<1>2. Others(w) /\ Pass(w)'
  <2>1. CASE Launch(w)
    BY <2>1, LaunchFields, WaitingPass DEF Outside
  <2>b. CASE Begin(w)
    BY <2>b, BeginFields, WaitingPass DEF Outside
  <2>2. CASE LockWorker(w)
    BY <2>2, LockFields, WaitingPass
  <2>3. CASE Superseded(w) \/ Cleanup(w) \/ WorkerFails(w)
    BY <2>3, LeaveFields, WaitingPass DEF Outside
  <2>4. CASE Open(w)
    <3>1. /\ Others(w) /\ SamePass(worker'[w], q) /\ worker'[w].gen = gen
          /\ worker'[w].step = 1
          /\ worker'[w].pc = IF ModelMatches(w) THEN "claim" ELSE "reset"
          /\ q.inc = inc /\ ix.pc = "idle"
      BY <2>4, <1>i, OpenFields DEF Open, LockCurrent
    <3>2. Unmarked(w)'
      BY <3>1 DEF Unmarked
    <3>3. Behind(w)'
      BY <3>1, <1>1, <1>i DEF Behind, SamePass, MarksBehind
    <3>4. Whole(w)'
      BY <3>1 DEF Whole, Gathering
    <3>5. QED
      BY <3>1, <3>2, <3>3, <3>4 DEF Pass
  <2>5. CASE ReadBatch(w)
    <3>1. /\ Others(w) /\ q.pc = "read" /\ worker'[w].pc = "embed"
          /\ worker'[w].gen = q.gen /\ SamePass(worker'[w], q)
          /\ worker'[w].mem = q.mem /\ worker'[w].claimed = q.claimed
          /\ worker'[w].empty = q.empty /\ worker'[w].save = q.save
          /\ q.todo \cap sqlite \subseteq worker'[w].batch \cup worker'[w].todo
          /\ q.batch = {}
      BY <2>5, <1>i, ReadFields DEF Sane
    <3>2. Unmarked(w)' /\ Behind(w)'
      BY <3>1, <1>1, <1>i DEF Unmarked, Behind, Pass, SamePass, Gathering, Locked
    <3>3. Whole(w)'
      <4>1. Whole(w) /\ (Unmoved(w)' <=> Unmoved(w))
        BY <3>1, <1>1, <1>i DEF Pass, Unmoved
      <4>2. QED
        BY <3>1, <4>1, <1>1 DEF Whole, SamePass, Gathering
    <3>4. QED
      BY <3>1, <3>2, <3>3 DEF Pass
  <2>6. CASE Embed(w)
    <3>1. /\ Others(w) /\ q.pc = "embed" /\ worker'[w].pc = "checkpoint"
          /\ worker'[w].gen = q.gen /\ SamePass(worker'[w], q)
          /\ worker'[w].mem = q.mem \cup q.batch /\ worker'[w].batch = {}
          /\ worker'[w].claimed = q.claimed /\ worker'[w].todo = q.todo
          /\ worker'[w].empty = q.empty /\ (~worker'[w].save => ~q.save /\ q.batch = {})
      BY <2>6, EmbedFields
    <3>2. Unmarked(w)' /\ Behind(w)'
      BY <3>1, <1>1, <1>i DEF Unmarked, Behind, Pass, SamePass, Gathering, Locked
    <3>3. Whole(w)'
      <4>1. Whole(w) /\ (Unmoved(w)' <=> Unmoved(w))
        BY <3>1, <1>1, <1>i DEF Pass, Unmoved
      <4>2. QED
        BY <3>1, <4>1, <1>1 DEF Whole, SamePass, Gathering
    <3>4. QED
      BY <3>1, <3>2, <3>3 DEF Pass
  <2>7. QED
    BY <2>1, <2>b, <2>2, <2>3, <2>4, <2>5, <2>6
<1>3. Passes'
  BY <1>1, <1>2, PassFrame DEF MarkInv
<1>4. MarksBehind'
  BY <1>1, <1>i DEF MarksBehind
<1>6. MarkedIsWhole'
  BY <1>1, <1>2, <1>i, DiscardedFrame DEF MarkedIsWhole, Journalled, Outlived
<1>5. QED
  BY <1>3, <1>4, <1>6 DEF MarkInv

\* One step of a reset, or one that failed: the mark may outlive the store only
\* inside it, or as one that was to be removed.
LEMMA ResetMarks ==
    ASSUME TypeOK, WorkersSane, MarkInv, NEW w \in Workers, ResetNeural(w) \/ ResetIgnores(w)
    PROVE  MarkInv'
<1> USE NamesAssumption
<1> DEFINE q == worker[w]
<1>i. /\ gen \in Nat /\ mark \in [Tier -> Nat] /\ q.gen \in Nat /\ configured \in Models
      /\ store \in [Tier -> (SUBSET Keys) \cup {None}]
      /\ pending \in [Tier -> (SUBSET Keys) \cup {None}]
      /\ processing \in [Tier -> (SUBSET Keys) \cup {None}]
      /\ Sane(w) /\ Pass(w) /\ MarksBehind /\ MarkedIsWhole
  BY DEF TypeOK, WorkerType, WorkersSane, MarkInv, Passes
<1>1. /\ Others(w) /\ q.pc = "reset" /\ SamePass(worker'[w], q) /\ worker'[w].gen = q.gen
      /\ worker'[w].pc = IF q.step = 5 THEN "claim" ELSE "reset"
      /\ worker'[w].step = q.step + 1
  <2>1. CASE ResetNeural(w)
    BY <2>1, ResetFields
  <2>2. CASE ResetIgnores(w)
    BY <2>2, <1>i, IgnoreFields DEF ResetIgnores
  <2>3. QED
    BY <2>1, <2>2
<1>2. /\ q.step \in 1 .. 5 /\ q.tier = "neural"
      /\ q.step = 5 => mark["neural"] = 0 \/ Outlived("neural")
  BY <1>1, <1>i DEF Sane, Pass, Unmarked
<1>4. /\ UNCHANGED <<sqlite, gen, dirty, inc, ix>>
      /\ store'["hash"] = store["hash"] /\ pending'["hash"] = pending["hash"]
      /\ processing'["hash"] = processing["hash"] /\ mark'["hash"] = mark["hash"]
      /\ mark'["neural"] \in {0, mark["neural"]}
      /\ q.step = 4 => mark'["neural"] = 0 \/ Outlived("neural")'
      /\ q.step = 5 => (Outlived("neural") => Outlived("neural")') /\ mark' = mark
  <2>1. CASE ResetNeural(w)
    BY <2>1, <1>i DEF ResetNeural, index, Tier, Outlived
  <2>2. CASE ResetIgnores(w)
    BY <2>2, <1>i DEF ResetIgnores, index, disk, Outlived
  <2>3. QED
    BY <2>1, <2>2
<1>5. Unmarked(w)'
  BY <1>1, <1>2, <1>4 DEF Unmarked
<1>6. Behind(w)'
  <2>1. q.inc = inc /\ q.gen <= gen /\ mark["neural"] <= q.gen /\ (ix.pc = "clear" => q.gen < gen)
    BY <1>1, <1>2, <1>i DEF Behind, Pass, Locked
  <2>2. mark'["neural"] <= q.gen
    BY <1>4, <1>i, <2>1 DEF Tier
  <2>3. QED
    BY <1>1, <1>2, <1>4, <2>1, <2>2 DEF Behind, SamePass
<1>7. Whole(w)'
  BY <1>1 DEF Whole, Gathering
<1>8. Passes'
  BY <1>1, <1>5, <1>6, <1>7, PassFrame DEF Pass, MarkInv, Outside
<1>9. MarksBehind'
  BY <1>4, <1>i DEF MarksBehind, Tier
<1>10. MarkedIsWhole'
  <2>1. ~dirty' /\ mark'["neural"] = gen' => Discarded("neural")' \/ Outlived("neural")'
    <3>1. CASE q.step = 5
      BY <3>1, <1>2, <1>4, <1>i DEF MarksBehind
    <3>2. CASE q.step # 5
      BY <3>2, <1>1, <1>2 DEF Discarded
    <3>3. QED
      BY <3>1, <3>2
  <2>2. ~dirty' /\ mark'["hash"] = gen' /\ ~Journalled("hash")' => sqlite' \subseteq KeysOf(store["hash"])
    BY <1>4, <1>i DEF MarkedIsWhole, Journalled, Discarded, Outlived, Tier
  <2>3. QED
    BY <1>4, <2>1, <2>2 DEF MarkedIsWhole, Tier, KeysOf
<1>11. QED
  BY <1>8, <1>9, <1>10 DEF MarkInv

\* The claim of a journal.
LEMMA ClaimMarks ==
    ASSUME TypeOK, WorkersSane, MarkInv, NEW w \in Workers, Claim(w)
    PROVE  MarkInv'
<1> USE NamesAssumption
<1> DEFINE q == worker[w]
           t == q.tier
           journal == JournalOf(t)
<1>i. /\ t \in Tier
      /\ store \in [Tier -> (SUBSET Keys) \cup {None}]
      /\ pending \in [Tier -> (SUBSET Keys) \cup {None}]
      /\ processing \in [Tier -> (SUBSET Keys) \cup {None}]
      /\ Sane(w) /\ Pass(w) /\ MarksBehind /\ MarkedIsWhole
  BY DEF TypeOK, WorkerType, WorkersSane, MarkInv, Passes
<1>1. /\ Others(w) /\ q.pc = "claim" /\ worker'[w].pc = "read"
      /\ SamePass(worker'[w], q) /\ worker'[w].gen = q.gen
      /\ worker'[w].mem = KeysOf(store[t]) \ KeysOf(journal)
      /\ worker'[w].todo = sqlite \ worker'[w].mem
      /\ worker'[w].claimed <=> journal # None
      /\ worker'[w].empty <=> sqlite = {}
      /\ ~worker'[w].save => journal = None
  BY ClaimFields
<1>2. /\ UNCHANGED <<sqlite, gen, dirty, inc, ix, store, mark, survived>>
      /\ processing' = [processing EXCEPT ![t] = journal]
      /\ pending' = IF processing[t] = None
                    THEN [pending EXCEPT ![t] = None] ELSE pending
  BY DEF Claim, JournalOf, index
<1>3. processing'[t] = journal
  BY <1>2, <1>i
<1>4. Unmarked(w)' /\ Behind(w)'
  BY <1>1, <1>2, <1>i DEF Unmarked, Behind, Pass, SamePass, Gathering, Locked
<1>5. Whole(w)'
  <2>1. journal = None => worker'[w].mem = KeysOf(store[t])
    BY <1>1 DEF KeysOf
  <2>2. worker'[w].tier = t /\ KeysOf(store'[t]) = KeysOf(store[t])
    BY <1>1, <1>2 DEF SamePass
  <2> HIDE DEF journal
  <2>3. QED
    BY <1>1, <1>2, <1>3, <2>1, <2>2 DEF Whole, KeysOf
<1>6. Passes'
  BY <1>1, <1>2, <1>4, <1>5, PassFrame DEF Pass, MarkInv, Outside
<1>7. MarksBehind'
  BY <1>2, <1>i DEF MarksBehind
<1>8. \A u \in Tier : Journalled(u) => Journalled(u)'
  <2>1. ASSUME NEW u \in Tier, u # t PROVE Journalled(u) => Journalled(u)'
    BY <2>1, <1>2, <1>i DEF Journalled
  <2>2. ASSUME NEW u \in Tier, u = t PROVE Journalled(u) => Journalled(u)'
    BY <2>2, <1>3 DEF Journalled, JournalOf, Or
  <2>3. QED
    BY <2>1, <2>2
<1>9. MarkedIsWhole'
  BY <1>1, <1>2, <1>8, <1>i, DiscardedFrame DEF MarkedIsWhole, Outlived
<1>10. QED
  BY <1>6, <1>7, <1>9 DEF MarkInv

\* A checkpoint or the final save never takes a key from a marked store.
LEMMA SaveMarks ==
    ASSUME TypeOK, WorkersSane, MarkInv, NEW w \in Workers, Checkpoint(w) \/ FinishSave(w)
    PROVE  MarkInv'
<1> USE NamesAssumption
<1> DEFINE q == worker[w]
           t == q.tier
<1>i. /\ t \in Tier /\ q.mem \in SUBSET Keys
      /\ store \in [Tier -> (SUBSET Keys) \cup {None}]
      /\ Sane(w) /\ Pass(w) /\ MarksBehind /\ MarkedIsWhole
  BY DEF TypeOK, WorkerType, WorkersSane, MarkInv, Passes
<1>1. /\ Others(w) /\ q.pc \in Gathering /\ q.inc = inc
      /\ SamePass(worker'[w], q) /\ SameLoad(worker'[w], q) /\ worker'[w].gen = q.gen
      /\ worker'[w].pc \in {"read", "release"} /\ q.batch = {}
  BY <1>i, CheckpointFields, SaveFields
     DEF Sane, Checkpoint, FinishSave, LockCurrent, Gathering
<1>2. UNCHANGED <<sqlite, gen, dirty, inc, ix, pending, processing, mark, survived>>
  BY DEF Checkpoint, FinishSave, index
<1>3. \A u \in Tier : u # t => store'[u] = store[u]
  BY <1>i DEF Checkpoint, FinishSave, Save
<1>4. \/ store'[t] = store[t] /\ (worker'[w].pc = "release" => ~q.save /\ q.todo = {})
      \/ store'[t] = q.mem /\ (worker'[w].pc = "release" => q.todo = {})
      \/ store'[t] = {} /\ q.empty /\ q.claimed /\ worker'[w].pc = "release"
  <2>1. CASE Checkpoint(w)
    BY <2>1, <1>i, CheckpointFields DEF Checkpoint, Save
  <2>2. CASE FinishSave(w)
    BY <2>2, <1>i, SaveFields DEF FinishSave, Save
  <2>3. QED
    BY <2>1, <2>2
<1>5. Unmarked(w)' /\ Behind(w)'
  BY <1>1, <1>2, <1>i DEF Unmarked, Behind, Pass, SamePass, Gathering, Locked
<1>6. Whole(w) /\ (Unmoved(w)' <=> Unmoved(w)) /\ q.mem # None
  BY <1>1, <1>2, <1>i DEF Pass, Unmoved
<1>7. Whole(w)'
  <2>1. CASE worker'[w].pc = "read"
    <3>1. store'[t] \in {store[t], q.mem}
      BY <1>4, <2>1
    <3>2. QED
      BY <1>1, <1>2, <1>6, <2>1, <3>1 DEF Whole, SamePass, SameLoad, KeysOf
  <2>2. CASE worker'[w].pc = "release"
    <3>1. Unmoved(w) => sqlite \subseteq KeysOf(store'[t])
      BY <1>1, <1>4, <1>6, <2>2 DEF Whole, KeysOf
    <3>2. QED
      BY <1>1, <1>2, <1>6, <2>2, <3>1 DEF Whole, SamePass, Gathering, KeysOf
  <2>3. QED
    BY <1>1, <2>1, <2>2
<1>8. Passes'
  BY <1>1, <1>2, <1>5, <1>7, PassFrame DEF Pass, MarkInv, Gathering, Outside
<1>9. MarksBehind'
  BY <1>2, <1>i DEF MarksBehind
<1>10. ASSUME NEW u \in Tier, ~dirty, mark[u] = gen, ~Journalled(u), ~Discarded(u), ~Outlived(u)
       PROVE  sqlite \subseteq KeysOf(store'[u])
  <2>1. sqlite \subseteq KeysOf(store[u])
    BY <1>10, <1>i DEF MarkedIsWhole
  <2>2. CASE u # t
    BY <2>1, <2>2, <1>3
  <2>3. CASE u = t
    <3>1. ~q.claimed /\ KeysOf(store[t]) \subseteq q.mem
      BY <1>1, <1>6, <1>10, <2>3 DEF Whole, Journalled
    <3>2. QED
      BY <1>4, <1>6, <2>1, <2>3, <3>1 DEF KeysOf
  <2>4. QED
    BY <2>2, <2>3
<1>11. MarkedIsWhole'
  BY <1>1, <1>2, <1>10, DiscardedFrame DEF MarkedIsWhole, Journalled, Gathering, KeysOf, Outlived
<1>12. QED
  BY <1>8, <1>9, <1>11 DEF MarkInv

\* Journal and mark: the mark is set for what is really in the store.
LEMMA FinishMarks ==
    ASSUME TypeOK, WorkersSane, MarkInv, NEW w \in Workers,
           FinishJournal(w) \/ FinishMark(w)
    PROVE  MarkInv'
<1> USE NamesAssumption
<1> DEFINE q == worker[w]
           t == q.tier
<1>i. /\ t \in Tier /\ gen \in Nat /\ q.gen \in Nat /\ mark \in [Tier -> Nat]
      /\ processing \in [Tier -> (SUBSET Keys) \cup {None}]
      /\ Pass(w) /\ MarksBehind /\ MarkedIsWhole
      /\ ilock = w => ix.pc = "idle"
      /\ q.pc \in Locked => ilock = w
  BY DEF TypeOK, WorkerType, MarkInv, Passes, Locked
<1>1. CASE FinishJournal(w)
  <2>1. /\ Others(w) /\ q.pc = "release" /\ worker'[w].pc = "mark"
        /\ SamePass(worker'[w], q) /\ worker'[w].gen = q.gen
    BY <1>1, JournalFields
  <2>2. UNCHANGED <<sqlite, gen, dirty, inc, ix, store, pending, mark, survived>>
    BY <1>1 DEF FinishJournal, index
  <2>3. Unmarked(w)' /\ Behind(w)'
    BY <2>1, <2>2, <1>i DEF Unmarked, Behind, Pass, SamePass, Gathering, Locked
  <2>4. Whole(w) /\ (Unmoved(w)' <=> Unmoved(w))
    BY <2>1, <2>2, <1>i DEF Pass, Unmoved
  <2>5. Whole(w)'
    BY <2>1, <2>2, <2>4 DEF Whole, SamePass, Gathering
  <2>6. Passes'
    BY <2>1, <2>2, <2>3, <2>5, PassFrame DEF Pass, MarkInv, Outside
  <2>7. MarksBehind'
    BY <2>2, <1>i DEF MarksBehind
  <2>8. ASSUME NEW u \in Tier, ~dirty, mark[u] = gen, ~Journalled(u)', ~Discarded(u), ~Outlived(u)
        PROVE  sqlite \subseteq KeysOf(store[u])
    <3>1. CASE u = t
      <4>1. q.inc = inc /\ q.gen <= gen /\ mark[t] <= q.gen
        BY <2>1, <1>i DEF Pass, Behind, Locked
      <4>2. Unmoved(w)
        BY <2>8, <3>1, <4>1, <1>i DEF Unmoved
      <4>3. QED
        BY <2>1, <2>4, <3>1, <4>2 DEF Whole
    <3>2. CASE u # t
      <4>1. processing'[u] = processing[u]
        BY <3>2, <1>1, <1>i DEF FinishJournal
      <4>2. QED
        BY <4>1, <2>2, <2>8, <1>i DEF MarkedIsWhole, Journalled
    <3>3. QED
      BY <3>1, <3>2
  <2>9. MarkedIsWhole'
    BY <2>1, <2>2, <2>8, DiscardedFrame DEF MarkedIsWhole, Outlived
  <2>10. QED
    BY <2>6, <2>7, <2>9 DEF MarkInv
<1>2. CASE FinishMark(w)
  <2>1. Others(w) /\ q.pc = "mark" /\ worker'[w].pc \in Outside
    BY <1>2, MarkFields DEF Outside
  <2>2. /\ UNCHANGED <<sqlite, gen, dirty, inc, ix, store, pending, processing>>
        /\ mark' = IF gen = q.gen THEN [mark EXCEPT ![t] = gen] ELSE mark
        /\ survived' = survived \/ (t = "neural" /\ gen = q.gen)
    BY <1>2 DEF FinishMark, index
  <2>3. Passes'
    BY <2>1, <2>2, WaitingPass, PassFrame DEF MarkInv, Outside
  <2>6. ix.pc = "idle"
    BY <2>1, <1>i DEF Locked
  <2>7. MarksBehind'
    BY <2>2, <2>6, <1>i DEF MarksBehind
  <2>8. ASSUME NEW u \in Tier, ~dirty, mark'[u] = gen, ~Journalled(u), ~Discarded(u), ~Outlived(u)'
        PROVE  sqlite \subseteq KeysOf(store[u])
    <3>1. CASE u = t /\ gen = q.gen
      BY <3>1, <2>1, <2>8, <1>i DEF Pass, Whole, Unmoved
    <3>2. CASE ~(u = t /\ gen = q.gen)
      <4>1. mark'[u] = mark[u] /\ ~Outlived(u)
        BY <3>2, <2>2, <2>8, <1>i DEF Outlived
      <4>2. QED
        BY <4>1, <2>8, <1>i DEF MarkedIsWhole
    <3>3. QED
      BY <3>1, <3>2
  <2>9. MarkedIsWhole'
    BY <2>1, <2>2, <2>8, DiscardedFrame DEF MarkedIsWhole, Journalled
  <2>10. QED
    BY <2>3, <2>7, <2>9 DEF MarkInv
<1>3. QED
  BY <1>1, <1>2

\* A worker dies between the steps of its reset: a mark that is still there
\* has outlived its store.
LEMMA CutShortMarks ==
    ASSUME TypeOK, WorkersSane, MarkInv, NEW w \in Workers, worker[w].pc = "reset", WorkerFails(w)
    PROVE  MarkInv'
<1> DEFINE q == worker[w]
<1>i. /\ gen \in Nat /\ mark \in [Tier -> Nat] /\ q.step \in 1 .. 5
      /\ Pass(w) /\ MarksBehind /\ MarkedIsWhole
  BY DEF TypeOK, WorkersSane, Sane, MarkInv, Passes
<1>1. UNCHANGED <<sqlite, gen, dirty, inc, ix, store, pending, processing, mark>>
  BY DEF WorkerFails, index, disk
<1>2. /\ Outlived("neural") => Outlived("neural")'
      /\ q.step \in 2 .. 4 /\ mark["neural"] # 0 => Outlived("neural")'
  BY DEF WorkerFails, Outlived
<1>3. Others(w) /\ worker'[w].pc = "idle"
  BY LeaveFields
<1>4. Passes'
  BY <1>1, <1>2, <1>3, WaitingPass, PassFrame DEF MarkInv, Outside
<1>5. MarksBehind'
  BY <1>1, <1>i DEF MarksBehind
<1>6. \A x \in Workers : worker[x].pc = "reset" => x = w
  BY Alone DEF Outside
<1>7. ~dirty /\ mark["neural"] = gen /\ Discarded("neural") => Outlived("neural")'
  <2>1. SUFFICES ASSUME ~dirty, mark["neural"] = gen, q.step > 1 PROVE Outlived("neural")'
    BY <1>6 DEF Discarded
  <2>2. mark["neural"] # 0
    BY <2>1, <1>i DEF MarksBehind
  <2>3. CASE q.step = 5
    BY <2>2, <2>3, <1>2, <1>i DEF Pass, Unmarked
  <2>4. QED
    BY <2>1, <2>2, <2>3, <1>2, <1>i
<1>8. MarkedIsWhole'
  BY <1>1, <1>2, <1>7, <1>i DEF MarkedIsWhole, Journalled, Discarded, Outlived, Tier
<1>9. QED
  BY <1>4, <1>5, <1>8 DEF MarkInv

\* The invariant about marks is inductive.
LEMMA MarkStep == TypeOK /\ WorkersSane /\ MarkInv /\ [Next]_vars => MarkInv'
<1> SUFFICES ASSUME TypeOK, WorkersSane, MarkInv, [Next]_vars PROVE MarkInv'
  OBVIOUS
<1>1. CASE IndexStep \/ IxFails
  BY <1>1, IndexMarks
<1>2. ASSUME NEW w \in Workers, WorkerStep(w) PROVE MarkInv'
  <2>1. CASE \/ Launch(w) \/ Begin(w) \/ LockWorker(w) \/ Superseded(w) \/ Cleanup(w)
             \/ Open(w) \/ ReadBatch(w) \/ Embed(w)
    <3>1. worker[w].pc # "reset"
      BY <2>1 DEF Launch, Begin, LockWorker, Superseded, Cleanup, Open, ReadBatch, Embed
    <3>2. QED
      BY <2>1, <3>1, QuietMarks
  <2>2. QED
    BY <1>2, <2>1, ResetMarks, ClaimMarks, SaveMarks, FinishMarks DEF WorkerStep
<1>3. CASE UNCHANGED <<sqlite, gen, dirty, inc, ix, store, pending, processing, mark,
                       worker, survived>>
  <2>2. Passes'
    <3>1. ASSUME NEW w \in Workers PROVE Pass(w)'
      <4>1. Pass(w)
        BY DEF MarkInv, Passes
      <4>2. Unmarked(w)' /\ Behind(w)'
        BY <1>3, <4>1 DEF Pass, Unmarked, Behind, Outlived
      <4>3. Whole(w)'
        BY <1>3, <4>1 DEF Pass, Whole, Unmoved
      <4>4. QED
        BY <4>2, <4>3 DEF Pass
    <3>2. QED
      BY <3>1 DEF Passes
  <2>3. MarksBehind' /\ MarkedIsWhole'
    BY <1>3 DEF MarkInv, MarksBehind, MarkedIsWhole, Journalled, Discarded, Outlived
  <2>4. QED
    BY <2>2, <2>3 DEF MarkInv
<1>4. ASSUME NEW w \in Workers, Failing(w) PROVE MarkInv'
  BY <1>4, QuietMarks, CutShortMarks, ResetMarks DEF Failing
<1>5. CASE UNCHANGED vars
  BY <1>3, <1>5 DEF vars
<1>6. CASE Reconfigure
  BY <1>3, <1>6 DEF Reconfigure, index, disk
<1>7. QED
  BY <1>1, <1>2, <1>4, <1>5, <1>6 DEF Next, Failing

\* The neural tier: by the mark when it is current, else by the counts.
LEMMA MarksImplyNeural ==
    TypeOK /\ StaleIsJournalled /\ ResetClears /\ MarkInv => NeuralComplete
<1> SUFFICES ASSUME TypeOK, StaleIsJournalled, ResetClears, MarkInv,
                    survived = {}, ~dirty, NeuralUpToDate, sqlite # {}
             PROVE  store["neural"] = sqlite
  BY DEF NeuralComplete, NeuralTrusted
<1>0. ~Kept("neural") /\ ~Outlived("neural")
  BY DEF Kept, Outlived
<1>1. CASE NeuralMarkedCurrent
  <2>1. mark["neural"] = gen /\ ~Journalled("neural") /\ store["neural"] # None
    BY <1>1 DEF NeuralMarkedCurrent
  <2>2. ~Discarded("neural")
    BY <1>0, <2>1 DEF Discarded, ResetClears
  <2>3. sqlite \subseteq KeysOf(store["neural"])
    BY <1>0, <2>1, <2>2 DEF MarkInv, MarkedIsWhole, Tier
  <2>4. KeysOf(store["neural"]) \subseteq sqlite
    BY <2>1 DEF StaleIsJournalled, Journalled, KeysOf, Tier
  <2>5. QED
    BY <2>1, <2>3, <2>4 DEF KeysOf
<1>2. CASE ~NeuralMarkedCurrent
  <2>1. ~Journalled("neural") /\ ~SizeLags("neural")
    BY <1>2 DEF NeuralUpToDate, NeedsNeural, NeuralLags
  <2>2. QED
    BY <1>0, <2>1, CountsSuffice DEF Tier
<1>3. QED
  BY <1>1, <1>2

\* However often the configured model changes and whatever fails: when
\* needs_neural_enhancement finds nothing to do for a finished publication, and
\* neither a store nor a mark has outlived its reset, the neural store has
\* exactly the chunks' keys, also when the function answers from generation
\* files alone.
THEOREM NeuralNothingToDo == Spec => []NeuralComplete
<1>1. Init => JournalInv /\ ResetClears /\ MarkInv
  BY TypeInit, SaneInit, JournalInit, MarkInit DEF JournalInv
<1>2. JournalInv /\ ResetClears /\ MarkInv => NeuralComplete
  BY MarksImplyNeural DEF JournalInv
<1>3. JournalInv => TypeOK /\ WorkersSane
  BY DEF JournalInv
<1>4. QED
  BY <1>1, <1>2, <1>3, JournalStep, MarkStep, PTL DEF Spec
================================================================================
