--------------------------- MODULE VectorEnhancement ---------------------------
(***************************************************************************)
(* How background workers keep the hash and the neural vector store of a   *)
(* workspace in step with its SQLite chunks while index runs go on:        *)
(* enhancement.lock serialises the workers, index.lock is held only to     *)
(* read and to publish, deletions reach a worker through tombstone         *)
(* journals, a replaced index is recognised by its incarnation, and a      *)
(* generation file records what a store was completed for.                 *)
(* (src/src/indexer.rs, src/src/indexer/enhancement.rs,                    *)
(* src/src/workspace.rs, src/src/cli.rs.)                                  *)
(*                                                                         *)
(* A key is a chunk's vector_key; a vector is only present or absent.  A   *)
(* whole replacement of the stores is one step here, because it happens    *)
(* under index.lock; IndexPublication models its inside.                   *)
(***************************************************************************)
EXTENDS Integers, FiniteSets

CONSTANTS
    Keys,      \* vector keys
    Workers,   \* enhancement processes
    Models,    \* identities of neural models
    Budgets,   \* bound: the workers there are, whether the build has the neural
               \* feature, and how many index runs that change the stores, faults
               \* (of workers, runs and removals) and changes of the configured
               \* model may happen
    None,      \* an absent file, a free lock
    Indexer    \* the index run, as a holder of index.lock

BudgetType ==
    [workers : SUBSET Workers, neural : BOOLEAN, runs : Nat, faults : Nat, config : Nat]

ASSUME BoundsAssumption ==
    /\ Budgets \subseteq BudgetType
    /\ IsFiniteSet(Keys)

ASSUME NamesAssumption ==
    /\ Models # {} /\ None \notin Models /\ \A keys \in SUBSET Keys : None # keys
    /\ None \notin Workers /\ Indexer \notin Workers /\ None # Indexer

VARIABLES
    sqlite,     \* keys of the committed chunks
    gen,        \* index_generation of workspace.json
    dirty,      \* .indexing.incomplete is on disk
    inc,        \* index_incarnation
    store,      \* tier -> keys of the vector store on disk, or None
    pending,    \* tier -> tombstone journal that index runs append to, or None
    processing, \* tier -> journal a worker has claimed, or None
    mark,       \* tier -> <tier>_enhanced_generation; 0: absent
    model,      \* neural_model.json, or None
    made,       \* ghost: models that made the vectors of the neural store
    ilock,      \* holder of index.lock
    wlock,      \* holder of enhancement.lock
    ix,         \* the index run: pc and the transaction's target keys
    worker,     \* each worker's locals
    job,        \* the enhancement record: its live owner or None, and whether its
                \* error says that the neural feature is not compiled in
    survived,   \* ghost: files of a discarded neural store that are still there,
                \* "store" or "mark": the removal failed or the worker died
    configured, \* the configured model identity
    budget      \* workers, and index runs, faults and configuration changes left

disk == <<store, pending, processing, mark, model, made>>
index == <<sqlite, gen, dirty, inc, ix>>
vars == <<sqlite, gen, dirty, inc, store, pending, processing, mark, model,
          made, ilock, wlock, ix, worker, job, survived, configured, budget>>

Tier == {"hash", "neural"}
Or(x, default) == IF x = None THEN default ELSE x
KeysOf(x) == IF x = None THEN {} ELSE x

-----------------------------------------------------------------------------
(* When a tier has work to do.  Sizes are compared, not keys.              *)

Journalled(t) == pending[t] # None \/ processing[t] # None

\* Mutant: an unapplied journal does not count as work.
HashMarkCurrent == mark["hash"] = gen

HashGenerationCurrent == mark["hash"] = gen /\ ~Journalled("hash")

SizeLags(t) ==
    \/ store[t] = None
    \/ Cardinality(KeysOf(store[t])) < Cardinality(sqlite)

NeedsHash ==
    IF sqlite = {} THEN Journalled("hash")
    ELSE ~HashGenerationCurrent \/ SizeLags("hash")

\* The early answer of needs_neural_enhancement: generation files alone.
NeuralMarkedCurrent ==
    /\ HashGenerationCurrent /\ store["hash"] # None
    /\ mark["neural"] = gen /\ ~Journalled("neural")
    /\ store["neural"] # None /\ model = configured

\* A build without the neural feature stops asking once a job has said so.
NeuralLags ==
    /\ ~NeuralMarkedCurrent
    /\ IF sqlite = {} THEN Journalled("hash") \/ Journalled("neural")
       ELSE \/ ~HashGenerationCurrent \/ SizeLags("hash")
            \/ Journalled("neural")
            \/ ~job.refused /\ (model # configured \/ SizeLags("neural"))

JobActive == job.owner # None

\* needs_neural_enhancement: while a job is active there is nothing to start.
NeedsNeural == ~JobActive /\ NeuralLags

-----------------------------------------------------------------------------
Idle == [pc |-> "idle", full |-> FALSE, tier |-> "hash", inc |-> 0,
         gen |-> 0, mem |-> {}, made |-> {}, todo |-> {}, batch |-> {},
         claimed |-> FALSE, empty |-> FALSE, save |-> FALSE, step |-> 0,
         model |-> None]

\* A published index of an empty tree.
Init ==
    /\ sqlite = {} /\ gen = 1 /\ dirty = FALSE /\ inc = 1
    /\ store = [t \in Tier |-> IF t = "hash" THEN {} ELSE None]
    /\ pending = [t \in Tier |-> None]
    /\ processing = [t \in Tier |-> None]
    /\ mark = [t \in Tier |-> 0]
    /\ model = None /\ made = {}
    /\ ilock = None /\ wlock = None
    /\ ix = [pc |-> "idle", tx |-> {}]
    /\ worker = [w \in Workers |-> Idle]
    /\ job = [owner |-> None, refused |-> FALSE] /\ survived = {}
    /\ configured = CHOOSE m \in Models : TRUE
    /\ budget \in Budgets

Spend(kind) == budget[kind] > 0 /\ budget' = [budget EXCEPT ![kind] = @ - 1]

-----------------------------------------------------------------------------
(* The index run, under index.lock.                                        *)

workers == <<wlock, worker, job, configured>>
IxGoto(pc) == ix' = [ix EXCEPT !.pc = pc]

\* An unfinished publication is never continued: the stores are replaced.
IxBegin ==
    /\ ilock = None /\ Spend("runs")
    /\ ilock' = Indexer
    /\ dirty' = TRUE
    /\ \E pc \in IF dirty THEN {"replace"} ELSE {"update", "replace"} : IxGoto(pc)
    /\ UNCHANGED <<sqlite, gen, inc, disk, workers, survived>>

\* The staged stores, and no derived vectors, replace the old ones.  After a
\* reset, which deletes workspace.json too, generations start again.
IxReplace ==
    /\ ix.pc = "replace"
    /\ \E g \in {0, gen} : gen' = g
    /\ \E keys \in SUBSET Keys : sqlite' = keys
    /\ inc' = inc + 1
    /\ store' = [store EXCEPT !["hash"] = {}, !["neural"] = None]
    /\ pending' = [t \in Tier |-> None]
    /\ processing' = [t \in Tier |-> None]
    /\ mark' = [t \in Tier |-> 0]
    /\ model' = None /\ made' = {} /\ survived' = {}
    /\ IxGoto("metadata")
    /\ UNCHANGED <<dirty, ilock, workers, budget>>

Append(t, keys) ==
    pending' = IF keys = {} THEN pending
               ELSE [pending EXCEPT ![t] = KeysOf(@) \cup keys]

\* One SQLite transaction: its stale keys go to both journals, then it commits.
IxTransaction ==
    /\ ix.pc = "update"
    /\ \E keys \in SUBSET Keys :
          /\ Append("hash", sqlite \ keys)
          /\ ix' = [ix EXCEPT !.pc = "journal", !.tx = keys]
    /\ UNCHANGED <<sqlite, gen, dirty, inc, store, processing, mark, model,
                   made, ilock, workers, survived, budget>>

\* Mutant: only the hash journal is written.
IxJournalHashOnly ==
    /\ ix.pc = "journal"
    /\ IxGoto("commit")
    /\ UNCHANGED <<sqlite, gen, dirty, inc, disk, ilock, workers, survived, budget>>

IxJournalNeural ==
    /\ ix.pc = "journal"
    /\ Append("neural", sqlite \ ix.tx)
    /\ IxGoto("commit")
    /\ UNCHANGED <<sqlite, gen, dirty, inc, store, processing, mark, model,
                   made, ilock, workers, survived, budget>>

\* Another transaction may follow (checkpoint_deletion_tombstones).
IxCommit ==
    /\ ix.pc = "commit"
    /\ sqlite' = ix.tx
    /\ \E pc \in {"update", "metadata"} : ix' = [pc |-> pc, tx |-> {}]
    /\ UNCHANGED <<gen, dirty, inc, disk, ilock, workers, survived, budget>>

IxMetadata ==
    /\ ix.pc = "metadata"
    /\ gen' = gen + 1
    /\ IxGoto("clear")
    /\ UNCHANGED <<sqlite, dirty, inc, disk, ilock, workers, survived, budget>>

IxClear ==
    /\ ix.pc = "clear"
    /\ dirty' = FALSE
    /\ ilock' = None
    /\ ix' = [pc |-> "idle", tx |-> {}]
    /\ UNCHANGED <<sqlite, gen, inc, disk, workers, survived, budget>>

\* The run fails or its process dies.  A journal append that was under way
\* leaves only some of its complete records.
IxFails ==
    /\ ix.pc # "idle"
    /\ Spend("faults")
    /\ \/ pending' = pending
       \/ /\ ix.pc = "update"
          /\ \E keys \in SUBSET sqlite : Append("hash", keys)
       \/ /\ ix.pc = "journal"
          /\ \E keys \in SUBSET (sqlite \ ix.tx) : Append("neural", keys)
    /\ ilock' = None
    /\ ix' = [pc |-> "idle", tx |-> {}]
    /\ UNCHANGED <<sqlite, gen, dirty, inc, store, processing, mark, model,
                   made, workers, survived>>

-----------------------------------------------------------------------------
(* A worker: one pass per tier.                                            *)

Set(w, rec) == worker' = [worker EXCEPT ![w] = rec]
Leave(w) == Set(w, Idle)

\* The record of a process that is gone is not active.
JobOf(w) == job' = IF job.owner = w THEN [job EXCEPT !.owner = None] ELSE job

\* Triggered when a tier has work and no job is active.  Whether .enhancing.pid
\* keeps a second worker out is EnhancementQueue's subject; here it does not.
Launch(w) ==
    /\ w \in budget.workers /\ worker[w].pc = "idle" /\ ~JobActive
    /\ \E full \in BOOLEAN :
          /\ IF full THEN NeedsNeural ELSE NeedsHash
          /\ Set(w, [Idle EXCEPT !.pc = "start", !.full = full])
    /\ UNCHANGED <<index, disk, ilock, wlock, job, survived, configured, budget>>

\* EnhancementSnapshot::begin binds the worker to an incarnation, under
\* index.lock; one with a neural pass starts a job.
Begin(w) ==
    /\ worker[w].pc = "start" /\ ilock = None
    /\ Set(w, [worker[w] EXCEPT !.pc = "wait", !.inc = inc])
    /\ job' = IF worker[w].full THEN [owner |-> w, refused |-> FALSE] ELSE job
    /\ UNCHANGED <<index, disk, ilock, wlock, survived, configured, budget>>

\* lock_worker
LockWorker(w) ==
    /\ worker[w].pc = "wait" /\ wlock = None
    /\ wlock' = w
    /\ Set(w, [worker[w] EXCEPT !.pc = "open"])
    /\ UNCHANGED <<index, disk, ilock, job, survived, configured, budget>>

\* verify_current fails with EnhancementSuperseded: the worker gives up.
Superseded(w) ==
    /\ worker[w].pc \in {"open", "read", "checkpoint", "cleanup", "refused"} /\ ilock = None
    /\ worker[w].inc # inc
    /\ wlock' = IF wlock = w THEN None ELSE wlock
    /\ Leave(w) /\ JobOf(w)
    /\ UNCHANGED <<index, disk, ilock, survived, configured, budget>>

LockCurrent(w) == ilock = None /\ worker[w].inc = inc

\* Only the hash tier can find the model it needs without looking.
ModelMatches(w) == worker[w].tier = "hash" \/ model = worker[w].model

\* Takes index.lock; a neural pass of another model discards what it finds.
Open(w) ==
    /\ worker[w].pc = "open" /\ LockCurrent(w)
    /\ ilock' = w
    /\ Set(w, [worker[w] EXCEPT !.gen = gen, !.step = 1,
                                !.pc = IF ModelMatches(w) THEN "claim" ELSE "reset"])
    /\ UNCHANGED <<index, disk, wlock, job, survived, configured, budget>>

\* Mutant: the new identity is written before the old store is removed.
ResetIdentityFirst(w) ==
    /\ worker[w].pc = "reset"
    /\ LET s == worker[w].step IN
         /\ model' = worker[w].model
         /\ store' = IF s = 2 THEN [store EXCEPT !["neural"] = None] ELSE store
         /\ made' = IF s = 2 THEN {} ELSE made
         /\ pending' = IF s = 3 THEN [pending EXCEPT !["neural"] = None] ELSE pending
         /\ processing' = IF s = 4 THEN [processing EXCEPT !["neural"] = None]
                          ELSE processing
         /\ mark' = IF s = 5 THEN [mark EXCEPT !["neural"] = 0] ELSE mark
         /\ Set(w, [worker[w] EXCEPT !.step = s + 1,
                                     !.pc = IF s = 5 THEN "claim" ELSE "reset"])
         /\ survived' = survived \ (IF s = 2 THEN {"store"} ELSE IF s = 5 THEN {"mark"} ELSE {})
    /\ UNCHANGED <<index, ilock, wlock, job, configured, budget>>

\* remove_store_files, both journals, the generation file, then the identity.
ResetNeural(w) ==
    /\ worker[w].pc = "reset"
    /\ LET s == worker[w].step IN
         /\ store' = IF s = 1 THEN [store EXCEPT !["neural"] = None] ELSE store
         /\ made' = IF s = 1 THEN {} ELSE made
         /\ pending' = IF s = 2 THEN [pending EXCEPT !["neural"] = None] ELSE pending
         /\ processing' = IF s = 3 THEN [processing EXCEPT !["neural"] = None]
                          ELSE processing
         /\ mark' = IF s = 4 THEN [mark EXCEPT !["neural"] = 0] ELSE mark
         /\ model' = IF s = 5 THEN worker[w].model ELSE model
         /\ Set(w, [worker[w] EXCEPT !.step = s + 1,
                                     !.pc = IF s = 5 THEN "claim" ELSE "reset"])
         /\ survived' = survived \ (IF s = 1 THEN {"store"} ELSE IF s = 4 THEN {"mark"} ELSE {})
    /\ UNCHANGED <<index, ilock, wlock, job, configured, budget>>

\* A removal fails; its error is dropped and the reset goes on.
ResetIgnores(w) ==
    /\ worker[w].pc = "reset" /\ worker[w].step \in 1 .. 4
    /\ Spend("faults")
    /\ Set(w, [worker[w] EXCEPT !.step = @ + 1])
    /\ survived' = survived \cup (IF worker[w].step = 1 /\ store["neural"] # None THEN {"store"} ELSE {})
                           \cup (IF worker[w].step = 4 /\ mark["neural"] # 0 THEN {"mark"} ELSE {})
    /\ UNCHANGED <<index, disk, ilock, wlock, job, configured>>

\* claim_vector_tombstones, then the keys to embed; releases index.lock.
Claim(w) ==
    /\ worker[w].pc = "claim"
    /\ LET t == worker[w].tier
           journal == Or(processing[t], pending[t])
           mem == KeysOf(store[t]) \ KeysOf(journal)
       IN
         /\ processing' = [processing EXCEPT ![t] = journal]
         /\ pending' = IF processing[t] = None
                       THEN [pending EXCEPT ![t] = None] ELSE pending
         /\ Set(w, [worker[w] EXCEPT
                      !.pc = "read", !.step = 0, !.mem = mem,
                      !.made = IF t = "neural" THEN made ELSE {},
                      !.todo = sqlite \ mem, !.claimed = (journal # None),
                      !.empty = (sqlite = {}),
                      !.save = (journal # None \/ (t = "neural" /\ store[t] = None))])
    /\ ilock' = None
    /\ UNCHANGED <<index, store, mark, model, made, wlock, job, survived, configured, budget>>

\* read_batch under lock_current: keys deleted meanwhile are skipped.
ReadBatch(w) ==
    /\ worker[w].pc = "read" /\ LockCurrent(w)
    /\ \E keys \in (SUBSET worker[w].todo) \ {{}} :
          Set(w, [worker[w] EXCEPT !.pc = "embed", !.batch = keys \cap sqlite,
                                   !.todo = @ \ keys])
    /\ UNCHANGED <<index, disk, ilock, wlock, job, survived, configured, budget>>

\* process_batch, without index.lock.
Embed(w) ==
    /\ worker[w].pc = "embed"
    /\ Set(w, [worker[w] EXCEPT
                 !.pc = "checkpoint", !.batch = {}, !.mem = @ \cup worker[w].batch,
                 !.made = IF worker[w].tier = "neural" /\ worker[w].batch # {}
                          THEN @ \cup {worker[w].model} ELSE @,
                 !.save = @ \/ worker[w].batch # {}])
    /\ UNCHANGED <<index, disk, ilock, wlock, job, survived, configured, budget>>

Save(w, keys) ==
    /\ store' = [store EXCEPT ![worker[w].tier] = keys]
    /\ made' = IF worker[w].tier = "neural" THEN worker[w].made ELSE made

\* After a batch, under lock_current; at some batches the store is saved.
Checkpoint(w) ==
    /\ worker[w].pc = "checkpoint" /\ LockCurrent(w)
    /\ \/ Save(w, worker[w].mem)
       \/ UNCHANGED <<store, made>>
    /\ Set(w, [worker[w] EXCEPT !.pc = "read"])
    /\ UNCHANGED <<index, pending, processing, mark, model, ilock, wlock, job, survived,
                   configured, budget>>

\* The last rows are embedded: index.lock, the store, the journal, the mark.
FinishSave(w) ==
    /\ worker[w].pc = "read" /\ worker[w].todo = {} /\ LockCurrent(w)
    /\ ilock' = w
    /\ \/ worker[w].empty /\ worker[w].claimed /\ Save(w, {})
       \/ ~(worker[w].empty /\ worker[w].claimed) /\ worker[w].save
          /\ Save(w, worker[w].mem)
       \/ ~worker[w].save /\ UNCHANGED <<store, made>>
    /\ Set(w, [worker[w] EXCEPT !.pc = "release"])
    /\ UNCHANGED <<index, pending, processing, mark, model, wlock, job, survived, configured,
                   budget>>

FinishJournal(w) ==
    /\ worker[w].pc = "release"
    /\ processing' = IF worker[w].claimed
                     THEN [processing EXCEPT ![worker[w].tier] = None]
                     ELSE processing
    /\ Set(w, [worker[w] EXCEPT !.pc = "mark"])
    /\ UNCHANGED <<index, store, pending, mark, model, made, ilock, wlock, job, survived,
                   configured, budget>>

\* A full job goes on to its neural pass, with the model configured now, if the
\* build has one to load.
NextPass(w) ==
    LET bound == [Idle EXCEPT !.full = worker[w].full, !.inc = worker[w].inc] IN
    Set(w, IF worker[w].full /\ worker[w].tier = "hash"
           THEN IF budget.neural
                THEN [bound EXCEPT !.pc = "wait", !.tier = "neural", !.model = configured]
                ELSE [bound EXCEPT !.pc = "refused"]
           ELSE [bound EXCEPT !.pc = "cleanup"])

\* Mutant: whatever generation is current is marked.
FinishMarkCurrent(w) ==
    /\ worker[w].pc = "mark"
    /\ mark' = [mark EXCEPT ![worker[w].tier] = gen]
    /\ survived' = IF worker[w].tier = "neural" THEN survived \ {"mark"} ELSE survived
    /\ ilock' = None /\ wlock' = None
    /\ NextPass(w)
    /\ UNCHANGED <<index, store, pending, processing, model, made, job, configured, budget>>

\* Mutant: the pass ends without a mark.
FinishUnmarked(w) ==
    /\ worker[w].pc = "mark"
    /\ ilock' = None /\ wlock' = None
    /\ NextPass(w)
    /\ UNCHANGED <<index, disk, job, survived, configured, budget>>

\* Only the generation the pass began with is marked.
FinishMark(w) ==
    /\ worker[w].pc = "mark"
    /\ mark' = IF gen = worker[w].gen
               THEN [mark EXCEPT ![worker[w].tier] = gen] ELSE mark
    /\ survived' = IF worker[w].tier = "neural" /\ gen = worker[w].gen
                   THEN survived \ {"mark"} ELSE survived
    /\ ilock' = None /\ wlock' = None
    /\ NextPass(w)
    /\ UNCHANGED <<index, store, pending, processing, model, made, job, configured, budget>>

\* The end, under index.lock: a full worker finishes its record unless another
\* worker has started one since; a hash worker finishes whatever record there
\* is, unless .enhancing.pid is another worker's.
Cleanup(w) ==
    /\ worker[w].pc \in {"cleanup", "refused"} /\ LockCurrent(w)
    /\ \/ /\ IF worker[w].full THEN job.owner = w ELSE TRUE
          /\ job' = [owner |-> None, refused |-> worker[w].pc = "refused"]
       \/ /\ IF worker[w].full THEN job.owner # w
             ELSE \E x \in Workers \ {w} : worker[x].pc # "idle"
          /\ job' = job
    /\ Leave(w)
    /\ UNCHANGED <<index, disk, ilock, wlock, survived, configured, budget>>

\* The process dies, or a step returns an error: locks go, files stay.
WorkerFails(w) ==
    /\ worker[w].pc # "idle"
    /\ Spend("faults")
    /\ ilock' = IF ilock = w THEN None ELSE ilock
    /\ wlock' = IF wlock = w THEN None ELSE wlock
    /\ survived' = IF worker[w].pc = "reset" /\ worker[w].step \in 2 .. 4 /\ mark["neural"] # 0
                   THEN survived \cup {"mark"} ELSE survived
    /\ Leave(w) /\ JobOf(w)
    /\ UNCHANGED <<index, disk, configured>>

Reconfigure ==
    /\ Spend("config")
    /\ \E m \in Models \ {configured} : configured' = m
    /\ UNCHANGED <<index, disk, ilock, wlock, worker, job, survived>>

-----------------------------------------------------------------------------
IndexStep == \/ IxBegin \/ IxReplace \/ IxTransaction \/ IxJournalNeural
             \/ IxCommit \/ IxMetadata \/ IxClear

WorkerStep(w) ==
    \/ Launch(w) \/ Begin(w) \/ LockWorker(w) \/ Superseded(w) \/ Open(w)
    \/ ResetNeural(w) \/ Claim(w) \/ ReadBatch(w) \/ Embed(w) \/ Checkpoint(w)
    \/ FinishSave(w) \/ FinishJournal(w) \/ FinishMark(w) \/ Cleanup(w)

Next == \/ IndexStep \/ IxFails \/ Reconfigure
        \/ \E w \in Workers : WorkerStep(w) \/ ResetIgnores(w) \/ WorkerFails(w)

Spec == Init /\ [][Next]_vars

\* A worker that was started runs on, and one is started as long as a search
\* or the daemon finds work; index.lock is contended, so the steps that wait
\* for it are strongly fair.  A run has finitely many transactions.
Fairness ==
    /\ WF_vars(IndexStep /\ ix.pc # "idle")
    /\ SF_vars(IxCommit /\ ix'.pc = "metadata")
    /\ \A w \in Workers :
          /\ SF_vars(WorkerStep(w) /\ worker[w].pc # "idle")
          /\ SF_vars(Launch(w) /\ worker'[w].full)

FairSpec == Spec /\ Fairness

-----------------------------------------------------------------------------
(* Properties.                                                             *)

WorkerType ==
    [pc : {"idle", "start", "wait", "open", "reset", "claim", "read", "embed",
           "checkpoint", "release", "mark", "cleanup", "refused"},
     full : BOOLEAN, tier : Tier, inc : Nat, gen : Nat, mem : SUBSET Keys,
     made : SUBSET Models, todo : SUBSET Keys, batch : SUBSET Keys,
     claimed : BOOLEAN, empty : BOOLEAN, save : BOOLEAN, step : 0 .. 6,
     model : Models \cup {None}]

\* Where a worker does not hold enhancement.lock.
Outside == {"idle", "start", "wait", "cleanup", "refused"}

\* Every piece of state keeps its type, and index.lock and enhancement.lock
\* are held exactly by the process that is inside what they protect.
TypeOK ==
    /\ sqlite \in SUBSET Keys /\ gen \in Nat /\ dirty \in BOOLEAN /\ inc \in Nat
    /\ store \in [Tier -> (SUBSET Keys) \cup {None}]
    /\ pending \in [Tier -> (SUBSET Keys) \cup {None}]
    /\ processing \in [Tier -> (SUBSET Keys) \cup {None}]
    /\ mark \in [Tier -> Nat]
    /\ model \in Models \cup {None} /\ made \in SUBSET Models
    /\ ix \in [pc : {"idle", "replace", "update", "journal", "commit",
                     "metadata", "clear"}, tx : SUBSET Keys]
    /\ worker \in [Workers -> WorkerType]
    /\ configured \in Models
    /\ job \in [owner : Workers \cup {None}, refused : BOOLEAN]
    /\ survived \subseteq {"store", "mark"}
    /\ budget \in BudgetType
    /\ ix.pc # "idle" <=> ilock = Indexer
    /\ \A w \in Workers :
          /\ worker[w].pc \in {"reset", "claim", "release", "mark"} <=> ilock = w
          /\ worker[w].pc \notin Outside <=> wlock = w
    /\ ix.pc # "idle" => dirty

\* A vector whose chunk is gone is always named by a journal that a later pass
\* will apply, whatever worker is computing, has died or is publishing
\* (commit_with_vector_tombstones flushes before it commits).  Excepted is a neural
\* store that was to be discarded and could not be removed: the reset drops that
\* error and removes the journals (src/src/indexer.rs:3030).
StaleIsJournalled ==
    \A t \in Tier :
        (t = "neural" => "store" \notin survived)
        => KeysOf(store[t]) \ sqlite \subseteq KeysOf(pending[t]) \cup KeysOf(processing[t])

\* needs_hash_enhancement compares a generation, two files and two counts; when
\* it finds nothing to do, the hash store holds exactly the chunks' keys.
HashComplete == ~NeedsHash => KeysOf(store["hash"]) = sqlite

\* needs_neural_enhancement answers no, neither because a job is active nor
\* because the build has no neural feature.
NeuralUpToDate == ~NeedsNeural /\ ~JobActive /\ ~job.refused

\* When needs_neural_enhancement finds nothing to do for a finished publication,
\* the neural store holds exactly the chunks' keys, although the function may
\* answer from the generation files without counting.
NeuralTrusted ==
    NeuralUpToDate /\ ~dirty /\ sqlite # {} => store["neural"] = sqlite

\* So it is, except while a store or a generation file that a reset meant to
\* remove is still there (the worker died first, or the removal failed).
NeuralComplete == survived = {} => NeuralTrusted

\* The neural store never mixes the vectors of two models, and
\* neural_model.json names the one that made them.
ModelsApart == store["neural"] # None => made \subseteq {model}

\* So it is, also after a worker died while it discarded the store of another
\* model, or could not remove its journals or its generation file; only a store
\* that could not be removed itself is taken for the new model's.
ModelNamed == "store" \notin survived => ModelsApart

\* Once edits, failures and reconfigurations stop, the workers bring both
\* stores up to date and find nothing more to do; a build without the neural
\* feature does so for the hash store.
EventuallyEnhanced == <>[](~NeedsHash /\ (budget.neural => ~NeuralLags))

================================================================================
