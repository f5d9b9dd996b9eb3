------------------------- MODULE DaemonSearchProofs -------------------------
(***************************************************************************)
(* EarlyCancelWins and FreshAnswers of DaemonSearch, for any number of     *)
(* searches, ids and permits, any bounds of the caches and any budget of   *)
(* the environment.                                                        *)
(***************************************************************************)
EXTENDS DaemonSearch, TLAPS

\* Where a search has read its signature and may use it, and where it can no
\* longer make a pool of its own.
Signed == {"lookup", "context", "run", "store"}
Pooled == {"run", "store", "respond", "drop", "done"}

Whole(q, least) == q.hits.whole /\ q.hits.ver >= least

\* What one search knows, when `ver` is the published index: it never signs
\* for less than it was asked for, holds no context older than its signature,
\* and has hits to show or has been cancelled.
Sound(q, ver) ==
    /\ q.floor <= ver /\ q.sig <= ver
    /\ q.pc \in Signed => q.floor <= q.sig
    /\ q.pool # None => q.pc = "run" /\ q.sig <= q.loaded
    /\ q.pc = "store" => q.flag \/ Whole(q, q.sig)
    /\ q.pc = "respond" => q.flag \/ Whole(q, q.floor)
    /\ q.reply = "hits" => Whole(q, q.floor)
    /\ q.pc # "drop" => q.reply = "none"

\* A search that arrives over a tombstone gets no further than its lease.
Doomed(q) ==
    /\ q.kind = "pack" => ~q.deadline
    /\ q.doomed => /\ q.flag
                   /\ q.pc \in {"check", "lease", "drop"}
                   /\ q.pc = "lease" => q.kind = "pack"
                   /\ q.pc = "drop" => q.reply = "cancelled"

AnswerTypes ==
    /\ version \in Nat /\ revision \in Nat
    /\ search \in [Searches -> SearchState]
    /\ pools \in [Searches -> Seq(Nat)]
    /\ context # None => context.sig \in Nat /\ context.pool \in Searches

SearchesSound == \A s \in Searches : Sound(search[s], version) /\ Doomed(search[s])

\* A cached result is complete and as new as the signature it is kept under.
ResultsSound ==
    \A v \in DOMAIN results :
        /\ results[v] \in [ver : Nat, whole : BOOLEAN]
        /\ results[v].whole /\ results[v].ver >= v

\* The pool in use holds nothing older than its signature, and whoever
\* borrowed from it has that signature; a pool not yet made is empty, unused
\* and not in the cache.
PoolsSound ==
    /\ context # None =>
          /\ \A k \in 1..Len(pools[context.pool]) : pools[context.pool][k] >= context.sig
          /\ \A s \in Searches : search[s].pool = context.pool => search[s].sig = context.sig
    /\ \A p \in Searches : search[p].pc \notin Pooled =>
          /\ pools[p] = <<>>
          /\ context # None => context.pool # p
          /\ \A s \in Searches : search[s].pool # p

AnswerInv == AnswerTypes /\ SearchesSound /\ ResultsSound /\ PoolsSound

-----------------------------------------------------------------------------
\* The invariant gives both properties.
LEMMA InvImpliesEarly == AnswerInv => EarlyCancelWins
<1> SUFFICES ASSUME AnswerInv, NEW s \in Searches, search[s].doomed
             PROVE  search[s].reply \in {"none", "cancelled"}
  BY DEF EarlyCancelWins
<1>1. Sound(search[s], version) /\ Doomed(search[s])
  BY DEF AnswerInv, SearchesSound
<1>2. QED
  BY <1>1 DEF Sound, Doomed

LEMMA InvImpliesFresh == AnswerInv => FreshAnswers
<1> SUFFICES ASSUME AnswerInv, NEW s \in Searches, search[s].reply = "hits"
             PROVE  search[s].hits.whole /\ search[s].hits.ver >= search[s].floor
  BY DEF FreshAnswers
<1>1. Sound(search[s], version)
  BY DEF AnswerInv, SearchesSound
<1>2. QED
  BY <1>1 DEF Sound, Whole

-----------------------------------------------------------------------------
(* Steps of one search.                                                    *)

\* One search changes and the index may move on.
LEMMA OneSearch ==
    ASSUME AnswerInv, NEW s \in Searches, NEW new,
           search' = [search EXCEPT ![s] = new], new \in SearchState
    PROVE  /\ search' \in [Searches -> SearchState]
           /\ search'[s] = new /\ \A t \in Searches \ {s} : search'[t] = search[t]
BY DEF AnswerInv, AnswerTypes

\* What a search knows is still so of a newer index.
LEMMA StillSound ==
    ASSUME NEW q \in SearchState, NEW old \in Nat, NEW new \in Nat, old <= new, Sound(q, old)
    PROVE  Sound(q, new)
BY DEF Sound, SearchState

\* A step that borrows nothing and gives nothing back.
LEMMA StepKeeps ==
    ASSUME AnswerInv, NEW s \in Searches,
           version' \in Nat, revision' \in Nat, version <= version',
           search' \in [Searches -> SearchState],
           \A t \in Searches \ {s} : search'[t] = search[t],
           Sound(search'[s], version'), Doomed(search'[s]),
           search'[s].pool # None =>
               search'[s].pool = search[s].pool /\ search'[s].sig = search[s].sig,
           search'[s].pc \notin Pooled => search[s].pc \notin Pooled,
           context' \in {context, None},
           pools' = [p \in Searches |-> pools'[p]],
           \A p \in Searches : pools'[p] \in {pools[p], <<>>},
           ResultsSound'
    PROVE  AnswerInv'
<1>1. AnswerTypes'
  <2>1. pools' \in [Searches -> Seq(Nat)]
    <3>1. \A p \in Searches : pools[p] \in Seq(Nat) /\ <<>> \in Seq(Nat)
      BY DEF AnswerInv, AnswerTypes
    <3>2. \A p \in Searches : pools'[p] \in Seq(Nat)
      BY <3>1, Zenon
    <3>3. QED
      BY <3>2
  <2>2. context' # None => context'.sig \in Nat /\ context'.pool \in Searches
    BY DEF AnswerInv, AnswerTypes
  <2>3. QED
    BY <2>1, <2>2 DEF AnswerTypes
<1>2. SearchesSound'
  <2> SUFFICES ASSUME NEW t \in Searches, t # s
               PROVE  Sound(search[t], version') /\ Doomed(search[t])
    BY DEF SearchesSound
  <2>1. search[t] \in SearchState /\ version \in Nat
        /\ Sound(search[t], version) /\ Doomed(search[t])
    BY DEF AnswerInv, AnswerTypes, SearchesSound
  <2>2. QED
    BY <2>1, StillSound
<1>3. \A t \in Searches :
          /\ search'[t].pool # None =>
                 search'[t].pool = search[t].pool /\ search'[t].sig = search[t].sig
          /\ search'[t].pc \notin Pooled => search[t].pc \notin Pooled
  <2> SUFFICES ASSUME NEW t \in Searches, t # s
               PROVE  search'[t] = search[t]
    BY Zenon
  <2>1. QED
    OBVIOUS
<1>4. PoolsSound'
  <2>1. ASSUME context' # None
        PROVE  /\ context' = context /\ context.pool \in Searches /\ context.pool # None
               /\ \A k \in 1..Len(pools'[context.pool]) : pools'[context.pool][k] >= context.sig
               /\ \A t \in Searches : search'[t].pool = context.pool => search'[t].sig = context.sig
    <3>1. context' = context /\ context.pool \in Searches /\ context # None
      BY <2>1 DEF AnswerInv, AnswerTypes
    <3>2. context.pool # None
      BY <3>1, Nowhere
    <3>3. pools'[context.pool] \in {pools[context.pool], <<>>}
      BY <3>1
    <3>4. \A k \in 1..Len(pools[context.pool]) : pools[context.pool][k] >= context.sig
      BY <3>1 DEF AnswerInv, PoolsSound
    <3>5. \A k \in 1..Len(pools'[context.pool]) : pools'[context.pool][k] >= context.sig
      BY <3>3, <3>4
    <3>6. \A t \in Searches : search'[t].pool = context.pool => search'[t].sig = context.sig
      BY <1>3, <3>1, <3>2 DEF AnswerInv, PoolsSound
    <3>7. QED
      BY <3>1, <3>2, <3>5, <3>6
  <2>2. ASSUME NEW p \in Searches, search'[p].pc \notin Pooled
        PROVE  /\ pools'[p] = <<>>
               /\ context' # None => context'.pool # p
               /\ \A t \in Searches : search'[t].pool # p
    <3>1. search[p].pc \notin Pooled
      BY <1>3, <2>2
    <3>2. /\ pools[p] = <<>>
          /\ context # None => context.pool # p
          /\ \A t \in Searches : search[t].pool # p
      BY <3>1 DEF AnswerInv, PoolsSound
    <3>3. p # None
      BY Nowhere
    <3>4. QED
      BY <1>3, <3>2, <3>3
  <2>3. QED
    BY <2>1, <2>2 DEF PoolsSound
<1>5. QED
  BY <1>1, <1>2, <1>4 DEF AnswerInv

\* The same with the caches as they are.
LEMMA PlainStep ==
    ASSUME AnswerInv, NEW s \in Searches, UNCHANGED <<version, context, pools, revision>>,
           search' \in [Searches -> SearchState],
           \A t \in Searches \ {s} : search'[t] = search[t],
           Sound(search'[s], version), Doomed(search'[s]),
           search'[s].pool # None =>
               search'[s].pool = search[s].pool /\ search'[s].sig = search[s].sig,
           search'[s].pc \notin Pooled => search[s].pc \notin Pooled,
           ResultsSound'
    PROVE  AnswerInv'
<1>1. version \in Nat /\ revision \in Nat /\ pools = [p \in Searches |-> pools[p]]
  BY DEF AnswerInv, AnswerTypes
<1>2. version' \in Nat /\ revision' \in Nat /\ version <= version'
  BY <1>1
<1>3. pools' = [p \in Searches |-> pools'[p]] /\ \A p \in Searches : pools'[p] \in {pools[p], <<>>}
      /\ context' \in {context, None}
  BY <1>1
<1>4. QED
  BY <1>2, <1>3, StepKeeps

\* The caches are cleared.
LEMMA ClearShape ==
    ASSUME AnswerInv, Clear
    PROVE  /\ context' \in {context, None} /\ revision' \in Nat /\ ResultsSound'
           /\ pools' = [p \in Searches |-> pools'[p]]
           /\ \A p \in Searches : pools'[p] \in {pools[p], <<>>}
<1>1. context' = None /\ revision' = revision + 1 /\ results' = Nothing
      /\ Retire(None, Held(search), pools, idleCount)
  BY DEF Clear
<1>2. revision \in Nat
  BY DEF AnswerInv, AnswerTypes
<1>3. ResultsSound'
  BY <1>1 DEF ResultsSound, Nothing
<1>4. PICK alive : pools' = [p \in Searches |-> IF p \in alive THEN pools[p] ELSE <<>>]
  BY <1>1 DEF Retire
<1>5. QED
  BY <1>1, <1>2, <1>3, <1>4

-----------------------------------------------------------------------------
(* The steps.                                                              *)

\* A search that is not there any more.
LEMMA UnbornIsSound ==
    /\ Unborn \in SearchState /\ Unborn.pool = None
    /\ \A ver \in Nat : Sound(Unborn, ver) /\ Doomed(Unborn)
    /\ \A pc \in {"idle", "done"} :
          LET q == [Unborn EXCEPT !.pc = pc]
          IN  /\ q \in SearchState /\ q.pc = pc /\ q.pool = None
              /\ \A ver \in Nat : Sound(q, ver) /\ Doomed(q)
<1>1. Unborn \in SearchState /\ Unborn.pool = None
      /\ \A ver \in Nat : Sound(Unborn, ver) /\ Doomed(Unborn)
  <2>1. Unborn \in SearchState
    BY DEF Unborn, NoHits, Kinds, SearchState
  <2>2. /\ Unborn.pool = None /\ Unborn.floor = 0 /\ Unborn.sig = 0 /\ Unborn.reply = "none"
        /\ Unborn.kind = "hybrid" /\ Unborn.doomed = FALSE /\ Unborn.pc = "idle"
    BY DEF Unborn
  <2>3. QED
    BY <2>1, <2>2 DEF Sound, Doomed, Signed
<1> SUFFICES ASSUME NEW pc \in {"idle", "done"}
             PROVE  LET q == [Unborn EXCEPT !.pc = pc]
                    IN  /\ q \in SearchState /\ q.pc = pc /\ q.pool = None
                        /\ \A ver \in Nat : Sound(q, ver) /\ Doomed(q)
  BY <1>1
<1> DEFINE q == [Unborn EXCEPT !.pc = pc]
<1>2. q \in SearchState /\ q.pc = pc
  BY <1>1 DEF SearchState
<1>3. /\ q.pool = None /\ q.floor = 0 /\ q.sig = 0 /\ q.reply = "none" /\ q.kind = "hybrid"
      /\ q.doomed = FALSE
  BY DEF Unborn
<1>4. \A ver \in Nat : Sound(q, ver) /\ Doomed(q)
  BY <1>2, <1>3 DEF Sound, Doomed, Signed
<1>5. QED
  BY <1>2, <1>3, <1>4

\* A search that waits or works moves on without touching the caches.
LEMMA MoveKeeps ==
    ASSUME AnswerInv, NEW s \in Searches,
           \/ Check(s) \/ Lease(s) \/ Permit(s) \/ Sign(s) \/ Lookup(s) \/ Respond(s)
           \/ Disconnect(s) \/ Deadline(s) \/ Unregister(s)
    PROVE  AnswerInv'
<1>1. UNCHANGED <<version, context, pools, revision, results>>
  BY DEF Check, Lease, Permit, Sign, Lookup, Respond, Disconnect, Deadline, Unregister, caches
<1> DEFINE q == search[s]
<1>2. /\ q \in SearchState /\ version \in Nat /\ revision \in Nat
      /\ search \in [Searches -> SearchState]
      /\ Sound(q, version) /\ Doomed(q)
  BY DEF AnswerInv, AnswerTypes, SearchesSound
<1>3. ResultsSound /\ ResultsSound'
  BY <1>1 DEF AnswerInv, ResultsSound
<1>4. /\ search' \in [Searches -> SearchState] /\ \A t \in Searches \ {s} : search'[t] = search[t]
      /\ Sound(search'[s], version) /\ Doomed(search'[s])
      /\ search'[s].pool # None => search'[s].pool = q.pool /\ search'[s].sig = q.sig
      /\ search'[s].pc \notin Pooled => q.pc \notin Pooled
  <2>1. CASE Check(s)
    BY <1>2, <2>1 DEF Check, Ends, Sound, Doomed, SearchState, Signed, Pooled
  <2>2. CASE Lease(s)
    BY <1>2, <2>2 DEF Lease, Ends, CancelledReply, Sound, Doomed, SearchState, Signed, Pooled
  <2>3. CASE Permit(s)
    BY <1>2, <2>3 DEF Permit, Ends, CancelledReply, Sound, Doomed, SearchState, Signed, Pooled
  <2>4. CASE Sign(s)
    BY <1>2, <2>4 DEF Sign, Sound, Doomed, SearchState, Signed, Pooled
  <2>5. CASE Lookup(s)
    BY <1>2, <1>3, <2>5 DEF Lookup, Cached, Sound, Doomed, SearchState, Signed, Pooled, Whole, ResultsSound
  <2>6. CASE Respond(s)
    BY <1>2, <2>6 DEF Respond, Ends, CancelledReply, Sound, Doomed, SearchState, Signed, Pooled, Whole
  <2>7. CASE Disconnect(s) \/ Deadline(s)
    BY <1>2, <2>7 DEF Disconnect, Deadline, Sound, Doomed, SearchState, Signed, Pooled, Whole
  <2>8. CASE Unregister(s)
    <3>1. search' = [search EXCEPT ![s] = [Unborn EXCEPT !.pc = "done"]]
      BY <2>8 DEF Unregister
    <3>2. /\ search' \in [Searches -> SearchState]
          /\ \A t \in Searches \ {s} : search'[t] = search[t]
          /\ search'[s] = [Unborn EXCEPT !.pc = "done"]
      BY <1>2, <3>1, UnbornIsSound
    <3>3. QED
      BY <1>2, <3>2, UnbornIsSound DEF Pooled
  <2>9. QED
    BY <2>1, <2>2, <2>3, <2>4, <2>5, <2>6, <2>7, <2>8
<1>5. QED
  BY <1>1, <1>3, <1>4, PlainStep

\* A search arrives: the index is at least what it was when it was read, and
\* a tombstone has cancelled it.
LEMMA RegisterKeeps ==
    ASSUME AnswerInv, NEW s \in Searches, NEW kind \in Kinds, NEW i \in Ids \cup {None},
           Register(s, kind, i)
    PROVE  AnswerInv'
<1>1. UNCHANGED <<version, context, pools, revision, results>> /\ search[s].pc = "idle"
  BY DEF Register, caches
<1>2. /\ search \in [Searches -> SearchState] /\ version \in Nat
  BY DEF AnswerInv, AnswerTypes
<1>3. ResultsSound'
  BY <1>1 DEF AnswerInv, ResultsSound
<1> DEFINE born == [Unborn EXCEPT !.kind = kind, !.floor = version, !.pc = "check"]
<1>4. /\ born \in SearchState /\ born.pc = "check" /\ born.floor = version /\ born.kind = kind
      /\ born.sig = 0 /\ born.pool = None /\ born.reply = "none" /\ ~born.deadline
      /\ ~born.doomed
  <2>1. Unborn \in SearchState
    BY UnbornIsSound
  <2>2. born \in SearchState /\ born.pc = "check" /\ born.floor = version /\ born.kind = kind
    BY <1>2, <2>1 DEF SearchState
  <2>3. /\ born.sig = 0 /\ born.pool = None /\ born.reply = "none" /\ ~born.deadline
        /\ ~born.doomed
    BY DEF Unborn
  <2>4. QED
    BY <2>2, <2>3
<1> HIDE DEF born
<1>5. \E new \in SearchState :
          /\ search' = [search EXCEPT ![s] = new]
          /\ Sound(new, version) /\ Doomed(new) /\ new.pool = None
  <2>1. CASE search' = [search EXCEPT ![s] = born]
    <3>1. Sound(born, version) /\ Doomed(born)
      BY <1>2, <1>4 DEF Sound, Doomed, Signed
    <3>2. QED
      BY <1>4, <2>1, <3>1
  <2>2. CASE search' = [search EXCEPT ![s] = [Unborn EXCEPT !.pc = "done"]]
    BY <1>2, <2>2, UnbornIsSound
  <2>3. CASE search' = [search EXCEPT ![s] = [born EXCEPT !.id = i,
                                !.flag = StartsCancelled(i),
                                !.doomed = entries[i] = Tombstone]]
    <3>1. PICK early \in BOOLEAN : early = (entries[i] = Tombstone)
      OBVIOUS
    <3> DEFINE new == [born EXCEPT !.id = i, !.flag = early, !.doomed = early]
    <3>2. search' = [search EXCEPT ![s] = new]
      BY <2>3, <3>1 DEF StartsCancelled
    <3>3. new \in SearchState
      BY <1>4 DEF SearchState
    <3>4. Sound(new, version) /\ Doomed(new) /\ new.pool = None
      BY <1>2, <1>4 DEF Sound, Doomed, Signed, SearchState
    <3>5. QED
      BY <3>2, <3>3, <3>4
  <2>4. QED
    BY <2>1, <2>2, <2>3 DEF Register, born
<1>6. PICK new \in SearchState :
          /\ search' = [search EXCEPT ![s] = new]
          /\ Sound(new, version) /\ Doomed(new) /\ new.pool = None
  BY <1>5
<1>7. /\ search' \in [Searches -> SearchState]
      /\ search'[s] = new /\ \A t \in Searches \ {s} : search'[t] = search[t]
  BY <1>2, <1>6
<1>8. search[s].pc \notin Pooled
  BY <1>1 DEF Pooled
<1>9. QED
  BY <1>1, <1>3, <1>6, <1>7, <1>8, PlainStep

\* A cancellation trips the flag of the search that it finds.
LEMMA CancelKeeps ==
    ASSUME AnswerInv, NEW i \in Ids, CancelSearch(i)
    PROVE  AnswerInv'
<1>1. UNCHANGED <<version, context, pools, revision, results>>
  BY DEF CancelSearch, caches
<1>2. /\ search \in [Searches -> SearchState] /\ version \in Nat
  BY DEF AnswerInv, AnswerTypes
<1>3. ResultsSound'
  BY <1>1 DEF AnswerInv, ResultsSound
<1>4. CASE entries[i] \in Searches /\ search' = [search EXCEPT ![entries[i]].flag = TRUE]
  <2>1. PICK s \in Searches : search' = [search EXCEPT ![s] = [search[s] EXCEPT !.flag = TRUE]]
    BY <1>4
  <2>2. Sound(search[s], version) /\ Doomed(search[s]) /\ search[s] \in SearchState
    BY <1>2 DEF AnswerInv, SearchesSound
  <2> DEFINE new == [search[s] EXCEPT !.flag = TRUE]
  <2>3. new \in SearchState /\ Sound(new, version) /\ Doomed(new)
    <3>1. new \in SearchState
      BY <2>2 DEF SearchState
    <3>2. Sound(new, version)
      BY <2>2 DEF SearchState, Sound, Whole
    <3>3. Doomed(new)
      BY <2>2 DEF SearchState, Doomed
    <3>4. QED
      BY <3>1, <3>2, <3>3
  <2>4. new.pool = search[s].pool /\ new.sig = search[s].sig /\ new.pc = search[s].pc
    BY <2>2 DEF SearchState
  <2> HIDE DEF new
  <2>5. /\ search' \in [Searches -> SearchState]
        /\ search'[s] = new /\ \A t \in Searches \ {s} : search'[t] = search[t]
    BY <1>2, <2>1, <2>3 DEF new
  <2>6. QED
    BY <1>1, <1>3, <2>3, <2>4, <2>5, PlainStep
<1>5. CASE UNCHANGED search
  BY <1>1, <1>3, <1>5 DEF AnswerInv, AnswerTypes, SearchesSound, PoolsSound
<1>6. QED
  BY <1>4, <1>5 DEF CancelSearch

\* The blocking task begins, repairs the index, or stores what it has found.
LEMMA TaskKeeps ==
    ASSUME AnswerInv, NEW s \in Searches, Prepare(s) \/ Repaired(s) \/ Store(s)
    PROVE  AnswerInv'
<1> DEFINE q == search[s]
<1>1. /\ q \in SearchState /\ version \in Nat /\ revision \in Nat
      /\ search \in [Searches -> SearchState]
      /\ Sound(q, version) /\ Doomed(q)
      /\ pools = [p \in Searches |-> pools[p]]
  BY DEF AnswerInv, AnswerTypes, SearchesSound
<1>2. /\ search' \in [Searches -> SearchState] /\ \A t \in Searches \ {s} : search'[t] = search[t]
      /\ version' \in Nat /\ version <= version' /\ Sound(search'[s], version')
      /\ Doomed(search'[s]) /\ search'[s].pool = None
      /\ search'[s].pc \notin Pooled => q.pc \notin Pooled
  <2>1. CASE Prepare(s)
    <3>1. \/ q.flag /\ search' = [search EXCEPT ![s].pc = "respond"]
          \/ search' = [search EXCEPT ![s].pc = "sign"]
          \/ search' = [search EXCEPT ![s].pc = "repair"]
          \/ search' = [search EXCEPT ![s] = Ends(s, "error")]
      BY <2>1 DEF Prepare
    <3>2. q.pc = "prepare" /\ version' = version
      BY <2>1 DEF Prepare
    <3>3. CASE q.flag /\ search' = [search EXCEPT ![s].pc = "respond"]
      BY <1>1, <3>2, <3>3 DEF Sound, Doomed, SearchState, Signed, Pooled
    <3>4. CASE search' = [search EXCEPT ![s].pc = "sign"]
               \/ search' = [search EXCEPT ![s].pc = "repair"]
      BY <1>1, <3>2, <3>4 DEF Sound, Doomed, SearchState, Signed, Pooled
    <3>5. CASE search' = [search EXCEPT ![s] = Ends(s, "error")]
      <4> DEFINE new == Ends(s, "error")
      <4>1. /\ new \in SearchState /\ new.pc = "drop" /\ new.reply = "error" /\ new.pool = None
            /\ new.floor = q.floor /\ new.sig = q.sig /\ new.doomed = q.doomed
            /\ new.kind = q.kind /\ new.deadline = q.deadline
        BY <1>1 DEF Ends, SearchState
      <4>2. Sound(new, version)
        BY <1>1, <4>1 DEF Sound, Signed
      <4>3. Doomed(new)
        BY <1>1, <3>2, <4>1 DEF Doomed
      <4> HIDE DEF new
      <4>4. /\ search' \in [Searches -> SearchState] /\ search'[s] = new
            /\ \A t \in Searches \ {s} : search'[t] = search[t]
        BY <1>1, <3>5, <4>1 DEF new
      <4>5. QED
        BY <1>1, <3>2, <4>1, <4>2, <4>3, <4>4 DEF Pooled
    <3>6. QED
      BY <3>1, <3>3, <3>4, <3>5
  <2>2. CASE Repaired(s)
    BY <1>1, <2>2 DEF Repaired, Sound, Doomed, SearchState, Signed, Pooled
  <2>3. CASE Store(s)
    BY <1>1, <2>3 DEF Store, Sound, Doomed, SearchState, Signed, Pooled, Whole
  <2>4. QED
    BY <2>1, <2>2, <2>3
<1>3. /\ context' \in {context, None} /\ revision' \in Nat /\ ResultsSound'
      /\ pools' = [p \in Searches |-> pools'[p]]
      /\ \A p \in Searches : pools'[p] \in {pools[p], <<>>}
  <2>1. CASE Clear
    BY <2>1, ClearShape
  <2>2. CASE UNCHANGED caches
    BY <1>1, <2>2 DEF caches, AnswerInv, ResultsSound
  <2>3. CASE Store(s)
    <3>1. ResultsSound
      BY DEF AnswerInv
    <3>2. ResultsSound'
      <4>1. CASE MayStore(s)
        <5>1. results' = [v \in DOMAIN results \cup {q.sig} |->
                             IF v = q.sig THEN q.hits ELSE results[v]]
          BY <2>3, <4>1 DEF Store
        <5>2. q.hits \in [ver : Nat, whole : BOOLEAN] /\ q.hits.whole /\ q.hits.ver >= q.sig
          BY <1>1, <2>3, <4>1 DEF Store, MayStore, Sound, Whole, SearchState
        <5>3. QED
          BY <3>1, <5>1, <5>2 DEF ResultsSound
      <4>2. CASE ~MayStore(s)
        BY <2>3, <3>1, <4>2 DEF Store, ResultsSound
      <4>3. QED
        BY <4>1, <4>2
    <3>3. UNCHANGED <<context, pools, revision>>
      BY <2>3 DEF Store
    <3>4. QED
      BY <1>1, <3>2, <3>3
  <2>4. QED
    BY <2>1, <2>2, <2>3 DEF Prepare, Repaired
<1>4. QED
  BY <1>2, <1>3, StepKeeps

\* The index moves on under everyone.
LEMMA IndexKeeps ==
    ASSUME AnswerInv, IndexRun \/ External
    PROVE  AnswerInv'
<1>1. UNCHANGED search /\ version' = version + 1
  BY DEF IndexRun, External
<1>2. /\ version \in Nat /\ revision \in Nat /\ search \in [Searches -> SearchState]
      /\ pools = [p \in Searches |-> pools[p]]
  BY DEF AnswerInv, AnswerTypes
<1>3. /\ context' \in {context, None} /\ revision' \in Nat /\ ResultsSound'
      /\ pools' = [p \in Searches |-> pools'[p]]
      /\ \A p \in Searches : pools'[p] \in {pools[p], <<>>}
  <2>1. CASE Clear
    BY <2>1, ClearShape
  <2>2. CASE UNCHANGED caches
    BY <1>2, <2>2 DEF caches, AnswerInv, ResultsSound
  <2>3. QED
    BY <2>1, <2>2 DEF IndexRun, External
<1>4. CASE Searches = {}
  BY <1>1, <1>2, <1>3, <1>4 DEF AnswerInv, AnswerTypes, SearchesSound, PoolsSound
<1>5. ASSUME NEW s \in Searches PROVE AnswerInv'
  <2>1. Sound(search[s], version) /\ Doomed(search[s]) /\ search[s] \in SearchState
    BY <1>2 DEF AnswerInv, SearchesSound
  <2>2. version' \in Nat /\ version <= version'
    BY <1>1, <1>2
  <2>3. Sound(search'[s], version') /\ Doomed(search'[s])
    BY <1>1, <1>2, <2>1, <2>2, StillSound
  <2>4. QED
    BY <1>1, <1>2, <1>3, <2>2, <2>3, StepKeeps
<1>6. QED
  BY <1>4, <1>5

\* A step that borrows a context or gives one back.
LEMMA BorrowKeeps ==
    ASSUME AnswerInv, NEW s \in Searches, UNCHANGED <<version, results, revision>>,
           search' \in [Searches -> SearchState],
           \A t \in Searches \ {s} : search'[t] = search[t],
           Sound(search'[s], version), Doomed(search'[s]),
           pools' \in [Searches -> Seq(Nat)],
           context' # None => context'.sig \in Nat /\ context'.pool \in Searches,
           PoolsSound'
    PROVE  AnswerInv'
<1>1. AnswerTypes'
  BY DEF AnswerInv, AnswerTypes
<1>2. SearchesSound'
  <2> SUFFICES ASSUME NEW t \in Searches, t # s
               PROVE  Sound(search[t], version) /\ Doomed(search[t])
    BY DEF SearchesSound
  <2>1. QED
    BY DEF AnswerInv, SearchesSound
<1>3. ResultsSound'
  BY DEF AnswerInv, ResultsSound
<1>4. QED
  BY <1>1, <1>2, <1>3 DEF AnswerInv

\* A search takes a context from the pool of its signature, or loads one.
LEMMA ContextKeeps ==
    ASSUME AnswerInv, NEW s \in Searches, Context(s)
    PROVE  AnswerInv'
<1> DEFINE q == search[s]
           ctx == IF context # None /\ context.sig = q.sig THEN context
                  ELSE [sig |-> q.sig, pool |-> s]
           idle == pools[ctx.pool]
           taken == idle # <<>>
           loaded == IF taken THEN Last(idle) ELSE version
           kept == IF taken THEN [pools EXCEPT ![ctx.pool] = Front(@)] ELSE pools
<1>1. /\ q \in SearchState /\ version \in Nat /\ search \in [Searches -> SearchState]
      /\ Sound(q, version) /\ Doomed(q) /\ q.pc = "context"
      /\ pools \in [Searches -> Seq(Nat)]
      /\ UNCHANGED <<version, results, revision>>
  BY DEF AnswerInv, AnswerTypes, SearchesSound, Context, caches
<1>2. CASE q.flag /\ q.kind # "pack"
  <2>1. search' = [search EXCEPT ![s].pc = "store"] /\ UNCHANGED caches
    BY <1>2 DEF Context
  <2>2. /\ search' \in [Searches -> SearchState] /\ \A t \in Searches \ {s} : search'[t] = search[t]
        /\ Sound(search'[s], version) /\ Doomed(search'[s]) /\ search'[s].pool = None
        /\ search'[s].pc \notin Pooled => q.pc \notin Pooled
    BY <1>1, <1>2, <2>1 DEF Sound, Doomed, SearchState, Signed, Pooled
  <2>3. ResultsSound'
    BY <1>1 DEF AnswerInv, ResultsSound
  <2>4. QED
    BY <1>1, <2>1, <2>2, <2>3, PlainStep DEF caches
<1>3. CASE ~(q.flag /\ q.kind # "pack")
  <2>1. /\ context' = ctx
        /\ search' = [search EXCEPT ![s].pc = "run", ![s].pool = ctx.pool, ![s].loaded = loaded]
        /\ \E alive : pools' = [p \in Searches |-> IF p \in alive THEN kept[p] ELSE <<>>]
    BY <1>3 DEF Context, Retire
  <2>2. /\ ctx.sig = q.sig /\ ctx.pool \in Searches
        /\ \A k \in 1..Len(pools[ctx.pool]) : pools[ctx.pool][k] >= q.sig
        /\ \A t \in Searches : search[t].pool = ctx.pool => search[t].sig = q.sig
        /\ \A p \in Searches : search[p].pc \notin Pooled /\ p # s => ctx.pool # p
    <3>1. CASE context # None /\ context.sig = q.sig
      <4>1. ctx = context /\ context.pool \in Searches
        BY <3>1 DEF AnswerInv, AnswerTypes
      <4>2. QED
        BY <3>1, <4>1 DEF AnswerInv, PoolsSound
    <3>2. CASE ~(context # None /\ context.sig = q.sig)
      <4>1. ctx = [sig |-> q.sig, pool |-> s]
        BY <3>2
      <4>2. q.pc \notin Pooled
        BY <1>1 DEF Pooled
      <4>3. pools[s] = <<>> /\ \A t \in Searches : search[t].pool # s
        BY <4>2 DEF AnswerInv, PoolsSound
      <4>4. QED
        BY <4>1, <4>3
    <3>3. QED
      BY <3>1, <3>2
  <2> HIDE DEF ctx
  <2>3. idle \in Seq(Nat) /\ loaded \in Nat /\ loaded >= q.sig
    <3>1. idle \in Seq(Nat)
      BY <1>1, <2>2
    <3>2. q.sig <= version /\ q.sig \in Nat
      BY <1>1 DEF Sound, SearchState
    <3>3. CASE taken
      <4>1. Len(idle) \in 1..Len(idle)
        BY <3>1, <3>3
      <4>2. QED
        BY <2>2, <3>1, <3>3, <4>1 DEF Last
    <3>4. QED
      BY <1>1, <3>1, <3>2, <3>3
  <2>4. /\ kept \in [Searches -> Seq(Nat)]
        /\ \A p \in Searches \ {ctx.pool} : kept[p] = pools[p]
        /\ \A k \in 1..Len(kept[ctx.pool]) : kept[ctx.pool][k] >= q.sig
    <3>1. CASE taken
      <4>1. kept = [pools EXCEPT ![ctx.pool] = Front(idle)]
        BY <3>1
      <4>2. /\ Front(idle) \in Seq(Nat) /\ Len(Front(idle)) = Len(idle) - 1
            /\ \A k \in 1..(Len(idle) - 1) : Front(idle)[k] = idle[k]
        BY <2>3, <3>1 DEF Front
      <4>3. kept \in [Searches -> Seq(Nat)] /\ kept[ctx.pool] = Front(idle)
            /\ \A p \in Searches \ {ctx.pool} : kept[p] = pools[p]
        BY <1>1, <2>2, <4>1, <4>2
      <4>4. \A k \in 1..(Len(idle) - 1) : k \in 1..Len(idle)
        BY <2>3
      <4>5. QED
        BY <2>2, <4>2, <4>3, <4>4
    <3>2. CASE ~taken
      BY <1>1, <2>2, <3>2
    <3>3. QED
      BY <3>1, <3>2
  <2> HIDE DEF loaded, kept, idle, taken
  <2> DEFINE new == [q EXCEPT !.pc = "run", !.pool = ctx.pool, !.loaded = loaded]
  <2>5. /\ new \in SearchState /\ new.pc = "run" /\ new.pool = ctx.pool /\ new.sig = q.sig
        /\ Sound(new, version) /\ Doomed(new)
    BY <1>1, <2>2, <2>3 DEF Sound, Doomed, SearchState, Signed
  <2>6. /\ search' \in [Searches -> SearchState] /\ search'[s] = new
        /\ \A t \in Searches \ {s} : search'[t] = search[t]
    BY <1>1, <2>1, <2>5
  <2> HIDE DEF new
  <2>7. /\ pools' \in [Searches -> Seq(Nat)]
        /\ \A p \in Searches : pools'[p] \in {kept[p], <<>>}
    <3>1. PICK alive : pools' = [p \in Searches |-> IF p \in alive THEN kept[p] ELSE <<>>]
      BY <2>1
    <3>2. \A p \in Searches : kept[p] \in Seq(Nat) /\ <<>> \in Seq(Nat)
      BY <2>4
    <3>3. QED
      BY <3>1, <3>2
  <2>8. PoolsSound'
    <3>1. /\ \A k \in 1..Len(pools'[ctx.pool]) : pools'[ctx.pool][k] >= ctx.sig
          /\ \A t \in Searches : search'[t].pool = ctx.pool => search'[t].sig = ctx.sig
      <4>1. pools'[ctx.pool] \in {kept[ctx.pool], <<>>}
        BY <2>2, <2>7
      <4>2. \A k \in 1..Len(pools'[ctx.pool]) : pools'[ctx.pool][k] >= ctx.sig
        BY <2>2, <2>4, <4>1
      <4>3. \A t \in Searches : search'[t].pool = ctx.pool => search'[t].sig = ctx.sig
        BY <2>2, <2>5, <2>6
      <4>4. QED
        BY <4>2, <4>3
    <3>2. ASSUME NEW p \in Searches, search'[p].pc \notin Pooled
          PROVE  /\ pools'[p] = <<>> /\ ctx.pool # p
                 /\ \A t \in Searches : search'[t].pool # p
      <4>1. p # s
        BY <2>5, <2>6, <3>2 DEF Pooled
      <4>2. search[p].pc \notin Pooled
        BY <2>6, <3>2, <4>1
      <4>3. ctx.pool # p
        BY <2>2, <4>1, <4>2
      <4>4. pools[p] = <<>> /\ \A t \in Searches : search[t].pool # p
        BY <4>2 DEF AnswerInv, PoolsSound
      <4>5. pools'[p] = <<>>
        BY <2>4, <2>7, <4>3, <4>4
      <4>6. \A t \in Searches : search'[t].pool # p
        BY <2>5, <2>6, <4>3, <4>4
      <4>7. QED
        BY <4>3, <4>5, <4>6
    <3>3. QED
      BY <2>1, <3>1, <3>2 DEF PoolsSound
  <2>9. context' # None => context'.sig \in Nat /\ context'.pool \in Searches
    BY <1>1, <2>1, <2>2 DEF SearchState
  <2>10. QED
    BY <1>1, <2>5, <2>6, <2>7, <2>8, <2>9, BorrowKeeps
<1>4. QED
  BY <1>2, <1>3

\* A search has run: what it borrowed goes back to a pool of its signature.
LEMMA RunKeeps ==
    ASSUME AnswerInv, NEW s \in Searches, Run(s)
    PROVE  AnswerInv'
<1> DEFINE q == search[s]
           p == q.pool
<1>1. /\ q \in SearchState /\ version \in Nat /\ search \in [Searches -> SearchState]
      /\ Sound(q, version) /\ Doomed(q) /\ q.pc = "run"
      /\ pools \in [Searches -> Seq(Nat)]
      /\ UNCHANGED <<version, results, revision, context>>
  BY DEF AnswerInv, AnswerTypes, SearchesSound, Run
<1>2. PICK whole \in BOOLEAN :
        /\ ~q.flag => whole
        /\ search' = [search EXCEPT ![s].pc = "store", ![s].pool = None,
                        ![s].hits = [ver |-> IF p = None THEN version ELSE q.loaded,
                                     whole |-> whole]]
        /\ IF p = None THEN UNCHANGED <<pools, idleCount>>
             ELSE \E alive :
                    pools' = [x \in Searches |-> IF x \in alive THEN Retained(p, q.loaded).idle[x]
                                                 ELSE <<>>]
  BY DEF Run, Retire
<1> DEFINE hits == [ver |-> IF p = None THEN version ELSE q.loaded, whole |-> whole]
           new == [q EXCEPT !.pc = "store", !.pool = None, !.hits = hits]
<1>3. hits \in [ver : Nat, whole : BOOLEAN] /\ hits.whole = whole /\ hits.ver >= q.sig
  BY <1>1 DEF Sound, SearchState
<1>4. hits = [ver |-> IF p = None THEN version ELSE q.loaded, whole |-> whole]
  OBVIOUS
<1> HIDE DEF hits
<1>5. /\ new \in SearchState /\ new.pc = "store" /\ new.pool = None
      /\ Sound(new, version) /\ Doomed(new)
  <2>1. new \in SearchState
    BY <1>1, <1>3 DEF SearchState
  <2>2. /\ new.pc = "store" /\ new.pool = None /\ new.hits = hits
        /\ new.floor = q.floor /\ new.sig = q.sig /\ new.flag = q.flag /\ new.reply = q.reply
        /\ new.doomed = q.doomed /\ new.kind = q.kind /\ new.deadline = q.deadline
    BY <1>1 DEF SearchState
  <2>3. Sound(new, version)
    BY <1>1, <1>2, <1>3, <2>2 DEF Sound, Signed, Whole
  <2>4. Doomed(new)
    BY <1>1, <2>2 DEF Doomed
  <2>5. QED
    BY <2>1, <2>2, <2>3, <2>4
<1>6. /\ search' \in [Searches -> SearchState] /\ search'[s] = new
      /\ \A t \in Searches \ {s} : search'[t] = search[t]
  BY <1>1, <1>2, <1>4, <1>5
<1> HIDE DEF new
<1>7. CASE p = None
  <2>1. UNCHANGED pools /\ new.pc \in Pooled
    BY <1>2, <1>5, <1>7 DEF Pooled
  <2>2. ResultsSound'
    BY <1>1 DEF AnswerInv, ResultsSound
  <2>3. QED
    BY <1>1, <1>5, <1>6, <2>1, <2>2, PlainStep
<1>8. CASE p # None
  <2> DEFINE kept == Retained(p, q.loaded).idle
  <2>1. p \in Searches /\ q.loaded \in Nat /\ q.sig <= q.loaded /\ q.sig \in Nat
    BY <1>1, <1>8 DEF SearchState, Sound
  <2>2. /\ kept \in [Searches -> Seq(Nat)]
        /\ \A x \in Searches \ {p} : kept[x] = pools[x]
        /\ \A k \in 1..Len(kept[p]) : \/ k \in 1..Len(pools[p]) /\ kept[p][k] = pools[p][k]
                                      \/ kept[p][k] = q.loaded
    <3>1. kept = pools \/ kept = [pools EXCEPT ![p] = Append(@, q.loaded)]
      BY DEF Retained
    <3>2. CASE kept = pools
      BY <1>1, <3>2
    <3>3. CASE kept = [pools EXCEPT ![p] = Append(@, q.loaded)]
      <4>1. /\ Append(pools[p], q.loaded) \in Seq(Nat)
            /\ \A k \in 1..Len(Append(pools[p], q.loaded)) :
                  \/ k \in 1..Len(pools[p]) /\ Append(pools[p], q.loaded)[k] = pools[p][k]
                  \/ Append(pools[p], q.loaded)[k] = q.loaded
        BY <1>1, <2>1
      <4>2. kept[p] = Append(pools[p], q.loaded) /\ kept \in [Searches -> Seq(Nat)]
            /\ \A x \in Searches \ {p} : kept[x] = pools[x]
        BY <1>1, <2>1, <3>3, <4>1
      <4>3. QED
        BY <4>1, <4>2
    <3>4. QED
      BY <3>1, <3>2, <3>3
  <2>3. \E alive : pools' = [x \in Searches |-> IF x \in alive THEN kept[x] ELSE <<>>]
    BY <1>2, <1>8
  <2> HIDE DEF kept
  <2>4. /\ pools' \in [Searches -> Seq(Nat)]
        /\ \A x \in Searches : pools'[x] \in {kept[x], <<>>}
    <3>1. PICK alive : pools' = [x \in Searches |-> IF x \in alive THEN kept[x] ELSE <<>>]
      BY <2>3
    <3>2. \A x \in Searches : kept[x] \in Seq(Nat) /\ <<>> \in Seq(Nat)
      BY <2>2
    <3>3. QED
      BY <3>1, <3>2
  <2>5. PoolsSound'
    <3>1. ASSUME context # None
          PROVE  /\ \A k \in 1..Len(pools'[context.pool]) : pools'[context.pool][k] >= context.sig
                 /\ \A t \in Searches : search'[t].pool = context.pool
                                            => search'[t].sig = context.sig
      <4>1. /\ context.pool \in Searches /\ context.sig \in Nat
            /\ \A k \in 1..Len(pools[context.pool]) : pools[context.pool][k] >= context.sig
            /\ \A t \in Searches : search[t].pool = context.pool => search[t].sig = context.sig
        BY <3>1 DEF AnswerInv, AnswerTypes, PoolsSound
      <4>2. context.pool # None
        BY <4>1, Nowhere
      <4>3. \A t \in Searches : search'[t].pool = context.pool => search'[t].sig = context.sig
        BY <1>5, <1>6, <4>1, <4>2
      <4>4. \A k \in 1..Len(kept[context.pool]) : kept[context.pool][k] >= context.sig
        <5>1. CASE context.pool = p
          BY <2>1, <2>2, <4>1, <5>1
        <5>2. CASE context.pool # p
          BY <2>2, <4>1, <5>2
        <5>3. QED
          BY <5>1, <5>2
      <4>5. pools'[context.pool] \in {kept[context.pool], <<>>}
        BY <2>4, <4>1
      <4>6. QED
        BY <4>3, <4>4, <4>5
    <3>2. ASSUME NEW x \in Searches, search'[x].pc \notin Pooled
          PROVE  /\ pools'[x] = <<>>
                 /\ context # None => context.pool # x
                 /\ \A t \in Searches : search'[t].pool # x
      <4>1. x # s
        BY <1>5, <1>6, <3>2 DEF Pooled
      <4>2. search[x].pc \notin Pooled
        BY <1>6, <3>2, <4>1
      <4>3. pools[x] = <<>> /\ (context # None => context.pool # x)
            /\ \A t \in Searches : search[t].pool # x
        BY <4>2 DEF AnswerInv, PoolsSound
      <4>4. x # None /\ x # p
        BY <4>3, Nowhere
      <4>5. pools'[x] = <<>>
        BY <2>2, <2>4, <4>3, <4>4
      <4>6. \A t \in Searches : search'[t].pool # x
        BY <1>5, <1>6, <4>3, <4>4
      <4>7. QED
        BY <4>3, <4>5, <4>6
    <3>3. QED
      BY <1>1, <3>1, <3>2 DEF PoolsSound
  <2>6. context' # None => context'.sig \in Nat /\ context'.pool \in Searches
    BY <1>1 DEF AnswerInv, AnswerTypes
  <2>7. QED
    BY <1>1, <1>5, <1>6, <2>4, <2>5, <2>6, BorrowKeeps
<1>9. QED
  BY <1>7, <1>8

-----------------------------------------------------------------------------
(* The theorems.                                                           *)

LEMMA AnswersStart == Init => AnswerInv
<1> SUFFICES ASSUME Init PROVE AnswerInv
  OBVIOUS
<1>1. /\ version = 1 /\ revision = 0 /\ context = None /\ results = Nothing
      /\ pools = [s \in Searches |-> <<>>] /\ search = [s \in Searches |-> Unborn]
  BY DEF Init
<1>2. Unborn.pc = "idle"
  BY DEF Unborn
<1>3. Unborn \in SearchState /\ Sound(Unborn, 1) /\ Doomed(Unborn) /\ Unborn.pool = None
  BY UnbornIsSound
<1>4. AnswerTypes
  BY <1>1, <1>3 DEF AnswerTypes
<1>5. SearchesSound
  BY <1>1, <1>3 DEF SearchesSound
<1>6. ResultsSound
  BY <1>1 DEF ResultsSound, Nothing
<1>7. PoolsSound
  BY <1>1, <1>3, Nowhere DEF PoolsSound
<1>8. QED
  BY <1>4, <1>5, <1>6, <1>7 DEF AnswerInv

LEMMA AnswersStep == AnswerInv /\ [Next]_vars => AnswerInv'
<1> SUFFICES ASSUME AnswerInv, [Next]_vars PROVE AnswerInv'
  OBVIOUS
<1>1. ASSUME NEW s \in Searches, NEW kind \in Kinds, NEW i \in Ids \cup {None},
             Register(s, kind, i)
      PROVE  AnswerInv'
  BY <1>1, RegisterKeeps
<1>2. ASSUME NEW s \in Searches, Step(s) \/ Disconnect(s) \/ Deadline(s)
      PROVE  AnswerInv'
  BY <1>2, MoveKeeps, TaskKeeps, ContextKeeps, RunKeeps DEF Step
<1>3. ASSUME NEW i \in Ids, CancelSearch(i) PROVE AnswerInv'
  BY <1>3, CancelKeeps
<1>4. CASE IndexRun \/ External
  BY <1>4, IndexKeeps
<1>5. CASE UNCHANGED vars
  BY <1>5 DEF vars, AnswerInv, AnswerTypes, SearchesSound, ResultsSound, PoolsSound
<1>6. QED
  BY <1>1, <1>2, <1>3, <1>4, <1>5 DEF Next

LEMMA AnswersHold == Spec => []AnswerInv
BY AnswersStart, AnswersStep, PTL DEF Spec

\* A cancellation that came before its search wins over the search, whatever
\* the search waits for when it starts (daemon.rs: register_search,
\* SearchCancellationEntry::Tombstone).
THEOREM EarlyCancelsWin == Spec => []EarlyCancelWins
BY AnswersHold, InvImpliesEarly, PTL

\* An answer without a warning is complete and as new as its request, through
\* every cache (daemon.rs: cached_query_results, store_query_results,
\* cached_search_context_for_signature).
THEOREM AnswersAreFresh == Spec => []FreshAnswers
BY AnswersHold, InvImpliesFresh, PTL
=============================================================================
