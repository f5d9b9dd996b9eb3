------------------------- MODULE IndexRequestsProofs -------------------------
(***************************************************************************)
(* AckCovers and SkipIsJustified of IndexRequests, for any number of       *)
(* requests and files, any options and any budget of edits, updates,       *)
(* failures and aborts.                                                    *)
(***************************************************************************)
EXTENDS IndexRequests, TLAPS

\* A run that reads the whole workspace is under way.
FullScan == lease # None /\ DOMAIN scan = Files

RequestTypes ==
    /\ tree \in [Files -> Nat] /\ index \in [Files -> Nat]
    /\ meta \in [indexed : BOOLEAN, gen : Nat, skip : BOOLEAN]
    /\ DOMAIN scan \subseteq Files /\ scan = [f \in DOMAIN scan |-> scan[f]]
    /\ \A f \in DOMAIN scan : scan[f] \in Nat
    /\ started \subseteq Requests
    /\ inflight \in Entry \cup {None}
    /\ outcome \in [Requests -> {"none", "ack", "error"}]
    /\ req \in [Requests -> RequestState]
    /\ \A r \in Requests : req[r].pc = "follow" => req[r].follows \in Requests

\* Edits are read after they were made: neither the index nor a scan is ahead
\* of the files, nor a scan behind the index, and what a full scan has read is
\* no older than the arrival of the requests that it started after.
ReadsInOrder ==
    /\ \A f \in Files : index[f] <= tree[f]
    /\ \A r \in Requests, f \in Files : req[r].need[f] <= tree[f]
    /\ \A f \in DOMAIN scan : scan[f] # 0 =>
          /\ index[f] <= scan[f] /\ scan[f] <= tree[f]
          /\ DOMAIN scan = Files => \A r \in started : req[r].need[f] <= scan[f]

\* A run started after the request: it is under way, it has failed, or it has
\* left an index that covers the request and was built as the metadata says.
TakenCareOf ==
    \A r \in started :
        \/ req[r].spoiled \/ FullScan
        \/ Covered(r) /\ filter = meta.skip

\* Whoever scans, is about to acknowledge or has, arrived before a full run.
OnlyAfterARun ==
    /\ \A r \in started : req[r].pc # "idle"
    /\ \A r \in Requests :
          req[r].pc = "walk" \/ req[r].reply = "ack" \/ req[r].answer = "ack" => r \in started

RequestInv == RequestTypes /\ ReadsInOrder /\ TakenCareOf /\ OnlyAfterARun

-----------------------------------------------------------------------------
\* The invariant gives both properties: an acknowledged request arrived before
\* a full run, and a request that skips its scan finds no run under way.
LEMMA InvImpliesAck == RequestInv => AckCovers
<1> SUFFICES ASSUME RequestInv, NEW r \in Requests, req[r].answer = "ack"
             PROVE  Covered(r) \/ BeingCovered(r) \/ req[r].spoiled
  BY DEF AckCovers
<1>1. r \in started
  BY DEF RequestInv, OnlyAfterARun
<1>2. QED
  BY <1>1 DEF RequestInv, TakenCareOf, FullScan, BeingCovered, StartedAfter

-----------------------------------------------------------------------------
(* Steps of one request.                                                   *)

LEMMA IdleShape == Idle \in RequestState /\ Idle.reply = "none" /\ Idle.answer = "none"
                   /\ Idle.pc = "idle" /\ Idle.need = [f \in Files |-> 0]
BY DEF Idle, RequestState, Options, Answers

\* An answered request keeps what it asked for and what it has seen.
LEMMA AnsweredShape ==
    ASSUME NEW r \in Requests, req[r] \in RequestState, NEW reply \in {"none", "ack", "error"}
    PROVE  /\ Answered(r, reply) \in RequestState /\ Answered(r, reply).pc = "done"
           /\ Answered(r, reply).need = req[r].need
           /\ Answered(r, reply).spoiled = req[r].spoiled
           /\ Answered(r, reply).reply = "none"
           /\ Answered(r, reply).answer = "ack" => req[r].answer = "ack" \/ reply = "ack"
<1>1. /\ req[r].need \in [Files -> Nat] /\ req[r].spoiled \in BOOLEAN
      /\ req[r].follows \in Requests \cup {None} /\ req[r].detached \in BOOLEAN
      /\ req[r].answer \in Answers
  BY DEF RequestState
<1> DEFINE answer == IF req[r].detached THEN req[r].answer ELSE reply
<1>2. answer \in Answers /\ (answer = "ack" => req[r].answer = "ack" \/ reply = "ack")
  BY <1>1 DEF Answers
<1>3. Answered(r, reply) = [Idle EXCEPT !.pc = "done", !.need = req[r].need,
                              !.spoiled = req[r].spoiled, !.follows = req[r].follows,
                              !.detached = req[r].detached, !.answer = answer]
  BY DEF Answered
<1> HIDE DEF answer
<1>4. QED
  BY <1>1, <1>2, <1>3, IdleShape DEF RequestState

\* A request moves while files, scan, index and options stay as they are.
LEMMA RequestMoves ==
    ASSUME RequestInv, NEW r \in Requests,
           UNCHANGED <<tree, index, filter, lease, scan, started>>,
           meta' \in [indexed : BOOLEAN, gen : Nat, skip : BOOLEAN], meta'.skip = meta.skip,
           inflight' \in Entry \cup {None},
           outcome' \in [Requests -> {"none", "ack", "error"}],
           req' \in [Requests -> RequestState],
           \A q \in Requests \ {r} : req'[q] = req[q],
           req'[r].need = req[r].need, req'[r].spoiled = req[r].spoiled,
           req'[r].pc # "idle",
           req'[r].pc = "follow" => req'[r].follows \in Requests,
           req'[r].pc = "walk" \/ req'[r].reply = "ack" \/ req'[r].answer = "ack" => r \in started
    PROVE  RequestInv'
<1>1. RequestTypes'
  BY DEF RequestInv, RequestTypes
<1>2. \A q \in Requests : req'[q].need = req[q].need /\ req'[q].spoiled = req[q].spoiled
  OBVIOUS
<1>3. started \subseteq Requests
  BY DEF RequestInv, RequestTypes
<1>4. ReadsInOrder'
  BY <1>2, <1>3 DEF RequestInv, ReadsInOrder
<1>5. TakenCareOf'
  BY <1>2, <1>3 DEF RequestInv, TakenCareOf, FullScan, Covered
<1>6. OnlyAfterARun'
  BY <1>3 DEF RequestInv, OnlyAfterARun
<1>7. QED
  BY <1>1, <1>4, <1>5, <1>6 DEF RequestInv

\* What the types say of one request.
LEMMA RequestTyped ==
    ASSUME RequestInv, NEW r \in Requests
    PROVE  /\ req \in [Requests -> RequestState] /\ req[r] \in RequestState
           /\ meta \in [indexed : BOOLEAN, gen : Nat, skip : BOOLEAN]
           /\ inflight \in Entry \cup {None}
           /\ outcome \in [Requests -> {"none", "ack", "error"}]
           /\ req[r].pc = "follow" => req[r].follows \in Requests
           /\ req[r].pc = "walk" \/ req[r].reply = "ack" \/ req[r].answer = "ack"
                => r \in started
BY DEF RequestInv, RequestTypes, OnlyAfterARun

\* A follower is answered by a run that started after it, or goes on.
LEMMA FollowKeeps ==
    ASSUME RequestInv, NEW r \in Requests, FollowEnds(r)
    PROVE  RequestInv'
<1>1. /\ UNCHANGED <<tree, index, filter, lease, scan, started, meta, inflight, outcome>>
      /\ req[r].pc = "follow"
  BY DEF FollowEnds
<1>2. /\ req \in [Requests -> RequestState] /\ req[r] \in RequestState
      /\ outcome[req[r].follows] \in {"none", "ack", "error"}
  BY <1>1, RequestTyped
<1>3. \E new \in RequestState :
          /\ req' = [req EXCEPT ![r] = new]
          /\ new.need = req[r].need /\ new.spoiled = req[r].spoiled /\ new.pc \in {"done", "enter"}
          /\ new.reply = "ack" \/ new.answer = "ack" => r \in started
  <2>1. CASE Reusable(r)
    <3> DEFINE new == Answered(r, outcome[req[r].follows])
    <3>1. req' = [req EXCEPT ![r] = new]
      BY <2>1 DEF FollowEnds
    <3>2. new \in RequestState /\ new.need = req[r].need /\ new.spoiled = req[r].spoiled
          /\ new.pc = "done" /\ new.reply = "none"
          /\ (new.answer = "ack" => req[r].answer = "ack" \/ outcome[req[r].follows] = "ack")
      BY <1>2, AnsweredShape
    <3>3. new.answer = "ack" => r \in started
      BY <2>1, <3>2, RequestTyped DEF Reusable, StartedAfter
    <3>4. QED
      BY <3>1, <3>2, <3>3
  <2>2. CASE ~Reusable(r)
    <3> DEFINE new == [req[r] EXCEPT !.pc = "enter"]
    <3>1. req' = [req EXCEPT ![r] = new]
      BY <2>2 DEF FollowEnds
    <3>2. new \in RequestState /\ new.need = req[r].need /\ new.spoiled = req[r].spoiled
          /\ new.pc = "enter" /\ new.reply = req[r].reply /\ new.answer = req[r].answer
      BY <1>2 DEF RequestState
    <3>3. QED
      BY <3>1, <3>2, RequestTyped
  <2>3. QED
    BY <2>1, <2>2
<1>4. PICK new \in RequestState :
          /\ req' = [req EXCEPT ![r] = new]
          /\ new.need = req[r].need /\ new.spoiled = req[r].spoiled /\ new.pc \in {"done", "enter"}
          /\ new.reply = "ack" \/ new.answer = "ack" => r \in started
  BY <1>3
<1>5. /\ req' \in [Requests -> RequestState] /\ req'[r] = new
      /\ \A q \in Requests \ {r} : req'[q] = req[q]
  BY <1>2, <1>4
<1>6. QED
  BY <1>1, <1>4, <1>5, RequestMoves, RequestTyped

\* A request that enters, is aborted, publishes or drops its lead.
LEMMA TurnKeeps ==
    ASSUME RequestInv, NEW r \in Requests, Enter(r) \/ Abort(r) \/ Publish(r) \/ Drop(r)
    PROVE  RequestInv'
<1>1. /\ UNCHANGED <<tree, index, filter, lease, scan, started, meta>>
      /\ meta \in [indexed : BOOLEAN, gen : Nat, skip : BOOLEAN]
      /\ req \in [Requests -> RequestState] /\ req[r] \in RequestState
      /\ req[r].reply \in {"none", "ack", "error"}
      /\ req[r].pc # "idle"
  BY RequestTyped DEF Enter, Abort, Publish, Drop, RequestState
<1>2. inflight' \in Entry \cup {None} /\ outcome' \in [Requests -> {"none", "ack", "error"}]
  <2>1. CASE UNCHANGED <<inflight, outcome>>
    BY <2>1, RequestTyped
  <2>2. CASE inflight' = None /\ outcome' = [outcome EXCEPT ![r] = req[r].reply]
    BY <1>1, <2>2, RequestTyped
  <2>3. CASE inflight' = None /\ outcome' = Dropped(r)
    BY <2>3, RequestTyped DEF Dropped
  <2>4. QED
    BY <2>1, <2>2, <2>3 DEF Enter, Abort, Publish, Drop
<1>3. \E new \in RequestState :
          /\ req' = [req EXCEPT ![r] = new]
          /\ new.need = req[r].need /\ new.spoiled = req[r].spoiled
          /\ new.pc \in {"lease", "drop", "done"}
          /\ new.reply = "ack" \/ new.answer = "ack" => r \in started
  <2>1. CASE \E reply \in {"none", "ack", "error"} :
                /\ req' = [req EXCEPT ![r] = Answered(r, reply)]
                /\ reply = "ack" => req[r].reply = "ack"
    <3>1. PICK reply \in {"none", "ack", "error"} :
                /\ req' = [req EXCEPT ![r] = Answered(r, reply)]
                /\ reply = "ack" => req[r].reply = "ack"
      BY <2>1
    <3> DEFINE new == Answered(r, reply)
    <3>2. new \in RequestState /\ new.need = req[r].need /\ new.spoiled = req[r].spoiled
          /\ new.pc = "done" /\ new.reply = "none"
          /\ (new.answer = "ack" => req[r].answer = "ack" \/ reply = "ack")
      BY <1>1, AnsweredShape
    <3>3. QED
      BY <3>1, <3>2, RequestTyped
  <2>2. CASE req' = [req EXCEPT ![r].pc = "drop"]
    <3> DEFINE new == [req[r] EXCEPT !.pc = "drop"]
    <3>1. new \in RequestState /\ new.need = req[r].need /\ new.spoiled = req[r].spoiled
          /\ new.pc = "drop" /\ new.reply = req[r].reply /\ new.answer = req[r].answer
      BY <1>1 DEF RequestState
    <3>2. QED
      BY <2>2, <3>1, RequestTyped
  <2>3. CASE req' = [req EXCEPT ![r] = [req[r] EXCEPT !.pc = "drop", !.reply = "error"]]
    <3> DEFINE new == [req[r] EXCEPT !.pc = "drop", !.reply = "error"]
    <3>1. new \in RequestState /\ new.need = req[r].need /\ new.spoiled = req[r].spoiled
          /\ new.pc = "drop" /\ new.reply = "error" /\ new.answer = req[r].answer
      BY <1>1 DEF RequestState
    <3>2. QED
      BY <2>3, <3>1, RequestTyped
  <2>4. CASE req' = [req EXCEPT ![r].pc = "lease", ![r].gen = meta.gen]
    <3> DEFINE new == [req[r] EXCEPT !.pc = "lease", !.gen = meta.gen]
    <3>1. new \in RequestState /\ new.need = req[r].need /\ new.spoiled = req[r].spoiled
          /\ new.pc = "lease" /\ new.reply = req[r].reply /\ new.answer = req[r].answer
      BY <1>1 DEF RequestState
    <3>2. req' = [req EXCEPT ![r] = new]
      BY <1>1, <2>4
    <3>3. QED
      BY <3>1, <3>2, RequestTyped
  <2>5. QED
    BY <1>1, <2>1, <2>2, <2>3, <2>4 DEF Enter, Abort, Publish, Drop
<1>4. PICK new \in RequestState :
          /\ req' = [req EXCEPT ![r] = new]
          /\ new.need = req[r].need /\ new.spoiled = req[r].spoiled
          /\ new.pc \in {"lease", "drop", "done"}
          /\ new.reply = "ack" \/ new.answer = "ack" => r \in started
  BY <1>3
<1>5. /\ req' \in [Requests -> RequestState] /\ req'[r] = new
      /\ \A q \in Requests \ {r} : req'[q] = req[q]
  BY <1>1, <1>4
<1>6. QED
  BY <1>1, <1>2, <1>4, <1>5, RequestMoves

\* A request arrives after every run so far: what it needs is what the files
\* hold now.
LEMMA ArriveKeeps ==
    ASSUME RequestInv, NEW r \in Requests, NEW opts \in Options,
           Arrive(r, opts) \/ ArriveStart(r, opts)
    PROVE  RequestInv'
<1>1. /\ UNCHANGED <<tree, index, filter, lease, scan, started, meta, outcome>>
      /\ req[r].pc = "idle" /\ req \in [Requests -> RequestState]
      /\ tree \in [Files -> Nat]
  BY DEF Arrive, ArriveStart, IsNext, RequestInv, RequestTypes
<1>2. inflight' \in Entry \cup {None}
  BY RequestTyped DEF Arrive, ArriveStart, Entry
<1>3. \E new \in RequestState :
          /\ req' = [req EXCEPT ![r] = new]
          /\ new.need = tree /\ new.pc \in {"enter", "follow", "done"}
          /\ new.pc = "follow" => new.follows \in Requests
          /\ new.reply # "ack" /\ new.answer # "ack"
  <2>1. CASE Arrive(r, opts)
    <3> DEFINE base == [Idle EXCEPT !.opts = opts, !.need = tree]
    <3>1. base \in RequestState /\ base.need = tree /\ base.reply = "none" /\ base.answer = "none"
      BY <1>1, IdleShape DEF RequestState
    <3> HIDE DEF base
    <3>2. CASE req' = [req EXCEPT ![r] = [base EXCEPT !.pc = "enter", !.leads = TRUE]]
      <4> DEFINE new == [base EXCEPT !.pc = "enter", !.leads = TRUE]
      <4>1. new \in RequestState /\ new.need = tree /\ new.pc = "enter"
            /\ new.reply = "none" /\ new.answer = "none"
        BY <3>1 DEF RequestState
      <4>2. QED
        BY <3>2, <4>1
    <3>3. CASE req' = [req EXCEPT ![r] = [base EXCEPT !.pc = "follow", !.follows = inflight.lead]]
               /\ inflight # None
      <4> DEFINE new == [base EXCEPT !.pc = "follow", !.follows = inflight.lead]
      <4>1. inflight.lead \in Requests
        BY <3>3, RequestTyped DEF Entry
      <4>2. new \in RequestState /\ new.need = tree /\ new.pc = "follow"
            /\ new.reply = "none" /\ new.answer = "none" /\ new.follows \in Requests
        BY <3>1, <4>1 DEF RequestState
      <4>3. QED
        BY <3>3, <4>2
    <3>4. CASE req' = [req EXCEPT ![r] = [base EXCEPT !.pc = "enter"]]
      <4> DEFINE new == [base EXCEPT !.pc = "enter"]
      <4>1. new \in RequestState /\ new.need = tree /\ new.pc = "enter"
            /\ new.reply = "none" /\ new.answer = "none"
        BY <3>1 DEF RequestState
      <4>2. QED
        BY <3>4, <4>1
    <3>5. QED
      BY <2>1, <3>2, <3>3, <3>4 DEF Arrive, MayFollow, base
  <2>2. CASE ArriveStart(r, opts)
    <3> DEFINE base == [Idle EXCEPT !.opts = opts, !.detached = TRUE, !.need = tree,
                                    !.answer = "started"]
    <3>1. base \in RequestState /\ base.need = tree /\ base.reply = "none"
          /\ base.answer = "started"
      BY <1>1, IdleShape DEF RequestState, Answers
    <3> HIDE DEF base
    <3>2. CASE req' = [req EXCEPT ![r] = [base EXCEPT !.pc = "enter", !.leads = TRUE]]
      <4> DEFINE new == [base EXCEPT !.pc = "enter", !.leads = TRUE]
      <4>1. new \in RequestState /\ new.need = tree /\ new.pc = "enter"
            /\ new.reply = "none" /\ new.answer = "started"
        BY <3>1 DEF RequestState
      <4>2. QED
        BY <3>2, <4>1
    <3>3. CASE req' = [req EXCEPT ![r] = [base EXCEPT !.pc = "done", !.answer = "running"]]
      <4> DEFINE new == [base EXCEPT !.pc = "done", !.answer = "running"]
      <4>1. new \in RequestState /\ new.need = tree /\ new.pc = "done"
            /\ new.reply = "none" /\ new.answer = "running"
        BY <3>1 DEF RequestState, Answers
      <4>2. QED
        BY <3>3, <4>1
    <3>4. QED
      BY <2>2, <3>2, <3>3 DEF ArriveStart, base
  <2>3. QED
    BY <2>1, <2>2
<1>4. PICK new \in RequestState :
          /\ req' = [req EXCEPT ![r] = new]
          /\ new.need = tree /\ new.pc \in {"enter", "follow", "done"}
          /\ new.pc = "follow" => new.follows \in Requests
          /\ new.reply # "ack" /\ new.answer # "ack"
  BY <1>3
<1>5. /\ req' \in [Requests -> RequestState] /\ req'[r] = new
      /\ \A q \in Requests \ {r} : req'[q] = req[q]
  BY <1>1, <1>4
<1>6. r \notin started /\ started \subseteq Requests
  BY <1>1 DEF RequestInv, OnlyAfterARun, RequestTypes
<1>7. RequestTypes'
  BY <1>1, <1>2, <1>4, <1>5 DEF RequestInv, RequestTypes
<1>8. ReadsInOrder'
  BY <1>1, <1>4, <1>5, <1>6 DEF RequestInv, ReadsInOrder
<1>9. TakenCareOf'
  BY <1>1, <1>5, <1>6 DEF RequestInv, TakenCareOf, FullScan, Covered
<1>10. OnlyAfterARun'
  BY <1>1, <1>4, <1>5, <1>6 DEF RequestInv, OnlyAfterARun
<1>11. QED
  BY <1>7, <1>8, <1>9, <1>10 DEF RequestInv

-----------------------------------------------------------------------------
(* Runs.                                                                   *)

\* The requests go on as they were, but for what a run tells its own.
GoOn ==
    /\ req' \in [Requests -> RequestState]
    /\ \A q \in Requests :
          /\ req'[q].need = req[q].need
          /\ req[q].spoiled => req'[q].spoiled
          /\ req'[q].pc = "idle" => req[q].pc = "idle"
          /\ req'[q].pc = "follow" => req'[q].follows \in Requests
          /\ req'[q].pc = "walk" \/ req'[q].reply = "ack" \/ req'[q].answer = "ack"
                => q \in started

\* A published scan covers every request that arrived before it.
LEMMA ScanPublished ==
    ASSUME RequestInv, ScanIsRead, Published
    PROVE  /\ index' \in [Files -> Nat]
           /\ meta' \in [indexed : BOOLEAN, gen : Nat, skip : BOOLEAN]
           /\ \A f \in Files : index'[f] <= tree[f]
           /\ \A r \in started :
                 \/ req[r].spoiled
                 \/ (\A f \in Files : index'[f] >= req[r].need[f]) /\ filter' = meta'.skip
<1>1. /\ index' = [f \in Files |-> IF f \in DOMAIN scan THEN scan[f] ELSE index[f]]
      /\ filter' = meta.skip
      /\ \/ meta' = meta
         \/ meta' = [meta EXCEPT !.indexed = TRUE, !.gen = @ + 1]
  BY DEF Published
<1>2. /\ index \in [Files -> Nat] /\ tree \in [Files -> Nat] /\ DOMAIN scan \subseteq Files
      /\ \A f \in DOMAIN scan : scan[f] \in Nat /\ scan[f] # 0
      /\ meta \in [indexed : BOOLEAN, gen : Nat, skip : BOOLEAN]
      /\ started \subseteq Requests /\ req \in [Requests -> RequestState]
  BY DEF RequestInv, RequestTypes, ScanIsRead
<1>3. index' \in [Files -> Nat]
  BY <1>1, <1>2
<1>4. meta' \in [indexed : BOOLEAN, gen : Nat, skip : BOOLEAN] /\ meta'.skip = meta.skip
  <2>1. CASE meta' = meta
    BY <1>2, <2>1
  <2>2. CASE meta' = [meta EXCEPT !.indexed = TRUE, !.gen = @ + 1]
    <3>1. meta.gen + 1 \in Nat
      BY <1>2
    <3>2. PICK next \in Nat : meta' = [meta EXCEPT !.indexed = TRUE, !.gen = next]
      BY <2>2, <3>1
    <3>3. QED
      BY <1>2, <3>2
  <2>3. QED
    BY <1>1, <2>1, <2>2
<1>5. \A f \in Files : index[f] <= index'[f] /\ index'[f] <= tree[f]
  BY <1>1, <1>2 DEF RequestInv, ReadsInOrder
<1>6. ASSUME NEW r \in started, ~req[r].spoiled
      PROVE  \A f \in Files : index'[f] >= req[r].need[f]
  <2>1. req[r].need \in [Files -> Nat]
    BY <1>2 DEF RequestState
  <2>2. CASE DOMAIN scan = Files
    BY <1>1, <1>2, <2>1, <2>2 DEF RequestInv, ReadsInOrder
  <2>3. CASE DOMAIN scan # Files
    <3>1. \A f \in Files : index[f] >= req[r].need[f]
      BY <1>6, <2>3 DEF RequestInv, TakenCareOf, FullScan, Covered
    <3>2. QED
      BY <1>2, <1>3, <1>5, <2>1, <3>1
  <2>4. QED
    BY <2>2, <2>3
<1>7. QED
  BY <1>1, <1>3, <1>4, <1>5, <1>6

\* The lease goes and with it what its holder has read.
LEMMA Released ==
    ASSUME Release
    PROVE  /\ lease' = None /\ DOMAIN scan' = {} /\ scan' = [f \in DOMAIN scan' |-> scan'[f]]
BY DEF Release, Untouched

\* A request's run, or the watcher's, is published.
LEMMA CommitKeeps ==
    ASSUME RequestInv, WatchCommit \/ \E r \in Requests : Commit(r)
    PROVE  RequestInv'
<1>1. /\ ScanIsRead /\ Published /\ Release /\ UNCHANGED <<tree, started, inflight, outcome>>
  BY DEF WatchCommit, Commit
<1>2. GoOn
  <2>1. CASE UNCHANGED req
    BY <2>1, RequestTyped DEF GoOn, RequestInv, RequestTypes
  <2>2. ASSUME NEW r \in Requests, Commit(r)
        PROVE  GoOn
    <3>1. /\ req \in [Requests -> RequestState] /\ req[r] \in RequestState
          /\ req[r].pc = "walk" /\ r \in started
      BY <2>2, RequestTyped DEF Commit
    <3>2. PICK reply \in {"ack", "error"} :
              req' = [req EXCEPT ![r].pc = "publish", ![r].reply = reply]
      BY <2>2 DEF Commit, Reply
    <3> DEFINE new == [req[r] EXCEPT !.pc = "publish", !.reply = reply]
    <3>3. /\ new \in RequestState /\ new.need = req[r].need /\ new.spoiled = req[r].spoiled
          /\ new.pc = "publish"
      BY <3>1 DEF RequestState
    <3>4. /\ req' \in [Requests -> RequestState] /\ req'[r] = new
          /\ \A q \in Requests \ {r} : req'[q] = req[q]
      BY <3>1, <3>2, <3>3
    <3> HIDE DEF new
    <3>5. QED
      BY <3>1, <3>3, <3>4, RequestTyped DEF GoOn
  <2>3. QED
    BY <2>1, <2>2 DEF WatchCommit
<1>3. started \subseteq Requests
  BY DEF RequestInv, RequestTypes
<1>4. RequestTypes'
  BY <1>1, <1>2, ScanPublished, Released DEF RequestInv, RequestTypes, GoOn
<1>5. ReadsInOrder'
  BY <1>1, <1>2, ScanPublished, Released DEF RequestInv, ReadsInOrder, GoOn
<1>6. TakenCareOf'
  BY <1>1, <1>2, <1>3, ScanPublished DEF TakenCareOf, Covered, GoOn
<1>7. OnlyAfterARun'
  BY <1>1, <1>2, <1>3 DEF RequestInv, OnlyAfterARun, GoOn
<1>8. QED
  BY <1>4, <1>5, <1>6, <1>7 DEF RequestInv

\* A run that fails spoils what it had promised.
LEMMA FailKeeps ==
    ASSUME RequestInv, WatchFail \/ \E r \in Requests : Fail(r)
    PROVE  RequestInv'
<1>1. /\ Release
      /\ UNCHANGED <<tree, index, filter, meta, started, inflight, outcome>>
  BY DEF WatchFail, Fail
<1>2. req \in [Requests -> RequestState] /\ started \subseteq Requests
  BY DEF RequestInv, RequestTypes
<1>3. /\ Spoil \in [Requests -> RequestState]
      /\ \A q \in Requests : /\ Spoil[q].need = req[q].need /\ Spoil[q].pc = req[q].pc
                             /\ Spoil[q].follows = req[q].follows
                             /\ Spoil[q].reply = req[q].reply /\ Spoil[q].answer = req[q].answer
                             /\ Spoil[q].spoiled <=> req[q].spoiled \/ q \in started
  <2> SUFFICES ASSUME NEW q \in Requests
               PROVE  /\ Spoil[q] \in RequestState
                      /\ Spoil[q].need = req[q].need /\ Spoil[q].pc = req[q].pc
                      /\ Spoil[q].follows = req[q].follows
                      /\ Spoil[q].reply = req[q].reply /\ Spoil[q].answer = req[q].answer
                      /\ Spoil[q].spoiled <=> req[q].spoiled \/ q \in started
    BY DEF Spoil
  <2>1. req[q] \in RequestState
    BY <1>2
  <2>2. CASE q \in started
    <3>1. Spoil[q] = [req[q] EXCEPT !.spoiled = TRUE]
      BY <2>2 DEF Spoil, StartedAfter
    <3>2. QED
      BY <2>1, <2>2, <3>1 DEF RequestState
  <2>3. CASE q \notin started
    <3>1. Spoil[q] = req[q]
      BY <2>3 DEF Spoil, StartedAfter
    <3>2. QED
      BY <2>1, <2>3, <3>1
  <2>4. QED
    BY <2>2, <2>3
<1>4. GoOn /\ (FullScan => \A q \in started : req'[q].spoiled)
  <2>1. CASE UNCHANGED req /\ ~FullScan
    BY <1>2, <2>1, RequestTyped DEF GoOn
  <2>2. CASE req' = Spoil
    BY <1>2, <1>3, <2>2, RequestTyped DEF GoOn
  <2>3. ASSUME NEW r \in Requests, Fail(r)
        PROVE  GoOn /\ \A q \in started : req'[q].spoiled
    <3>1. req' = [Spoil EXCEPT ![r].pc = "publish", ![r].reply = "error"]
      BY <2>3 DEF Fail
    <3> DEFINE new == [Spoil[r] EXCEPT !.pc = "publish", !.reply = "error"]
    <3>2. Spoil[r] \in RequestState
      BY <1>3
    <3>3. /\ new \in RequestState /\ new.need = req[r].need /\ new.pc = "publish"
          /\ new.reply = "error" /\ new.answer = req[r].answer
          /\ new.spoiled = Spoil[r].spoiled
      BY <1>3, <3>2 DEF RequestState
    <3>4. /\ req' \in [Requests -> RequestState] /\ req'[r] = new
          /\ \A q \in Requests \ {r} : req'[q] = Spoil[q]
      BY <1>3, <3>1, <3>3
    <3> HIDE DEF new
    <3>5. QED
      BY <1>2, <1>3, <3>3, <3>4, RequestTyped DEF GoOn
  <2>4. QED
    BY <2>1, <2>2, <2>3 DEF WatchFail, FullScan
<1>5. RequestTypes'
  BY <1>1, <1>4, Released DEF RequestInv, RequestTypes, GoOn
<1>6. ReadsInOrder'
  BY <1>1, <1>4, Released DEF RequestInv, ReadsInOrder, GoOn
<1>7. TakenCareOf'
  BY <1>1, <1>2, <1>4 DEF RequestInv, TakenCareOf, Covered, GoOn
<1>8. OnlyAfterARun'
  BY <1>1, <1>2, <1>4 DEF RequestInv, OnlyAfterARun, GoOn
<1>9. QED
  BY <1>5, <1>6, <1>7, <1>8 DEF RequestInv

\* A run takes the lease: what it will read is not older than any request so
\* far, and if it is a full one it answers for all of them.
LEMMA RunStarts ==
    ASSUME RequestInv, lease = None, UNCHANGED <<tree, index, filter, inflight, outcome>>,
           meta' \in [indexed : BOOLEAN, gen : Nat, skip : BOOLEAN],
           req' \in [Requests -> RequestState],
           \A q \in Requests : /\ req'[q].need = req[q].need /\ req'[q].spoiled = req[q].spoiled
                               /\ req'[q].pc = "idle" => req[q].pc = "idle"
                               /\ req'[q].pc = "follow" => req'[q].follows \in Requests
                               /\ req'[q].pc = "walk" \/ req'[q].reply = "ack"
                                      \/ req'[q].answer = "ack" => q \in started',
           NEW paths \in SUBSET Files, scan' = [f \in paths |-> 0], lease' # None,
           \/ paths = Files /\ started' = Arrived
           \/ paths # Files /\ started' = started /\ meta'.skip = meta.skip
    PROVE  RequestInv'
<1>1. /\ DOMAIN scan' = paths /\ paths \subseteq Files /\ \A f \in paths : scan'[f] = 0
      /\ scan' = [f \in DOMAIN scan' |-> scan'[f]]
  OBVIOUS
<1>2. started \subseteq Requests /\ Arrived \subseteq Requests
      /\ \A q \in Arrived : req[q].pc # "idle"
  BY DEF RequestInv, RequestTypes, Arrived
<1>3. started' \subseteq Requests
  BY <1>2
<1>4. RequestTypes'
  <2>1. \A f \in DOMAIN scan' : scan'[f] \in Nat
    BY <1>1
  <2>2. QED
    BY <1>1, <1>3, <2>1 DEF RequestInv, RequestTypes
<1>5. ReadsInOrder'
  BY <1>1 DEF RequestInv, ReadsInOrder
<1>6. TakenCareOf'
  <2>1. CASE paths = Files
    BY <1>1, <2>1 DEF TakenCareOf, FullScan
  <2>2. CASE started' = started /\ meta'.skip = meta.skip
    BY <1>2, <2>2 DEF RequestInv, TakenCareOf, FullScan, Covered
  <2>3. QED
    BY <2>1, <2>2
<1>7. OnlyAfterARun'
  <2>1. \A q \in started' : req[q].pc # "idle"
    BY <1>2 DEF RequestInv, OnlyAfterARun
  <2>2. QED
    BY <1>3, <2>1 DEF OnlyAfterARun
<1>8. QED
  BY <1>4, <1>5, <1>6, <1>7 DEF RequestInv

\* A request gets the lease and scans, or finds that it need not.
LEMMA BodyKeeps ==
    ASSUME RequestInv, NEW r \in Requests, Body(r)
    PROVE  RequestInv'
<1>1. /\ req \in [Requests -> RequestState] /\ req[r] \in RequestState /\ req[r].pc = "lease"
      /\ lease = None /\ UNCHANGED <<tree, index, filter, inflight, outcome>>
      /\ meta \in [indexed : BOOLEAN, gen : Nat, skip : BOOLEAN]
      /\ inflight \in Entry \cup {None}
      /\ outcome \in [Requests -> {"none", "ack", "error"}]
  BY RequestTyped DEF Body
<1>2. /\ meta' \in [indexed : BOOLEAN, gen : Nat, skip : BOOLEAN]
      /\ meta'.skip = req[r].opts.skip
  <2>1. meta' = [meta EXCEPT !.skip = req[r].opts.skip]
    BY DEF Body
  <2>2. req[r].opts.skip \in BOOLEAN
    BY <1>1 DEF RequestState, Options
  <2>3. QED
    BY <1>1, <2>1, <2>2
<1>3. CASE AlreadyCurrent(r) /\ watcher' # "scan"
  <2>1. PICK reply \in {"ack", "error"} :
            /\ req' = [req EXCEPT ![r].pc = "publish", ![r].reply = reply]
            /\ UNCHANGED <<lease, scan, started>>
    BY <1>3 DEF Body, Reply
  <2>2. r \in started /\ meta.skip = req[r].opts.skip
    BY <1>3 DEF AlreadyCurrent, StartedAfter
  <2> DEFINE new == [req[r] EXCEPT !.pc = "publish", !.reply = reply]
  <2>3. /\ new \in RequestState /\ new.need = req[r].need /\ new.spoiled = req[r].spoiled
        /\ new.pc = "publish"
    BY <1>1 DEF RequestState
  <2>4. /\ req' \in [Requests -> RequestState] /\ req'[r] = new
        /\ \A q \in Requests \ {r} : req'[q] = req[q]
    BY <1>1, <2>1, <2>3
  <2> HIDE DEF new
  <2>5. QED
    BY <1>1, <1>2, <2>1, <2>2, <2>3, <2>4, RequestMoves
<1>4. CASE ~(AlreadyCurrent(r) /\ watcher' # "scan")
  <2>1. /\ req' = [req EXCEPT ![r].pc = "walk"] /\ lease' = r
        /\ scan' = [f \in Files |-> 0] /\ started' = Arrived
    BY <1>4 DEF Body, Noted
  <2> DEFINE new == [req[r] EXCEPT !.pc = "walk"]
  <2>2. /\ new \in RequestState /\ new.need = req[r].need /\ new.spoiled = req[r].spoiled
        /\ new.pc = "walk"
    BY <1>1 DEF RequestState
  <2>3. /\ req' \in [Requests -> RequestState] /\ req'[r] = new
        /\ \A q \in Requests \ {r} : req'[q] = req[q]
    BY <1>1, <2>1, <2>2
  <2> HIDE DEF new
  <2>4. r \in Arrived /\ \A q \in started : q \in Arrived
    BY <1>1 DEF Arrived, RequestInv, RequestTypes, OnlyAfterARun
  <2>5. \A q \in Requests :
            /\ req'[q].need = req[q].need /\ req'[q].spoiled = req[q].spoiled
            /\ req'[q].pc = "idle" => req[q].pc = "idle"
            /\ req'[q].pc = "follow" => req'[q].follows \in Requests
            /\ req'[q].pc = "walk" \/ req'[q].reply = "ack" \/ req'[q].answer = "ack"
                 => q \in started'
    <3> SUFFICES ASSUME NEW q \in Requests
                 PROVE  /\ req'[q].need = req[q].need /\ req'[q].spoiled = req[q].spoiled
                        /\ req'[q].pc = "idle" => req[q].pc = "idle"
                        /\ req'[q].pc = "follow" => req'[q].follows \in Requests
                        /\ req'[q].pc = "walk" \/ req'[q].reply = "ack" \/ req'[q].answer = "ack"
                             => q \in started'
      OBVIOUS
    <3>1. CASE q = r
      BY <2>1, <2>2, <2>3, <2>4, <3>1
    <3>2. CASE q # r
      <4>1. req'[q] = req[q]
        BY <2>3, <3>2
      <4>2. QED
        BY <2>1, <2>4, <4>1, RequestTyped
    <3>3. QED
      BY <3>1, <3>2
  <2>6. lease' # None
    BY <2>1, Distinct
  <2>7. QED
    BY <1>1, <1>2, <2>1, <2>3, <2>5, <2>6, RunStarts
<1>5. QED
  BY <1>3, <1>4

\* The watcher's worker starts an update or a whole scan.
LEMMA WatchStartKeeps ==
    ASSUME RequestInv, NEW paths \in SUBSET Files, WatchStart(paths)
    PROVE  RequestInv'
<1> DEFINE full == watcher = "scan" \/ paths = Files
           read == IF full THEN Files ELSE paths
<1>1. /\ lease = None /\ lease' = Watcher /\ scan' = [f \in read |-> 0]
      /\ started' = IF full THEN Arrived ELSE started
      /\ UNCHANGED <<tree, index, filter, meta, inflight, outcome, req>>
  BY DEF WatchStart, Noted
<1>2. /\ req' \in [Requests -> RequestState]
      /\ meta' \in [indexed : BOOLEAN, gen : Nat, skip : BOOLEAN]
  BY <1>1 DEF RequestInv, RequestTypes
<1>3. \A q \in started : q \in Arrived
  BY DEF Arrived, RequestInv, RequestTypes, OnlyAfterARun
<1>4. \A q \in Requests :
          /\ req'[q].pc = "follow" => req'[q].follows \in Requests
          /\ req'[q].pc = "walk" \/ req'[q].reply = "ack" \/ req'[q].answer = "ack"
               => q \in started'
  BY <1>1, <1>3, RequestTyped
<1>5. read \in SUBSET Files /\ lease' # None
      /\ (full => read = Files) /\ (~full => read # Files)
  BY <1>1, Distinct
<1>6. QED
  <2>1. \/ read = Files /\ started' = Arrived
        \/ read # Files /\ started' = started /\ meta'.skip = meta.skip
    BY <1>1, <1>5
  <2> HIDE DEF read, full
  <2>2. QED
    BY <1>1, <1>2, <1>4, <1>5, <2>1, RunStarts

\* A file is read, or edited.
LEMMA FilesKeep ==
    ASSUME RequestInv, NEW g \in Files, ReadFile(g) \/ Edit(g)
    PROVE  RequestInv'
<1>1. UNCHANGED <<index, filter, meta, lease, started, inflight, outcome, req>>
  BY DEF ReadFile, Edit
<1>2. /\ tree \in [Files -> Nat] /\ index \in [Files -> Nat] /\ DOMAIN scan \subseteq Files
      /\ \A f \in DOMAIN scan : scan[f] \in Nat
      /\ scan = [f \in DOMAIN scan |-> scan[f]] /\ started \subseteq Requests
      /\ req \in [Requests -> RequestState]
  BY DEF RequestInv, RequestTypes
<1>3. \A r \in Requests : req[r].need \in [Files -> Nat]
  BY <1>2 DEF RequestState
<1>4. /\ tree' \in [Files -> Nat] /\ \A f \in Files : tree[f] <= tree'[f]
      /\ DOMAIN scan' = DOMAIN scan /\ scan' = [f \in DOMAIN scan |-> scan'[f]]
      /\ \A f \in DOMAIN scan : \/ scan'[f] = scan[f]
                                \/ scan'[f] = tree[f] /\ tree' = tree
  <2>1. CASE ReadFile(g)
    <3>1. scan' = [scan EXCEPT ![g] = tree[g]] /\ tree' = tree
      BY <2>1 DEF ReadFile
    <3>2. DOMAIN scan' = DOMAIN scan /\ scan' = [f \in DOMAIN scan |-> scan'[f]]
      BY <1>2, <3>1
    <3>3. \A f \in DOMAIN scan : scan'[f] = scan[f] \/ scan'[f] = tree[f]
      BY <1>2, <3>1
    <3>4. \A f \in Files : tree[f] <= tree'[f]
      BY <1>2, <3>1
    <3>5. QED
      BY <1>2, <3>1, <3>2, <3>3, <3>4
  <2>2. CASE Edit(g)
    BY <1>2, <2>2 DEF Edit
  <2>3. QED
    BY <2>1, <2>2
<1>5. RequestTypes'
  <2>1. \A f \in DOMAIN scan' : scan'[f] \in Nat
    BY <1>2, <1>4
  <2>2. QED
    BY <1>1, <1>4, <2>1 DEF RequestInv, RequestTypes
<1>6. ReadsInOrder'
  <2>1. \A f \in Files : index[f] <= tree'[f]
    BY <1>2, <1>4 DEF RequestInv, ReadsInOrder
  <2>2. \A r \in Requests, f \in Files : req[r].need[f] <= tree'[f]
    BY <1>2, <1>3, <1>4 DEF RequestInv, ReadsInOrder
  <2>3. ASSUME NEW f \in DOMAIN scan, scan'[f] # 0
        PROVE  /\ index[f] <= scan'[f] /\ scan'[f] <= tree'[f]
               /\ DOMAIN scan = Files => \A r \in started : req[r].need[f] <= scan'[f]
    <3>1. CASE scan'[f] = scan[f]
      <4>1. index[f] <= scan[f] /\ scan[f] <= tree[f]
            /\ (DOMAIN scan = Files => \A r \in started : req[r].need[f] <= scan[f])
        BY <2>3, <3>1 DEF RequestInv, ReadsInOrder
      <4>2. tree[f] \in Nat /\ tree'[f] \in Nat /\ tree[f] <= tree'[f] /\ scan[f] \in Nat
        BY <1>2, <1>4
      <4>3. QED
        BY <3>1, <4>1, <4>2
    <3>2. CASE scan'[f] = tree[f] /\ tree' = tree
      BY <1>2, <1>3, <3>2 DEF RequestInv, ReadsInOrder
    <3>3. QED
      BY <1>4, <3>1, <3>2
  <2>4. QED
    BY <1>1, <1>4, <2>1, <2>2, <2>3 DEF ReadsInOrder
<1>7. TakenCareOf'
  BY <1>1, <1>2, <1>4 DEF RequestInv, TakenCareOf, FullScan, Covered
<1>8. OnlyAfterARun'
  BY <1>1 DEF RequestInv, OnlyAfterARun
<1>9. QED
  BY <1>5, <1>6, <1>7, <1>8 DEF RequestInv

-----------------------------------------------------------------------------
(* The theorems.                                                           *)

LEMMA RequestsStart == Init => RequestInv
<1> SUFFICES ASSUME Init PROVE RequestInv
  OBVIOUS
<1>1. /\ tree = [f \in Files |-> 1] /\ index = [f \in Files |-> 0]
      /\ meta = [indexed |-> FALSE, gen |-> 0, skip |-> FALSE]
      /\ scan = Untouched /\ started = {} /\ inflight = None
      /\ outcome = [r \in Requests |-> "none"] /\ req = [r \in Requests |-> Idle]
  BY DEF Init
<1>2. DOMAIN scan = {} /\ scan = [f \in DOMAIN scan |-> scan[f]]
  BY <1>1 DEF Untouched
<1>3. RequestTypes
  BY <1>1, <1>2, IdleShape DEF RequestTypes
<1>4. ReadsInOrder
  BY <1>1, <1>2, IdleShape DEF ReadsInOrder
<1>5. TakenCareOf
  BY <1>1 DEF TakenCareOf
<1>6. OnlyAfterARun
  BY <1>1, IdleShape DEF OnlyAfterARun
<1>7. QED
  BY <1>3, <1>4, <1>5, <1>6 DEF RequestInv

LEMMA RequestsStep == RequestInv /\ [Next]_vars => RequestInv'
<1> SUFFICES ASSUME RequestInv, [Next]_vars PROVE RequestInv'
  OBVIOUS
<1>1. ASSUME NEW r \in Requests, NEW opts \in Offered, Arrive(r, opts) \/ ArriveStart(r, opts)
      PROVE  RequestInv'
  BY <1>1, ArriveKeeps, OffersOptions
<1>2. ASSUME NEW r \in Requests, RequestStep(r) PROVE RequestInv'
  BY <1>2, FollowKeeps, TurnKeeps, BodyKeeps, CommitKeeps, FailKeeps DEF RequestStep
<1>3. ASSUME NEW f \in Files, ReadFile(f) \/ Edit(f) PROVE RequestInv'
  BY <1>3, FilesKeep
<1>4. CASE WatchStep
  BY <1>4, WatchStartKeeps, CommitKeeps, FailKeeps DEF WatchStep
<1>5. CASE UNCHANGED vars
  BY <1>5 DEF vars, RequestInv, RequestTypes, ReadsInOrder, TakenCareOf, FullScan, Covered,
              OnlyAfterARun
<1>6. QED
  BY <1>1, <1>2, <1>3, <1>4, <1>5 DEF Next, Arrival, Walk

LEMMA RequestsHold == Spec => []RequestInv
BY RequestsStart, RequestsStep, PTL DEF Spec

\* Only the check under the lease lets a request publish without a scan.
LEMMA OnlyBodySkips ==
    ASSUME RequestInv, [Next]_vars, NEW r \in Requests,
           req[r].pc = "lease", req'[r].pc = "publish"
    PROVE  AlreadyCurrent(r) /\ lease = None
<1>1. req \in [Requests -> RequestState]
  BY DEF RequestInv, RequestTypes
<1>2. req'[r] # req[r]
  OBVIOUS
<1>3. \A reply : Answered(r, reply).pc = "done"
  BY DEF Answered, Idle
<1>4. Spoil[r].pc = req[r].pc
  <2>1. req[r] \in RequestState
    BY <1>1
  <2>2. CASE StartedAfter(r)
    <3>1. Spoil[r] = [req[r] EXCEPT !.spoiled = TRUE]
      BY <2>2 DEF Spoil
    <3>2. QED
      BY <2>1, <3>1 DEF RequestState
  <2>3. CASE ~StartedAfter(r)
    BY <2>3 DEF Spoil
  <2>4. QED
    BY <2>2, <2>3
<1>5. ASSUME NEW q \in Requests, NEW opts \in Offered, Arrive(q, opts) \/ ArriveStart(q, opts)
      PROVE  FALSE
  <2>1. q # r
    BY <1>5 DEF Arrive, ArriveStart, IsNext
  <2>2. req'[r] = req[r]
    BY <1>1, <1>5, <2>1 DEF Arrive, ArriveStart
  <2>3. QED
    BY <1>2, <2>2
<1>6. ASSUME NEW q \in Requests, RequestStep(q), q # r
      PROVE  FALSE
  <2>1. CASE Fail(q)
    <3>1. Spoil \in [Requests -> {Spoil[x] : x \in Requests}]
      BY DEF Spoil
    <3>2. req'[r] = Spoil[r]
      BY <1>6, <2>1, <3>1 DEF Fail
    <3>3. QED
      BY <1>4, <3>2
  <2>2. CASE FollowEnds(q) \/ Enter(q) \/ Abort(q) \/ Publish(q) \/ Drop(q)
    <3>1. req'[r] = req[r]
      BY <1>1, <1>6, <2>2 DEF FollowEnds, Enter, Abort, Publish, Drop
    <3>2. QED
      BY <1>2, <3>1
  <2>3. CASE Body(q) \/ Commit(q)
    <3>1. req'[r] = req[r]
      BY <1>1, <1>6, <2>3 DEF Body, Commit
    <3>2. QED
      BY <1>2, <3>1
  <2>4. QED
    BY <1>6, <2>1, <2>2, <2>3 DEF RequestStep
<1>7. ASSUME RequestStep(r) PROVE Body(r)
  <2>1. ~FollowEnds(r) /\ ~Enter(r) /\ ~Commit(r) /\ ~Fail(r) /\ ~Publish(r) /\ ~Drop(r)
    BY DEF FollowEnds, Enter, Commit, Fail, Publish, Drop
  <2>2. ~Abort(r)
    <3>1. req[r] \in RequestState
      BY <1>1
    <3>2. [req[r] EXCEPT !.pc = "drop", !.reply = "error"].pc = "drop"
      BY <3>1 DEF RequestState
    <3>3. QED
      BY <1>1, <1>3, <3>2 DEF Abort
  <2>3. QED
    BY <1>7, <2>1, <2>2 DEF RequestStep
<1>8. ASSUME WatchStep \/ Walk \/ (\E f \in Files : Edit(f)) \/ UNCHANGED vars
      PROVE  FALSE
  <2>1. req' = req \/ req' = Spoil
    BY <1>8 DEF WatchStep, WatchStart, WatchCommit, WatchFail, Walk, ReadFile, Edit, vars
  <2>2. QED
    BY <1>4, <2>1
<1>9. Body(r)
  BY <1>5, <1>6, <1>7, <1>8 DEF Next, Arrival
<1>10. ~(AlreadyCurrent(r) /\ watcher' # "scan") => req' = [req EXCEPT ![r].pc = "walk"]
  BY <1>9 DEF Body
<1>11. AlreadyCurrent(r)
  <2>1. req[r] \in RequestState
    BY <1>1
  <2>2. [req EXCEPT ![r].pc = "walk"][r].pc = "walk"
    BY <1>1, <2>1 DEF RequestState
  <2>3. QED
    BY <1>10, <2>2
<1>12. QED
  BY <1>9, <1>11 DEF Body

\* An acknowledged request has its edits in the index, or a full run that
\* started after it arrived is still reading them, or one has failed
\* (daemon.rs: run_index_request, await_coalesced_index).
THEOREM AcknowledgedIsCovered == Spec => []AckCovers
BY RequestsHold, InvImpliesAck, PTL

\* A request that skips its scan under the lease finds everything up to its
\* arrival indexed, with its own ignore option, unless a full run that
\* started after it arrived has failed (daemon.rs: already_current).
THEOREM SkipsAreJustified == Spec => SkipIsJustified
<1>1. RequestInv /\ [Next]_vars =>
        \A r \in Requests :
          Skips(r) => Current(r) \/ req[r].spoiled
  <2> SUFFICES ASSUME RequestInv, [Next]_vars, NEW r \in Requests,
                      Skips(r)
               PROVE  Current(r) \/ req[r].spoiled
    OBVIOUS
  <2>1. AlreadyCurrent(r) /\ lease = None
    BY OnlyBodySkips DEF Skips
  <2>2. QED
    BY <2>1 DEF Skips, Current, AlreadyCurrent, StartedAfter, RequestInv,
                TakenCareOf, FullScan
<1>2. QED
  BY <1>1, RequestsHold, PTL DEF Spec, SkipIsJustified
=============================================================================
