------------------------- MODULE WorkspaceLeasesProofs -------------------------
(***************************************************************************)
(* Exclusion and NoLostWakeup of WorkspaceLeases, for any number of        *)
(* requests, workspaces and permits.  The inductive invariant ties each    *)
(* coordinator's counters to the leases that requests really hold, and the *)
(* count of exclusive waiters to the requests that do wait.                *)
(***************************************************************************)
EXTENDS WorkspaceLeases, FiniteSetTheorems, TLAPS

TypedLeases ==
    /\ activeMode \in [Workspaces -> Modes \cup {None}]
    /\ activeLeases \in [Workspaces -> Nat]
    /\ exclusiveActive \in [Workspaces -> BOOLEAN]
    /\ pc \in [Requests -> Labels]
    /\ job \in [Requests -> Jobs]
    /\ shared \in [Requests -> SUBSET Workspaces]
    /\ exclusive \in [Requests -> SUBSET Workspaces]

\* The lease count is the number of readers, and they read in one mode.
ReadersCounted ==
    \A w \in Workspaces :
        /\ activeLeases[w] = Cardinality(Readers(w))
        /\ \A r \in Requests : w \in shared[r] => job[r].mode = activeMode[w]

\* The exclusive flag is up whenever somebody writes, alone.
OneWriter ==
    \A w \in Workspaces :
        /\ exclusiveActive[w] => activeLeases[w] = 0
        /\ \A r \in Requests : w \in exclusive[r] => exclusiveActive[w]
        /\ \A r, q \in Requests : w \in exclusive[r] /\ w \in exclusive[q] => r = q

\* Before it arrives, and once it has dropped them, a request has no lease.
NoLeaseOutside ==
    \A r \in Requests :
        pc[r] \in {"new", "release", "done"} => shared[r] = {} /\ exclusive[r] = {}

LeaseInv == TypedLeases /\ ReadersCounted /\ OneWriter /\ NoLeaseOutside

-----------------------------------------------------------------------------
\* Readers(w) is a finite set, empty exactly when it counts nothing.
LEMMA ReadersFinite ==
    ASSUME NEW w \in Workspaces
    PROVE  /\ IsFiniteSet(Readers(w))
           /\ Cardinality(Readers(w)) \in Nat
           /\ Cardinality(Readers(w)) = 0 <=> Readers(w) = {}
<1>1. IsFiniteSet(Requests)
  BY NamesAssumption
<1>2. Readers(w) \subseteq Requests
  BY DEF Readers
<1>3. IsFiniteSet(Readers(w))
  BY <1>1, <1>2, FS_Subset
<1>4. QED
  BY <1>3, FS_CardinalityType, FS_EmptySet

\* The invariant implies the property: a writer's flag excludes readers.
LEMMA InvImpliesExclusion == LeaseInv => Exclusion
<1> SUFFICES ASSUME LeaseInv, NEW w \in Workspaces, NEW r \in Requests, NEW q \in Requests
             PROVE  /\ w \in exclusive[r] /\ w \in Held(q) => r = q
                    /\ w \in shared[r] /\ w \in shared[q] => job[r].mode = job[q].mode
  BY DEF Exclusion
<1>1. w \in shared[r] /\ w \in shared[q] => job[r].mode = job[q].mode
  BY DEF LeaseInv, ReadersCounted
<1>2. ASSUME w \in exclusive[r], w \in exclusive[q] PROVE r = q
  BY <1>2 DEF LeaseInv, OneWriter
<1>3. ASSUME w \in exclusive[r], w \in shared[q] PROVE FALSE
  <2>1. activeLeases[w] = 0
    BY <1>3 DEF LeaseInv, OneWriter
  <2>2. Cardinality(Readers(w)) = 0
    BY <2>1 DEF LeaseInv, ReadersCounted
  <2>3. Readers(w) = {}
    BY <2>2, ReadersFinite
  <2>4. QED
    BY <1>3, <2>3 DEF Readers
<1>4. QED
  BY <1>1, <1>2, <1>3 DEF Held

\* The daemon starts with no lease held and nothing counted.
LEMMA InitLeases == Init => LeaseInv
<1> SUFFICES ASSUME Init PROVE LeaseInv
  OBVIOUS
<1>1. job \in [Requests -> Jobs]
  <2>1. NoJob \in Jobs
    BY DEF NoJob, Jobs
  <2>2. Asked \subseteq Jobs
    BY DEF Asked
  <2>3. QED
    BY <2>1, <2>2, LoadsAssumption DEF Init
<1>2. TypedLeases
  BY <1>1 DEF Init, TypedLeases, Labels
<1>3. \A w \in Workspaces : Readers(w) = {}
  BY DEF Init, Readers
<1>4. ReadersCounted
  <2>1. \A w \in Workspaces : Cardinality(Readers(w)) = 0
    BY <1>3, ReadersFinite
  <2>2. QED
    BY <2>1 DEF ReadersCounted, Init
<1>5. OneWriter /\ NoLeaseOutside
  BY DEF Init, OneWriter, NoLeaseOutside
<1>6. QED
  BY <1>2, <1>4, <1>5 DEF LeaseInv

-----------------------------------------------------------------------------
(* What the steps do to the leases.                                        *)

\* A step that moves no lease and changes no mode of a holder.
Quiet ==
    /\ UNCHANGED <<activeMode, activeLeases, exclusiveActive, shared, exclusive>>
    /\ pc' \in [Requests -> Labels]
    /\ job' \in [Requests -> Jobs]
    /\ \A r \in Requests :
          shared[r] # {} => job'[r].mode = job[r].mode
    /\ \A r \in Requests :
          pc'[r] \in {"new", "release", "done"} => shared[r] = {} /\ exclusive[r] = {}

\* Such a step keeps the invariant.
LEMMA QuietKeeps ==
    ASSUME LeaseInv, Quiet
    PROVE  LeaseInv'
<1>1. \A w \in Workspaces : Readers(w)' = Readers(w)
  BY DEF Quiet, Readers
<1>2. TypedLeases'
  BY DEF LeaseInv, TypedLeases, Quiet
<1>3. ReadersCounted'
  <2> SUFFICES ASSUME NEW w \in Workspaces
               PROVE  /\ activeLeases'[w] = Cardinality(Readers(w)')
                      /\ \A r \in Requests : w \in shared'[r] => job'[r].mode = activeMode'[w]
    BY DEF ReadersCounted
  <2>1. activeLeases'[w] = Cardinality(Readers(w)')
    BY <1>1 DEF LeaseInv, ReadersCounted, Quiet
  <2>2. \A r \in Requests : w \in shared'[r] => job'[r].mode = activeMode'[w]
    BY DEF LeaseInv, ReadersCounted, Quiet
  <2>3. QED
    BY <2>1, <2>2
<1>4. OneWriter'
  BY DEF LeaseInv, OneWriter, Quiet
<1>5. NoLeaseOutside'
  BY DEF NoLeaseOutside, Quiet
<1>6. QED
  BY <1>2, <1>3, <1>4, <1>5 DEF LeaseInv

\* Request r is given the shared lease of w.
LEMMA TakeKeeps ==
    ASSUME LeaseInv, NEW r \in Requests, NEW w \in Workspaces,
           w \in Lacks(r), TakeShared(job[r].mode, w),
           shared' = [shared EXCEPT ![r] = @ \cup {w}],
           UNCHANGED <<exclusive, job>>,
           pc' \in [Requests -> Labels],
           pc'[r] \in {"inline", "acquire", "inlined", "granted"},
           \A q \in Requests : q # r => pc'[q] = pc[q]
    PROVE  LeaseInv'
<1> DEFINE m == job[r].mode
<1>0. TypedLeases /\ ReadersCounted /\ OneWriter /\ NoLeaseOutside
  BY DEF LeaseInv
<1>1. /\ w \notin shared[r] /\ ~exclusiveActive[w]
      /\ job[r].mode \in Modes \cup {None}
  BY <1>0 DEF Lacks, Held, TakeShared, CanBegin, CanJoin, Open, TypedLeases, Jobs
<1>2. /\ activeLeases' = [activeLeases EXCEPT ![w] = @ + 1]
      /\ activeMode' = [activeMode EXCEPT ![w] = m]
      /\ exclusiveActive' = exclusiveActive
      /\ \A q \in Requests : w \in shared[q] => job[q].mode = m
  <2>1. CASE CanBegin(m, w)
    <3>1. activeLeases[w] = 0
      BY <2>1 DEF CanBegin
    <3>2. Readers(w) = {}
      BY <3>1, <1>0, ReadersFinite DEF ReadersCounted
    <3>3. activeLeases' = [activeLeases EXCEPT ![w] = 1]
      BY <2>1 DEF TakeShared
    <3>4. activeLeases' = [activeLeases EXCEPT ![w] = @ + 1]
      BY <3>1, <3>3, <1>0 DEF TypedLeases
    <3>5. activeMode' = [activeMode EXCEPT ![w] = m] /\ exclusiveActive' = exclusiveActive
      BY <2>1 DEF TakeShared
    <3>6. \A q \in Requests : w \in shared[q] => job[q].mode = m
      BY <3>2 DEF Readers
    <3>7. QED
      BY <3>4, <3>5, <3>6
  <2>2. CASE ~CanBegin(m, w)
    <3>1. /\ CanJoin(m, w)
          /\ activeLeases' = [activeLeases EXCEPT ![w] = @ + 1]
          /\ activeMode' = activeMode /\ exclusiveActive' = exclusiveActive
      BY <2>2 DEF TakeShared
    <3>2. activeMode[w] = m
      BY <3>1 DEF CanJoin
    <3>3. activeMode' = [activeMode EXCEPT ![w] = m]
      BY <3>1, <3>2, <1>0 DEF TypedLeases
    <3>4. \A q \in Requests : w \in shared[q] => job[q].mode = m
      BY <3>2, <1>0 DEF ReadersCounted
    <3>5. QED
      BY <3>1, <3>3, <3>4
  <2>3. QED
    BY <2>1, <2>2
<1>3. /\ Readers(w)' = Readers(w) \cup {r}
      /\ r \notin Readers(w)
      /\ \A v \in Workspaces : v # w => Readers(v)' = Readers(v)
  BY <1>0, <1>1 DEF Readers, TypedLeases
<1>4. Cardinality(Readers(w)') = Cardinality(Readers(w)) + 1
  BY <1>3, ReadersFinite, FS_AddElement
<1>5. TypedLeases'
  BY <1>0, <1>1, <1>2 DEF TypedLeases
<1>6. ReadersCounted'
  <2> SUFFICES ASSUME NEW v \in Workspaces
               PROVE  /\ activeLeases'[v] = Cardinality(Readers(v)')
                      /\ \A q \in Requests : v \in shared'[q] => job'[q].mode = activeMode'[v]
    BY DEF ReadersCounted
  <2>1. CASE v = w
    <3>1. activeLeases'[w] = activeLeases[w] + 1
      BY <1>0, <1>2 DEF TypedLeases
    <3>2. activeLeases'[w] = Cardinality(Readers(w)')
      BY <3>1, <1>4, <1>0 DEF ReadersCounted
    <3>3. activeMode'[w] = m
      BY <1>0, <1>2 DEF TypedLeases
    <3>4. \A q \in Requests : w \in shared'[q] => job'[q].mode = m
      BY <1>0, <1>2 DEF TypedLeases
    <3>5. QED
      BY <2>1, <3>2, <3>3, <3>4
  <2>2. CASE v # w
    <3>1. activeLeases'[v] = activeLeases[v] /\ activeMode'[v] = activeMode[v]
      BY <2>2, <1>0, <1>2 DEF TypedLeases
    <3>2. activeLeases'[v] = Cardinality(Readers(v)')
      BY <2>2, <3>1, <1>3, <1>0 DEF ReadersCounted
    <3>3. \A q \in Requests : v \in shared'[q] => job'[q].mode = activeMode'[v]
      BY <2>2, <3>1, <1>0 DEF ReadersCounted, TypedLeases
    <3>4. QED
      BY <3>2, <3>3
  <2>3. QED
    BY <2>1, <2>2
<1>7. OneWriter'
  BY <1>0, <1>1, <1>2 DEF OneWriter, TypedLeases
<1>8. NoLeaseOutside'
  BY <1>0 DEF NoLeaseOutside, TypedLeases
<1>9. QED
  BY <1>5, <1>6, <1>7, <1>8 DEF LeaseInv

\* Request r is given the exclusive lease of w, which nobody holds.
LEMMA WriteKeeps ==
    ASSUME LeaseInv, NEW r \in Requests, NEW w \in Workspaces,
           ~Busy(w),
           exclusive' = [exclusive EXCEPT ![r] = @ \cup {w}],
           exclusiveActive' = [exclusiveActive EXCEPT ![w] = TRUE],
           UNCHANGED <<activeMode, activeLeases, shared, job>>,
           pc' \in [Requests -> Labels],
           pc'[r] \in {"acquire", "granted"},
           \A q \in Requests : q # r => pc'[q] = pc[q]
    PROVE  LeaseInv'
<1>0. TypedLeases /\ ReadersCounted /\ OneWriter /\ NoLeaseOutside
  BY DEF LeaseInv
<1>1. activeLeases[w] = 0 /\ ~exclusiveActive[w]
  BY <1>0 DEF Busy, TypedLeases
<1>2. \A q \in Requests : w \notin exclusive[q]
  BY <1>0, <1>1 DEF OneWriter
<1>3. TypedLeases'
  BY <1>0 DEF TypedLeases
<1>4. ReadersCounted'
  <2>1. \A v \in Workspaces : Readers(v)' = Readers(v)
    BY DEF Readers
  <2>2. \A v \in Workspaces : activeLeases'[v] = Cardinality(Readers(v)')
    BY <2>1, <1>0 DEF ReadersCounted
  <2>3. \A v \in Workspaces : \A q \in Requests :
            v \in shared'[q] => job'[q].mode = activeMode'[v]
    BY <1>0 DEF ReadersCounted
  <2>4. QED
    BY <2>2, <2>3 DEF ReadersCounted
<1>5. OneWriter'
  BY <1>0, <1>1, <1>2 DEF OneWriter, TypedLeases
<1>6. NoLeaseOutside'
  BY <1>0 DEF NoLeaseOutside, TypedLeases
<1>7. QED
  BY <1>3, <1>4, <1>5, <1>6 DEF LeaseInv

\* notify_all moves sleepers to "awake" and nothing else.
LEMMA NotifyMoves ==
    ASSUME TypedLeases, NEW r \in Requests, NEW w \in Workspaces,
           NEW label \in Labels, NotifyAndGoto(w, r, label)
    PROVE  /\ pc' \in [Requests -> Labels]
           /\ pc'[r] = label
           /\ \A q \in Requests : q # r => pc'[q] \in {pc[q], "awake"}
<1>1. "awake" \in Labels
  BY DEF Labels, Waiting
<1>2. QED
  BY <1>1 DEF NotifyAndGoto, TypedLeases

\* Dropping a shared lease takes one reader and one count away.
LEMMA DropSharedKeeps ==
    ASSUME LeaseInv, NEW r \in Requests, DropShared(r)
    PROVE  LeaseInv'
<1>0. TypedLeases /\ ReadersCounted /\ OneWriter /\ NoLeaseOutside
  BY DEF LeaseInv
<1>1. PICK w \in shared[r] :
          /\ shared' = [shared EXCEPT ![r] = @ \ {w}]
          /\ activeLeases' = [activeLeases EXCEPT ![w] = @ - 1]
          /\ IF activeLeases[w] = 1 THEN NotifyAndGoto(w, r, "drop")
                                    ELSE UNCHANGED pc
  BY DEF DropShared
<1>2. UNCHANGED <<activeMode, exclusiveActive, job, exclusive>> /\ pc[r] = "drop"
  BY DEF DropShared
<1>3. w \in Workspaces /\ r \in Readers(w)
  BY <1>0 DEF TypedLeases, Readers
<1>4. /\ pc' \in [Requests -> Labels]
      /\ pc'[r] = "drop"
      /\ \A q \in Requests : q # r => pc'[q] \in {pc[q], "awake"}
  <2>1. CASE activeLeases[w] = 1
    <3>1. "drop" \in Labels
      BY DEF Labels
    <3>2. QED
      BY <1>0, <1>1, <1>3, <2>1, <3>1, NotifyMoves
  <2>2. CASE activeLeases[w] # 1
    BY <1>0, <1>1, <1>2, <2>2 DEF TypedLeases
  <2>3. QED
    BY <2>1, <2>2
<1>5. /\ Readers(w)' = Readers(w) \ {r}
      /\ \A v \in Workspaces : v # w => Readers(v)' = Readers(v)
  BY <1>0, <1>1, <1>3 DEF Readers, TypedLeases
<1>6. Cardinality(Readers(w)') = Cardinality(Readers(w)) - 1
  BY <1>3, <1>5, ReadersFinite, FS_RemoveElement
<1>7. activeLeases[w] = Cardinality(Readers(w)) /\ activeLeases[w] # 0
  <2>1. activeLeases[w] = Cardinality(Readers(w))
    BY <1>0, <1>3 DEF ReadersCounted
  <2>2. Cardinality(Readers(w)) # 0
    BY <1>3, ReadersFinite
  <2>3. QED
    BY <2>1, <2>2
<1>8. TypedLeases'
  <2>1. activeLeases[w] - 1 \in Nat
    BY <1>0, <1>3, <1>7 DEF TypedLeases
  <2>2. activeLeases' \in [Workspaces -> Nat]
    BY <2>1, <1>0, <1>1 DEF TypedLeases
  <2>3. shared' \in [Requests -> SUBSET Workspaces]
    BY <1>0, <1>1 DEF TypedLeases
  <2>4. QED
    BY <2>2, <2>3, <1>0, <1>2, <1>4 DEF TypedLeases
<1>9. ReadersCounted'
  <2> SUFFICES ASSUME NEW v \in Workspaces
               PROVE  /\ activeLeases'[v] = Cardinality(Readers(v)')
                      /\ \A q \in Requests : v \in shared'[q] => job'[q].mode = activeMode'[v]
    BY DEF ReadersCounted
  <2>1. \A q \in Requests : v \in shared'[q] => v \in shared[q]
    BY <1>0, <1>1 DEF TypedLeases
  <2>2. \A q \in Requests : v \in shared'[q] => job'[q].mode = activeMode'[v]
    BY <2>1, <1>0, <1>2 DEF ReadersCounted
  <2>3. CASE v = w
    <3>1. activeLeases'[w] = activeLeases[w] - 1
      BY <1>0, <1>1, <1>3 DEF TypedLeases
    <3>2. QED
      BY <2>2, <2>3, <3>1, <1>6, <1>7
  <2>4. CASE v # w
    <3>1. activeLeases'[v] = activeLeases[v]
      BY <2>4, <1>0, <1>1 DEF TypedLeases
    <3>2. QED
      BY <2>2, <2>4, <3>1, <1>0, <1>5 DEF ReadersCounted
  <2>5. QED
    BY <2>3, <2>4
<1>10. OneWriter'
  BY <1>0, <1>1, <1>2, <1>3, <1>7 DEF OneWriter, TypedLeases
<1>11. NoLeaseOutside'
  BY <1>0, <1>1, <1>2, <1>4 DEF NoLeaseOutside, TypedLeases
<1>12. QED
  BY <1>8, <1>9, <1>10, <1>11 DEF LeaseInv

\* Dropping the exclusive lease lowers the flag, and nobody else held it up.
LEMMA DropExclusiveKeeps ==
    ASSUME LeaseInv, NEW r \in Requests, DropExclusive(r)
    PROVE  LeaseInv'
<1>0. TypedLeases /\ ReadersCounted /\ OneWriter /\ NoLeaseOutside
  BY DEF LeaseInv
<1>1. PICK w \in exclusive[r] :
          /\ exclusive' = [exclusive EXCEPT ![r] = @ \ {w}]
          /\ exclusiveActive' = [exclusiveActive EXCEPT ![w] = FALSE]
          /\ NotifyAndGoto(w, r, "drop")
  BY DEF DropExclusive
<1>2. UNCHANGED <<activeMode, activeLeases, job, shared>> /\ pc[r] = "drop"
  BY DEF DropExclusive
<1>3. w \in Workspaces
  BY <1>0 DEF TypedLeases
<1>4. /\ pc' \in [Requests -> Labels]
      /\ pc'[r] = "drop"
      /\ \A q \in Requests : q # r => pc'[q] \in {pc[q], "awake"}
  <2>1. "drop" \in Labels
    BY DEF Labels
  <2>2. QED
    BY <1>0, <1>1, <1>3, <2>1, NotifyMoves
<1>5. \A q \in Requests : w \notin exclusive'[q]
  BY <1>0, <1>1, <1>3 DEF OneWriter, TypedLeases
<1>6. TypedLeases'
  BY <1>0, <1>1, <1>2, <1>4 DEF TypedLeases
<1>7. ReadersCounted'
  <2>1. \A v \in Workspaces : Readers(v)' = Readers(v)
    BY <1>2 DEF Readers
  <2>2. \A v \in Workspaces : activeLeases'[v] = Cardinality(Readers(v)')
    BY <2>1, <1>0, <1>2 DEF ReadersCounted
  <2>3. \A v \in Workspaces : \A q \in Requests :
            v \in shared'[q] => job'[q].mode = activeMode'[v]
    BY <1>0, <1>2 DEF ReadersCounted
  <2>4. QED
    BY <2>2, <2>3 DEF ReadersCounted
<1>8. OneWriter'
  BY <1>0, <1>1, <1>2, <1>3, <1>5 DEF OneWriter, TypedLeases
<1>9. NoLeaseOutside'
  BY <1>0, <1>1, <1>2, <1>4 DEF NoLeaseOutside, TypedLeases
<1>10. QED
  BY <1>6, <1>7, <1>8, <1>9 DEF LeaseInv

\* Only r moves, to a label from which leases may still be held, and its job
\* keeps its mode.
LEMMA MoveKeeps ==
    ASSUME LeaseInv, NEW r \in Requests, NEW label \in Labels,
           label \notin {"new", "release", "done"},
           Goto(r, label),
           UNCHANGED <<activeMode, activeLeases, exclusiveActive, shared, exclusive>>,
           job' \in [Requests -> Jobs],
           \A q \in Requests : shared[q] # {} => job'[q].mode = job[q].mode
    PROVE  LeaseInv'
<1>0. TypedLeases /\ NoLeaseOutside
  BY DEF LeaseInv
<1>1. pc' \in [Requests -> Labels]
  BY <1>0 DEF Goto, TypedLeases
<1>2. \A q \in Requests :
          pc'[q] \in {"new", "release", "done"} => shared[q] = {} /\ exclusive[q] = {}
  BY <1>0 DEF Goto, TypedLeases, NoLeaseOutside
<1>3. Quiet
  BY <1>1, <1>2 DEF Quiet
<1>4. QED
  BY <1>3, QuietKeeps

\* Changing what a request does next keeps its mode.
LEMMA ThenTyped ==
    ASSUME TypedLeases, NEW r \in Requests,
           NEW t \in {"inline", "plan", "acquire", "release", "done"},
           job' = [job EXCEPT ![r].then = t]
    PROVE  /\ job' \in [Requests -> Jobs]
           /\ \A q \in Requests : job'[q].mode = job[q].mode
<1>1. job \in [Requests -> Jobs] /\ job[r] \in Jobs
  BY DEF TypedLeases
<1> DEFINE j == [job[r] EXCEPT !.then = t]
<1>2. j \in Jobs /\ j.mode = job[r].mode
  BY <1>1 DEF Jobs
<1>3. job' = [job EXCEPT ![r] = j]
  OBVIOUS
<1> HIDE DEF j
<1>4. QED
  BY <1>1, <1>2, <1>3

\* Likewise for the workspaces it needs exclusively.
LEMMA MustTyped ==
    ASSUME TypedLeases, NEW r \in Requests, NEW must \in SUBSET Workspaces,
           job' = [job EXCEPT ![r].must = must]
    PROVE  /\ job' \in [Requests -> Jobs]
           /\ \A q \in Requests : job'[q].mode = job[q].mode
<1>1. job \in [Requests -> Jobs] /\ job[r] \in Jobs
  BY DEF TypedLeases
<1> DEFINE j == [job[r] EXCEPT !.must = must]
<1>2. j \in Jobs /\ j.mode = job[r].mode
  BY <1>1 DEF Jobs
<1>3. job' = [job EXCEPT ![r] = j]
  OBVIOUS
<1> HIDE DEF j
<1>4. QED
  BY <1>1, <1>2, <1>3

\* A request without leases is forgotten.
LEMMA ForgetKeeps ==
    ASSUME LeaseInv, NEW r \in Requests, Forget(r),
           shared[r] = {}, exclusive[r] = {},
           UNCHANGED <<activeMode, activeLeases, exclusiveActive, shared, exclusive>>
    PROVE  LeaseInv'
<1>0. TypedLeases /\ NoLeaseOutside
  BY DEF LeaseInv
<1>1. NoJob \in Jobs
  BY DEF NoJob, Jobs
<1>2. job' \in [Requests -> Jobs]
  BY <1>0, <1>1 DEF Forget, TypedLeases
<1>3. pc' \in [Requests -> Labels]
  BY <1>0 DEF Forget, Goto, TypedLeases, Labels
<1>4. \A q \in Requests : shared[q] # {} => job'[q].mode = job[q].mode
  BY <1>0 DEF Forget, TypedLeases
<1>5. \A q \in Requests :
          pc'[q] \in {"new", "release", "done"} => shared[q] = {} /\ exclusive[q] = {}
  BY <1>0 DEF Forget, Goto, TypedLeases, NoLeaseOutside
<1>6. QED
  BY <1>2, <1>3, <1>4, <1>5, QuietKeeps DEF Quiet
-----------------------------------------------------------------------------
\* The steps that only wait, plan or move on.
LEMMA WaitingKeeps ==
    ASSUME LeaseInv, NEW r \in Requests,
           \/ DeclineInline(r) \/ WaitShared(r) \/ WaitExclusive(r) \/ Poll(r)
           \/ Proceed(r) \/ TakeBackground(r) \/ TakeCpu(r)
    PROVE  LeaseInv'
<1>0. TypedLeases
  BY DEF LeaseInv
<1>1. job' = job /\ UNCHANGED <<activeMode, activeLeases, exclusiveActive, shared, exclusive>>
  BY DEF DeclineInline, WaitShared, WaitExclusive, Poll, Proceed, TakeBackground,
         TakeCpu, coordinator, leases
<1>2. job' \in [Requests -> Jobs]
      /\ \A q \in Requests : shared[q] # {} => job'[q].mode = job[q].mode
  BY <1>0, <1>1 DEF TypedLeases
<1>3. \E label \in {"plan", "asleep", "awake", "cpu", "background", "running"} : Goto(r, label)
  <2>1. CASE Proceed(r)
    <3>1. CASE job[r].kind = "search"
      BY <2>1, <3>1, Zenon DEF Proceed
    <3>2. CASE job[r].kind = "index"
      BY <2>1, <3>2, Zenon DEF Proceed
    <3>3. CASE job[r].kind # "search" /\ job[r].kind # "index"
      BY <2>1, <3>3, Zenon DEF Proceed
    <3>4. QED
      BY <3>1, <3>2, <3>3
  <2>2. CASE DeclineInline(r)
    BY <2>2 DEF DeclineInline
  <2>3. CASE WaitShared(r) \/ WaitExclusive(r)
    BY <2>3 DEF WaitShared, WaitExclusive
  <2>4. CASE Poll(r) \/ TakeBackground(r) \/ TakeCpu(r)
    BY <2>4 DEF Poll, TakeBackground, TakeCpu
  <2>5. QED
    BY <2>1, <2>2, <2>3, <2>4
<1>4. PICK label \in {"plan", "asleep", "awake", "cpu", "background", "running"} : Goto(r, label)
  BY <1>3
<1>5. label \in Labels /\ label \notin {"new", "release", "done"}
  BY DEF Labels, Waiting
<1>6. QED
  BY <1>1, <1>2, <1>4, <1>5, MoveKeeps

\* The steps that send a request to drop its leases.
LEMMA LeavingKeeps ==
    ASSUME LeaseInv, NEW r \in Requests,
           \/ TrySharedContended(r) \/ Reidentify(r) \/ GiveUp(r)
           \/ CancelCpu(r) \/ Finish(r)
    PROVE  LeaseInv'
<1>0. TypedLeases
  BY DEF LeaseInv
<1>1. Goto(r, "drop") /\ UNCHANGED <<activeMode, activeLeases, exclusiveActive, shared, exclusive>>
  BY DEF TrySharedContended, Reidentify, GiveUp, CancelCpu, Finish, coordinator, leases
<1>2. \E t \in {"inline", "plan", "acquire", "release", "done"} :
          job' = [job EXCEPT ![r].then = t]
  <2>1. CASE TrySharedContended(r) \/ GiveUp(r) \/ CancelCpu(r)
    BY <2>1, Zenon DEF TrySharedContended, GiveUp, CancelCpu
  <2>2. CASE Reidentify(r)
    BY <2>2, Zenon DEF Reidentify
  <2>3. CASE Finish(r)
    BY <2>3, Zenon DEF Finish
  <2>4. QED
    BY <2>1, <2>2, <2>3
<1>3. PICK t \in {"inline", "plan", "acquire", "release", "done"} :
          job' = [job EXCEPT ![r].then = t]
  BY <1>2
<1>4. job' \in [Requests -> Jobs] /\ \A q \in Requests : job'[q].mode = job[q].mode
  BY <1>0, <1>3, ThenTyped, Zenon
<1>5. "drop" \in Labels
  BY DEF Labels
<1>6. QED
  BY <1>1, <1>4, <1>5, MoveKeeps

\* A cancelled waiter, which may wake the others.
LEMMA CancelledKeeps ==
    ASSUME LeaseInv, NEW r \in Requests, CancelShared(r) \/ CancelExclusive(r)
    PROVE  LeaseInv'
<1>0. TypedLeases /\ NoLeaseOutside
  BY DEF LeaseInv
<1>1. /\ UNCHANGED <<activeMode, activeLeases, exclusiveActive, shared, exclusive>>
      /\ job' = [job EXCEPT ![r].then = "done"]
  BY DEF CancelShared, CancelExclusive, leases
<1>2. job' \in [Requests -> Jobs] /\ \A q \in Requests : job'[q].mode = job[q].mode
  BY <1>0, <1>1, ThenTyped, Zenon
<1>3. (\E w \in Workspaces : NotifyAndGoto(w, r, "drop")) \/ Goto(r, "drop")
  BY Zenon DEF CancelShared, CancelExclusive
<1>4. "drop" \in Labels
  BY DEF Labels
<1>5. CASE Goto(r, "drop")
  BY <1>1, <1>2, <1>4, <1>5, MoveKeeps
<1>6. CASE \E w \in Workspaces : NotifyAndGoto(w, r, "drop")
  <2>1. PICK w \in Workspaces : NotifyAndGoto(w, r, "drop")
    BY <1>6
  <2>2. /\ pc' \in [Requests -> Labels]
        /\ pc'[r] = "drop"
        /\ \A q \in Requests : q # r => pc'[q] \in {pc[q], "awake"}
    BY <2>1, <1>0, <1>4, NotifyMoves
  <2>3. \A q \in Requests :
            pc'[q] \in {"new", "release", "done"} => shared[q] = {} /\ exclusive[q] = {}
    BY <2>2, <1>0 DEF NoLeaseOutside
  <2>4. QED
    BY <2>2, <2>3, <1>1, <1>2, QuietKeeps DEF Quiet
<1>7. QED
  BY <1>3, <1>5, <1>6

\* A lease is granted.
LEMMA GrantKeeps ==
    ASSUME LeaseInv, NEW r \in Requests,
           TryShared(r) \/ AcquireShared(r) \/ AcquireExclusive(r)
    PROVE  LeaseInv'
<1>0. TypedLeases
  BY DEF LeaseInv
<1>1. ASSUME NEW label \in {"inline", "acquire", "inlined", "granted"}, Goto(r, label)
      PROVE  /\ pc' \in [Requests -> Labels] /\ pc'[r] = label
             /\ \A q \in Requests : q # r => pc'[q] = pc[q]
  BY <1>0, <1>1 DEF Goto, TypedLeases, Labels, Granted
<1>2. CASE TryShared(r)
  <2>1. PICK w \in Workspaces : /\ Turn(r, w) /\ TakeShared(job[r].mode, w)
                                /\ shared' = [shared EXCEPT ![r] = @ \cup {w}]
                                /\ Goto(r, After(r, w, "inline"))
    BY <1>2 DEF TryShared
  <2>2. w \in Lacks(r) /\ UNCHANGED <<exclusive, job>>
    BY <1>2, <2>1 DEF Turn, TryShared
  <2>3. After(r, w, "inline") \in {"inline", "inlined"}
    BY DEF After
  <2>4. /\ pc' \in [Requests -> Labels] /\ pc'[r] \in {"inline", "acquire", "inlined", "granted"}
        /\ \A q \in Requests : q # r => pc'[q] = pc[q]
    BY <1>1, <2>1, <2>3
  <2>5. QED
    BY <2>1, <2>2, <2>4, TakeKeeps
<1>3. CASE AcquireShared(r)
  <2>1. PICK w \in Workspaces : /\ WantsShared(r, w) /\ TakeShared(job[r].mode, w)
                                /\ shared' = [shared EXCEPT ![r] = @ \cup {w}]
                                /\ Goto(r, After(r, w, "acquire"))
    BY <1>3 DEF AcquireShared
  <2>2. w \in Lacks(r) /\ UNCHANGED <<exclusive, job>>
    BY <1>3, <2>1 DEF Turn, WantsShared, AcquireShared
  <2>3. After(r, w, "acquire") \in {"acquire", "granted"}
    BY DEF After
  <2>4. /\ pc' \in [Requests -> Labels] /\ pc'[r] \in {"inline", "acquire", "inlined", "granted"}
        /\ \A q \in Requests : q # r => pc'[q] = pc[q]
    BY <1>1, <2>1, <2>3
  <2>5. QED
    BY <2>1, <2>2, <2>4, TakeKeeps
<1>4. CASE AcquireExclusive(r)
  <2>1. PICK w \in Workspaces :
            /\ ~Busy(w)
            /\ exclusiveActive' = [exclusiveActive EXCEPT ![w] = TRUE]
            /\ exclusive' = [exclusive EXCEPT ![r] = @ \cup {w}]
            /\ Goto(r, After(r, w, "acquire"))
    BY <1>4 DEF AcquireExclusive
  <2>2. UNCHANGED <<activeMode, activeLeases, shared, job>>
    BY <1>4 DEF AcquireExclusive
  <2>3. After(r, w, "acquire") \in {"acquire", "granted"}
    BY DEF After
  <2>4. /\ pc' \in [Requests -> Labels] /\ pc'[r] \in {"acquire", "granted"}
        /\ \A q \in Requests : q # r => pc'[q] = pc[q]
    BY <1>1, <2>1, <2>3
  <2>5. QED
    BY <2>1, <2>2, <2>4, WriteKeeps
<1>5. QED
  BY <1>2, <1>3, <1>4
\* A request arrives, and is planned, or planned again after an escalation.
LEMMA PlannedKeeps ==
    ASSUME LeaseInv, NEW r \in Requests, Arrive(r) \/ Plan(r) \/ Escalate(r)
    PROVE  LeaseInv'
<1>0. TypedLeases /\ NoLeaseOutside
  BY DEF LeaseInv
<1>1. UNCHANGED <<activeMode, activeLeases, exclusiveActive, shared, exclusive>>
  BY DEF Arrive, Plan, Escalate, coordinator, leases
<1>2. "inline" \in Labels /\ "plan" \in Labels /\ "acquire" \in Labels /\ "drop" \in Labels
  BY DEF Labels
<1>3. CASE Arrive(r)
  <2>1. job' = job /\ (Goto(r, "inline") \/ Goto(r, "plan"))
    BY <1>3, Zenon DEF Arrive
  <2>2. /\ job' \in [Requests -> Jobs]
        /\ \A q \in Requests : job'[q].mode = job[q].mode
    BY <2>1, <1>0 DEF TypedLeases
  <2>3. QED
    BY <1>1, <1>2, <2>1, <2>2, MoveKeeps
<1>4. CASE Plan(r)
  <2>1. PICK must \in SUBSET job[r].needs : job' = [job EXCEPT ![r].must = must]
    BY <1>4 DEF Plan
  <2>2. must \in SUBSET Workspaces
    <3>1. job[r] \in Jobs
      BY <1>0 DEF TypedLeases
    <3>2. job[r].needs \in SUBSET Workspaces
      BY <3>1 DEF Jobs
    <3>3. QED
      BY <3>2
  <2>3. job' \in [Requests -> Jobs] /\ \A q \in Requests : job'[q].mode = job[q].mode
    BY <1>0, <2>1, <2>2, MustTyped
  <2>4. Goto(r, "acquire")
    BY <1>4 DEF Plan
  <2>5. QED
    BY <1>1, <1>2, <2>3, <2>4, MoveKeeps
<1>5. CASE Escalate(r)
  <2>1. job \in [Requests -> Jobs] /\ job[r] \in Jobs
    BY <1>0 DEF TypedLeases
  <2> DEFINE j == [[job[r] EXCEPT !.must = job[r].needs] EXCEPT !.then = "acquire"]
  <2>2. j \in Jobs /\ j.mode = job[r].mode
    BY <2>1 DEF Jobs
  <2>3. job' = [job EXCEPT ![r] = j]
    BY <1>5, <2>1 DEF Escalate, Jobs
  <2> HIDE DEF j
  <2>4. job' \in [Requests -> Jobs] /\ \A q \in Requests : job'[q].mode = job[q].mode
    BY <2>1, <2>2, <2>3
  <2>5. Goto(r, "drop")
    BY <1>5 DEF Escalate
  <2>6. QED
    BY <1>1, <1>2, <2>4, <2>5, MoveKeeps
<1>6. QED
  BY <1>3, <1>4, <1>5

\* A request goes on after its leases are dropped, or ends, or is cancelled.
LEMMA EndingKeeps ==
    ASSUME LeaseInv, NEW r \in Requests,
           Dropped(r) \/ Answer(r) \/ Release(r) \/ Cancel(r)
    PROVE  LeaseInv'
<1>0. TypedLeases /\ NoLeaseOutside
  BY DEF LeaseInv
<1>1. UNCHANGED <<activeMode, activeLeases, exclusiveActive, shared, exclusive>>
  BY DEF Dropped, Answer, Release, Cancel, coordinator, leases
<1>2. CASE Dropped(r)
  <2>1. job[r] \in Jobs
    BY <1>0 DEF TypedLeases
  <2>2. job[r].then \in Labels
    BY <2>1 DEF Jobs, Labels
  <2>3. shared[r] = {} /\ exclusive[r] = {} /\ job' = job /\ Goto(r, job[r].then)
    BY <1>2 DEF Dropped, Held
  <2>4. pc' \in [Requests -> Labels]
    BY <2>2, <2>3, <1>0 DEF Goto, TypedLeases
  <2>5. \A q \in Requests :
            pc'[q] \in {"new", "release", "done"} => shared[q] = {} /\ exclusive[q] = {}
    BY <2>3, <1>0 DEF Goto, TypedLeases, NoLeaseOutside
  <2>6. QED
    BY <1>0, <1>1, <2>3, <2>4, <2>5, QuietKeeps DEF Quiet, TypedLeases
<1>3. CASE Answer(r)
  <2>1. shared[r] = {} /\ exclusive[r] = {} /\ Forget(r)
    BY <1>3 DEF Answer, Held
  <2>2. QED
    BY <1>1, <2>1, ForgetKeeps
<1>4. CASE Release(r)
  <2>1. shared[r] = {} /\ exclusive[r] = {} /\ Forget(r)
    BY <1>4, <1>0 DEF Release, NoLeaseOutside
  <2>2. QED
    BY <1>1, <2>1, ForgetKeeps
<1>5. CASE Cancel(r)
  <2>1. job' = job /\ pc' = pc
    BY <1>5 DEF Cancel
  <2>2. QED
    BY <1>0, <1>1, <2>1, QuietKeeps DEF Quiet, TypedLeases, NoLeaseOutside
<1>6. QED
  BY <1>2, <1>3, <1>4, <1>5

\* The invariant is inductive.
LEMMA NextKeeps == LeaseInv /\ [Next]_vars => LeaseInv'
<1> SUFFICES ASSUME LeaseInv, [Next]_vars PROVE LeaseInv'
  OBVIOUS
<1>1. CASE UNCHANGED vars
  <2>1. UNCHANGED <<activeMode, activeLeases, exclusiveActive, shared, exclusive, pc, job>>
    BY <1>1 DEF vars, coordinator, leases
  <2>2. QED
    BY <2>1, QuietKeeps DEF Quiet, LeaseInv, TypedLeases, NoLeaseOutside
<1>2. ASSUME NEW r \in Requests, Arrive(r) \/ Step(r) \/ Poll(r) \/ Surprise(r)
      PROVE  LeaseInv'
  <2>1. CASE TryShared(r) \/ AcquireShared(r) \/ AcquireExclusive(r)
    BY <2>1, GrantKeeps
  <2>2. CASE DropShared(r)
    BY <2>2, DropSharedKeeps
  <2>3. CASE DropExclusive(r)
    BY <2>3, DropExclusiveKeeps
  <2>4. CASE CancelShared(r) \/ CancelExclusive(r)
    BY <2>4, CancelledKeeps
  <2>5. CASE \/ DeclineInline(r) \/ WaitShared(r) \/ WaitExclusive(r) \/ Poll(r)
             \/ Proceed(r) \/ TakeBackground(r) \/ TakeCpu(r)
    BY <2>5, WaitingKeeps
  <2>6. CASE \/ TrySharedContended(r) \/ Reidentify(r) \/ GiveUp(r)
             \/ CancelCpu(r) \/ Finish(r)
    BY <2>6, LeavingKeeps
  <2>7. CASE Arrive(r) \/ Plan(r) \/ Escalate(r)
    BY <2>7, PlannedKeeps
  <2>8. CASE Dropped(r) \/ Answer(r) \/ Release(r) \/ Cancel(r)
    BY <2>8, EndingKeeps
  <2>9. QED
    BY <1>2, <2>1, <2>2, <2>3, <2>4, <2>5, <2>6, <2>7, <2>8 DEF Step, Surprise
<1>3. QED
  BY <1>1, <1>2 DEF Next

\* Whatever the number of requests and workspaces, no mutation ever shares a
\* workspace with anyone, and readers share one only in the same mode: the
\* coordinator's guards, its counters and the drops keep Exclusion.
THEOREM LeasesExclusive == Spec => []Exclusion
<1>1. Spec => []LeaseInv
  BY InitLeases, NextKeeps, PTL DEF Spec
<1>2. QED
  BY <1>1, InvImpliesExclusion, PTL

-----------------------------------------------------------------------------
(* Wakeups.                                                                *)

\* The requests counted by exclusive_waiters of w.
Queue(w) == {r \in Requests : pc[r] \in Waiting /\ WantsExclusive(r, w)}

QueueCounted ==
    /\ nextMode \in [Workspaces -> Modes \cup {None}]
    /\ exclusiveWaiters \in [Workspaces -> Nat]
    /\ \A w \in Workspaces : exclusiveWaiters[w] = Cardinality(Queue(w))

WakeInv == LeaseInv /\ QueueCounted /\ NoLostWakeup

\* What a step of r leaves to the others: they may only be woken.
Others(r) ==
    \A q \in Requests :
        q # r => /\ job'[q] = job[q] /\ shared'[q] = shared[q] /\ exclusive'[q] = exclusive[q]
                 /\ pc'[q] = pc[q] \/ (pc[q] = "asleep" /\ pc'[q] = "awake")

\* A step after which nobody can be granted a lease of w that could not be
\* granted it before.
Tight(w) ==
    /\ Busy(w) => Busy(w)'
    /\ \A m : ~CanBegin(m, w) /\ ~CanJoin(m, w) => ~CanBegin(m, w)' /\ ~CanJoin(m, w)'

\* A step of r after which nobody else sleeps on w.
Wakes(r, w) ==
    \A q \in Requests : q # r /\ pc'[q] = "asleep" => ~Turn(q, w)

\* A step of one request changes no other, but to wake it.
LEMMA OthersStay ==
    ASSUME LeaseInv, NEW r \in Requests, Arrive(r) \/ Step(r) \/ Poll(r) \/ Surprise(r)
    PROVE  Others(r)
<1>0. /\ pc \in [Requests -> Labels] /\ job \in [Requests -> Jobs]
      /\ shared \in [Requests -> SUBSET Workspaces]
      /\ exclusive \in [Requests -> SUBSET Workspaces]
  BY DEF LeaseInv, TypedLeases
<1>1. \A q \in Requests : q # r => job'[q] = job[q]
  BY <1>0 DEF Arrive, Step, Poll, Surprise, TryShared, TrySharedContended, DeclineInline,
     Plan, AcquireShared, WaitShared, CancelShared, AcquireExclusive, WaitExclusive,
     CancelExclusive, Proceed, TakeBackground, TakeCpu, CancelCpu, Finish, DropShared,
     DropExclusive, Dropped, Answer, Release, Forget, Escalate, Reidentify, GiveUp, Cancel
<1>2. \A q \in Requests : q # r => shared'[q] = shared[q] /\ exclusive'[q] = exclusive[q]
  BY <1>0 DEF Arrive, Step, Poll, Surprise, TryShared, TrySharedContended, DeclineInline,
     Plan, AcquireShared, WaitShared, CancelShared, AcquireExclusive, WaitExclusive,
     CancelExclusive, Proceed, TakeBackground, TakeCpu, CancelCpu, Finish, DropShared,
     DropExclusive, Dropped, Answer, Release, Escalate, Reidentify, GiveUp, Cancel, leases
<1>3. \/ UNCHANGED pc
      \/ \E label : Goto(r, label)
      \/ \E w, label : NotifyAndGoto(w, r, label)
  <2>1. CASE Arrive(r) \/ Poll(r) \/ Surprise(r)
    BY <2>1, Zenon DEF Arrive, Poll, Surprise, Escalate, Reidentify, GiveUp, Cancel
  <2>2. CASE \/ TryShared(r) \/ TrySharedContended(r) \/ DeclineInline(r) \/ Plan(r)
             \/ AcquireShared(r) \/ WaitShared(r) \/ AcquireExclusive(r) \/ WaitExclusive(r)
    BY <2>2, Zenon DEF TryShared, TrySharedContended, DeclineInline, Plan,
       AcquireShared, WaitShared, AcquireExclusive, WaitExclusive
  <2>3. CASE CancelShared(r) \/ CancelExclusive(r) \/ DropShared(r) \/ DropExclusive(r)
    BY <2>3, Zenon DEF CancelShared, CancelExclusive, DropShared, DropExclusive
  <2>4. CASE \/ Proceed(r) \/ TakeBackground(r) \/ TakeCpu(r) \/ CancelCpu(r)
             \/ Finish(r) \/ Dropped(r) \/ Answer(r) \/ Release(r)
    BY <2>4, Zenon DEF Proceed, TakeBackground, TakeCpu, CancelCpu, Finish, Dropped,
       Answer, Release, Forget
  <2>5. QED
    BY <2>1, <2>2, <2>3, <2>4 DEF Step
<1>4. \A q \in Requests :
          q # r => pc'[q] = pc[q] \/ (pc[q] = "asleep" /\ pc'[q] = "awake")
  BY <1>0, <1>3 DEF Goto, NotifyAndGoto
<1>5. QED
  BY <1>1, <1>2, <1>4 DEF Others

\* What a request waits for depends on its own job and leases.
LEMMA WantsSame ==
    ASSUME NEW q \in Requests, NEW w \in Workspaces,
           job'[q] = job[q], shared'[q] = shared[q], exclusive'[q] = exclusive[q]
    PROVE  /\ Turn(q, w)' = Turn(q, w)
           /\ WantsShared(q, w)' = WantsShared(q, w)
           /\ WantsExclusive(q, w)' = WantsExclusive(q, w)
<1>1. Lacks(q)' = Lacks(q)
  BY DEF Lacks, Held
<1>2. Turn(q, w)' = Turn(q, w)
  BY <1>1 DEF Turn
<1>3. QED
  BY <1>2 DEF WantsShared, WantsExclusive

\* A request waits for one workspace at a time.
LEMMA TurnUnique ==
    ASSUME LeaseInv, NEW q \in Requests, NEW v, NEW w, Turn(q, v), Turn(q, w)
    PROVE  v = w
<1>1. job[q] \in Jobs
  BY DEF LeaseInv, TypedLeases
<1>2. job[q].needs \subseteq Nat
  BY <1>1, NamesAssumption DEF Jobs
<1>3. v \in Nat /\ w \in Nat /\ v <= w /\ w <= v
  BY <1>2 DEF Turn, Lacks
<1>4. QED
  BY <1>3

\* Whoever slept before, sleeps on, and was not woken still has to wait.
LEMMA SleepersWait ==
    ASSUME LeaseInv, NoLostWakeup, NEW r \in Requests, Others(r),
           \A w \in Workspaces : Tight(w) \/ Wakes(r, w),
           pc'[r] # "asleep"
    PROVE  NoLostWakeup'
<1> SUFFICES ASSUME NEW q \in Requests, NEW w \in Workspaces, pc'[q] = "asleep"
             PROVE  /\ WantsShared(q, w)' =>
                          ~CanBegin(job[q].mode, w)' /\ ~CanJoin(job[q].mode, w)'
                    /\ WantsExclusive(q, w)' => Busy(w)'
  BY DEF NoLostWakeup
<1>1. q # r /\ pc[q] = "asleep" /\ job'[q] = job[q]
  BY DEF Others
<1>2. /\ WantsShared(q, w)' = WantsShared(q, w)
      /\ WantsExclusive(q, w)' = WantsExclusive(q, w)
  BY <1>1, WantsSame DEF Others
<1>3. /\ WantsShared(q, w) => ~CanBegin(job[q].mode, w) /\ ~CanJoin(job[q].mode, w)
      /\ WantsExclusive(q, w) => Busy(w)
  BY <1>1 DEF NoLostWakeup
<1>4. CASE Wakes(r, w)
  BY <1>1, <1>2, <1>4 DEF Wakes, WantsShared, WantsExclusive
<1>5. CASE Tight(w)
  <2>1. Busy(w) => Busy(w)'
    BY <1>5 DEF Tight
  <2>2. PICK m : m = job[q].mode
    OBVIOUS
  <2>3. ~CanBegin(m, w) /\ ~CanJoin(m, w) => ~CanBegin(m, w)' /\ ~CanJoin(m, w)'
    BY <1>5 DEF Tight
  <2>4. WantsShared(q, w) => ~CanBegin(m, w)' /\ ~CanJoin(m, w)'
    BY <1>3, <2>2, <2>3
  <2>5. CanBegin(job[q].mode, w)' = CanBegin(m, w)' /\ CanJoin(job[q].mode, w)' = CanJoin(m, w)'
    BY <1>1, <2>2 DEF CanBegin, CanJoin, Open
  <2>6. QED
    BY <1>2, <1>3, <2>1, <2>4, <2>5
<1>6. QED
  BY <1>4, <1>5

\* The queue of a workspace is finite, and counts nothing when it is empty.
LEMMA QueueFinite ==
    ASSUME NEW w
    PROVE  IsFiniteSet(Queue(w)) /\ Cardinality(Queue(w)) \in Nat
<1>1. Queue(w) \subseteq Requests /\ IsFiniteSet(Requests)
  BY NamesAssumption DEF Queue
<1>2. QED
  BY <1>1, FS_Subset, FS_CardinalityType

\* A step of r changes a queue only by r.
LEMMA QueueOthers ==
    ASSUME NEW r \in Requests, Others(r), NEW w \in Workspaces
    PROVE  /\ (r \in Queue(w)' <=> r \in Queue(w)) => Queue(w)' = Queue(w)
           /\ r \in Queue(w)' /\ r \notin Queue(w) => Queue(w)' = Queue(w) \cup {r}
           /\ r \notin Queue(w)' => Queue(w)' = Queue(w) \ {r}
<1>1. ASSUME NEW q \in Requests, q # r
      PROVE  q \in Queue(w)' <=> q \in Queue(w)
  <2>1. WantsExclusive(q, w)' = WantsExclusive(q, w)
    BY <1>1, WantsSame DEF Others
  <2>2. pc'[q] \in Waiting <=> pc[q] \in Waiting
    BY <1>1 DEF Others, Waiting
  <2>3. QED
    BY <2>1, <2>2 DEF Queue
<1>2. Queue(w)' \subseteq Requests /\ Queue(w) \subseteq Requests
  BY DEF Queue
<1>3. QED
  BY <1>1, <1>2

\* A step that leaves the coordinators' counts, after which r is in a queue
\* exactly if it was.
LEMMA QueueKept ==
    ASSUME QueueCounted, NEW r \in Requests, Others(r), UNCHANGED exclusiveWaiters,
           nextMode' \in [Workspaces -> Modes \cup {None}],
           \A w \in Workspaces : r \in Queue(w)' <=> r \in Queue(w)
    PROVE  QueueCounted'
<1>1. \A w \in Workspaces : Queue(w)' = Queue(w)
  BY QueueOthers
<1>2. QED
  BY <1>1 DEF QueueCounted

\* A request that does not wait is in no queue.
LEMMA NotWaiting ==
    ASSUME NEW r \in Requests
    PROVE  /\ pc[r] \notin Waiting => \A w \in Workspaces : r \notin Queue(w)
           /\ pc'[r] \notin Waiting => \A w \in Workspaces : r \notin Queue(w)'
BY DEF Queue

\* A request that waits to share a workspace is in no queue.
LEMMA SharedNotQueued ==
    ASSUME LeaseInv, NEW r \in Requests, NEW w \in Workspaces, WantsShared(r, w)
    PROVE  \A v \in Workspaces : ~WantsExclusive(r, v)
BY TurnUnique DEF WantsShared, WantsExclusive

\* A coordinator that does not change grants nothing new.
LEMMA SameIsTight ==
    ASSUME NEW w \in Workspaces,
           activeMode'[w] = activeMode[w], activeLeases'[w] = activeLeases[w],
           nextMode'[w] = nextMode[w], exclusiveActive'[w] = exclusiveActive[w],
           exclusiveWaiters'[w] = exclusiveWaiters[w]
    PROVE  Tight(w)
BY DEF Tight, Busy, CanBegin, CanJoin, Open

\* The steps of a request that is not waiting and does not touch a
\* coordinator.
LEMMA AwayWakes ==
    ASSUME LeaseInv, QueueCounted, NoLostWakeup, NEW r \in Requests,
           \/ Arrive(r) \/ TrySharedContended(r) \/ DeclineInline(r) \/ Plan(r)
           \/ Proceed(r) \/ TakeBackground(r) \/ TakeCpu(r) \/ CancelCpu(r)
           \/ Finish(r) \/ Dropped(r) \/ Answer(r) \/ Release(r)
           \/ Escalate(r) \/ Reidentify(r) \/ GiveUp(r)
    PROVE  QueueCounted' /\ NoLostWakeup'
<1>0. pc \in [Requests -> Labels] /\ job[r] \in Jobs
  BY DEF LeaseInv, TypedLeases
<1>1. Others(r)
  BY OthersStay DEF Step, Surprise
<1>2. UNCHANGED <<activeMode, activeLeases, nextMode, exclusiveActive, exclusiveWaiters>>
  BY DEF Arrive, TrySharedContended, DeclineInline, Plan, Proceed, TakeBackground,
     TakeCpu, CancelCpu, Finish, Dropped, Answer, Release, Escalate, Reidentify, GiveUp,
     coordinator
<1>3. pc[r] \notin Waiting
  BY DEF Arrive, TrySharedContended, DeclineInline, Plan, Proceed, TakeBackground,
     TakeCpu, CancelCpu, Finish, Dropped, Answer, Release, Escalate, Reidentify, GiveUp,
     Waiting, Granted
<1>4. \E label \in Labels \ Waiting : Goto(r, label)
  <2>1. CASE Arrive(r)
    <3>1. Goto(r, "inline") \/ Goto(r, "plan")
      BY <2>1, Zenon DEF Arrive
    <3>2. QED
      BY <3>1 DEF Labels, Waiting
  <2>2. CASE Proceed(r)
    <3>1. CASE job[r].kind = "search"
      <4>1. Goto(r, "cpu")
        BY <2>2, <3>1, Zenon DEF Proceed
      <4>2. QED
        BY <4>1 DEF Labels, Waiting
    <3>2. CASE job[r].kind = "index"
      <4>1. Goto(r, "background")
        BY <2>2, <3>2, Zenon DEF Proceed
      <4>2. QED
        BY <4>1 DEF Labels, Waiting
    <3>3. CASE job[r].kind # "search" /\ job[r].kind # "index"
      <4>1. Goto(r, "running")
        BY <2>2, <3>3, Zenon DEF Proceed
      <4>2. QED
        BY <4>1 DEF Labels, Waiting
    <3>4. QED
      BY <3>1, <3>2, <3>3
  <2>3. CASE Dropped(r)
    <3>1. Goto(r, job[r].then)
      BY <2>3 DEF Dropped
    <3>2. job[r].then \in Labels \ Waiting
      BY <1>0 DEF Jobs, Labels, Waiting
    <3>3. QED
      BY <3>1, <3>2
  <2>4. CASE \/ TrySharedContended(r) \/ DeclineInline(r) \/ Plan(r) \/ TakeBackground(r)
             \/ TakeCpu(r) \/ CancelCpu(r) \/ Finish(r) \/ Answer(r) \/ Release(r)
             \/ Escalate(r) \/ Reidentify(r) \/ GiveUp(r)
    <3>1. \/ Goto(r, "drop") \/ Goto(r, "plan") \/ Goto(r, "acquire")
          \/ Goto(r, "cpu") \/ Goto(r, "running") \/ Goto(r, "done")
      BY <2>4, Zenon DEF TrySharedContended, DeclineInline, Plan, TakeBackground, TakeCpu,
         CancelCpu, Finish, Answer, Release, Forget, Escalate, Reidentify, GiveUp
    <3>2. QED
      BY <3>1 DEF Labels, Waiting
  <2>5. QED
    BY <2>1, <2>2, <2>3, <2>4
<1>5. pc'[r] \notin Waiting
  BY <1>0, <1>4 DEF Goto
<1>6. \A w \in Workspaces : Tight(w)
  BY <1>2, SameIsTight
<1>7. pc'[r] # "asleep"
  BY <1>5 DEF Waiting
<1>8. NoLostWakeup'
  BY <1>1, <1>6, <1>7, SleepersWait
<1>9. nextMode' \in [Workspaces -> Modes \cup {None}]
  BY <1>2 DEF QueueCounted
<1>10. \A w \in Workspaces : r \in Queue(w)' <=> r \in Queue(w)
  BY <1>3, <1>5, NotWaiting
<1>11. QueueCounted'
  BY <1>1, <1>2, <1>9, <1>10, QueueKept
<1>12. QED
  BY <1>8, <1>11

\* A waiter looks at its flag, or its flag goes up.
LEMMA PollWakes ==
    ASSUME LeaseInv, QueueCounted, NoLostWakeup, NEW r \in Requests, Poll(r) \/ Cancel(r)
    PROVE  QueueCounted' /\ NoLostWakeup'
<1>0. pc \in [Requests -> Labels]
  BY DEF LeaseInv, TypedLeases
<1>1. Others(r)
  BY OthersStay DEF Surprise
<1>2. /\ UNCHANGED <<activeMode, activeLeases, nextMode, exclusiveActive, exclusiveWaiters>>
      /\ UNCHANGED <<job, shared, exclusive>>
  BY DEF Poll, Cancel, coordinator, leases
<1>3. \A w \in Workspaces : Tight(w)
  BY <1>2, SameIsTight
<1>4. nextMode' \in [Workspaces -> Modes \cup {None}]
  BY <1>2 DEF QueueCounted
<1>5. pc'[r] \in Waiting <=> pc[r] \in Waiting
  BY <1>0 DEF Poll, Cancel, Goto, Waiting
<1>6. \A w \in Workspaces : r \in Queue(w)' <=> r \in Queue(w)
  BY <1>2, <1>5, WantsSame DEF Queue
<1>7. QueueCounted'
  BY <1>1, <1>2, <1>4, <1>6, QueueKept
<1>8. CASE Poll(r)
  <2>1. pc'[r] # "asleep"
    BY <1>0, <1>8 DEF Poll, Goto
  <2>2. QED
    BY <1>1, <1>3, <1>7, <2>1, SleepersWait
<1>9. CASE Cancel(r)
  <2>1. pc' = pc
    BY <1>9 DEF Cancel
  <2>2. NoLostWakeup'
    <3> SUFFICES ASSUME NEW q \in Requests, NEW w \in Workspaces, pc'[q] = "asleep"
                 PROVE  /\ WantsShared(q, w)' =>
                              ~CanBegin(job[q].mode, w)' /\ ~CanJoin(job[q].mode, w)'
                        /\ WantsExclusive(q, w)' => Busy(w)'
      BY DEF NoLostWakeup
    <3>1. /\ WantsShared(q, w)' = WantsShared(q, w)
          /\ WantsExclusive(q, w)' = WantsExclusive(q, w)
      BY <1>2, WantsSame
    <3>2. /\ WantsShared(q, w) => ~CanBegin(job[q].mode, w) /\ ~CanJoin(job[q].mode, w)
          /\ WantsExclusive(q, w) => Busy(w)
      BY <2>1 DEF NoLostWakeup
    <3>3. QED
      BY <1>2, <3>1, <3>2 DEF CanBegin, CanJoin, Open, Busy
  <2>3. QED
    BY <1>7, <2>2
<1>10. QED
  BY <1>8, <1>9

\* Whoever takes a shared lease closes the workspace to the others no more
\* than it was, and opens it to nobody.
LEMMA TakeIsTight ==
    ASSUME LeaseInv, QueueCounted, NEW m \in Modes \cup {None}, NEW w \in Workspaces,
           TakeShared(m, w)
    PROVE  /\ \A v \in Workspaces : Tight(v)
           /\ UNCHANGED exclusiveWaiters
           /\ nextMode' \in [Workspaces -> Modes \cup {None}]
<1>0. /\ activeMode \in [Workspaces -> Modes \cup {None}]
      /\ activeLeases \in [Workspaces -> Nat]
      /\ nextMode \in [Workspaces -> Modes \cup {None}]
      /\ exclusiveWaiters' = exclusiveWaiters /\ exclusiveActive' = exclusiveActive
  BY DEF LeaseInv, TypedLeases, QueueCounted, TakeShared
<1>1. CASE CanBegin(m, w)
  <2>1. /\ activeMode' = [activeMode EXCEPT ![w] = m]
        /\ activeLeases' = [activeLeases EXCEPT ![w] = 1]
        /\ nextMode' = [nextMode EXCEPT ![w] = None]
    BY <1>1 DEF TakeShared
  <2>2. \A v \in Workspaces : v # w => Tight(v)
    BY <1>0, <2>1, SameIsTight
  <2>3. Tight(w)
    <3>1. activeMode'[w] = m /\ activeLeases'[w] = 1
      BY <1>0, <2>1
    <3>2. QED
      BY <1>0, <1>1, <3>1 DEF Tight, Busy, CanBegin, CanJoin, Open
  <2>4. QED
    BY <1>0, <2>1, <2>2, <2>3
<1>2. CASE ~CanBegin(m, w)
  <2>1. /\ CanJoin(m, w) /\ activeLeases' = [activeLeases EXCEPT ![w] = @ + 1]
        /\ UNCHANGED <<activeMode, nextMode>>
    BY <1>2 DEF TakeShared
  <2>2. \A v \in Workspaces : v # w => Tight(v)
    BY <1>0, <2>1, SameIsTight
  <2>3. Tight(w)
    <3>1. activeLeases'[w] = activeLeases[w] + 1 /\ activeLeases[w] \in Nat
      BY <1>0, <2>1
    <3>2. QED
      BY <1>0, <2>1, <3>1 DEF Tight, Busy, CanBegin, CanJoin, Open
  <2>4. QED
    BY <1>0, <2>1, <2>2, <2>3
<1>3. QED
  BY <1>1, <1>2

\* A shared lease is granted.
LEMMA TakeWakes ==
    ASSUME LeaseInv, QueueCounted, NoLostWakeup, NEW r \in Requests,
           TryShared(r) \/ AcquireShared(r)
    PROVE  QueueCounted' /\ NoLostWakeup'
<1>0. pc \in [Requests -> Labels] /\ job[r] \in Jobs
  BY DEF LeaseInv, TypedLeases
<1>1. Others(r)
  BY OthersStay DEF Step
<1>2. PICK w \in Workspaces : /\ TakeShared(job[r].mode, w)
                              /\ pc[r] \in Waiting => WantsShared(r, w)
                              /\ \/ Goto(r, After(r, w, "inline"))
                                 \/ Goto(r, After(r, w, "acquire"))
  BY Zenon DEF TryShared, AcquireShared, Waiting
<1>3. job[r].mode \in Modes \cup {None}
  BY <1>0 DEF Jobs
<1>4. /\ \A v \in Workspaces : Tight(v)
      /\ UNCHANGED exclusiveWaiters
      /\ nextMode' \in [Workspaces -> Modes \cup {None}]
  BY <1>2, <1>3, TakeIsTight
<1>5. pc'[r] \notin Waiting
  BY <1>0, <1>2 DEF Goto, After, Waiting
<1>6. NoLostWakeup'
  BY <1>1, <1>4, <1>5, SleepersWait DEF Waiting
<1>7. \A v \in Workspaces : r \notin Queue(v)
  BY <1>2, SharedNotQueued DEF Queue
<1>8. \A v \in Workspaces : r \notin Queue(v)'
  BY <1>5, NotWaiting
<1>9. QED
  BY <1>1, <1>4, <1>6, <1>7, <1>8, QueueKept

\* notify_all wakes every request whose turn is at w.
LEMMA NotifyWakes ==
    ASSUME LeaseInv, NEW r \in Requests, NEW w, NEW label, NotifyAndGoto(w, r, label),
           Others(r)
    PROVE  Wakes(r, w) /\ pc'[r] = label
<1>1. ASSUME NEW q \in Requests, q # r, pc'[q] = "asleep", Turn(q, w)
      PROVE  FALSE
  <2>1. pc[q] = "asleep"
    BY <1>1 DEF Others
  <2>2. pc'[q] = "awake"
    BY <1>1, <2>1 DEF NotifyAndGoto
  <2>3. QED
    BY <1>1, <2>2
<1>2. pc'[r] = label
  BY DEF NotifyAndGoto
<1>3. QED
  BY <1>1, <1>2 DEF Wakes

\* A booking keeps others out and lets nobody in.
LEMMA ReserveIsTight ==
    ASSUME LeaseInv, QueueCounted, NEW r \in Requests, NEW w \in Workspaces,
           NEW m \in Modes \cup {None}, ~CanBegin(m, w), Reserve(r, w, m),
           UNCHANGED <<activeMode, activeLeases, exclusiveActive, exclusiveWaiters>>
    PROVE  /\ \A v \in Workspaces : Tight(v)
           /\ nextMode' \in [Workspaces -> Modes \cup {None}]
<1>0. nextMode \in [Workspaces -> Modes \cup {None}]
  BY DEF QueueCounted
<1>1. CASE UNCHANGED nextMode
  BY <1>0, <1>1, SameIsTight
<1>2. CASE ~UNCHANGED nextMode
  <2>1. nextMode' = [nextMode EXCEPT ![w] = m] /\ Open(w) /\ nextMode[w] = None
    BY <1>2 DEF Reserve
  <2>2. \A v \in Workspaces : v # w => Tight(v)
    BY <1>0, <2>1, SameIsTight
  <2>3. nextMode'[w] = m /\ m # None
    BY <1>0, <1>2, <2>1
  <2>4. Tight(w)
    <3>1. activeLeases[w] # 0
      BY <2>1 DEF CanBegin
    <3>2. QED
      BY <2>1, <2>3, <3>1 DEF Tight, Busy, CanBegin, CanJoin, Open
  <2>5. QED
    BY <1>0, <2>1, <2>2, <2>4
<1>3. QED
  BY <1>1, <1>2

\* A request goes to sleep because it has to.
LEMMA SleeperWaits ==
    ASSUME LeaseInv, NoLostWakeup, NEW r \in Requests, Others(r),
           \A w \in Workspaces : Tight(w),
           UNCHANGED <<job, shared, exclusive>>,
           NEW w \in Workspaces,
           \/ WantsShared(r, w) /\ ~CanBegin(job[r].mode, w) /\ ~CanJoin(job[r].mode, w)
           \/ WantsExclusive(r, w) /\ Busy(w)
    PROVE  NoLostWakeup'
<1> SUFFICES ASSUME NEW q \in Requests, NEW v \in Workspaces, pc'[q] = "asleep"
             PROVE  /\ WantsShared(q, v)' =>
                          ~CanBegin(job[q].mode, v)' /\ ~CanJoin(job[q].mode, v)'
                    /\ WantsExclusive(q, v)' => Busy(v)'
  BY DEF NoLostWakeup
<1>1. /\ WantsShared(q, v)' = WantsShared(q, v)
      /\ WantsExclusive(q, v)' = WantsExclusive(q, v)
  BY WantsSame
<1>2. /\ WantsShared(q, v) => ~CanBegin(job[q].mode, v) /\ ~CanJoin(job[q].mode, v)
      /\ WantsExclusive(q, v) => Busy(v)
  <2>1. CASE q # r
    BY <2>1 DEF Others, NoLostWakeup
  <2>2. CASE q = r
    <3>1. Turn(r, v) => v = w
      BY TurnUnique DEF WantsShared, WantsExclusive
    <3>2. QED
      BY <2>2, <3>1 DEF WantsShared, WantsExclusive
  <2>3. QED
    BY <2>1, <2>2
<1>3. PICK m : m = job[q].mode
  OBVIOUS
<1>4. /\ Busy(v) => Busy(v)'
      /\ ~CanBegin(m, v) /\ ~CanJoin(m, v) => ~CanBegin(m, v)' /\ ~CanJoin(m, v)'
  BY DEF Tight
<1>5. CanBegin(job[q].mode, v)' = CanBegin(m, v)' /\ CanJoin(job[q].mode, v)' = CanJoin(m, v)'
  BY <1>3 DEF CanBegin, CanJoin, Open
<1>6. QED
  BY <1>1, <1>2, <1>3, <1>4, <1>5

\* A search waits for its turn.
LEMMA WaitSharedWakes ==
    ASSUME LeaseInv, QueueCounted, NoLostWakeup, NEW r \in Requests, WaitShared(r)
    PROVE  QueueCounted' /\ NoLostWakeup'
<1>0. job[r] \in Jobs
  BY DEF LeaseInv, TypedLeases
<1>1. Others(r)
  BY OthersStay DEF Step
<1>2. PICK w \in Workspaces :
          /\ WantsShared(r, w) /\ ~CanBegin(job[r].mode, w) /\ ~CanJoin(job[r].mode, w)
          /\ Reserve(r, w, job[r].mode)
  BY DEF WaitShared
<1>3. /\ UNCHANGED <<activeMode, activeLeases, exclusiveActive, exclusiveWaiters>>
      /\ UNCHANGED <<job, shared, exclusive>>
  BY DEF WaitShared, leases
<1>4. job[r].mode \in Modes \cup {None}
  BY <1>0 DEF Jobs
<1>5. /\ \A v \in Workspaces : Tight(v)
      /\ nextMode' \in [Workspaces -> Modes \cup {None}]
  BY <1>2, <1>3, <1>4, ReserveIsTight
<1>6. NoLostWakeup'
  BY <1>1, <1>2, <1>3, <1>5, SleeperWaits
<1>7. \A v \in Workspaces : ~WantsExclusive(r, v)
  BY <1>2, SharedNotQueued
<1>8. \A v \in Workspaces : ~WantsExclusive(r, v)'
  BY <1>3, <1>7, WantsSame
<1>9. \A v \in Workspaces : r \in Queue(v)' <=> r \in Queue(v)
  BY <1>7, <1>8 DEF Queue
<1>10. QED
  BY <1>1, <1>3, <1>5, <1>6, <1>9, QueueKept

\* A cancelled search gives its booking back and wakes those it kept out.
LEMMA CancelSharedWakes ==
    ASSUME LeaseInv, QueueCounted, NoLostWakeup, NEW r \in Requests, CancelShared(r)
    PROVE  QueueCounted' /\ NoLostWakeup'
<1>0. pc \in [Requests -> Labels] /\ nextMode \in [Workspaces -> Modes \cup {None}]
  BY DEF LeaseInv, TypedLeases, QueueCounted
<1>1. Others(r)
  BY OthersStay DEF Step
<1>2. PICK w \in Workspaces :
          /\ WantsShared(r, w)
          /\ IF HasBooking(r, w)
             THEN /\ nextModeWaiters' = [nextModeWaiters EXCEPT ![w] = @ - 1]
                  /\ nextMode' = [nextMode EXCEPT ![w] =
                        IF nextModeWaiters[w] = 1 THEN None ELSE @]
                  /\ NotifyAndGoto(w, r, "drop")
             ELSE /\ Goto(r, "drop")
                  /\ UNCHANGED <<nextMode, nextModeWaiters>>
  BY DEF CancelShared
<1>3. UNCHANGED <<activeMode, activeLeases, exclusiveActive, exclusiveWaiters>>
  BY DEF CancelShared
<1>4. /\ \A v \in Workspaces : Tight(v) \/ Wakes(r, v)
      /\ nextMode' \in [Workspaces -> Modes \cup {None}]
      /\ pc'[r] = "drop"
  <2>1. CASE HasBooking(r, w)
    <3>1. NotifyAndGoto(w, r, "drop")
          /\ \E m \in Modes \cup {None} : nextMode' = [nextMode EXCEPT ![w] = m]
      BY <1>0, <1>2, <2>1
    <3>2. \A v \in Workspaces : v # w => Tight(v)
      BY <1>0, <1>3, <3>1, SameIsTight
    <3>3. Wakes(r, w) /\ pc'[r] = "drop"
      BY <1>1, <3>1, NotifyWakes
    <3>4. QED
      BY <1>0, <3>1, <3>2, <3>3
  <2>2. CASE ~HasBooking(r, w)
    <3>1. UNCHANGED nextMode /\ Goto(r, "drop")
      BY <1>2, <2>2
    <3>2. QED
      BY <1>0, <1>3, <3>1, SameIsTight DEF Goto
  <2>3. QED
    BY <2>1, <2>2
<1>5. NoLostWakeup'
  BY <1>1, <1>4, SleepersWait
<1>6. \A v \in Workspaces : r \notin Queue(v)
  BY <1>2, SharedNotQueued DEF Queue
<1>7. \A v \in Workspaces : r \notin Queue(v)'
  BY <1>4, NotWaiting DEF Waiting
<1>8. QED
  BY <1>1, <1>3, <1>4, <1>5, <1>6, <1>7, QueueKept

\* r leaves the queue of w, in which it was exactly if it was awake.
LEMMA QueueLeft ==
    ASSUME LeaseInv, QueueCounted, NEW r \in Requests, Others(r), NEW w \in Workspaces,
           WantsExclusive(r, w), pc[r] \in {"acquire", "awake"}, pc'[r] \notin Waiting,
           exclusiveWaiters' = [exclusiveWaiters EXCEPT ![w] =
                IF pc[r] = "awake" THEN @ - 1 ELSE @],
           UNCHANGED nextMode
    PROVE  QueueCounted'
<1>0. /\ exclusiveWaiters \in [Workspaces -> Nat]
      /\ \A v \in Workspaces : exclusiveWaiters[v] = Cardinality(Queue(v))
  BY DEF QueueCounted
<1>1. \A v \in Workspaces : v # w => ~WantsExclusive(r, v)
  BY TurnUnique DEF WantsExclusive
<1>2. \A v \in Workspaces : r \notin Queue(v)'
  BY NotWaiting
<1>3. \A v \in Workspaces : v # w => Queue(v)' = Queue(v)
  BY <1>1, <1>2, QueueOthers DEF Queue
<1>4. Queue(w)' = Queue(w) \ {r} /\ (r \in Queue(w) <=> pc[r] = "awake")
  BY <1>2, QueueOthers DEF Queue, Waiting
<1>5. Cardinality(Queue(w) \ {r}) =
          IF r \in Queue(w) THEN Cardinality(Queue(w)) - 1 ELSE Cardinality(Queue(w))
  BY QueueFinite, FS_RemoveElement
<1>6. Cardinality(Queue(w) \ {r}) \in Nat
  BY QueueFinite, FS_RemoveElement, FS_CardinalityType
<1>7. exclusiveWaiters'[w] = Cardinality(Queue(w) \ {r})
  BY <1>0, <1>4, <1>5
<1>8. \A v \in Workspaces : exclusiveWaiters'[v] = Cardinality(Queue(v)')
  BY <1>0, <1>3, <1>4, <1>7
<1>9. exclusiveWaiters' \in [Workspaces -> Nat]
  BY <1>0, <1>6, <1>7
<1>10. QED
  BY <1>8, <1>9 DEF QueueCounted

\* A mutation is given its lease: now nobody else can have one.
LEMMA WriteWakes ==
    ASSUME LeaseInv, QueueCounted, NoLostWakeup, NEW r \in Requests, AcquireExclusive(r)
    PROVE  QueueCounted' /\ NoLostWakeup'
<1>0. /\ pc \in [Requests -> Labels] /\ exclusiveActive \in [Workspaces -> BOOLEAN]
      /\ exclusiveWaiters \in [Workspaces -> Nat]
  BY DEF LeaseInv, TypedLeases, QueueCounted
<1>1. Others(r)
  BY OthersStay DEF Step
<1>2. PICK w \in Workspaces :
          /\ WantsExclusive(r, w)
          /\ exclusiveActive' = [exclusiveActive EXCEPT ![w] = TRUE]
          /\ exclusiveWaiters' = [exclusiveWaiters EXCEPT ![w] =
                IF pc[r] = "awake" THEN @ - 1 ELSE @]
          /\ Goto(r, After(r, w, "acquire"))
  BY DEF AcquireExclusive
<1>3. UNCHANGED <<activeMode, activeLeases, nextMode>> /\ pc[r] \in {"acquire", "awake"}
  BY DEF AcquireExclusive
<1>4. pc'[r] \notin Waiting
  BY <1>0, <1>2 DEF Goto, After, Waiting
<1>5. QueueCounted'
  BY <1>1, <1>2, <1>3, <1>4, QueueLeft
<1>6. \A v \in Workspaces : v # w => Tight(v)
  BY <1>0, <1>2, <1>3, SameIsTight
<1>7. Tight(w)
  <2>1. exclusiveActive'[w] = TRUE
    BY <1>0, <1>2
  <2>2. QED
    BY <2>1 DEF Tight, Busy, CanBegin, CanJoin, Open
<1>8. NoLostWakeup'
  BY <1>1, <1>4, <1>6, <1>7, SleepersWait DEF Waiting
<1>9. QED
  BY <1>5, <1>8

\* A mutation waits, and is counted once.
LEMMA WaitExclusiveWakes ==
    ASSUME LeaseInv, QueueCounted, NoLostWakeup, NEW r \in Requests, WaitExclusive(r)
    PROVE  QueueCounted' /\ NoLostWakeup'
<1>0. /\ pc \in [Requests -> Labels]
      /\ exclusiveWaiters \in [Workspaces -> Nat]
      /\ \A v \in Workspaces : exclusiveWaiters[v] = Cardinality(Queue(v))
  BY DEF LeaseInv, TypedLeases, QueueCounted
<1>1. Others(r)
  BY OthersStay DEF Step
<1>2. PICK w \in Workspaces :
          /\ WantsExclusive(r, w) /\ Busy(w)
          /\ exclusiveWaiters' = [exclusiveWaiters EXCEPT ![w] =
                IF pc[r] = "acquire" THEN @ + 1 ELSE @]
  BY DEF WaitExclusive
<1>3. /\ UNCHANGED <<activeMode, activeLeases, nextMode, exclusiveActive>>
      /\ UNCHANGED <<job, shared, exclusive>>
      /\ pc[r] \in {"acquire", "awake"} /\ pc'[r] = "asleep"
  BY <1>0 DEF WaitExclusive, leases, Goto
<1>4. \A v \in Workspaces : v # w => Tight(v)
  BY <1>0, <1>2, <1>3, SameIsTight
<1>5. exclusiveWaiters'[w] \in Nat /\ exclusiveWaiters'[w] >= exclusiveWaiters[w]
  BY <1>0, <1>2
<1>6. Tight(w)
  <2>1. Open(w)' => Open(w)
    BY <1>0, <1>3, <1>5 DEF Open
  <2>2. QED
    BY <1>3, <2>1 DEF Tight, Busy, CanBegin, CanJoin
<1>7. NoLostWakeup'
  BY <1>1, <1>2, <1>3, <1>4, <1>6, SleeperWaits
<1>8. \A v \in Workspaces : WantsExclusive(r, v)' = WantsExclusive(r, v)
  BY <1>3, WantsSame
<1>9. \A v \in Workspaces : v # w => ~WantsExclusive(r, v)
  BY <1>2, TurnUnique DEF WantsExclusive
<1>10. \A v \in Workspaces : v # w => Queue(v)' = Queue(v)
  BY <1>1, <1>8, <1>9, QueueOthers DEF Queue
<1>11. r \in Queue(w)' /\ (r \in Queue(w) <=> pc[r] = "awake")
  BY <1>2, <1>3, <1>8 DEF Queue, Waiting
<1>12. exclusiveWaiters'[w] = Cardinality(Queue(w)')
  <2>1. CASE pc[r] = "awake"
    <3>1. Queue(w)' = Queue(w) /\ exclusiveWaiters'[w] = exclusiveWaiters[w]
      BY <1>0, <1>1, <1>2, <1>11, <2>1, QueueOthers
    <3>2. QED
      BY <1>0, <3>1
  <2>2. CASE pc[r] = "acquire"
    <3>1. Queue(w)' = Queue(w) \cup {r} /\ r \notin Queue(w)
      BY <1>1, <1>11, <2>2, QueueOthers
    <3>2. Cardinality(Queue(w) \cup {r}) = Cardinality(Queue(w)) + 1
      BY <3>1, QueueFinite, FS_AddElement
    <3>3. exclusiveWaiters'[w] = exclusiveWaiters[w] + 1
      BY <1>0, <1>2, <2>2
    <3>4. QED
      BY <1>0, <3>1, <3>2, <3>3
  <2>3. QED
    BY <1>3, <2>1, <2>2
<1>13. \A v \in Workspaces : exclusiveWaiters'[v] = Cardinality(Queue(v)')
  BY <1>0, <1>2, <1>10, <1>12
<1>14. exclusiveWaiters' \in [Workspaces -> Nat]
  BY <1>0, <1>2, <1>5
<1>15. QED
  BY <1>3, <1>7, <1>13, <1>14 DEF QueueCounted

\* A cancelled mutation is counted no more, and those it kept out are woken.
LEMMA CancelExclusiveWakes ==
    ASSUME LeaseInv, QueueCounted, NoLostWakeup, NEW r \in Requests, CancelExclusive(r)
    PROVE  QueueCounted' /\ NoLostWakeup'
<1>0. pc \in [Requests -> Labels] /\ exclusiveWaiters \in [Workspaces -> Nat]
  BY DEF LeaseInv, TypedLeases, QueueCounted
<1>1. Others(r)
  BY OthersStay DEF Step
<1>2. PICK w \in Workspaces :
          /\ WantsExclusive(r, w)
          /\ IF pc[r] = "awake"
             THEN /\ exclusiveWaiters' = [exclusiveWaiters EXCEPT ![w] = @ - 1]
                  /\ NotifyAndGoto(w, r, "drop")
             ELSE /\ Goto(r, "drop")
                  /\ UNCHANGED exclusiveWaiters
  BY DEF CancelExclusive
<1>3. /\ UNCHANGED <<activeMode, activeLeases, nextMode, exclusiveActive>>
      /\ pc[r] \in {"acquire", "awake"}
  BY DEF CancelExclusive
<1>4. pc'[r] = "drop"
  BY <1>0, <1>2 DEF NotifyAndGoto, Goto
<1>5. exclusiveWaiters' = [exclusiveWaiters EXCEPT ![w] = IF pc[r] = "awake" THEN @ - 1 ELSE @]
  BY <1>0, <1>2
<1>6. QueueCounted'
  BY <1>1, <1>2, <1>3, <1>4, <1>5, QueueLeft DEF Waiting
<1>7. \A v \in Workspaces : v # w => Tight(v)
  BY <1>0, <1>3, <1>5, SameIsTight
<1>8. Tight(w) \/ Wakes(r, w)
  <2>1. CASE pc[r] = "awake"
    BY <1>1, <1>2, <2>1, NotifyWakes
  <2>2. CASE pc[r] # "awake"
    BY <1>2, <1>3, <2>2, SameIsTight
  <2>3. QED
    BY <2>1, <2>2
<1>9. NoLostWakeup'
  BY <1>1, <1>4, <1>7, <1>8, SleepersWait
<1>10. QED
  BY <1>6, <1>9

\* A lease is dropped: the last reader, and every writer, wakes those who wait.
LEMMA DropWakes ==
    ASSUME LeaseInv, QueueCounted, NoLostWakeup, NEW r \in Requests,
           DropShared(r) \/ DropExclusive(r)
    PROVE  QueueCounted' /\ NoLostWakeup'
<1>0. /\ pc \in [Requests -> Labels] /\ nextMode' = nextMode
      /\ activeLeases \in [Workspaces -> Nat]
      /\ exclusiveActive \in [Workspaces -> BOOLEAN]
      /\ exclusiveWaiters' = exclusiveWaiters /\ activeMode' = activeMode
      /\ shared[r] \subseteq Workspaces /\ exclusive[r] \subseteq Workspaces
  BY DEF LeaseInv, TypedLeases, DropShared, DropExclusive
<1>1. Others(r)
  BY OthersStay DEF Step
<1>2. pc[r] = "drop" /\ pc'[r] = "drop"
  BY <1>0 DEF DropShared, DropExclusive, NotifyAndGoto
<1>3. \A w \in Workspaces : Tight(w) \/ Wakes(r, w)
  <2>1. CASE DropShared(r)
    <3>1. PICK w \in shared[r] :
              /\ activeLeases' = [activeLeases EXCEPT ![w] = @ - 1]
              /\ activeLeases[w] = 1 => NotifyAndGoto(w, r, "drop")
      BY <2>1 DEF DropShared
    <3>2. exclusiveActive' = exclusiveActive
      BY <2>1 DEF DropShared
    <3>3. \A v \in Workspaces : v # w => Tight(v)
      BY <1>0, <3>1, <3>2, SameIsTight
    <3>4. CASE activeLeases[w] = 1
      BY <1>1, <3>1, <3>3, <3>4, NotifyWakes
    <3>5. CASE activeLeases[w] # 1
      <4>1. activeLeases'[w] = activeLeases[w] - 1 /\ activeLeases[w] \in Nat
        BY <1>0, <3>1
      <4>2. activeLeases[w] # 0
        <5>1. r \in Readers(w) /\ w \in Workspaces
          BY <1>0 DEF Readers
        <5>2. QED
          BY <5>1, ReadersFinite DEF LeaseInv, ReadersCounted
      <4>3. Tight(w)
        BY <1>0, <3>2, <3>5, <4>1, <4>2 DEF Tight, Busy, CanBegin, CanJoin, Open
      <4>4. QED
        BY <3>3, <4>3
    <3>6. QED
      BY <3>4, <3>5
  <2>2. CASE DropExclusive(r)
    <3>1. PICK w \in exclusive[r] :
              /\ exclusiveActive' = [exclusiveActive EXCEPT ![w] = FALSE]
              /\ NotifyAndGoto(w, r, "drop")
      BY <2>2 DEF DropExclusive
    <3>2. activeLeases' = activeLeases
      BY <2>2 DEF DropExclusive
    <3>3. \A v \in Workspaces : v # w => Tight(v)
      BY <1>0, <3>1, <3>2, SameIsTight
    <3>4. QED
      BY <1>1, <3>1, <3>3, NotifyWakes
  <2>3. QED
    BY <2>1, <2>2
<1>4. NoLostWakeup'
  BY <1>1, <1>2, <1>3, SleepersWait
<1>5. \A w \in Workspaces : r \in Queue(w)' <=> r \in Queue(w)
  BY <1>2, NotWaiting DEF Waiting
<1>6. nextMode' \in [Workspaces -> Modes \cup {None}]
  BY <1>0 DEF QueueCounted
<1>7. QED
  BY <1>0, <1>1, <1>4, <1>5, <1>6, QueueKept

\* The invariant of the wakeups is inductive.
LEMMA NextWakes == WakeInv /\ [Next]_vars => WakeInv'
<1> SUFFICES ASSUME WakeInv, [Next]_vars PROVE WakeInv'
  OBVIOUS
<1>0. LeaseInv /\ QueueCounted /\ NoLostWakeup /\ LeaseInv'
  BY NextKeeps DEF WakeInv
<1>1. CASE UNCHANGED vars
  <2>1. UNCHANGED <<activeMode, activeLeases, nextMode, exclusiveActive, exclusiveWaiters,
                    shared, exclusive, pc, job>>
    BY <1>1 DEF vars, coordinator, leases
  <2>2. QueueCounted'
    <3>1. \A w \in Workspaces : Queue(w)' = Queue(w)
      BY <2>1, WantsSame DEF Queue
    <3>2. QED
      BY <1>0, <2>1, <3>1 DEF QueueCounted
  <2>3. NoLostWakeup'
    BY <1>0, <2>1 DEF NoLostWakeup, WantsShared, WantsExclusive, Turn, Lacks, Held,
       CanBegin, CanJoin, Open, Busy
  <2>4. QED
    BY <1>0, <2>2, <2>3 DEF WakeInv
<1>2. ASSUME NEW r \in Requests, Arrive(r) \/ Step(r) \/ Poll(r) \/ Surprise(r)
      PROVE  QueueCounted' /\ NoLostWakeup'
  <2>1. CASE TryShared(r) \/ AcquireShared(r)
    BY <1>0, <2>1, TakeWakes
  <2>2. CASE WaitShared(r)
    BY <1>0, <2>2, WaitSharedWakes
  <2>3. CASE CancelShared(r)
    BY <1>0, <2>3, CancelSharedWakes
  <2>4. CASE AcquireExclusive(r)
    BY <1>0, <2>4, WriteWakes
  <2>5. CASE WaitExclusive(r)
    BY <1>0, <2>5, WaitExclusiveWakes
  <2>6. CASE CancelExclusive(r)
    BY <1>0, <2>6, CancelExclusiveWakes
  <2>7. CASE DropShared(r) \/ DropExclusive(r)
    BY <1>0, <2>7, DropWakes
  <2>8. CASE Poll(r) \/ Cancel(r)
    BY <1>0, <2>8, PollWakes
  <2>9. CASE \/ Arrive(r) \/ TrySharedContended(r) \/ DeclineInline(r) \/ Plan(r)
             \/ Proceed(r) \/ TakeBackground(r) \/ TakeCpu(r) \/ CancelCpu(r)
             \/ Finish(r) \/ Dropped(r) \/ Answer(r) \/ Release(r)
             \/ Escalate(r) \/ Reidentify(r) \/ GiveUp(r)
    BY <1>0, <2>9, AwayWakes
  <2>10. QED
    BY <1>2, <2>1, <2>2, <2>3, <2>4, <2>5, <2>6, <2>7, <2>8, <2>9 DEF Step, Surprise
<1>3. QED
  BY <1>0, <1>1, <1>2 DEF Next, WakeInv

\* Nobody waits at first.
LEMMA InitWake == Init => WakeInv
<1> SUFFICES ASSUME Init PROVE WakeInv
  OBVIOUS
<1>1. \A r \in Requests : pc[r] \notin Waiting
  BY DEF Init, Waiting
<1>2. \A w \in Workspaces : Queue(w) = {}
  BY <1>1 DEF Queue
<1>3. \A w \in Workspaces : Cardinality(Queue(w)) = 0
  BY <1>2, FS_EmptySet
<1>4. QueueCounted
  BY <1>3 DEF QueueCounted, Init
<1>5. NoLostWakeup
  BY <1>1 DEF NoLostWakeup, Waiting
<1>6. QED
  BY <1>4, <1>5, InitLeases DEF WakeInv

\* NoLostWakeup: the last reader, every writer and every cancelled booking or
\* waiter notify, and nothing else could open a workspace to a sleeper; so
\* whatever the number of requests and workspaces, whoever sleeps could not
\* be granted its lease.
THEOREM NoWakeupIsLost == Spec => []NoLostWakeup
<1>1. Spec => []WakeInv
  BY InitWake, NextWakes, PTL DEF Spec
<1>2. WakeInv => NoLostWakeup
  BY DEF WakeInv
<1>3. QED
  BY <1>1, <1>2, PTL
================================================================================
