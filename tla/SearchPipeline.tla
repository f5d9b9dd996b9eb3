--------------------------- MODULE SearchPipeline ---------------------------
(***************************************************************************)
(* One hybrid search (search_execution.rs, search_hits): the Boolean pool, *)
(* the literal, lexical, symbol and path passes, the semantic pass in its   *)
(* three forms, and the answer.  Every pass is bounded, and the index holds *)
(* chunks the request must not see: ignored files, files outside the        *)
(* filters, base chunks a worktree overlay hides, vectors whose rows are    *)
(* gone.  The promise is that such chunks neither show up nor cost a        *)
(* visible chunk its place, and that a cancellation, which cuts any pass    *)
(* short, never turns into a partial answer.                                *)
(*                                                                         *)
(* A chunk is its vector key.  Scores are ranks: 0 means "no match".       *)
(* One query variant is searched in each pass, and the rules that only drop *)
(* or reorder merged candidates (fusion, thresholds, rerankers) are left   *)
(* out, so the answer is all that the passes found.                        *)
(***************************************************************************)
EXTENDS Naturals, Sequences, FiniteSets, SequencesExt

CONSTANTS Files,         \* indexed files
          ChunksOf,      \* the vector keys of a file's chunks
          Kinds,         \* how a file stands to the index and the request
          Requests,      \* the requests, see RequestOK
          DocOrder,      \* the keys in posting order
          TextScore,     \* score of a chunk for the query
          PathScore,     \* score of its path
          VectorScore,   \* source -> key -> similarity
          HasVector,     \* source -> keys with a vector
          BooleanMatch,  \* the chunks the Boolean expression selects
          RelaxedMatch,  \* the chunks the relaxed literal query selects
          HoldsLiteral,      \* the chunks whose text contains the literal
          Defines,       \* round -> chunks that define the names looked up
          DefinitionKind,    \* the chunks whose kind is that of a definition
          MaxExact,      \* MAX_EXACT_FILTERED_CANDIDATES
          BroadFactor, FallbackFactor, RefillFactor,   \* ANN over-fetch
          AnnCap,        \* bound of any ANN pool
          Vanished       \* the sets of files that may be gone when read

Keys == UNION {ChunksOf[f] : f \in Files}
FileOf(k) == CHOOSE f \in Files : k \in ChunksOf[f]
Rounds == <<"exact", "inferred", "alias">>
Sources == <<"hash", "neural">>
MaxRefillRounds == 3
NoRefill == [limit |-> 0, previous |-> 0, rounds |-> 0]
Terminal == {"answered", "empty", "error"}
Queries == {"plain", "prompt", "boolean", "broken"}

ASSUME RequestOK ==
    Requests \subseteq [query : Queries, skip : BOOLEAN, filters : BOOLEAN,
                        residual : BOOLEAN, exactPath : BOOLEAN,
                        neural : BOOLEAN, limit : Nat \ {0}]

VARIABLES kind,        \* Files -> Kinds
          req,         \* the request
          pc,          \* the pass that runs
          searcher,    \* 0: the workspace's own index, 1: the base
          cancelled,   \* the cancel token
          pool,        \* keys of the Boolean pool
          literal, lexical, symbols, path,   \* what the passes found
          semantic,    \* source -> keys
          todo,        \* rounds or sources the pass has left
          ann,         \* a refill: ANN limit, the limit before it, rounds done
          answer       \* the hits, once pc = "answered"

vars == <<kind, req, pc, searcher, cancelled, pool, literal, lexical, symbols,
          path, semantic, todo, ann, answer>>
found == <<literal, lexical, symbols, path, semantic>>

-----------------------------------------------------------------------------
(* What the index holds.  An edited file keeps its first chunk, so that key *)
(* is in both indexes; its other base chunks are hidden; a purged file's    *)
(* rows and documents are gone and only its vectors remain.                 *)

KeptOf(f) == CHOOSE k \in ChunksOf[f] : \A j \in ChunksOf[f] : k <= j
NewestOf(f) == CHOOSE k \in ChunksOf[f] : \A j \in ChunksOf[f] : k >= j

InOwn(k) ==
    LET f == FileOf(k) IN
    \/ kind[f] \in {"own", "ignored", "outside"}
    \/ kind[f] = "edited" /\ (k = KeptOf(f) \/ k = NewestOf(f))
InBase(k) ==
    LET f == FileOf(k) IN
    \/ kind[f] \in {"base", "deleted"}
    \/ kind[f] = "edited" /\ (k = KeptOf(f) \/ k # NewestOf(f))
Indexed(i, k) == IF i = 0 THEN InOwn(k) ELSE InBase(k)

\* The stores keep the vectors of purged files until they are rewritten.
Vectors(s, i) ==
    {k \in HasVector[s] : \/ Indexed(i, k)
                          \/ i = 0 /\ kind[FileOf(k)] = "purged"}

IsShadowedBaseFile(i, f) == i = 1 /\ kind[f] \in {"edited", "deleted"}

\* type_matches, scope_matches, path_matches and the ignore rule.
Passes(k) ==
    /\ req.skip \/ kind[FileOf(k)] # "ignored"
    /\ req.filters => kind[FileOf(k)] # "outside"

\* CandidateEligibility::matches_metadata, before there is a Boolean pool and
\* with the pool's keys as the keys allowed.
EligibleForPool(i, k) == Passes(k) /\ ~IsShadowedBaseFile(i, FileOf(k))

(* Mutant: the pool's keys are not handed to the eligibility of a pass. *)
EligibleAnyKey(i, k) == EligibleForPool(i, k)

Eligible(i, k) ==
    /\ EligibleForPool(i, k)
    /\ req.query = "boolean" => k \in pool
Admitted(i) == {k \in Keys : Eligible(i, k)}

\* fetch_chunks_by_vector_keys_batch: own rows first, then visible base rows.
Row(k) == InOwn(k) \/ (InBase(k) /\ ~IsShadowedBaseFile(1, FileOf(k)))

-----------------------------------------------------------------------------
(* Ranking: by score, then by the smaller key.                             *)

Better(score, j, k) == score[j] > score[k] \/ (score[j] = score[k] /\ j < k)
Ranked(S, score) == SetToSortSeq(S, LAMBDA j, k : Better(score, j, k))
Prefix(seq, n) == SubSeq(seq, 1, IF n < Len(seq) THEN n ELSE Len(seq))
Top(S, score, n) == ToSet(Prefix(Ranked(S, score), n))
AtMost(n, S) == IF n < Cardinality(S) THEN n ELSE Cardinality(S)

-----------------------------------------------------------------------------
(* The bounded collector: a heap of the best `limit` documents, and a      *)
(* threshold below which the traversal may skip documents.                 *)

Worst(heap, score) ==
    CHOOSE k \in heap : \A j \in heap \ {k} : Better(score, j, k)

(* Mutant: the threshold is the worst kept score itself. *)
RaiseToWorst(heap, score, threshold) ==
    IF Cardinality(heap) >= req.limit THEN score[Worst(heap, score)]
    ELSE threshold

\* candidate_bucket_threshold: just below the worst kept bucket.
Raise(heap, score, threshold) ==
    IF Cardinality(heap) >= req.limit THEN score[Worst(heap, score)] - 1
    ELSE threshold

CollectDoc(c, k, score, admitted) ==
    LET full == Cardinality(c.heap) >= req.limit
        heap == (IF full THEN c.heap \ {Worst(c.heap, score)} ELSE c.heap)
                    \cup {k}
    IN  IF \/ score[k] <= c.threshold
           \/ full /\ ~Better(score, k, Worst(c.heap, score))
           \/ k \notin admitted
        THEN c
        ELSE [heap |-> heap, threshold |-> Raise(heap, score, c.threshold)]

Traverse(i, matched, score, admitted) ==
    LET docs == SelectSeq(DocOrder, LAMBDA k : Indexed(i, k) /\ k \in matched)
        start == [heap |-> {}, threshold |-> 0]
    IN  FoldLeft(LAMBDA c, k : CollectDoc(c, k, score, admitted), start, docs).heap

\* collect_top_docs_with_eligibility: a native probe, kept when all of it is
\* eligible; otherwise the search again with eligibility before admission.
TopDocs(i, matched, score, admitted) ==
    LET probe == Traverse(i, matched, score, Keys)
    IN  IF cancelled THEN {}
        ELSE IF ~req.residual /\ probe \subseteq admitted THEN probe
        ELSE Traverse(i, matched, score, admitted)

Matched(score) == {k \in Keys : score[k] > 0}

\* is_definition_kind: a definition counts twice, once it has been collected.
Boosted == [k \in Keys |-> IF k \in DefinitionKind THEN 2 * TextScore[k] ELSE TextScore[k]]

-----------------------------------------------------------------------------
Init ==
    /\ kind \in [Files -> Kinds]
    /\ req \in Requests
    /\ pc = "boolean" /\ searcher = 0 /\ cancelled = FALSE
    /\ pool = {} /\ literal = {} /\ lexical = {} /\ symbols = {} /\ path = {}
    /\ semantic = [s \in ToSet(Sources) |-> {}]
    /\ todo = <<>> /\ ann = NoRefill
    /\ answer = {}

\* The client's cancellation, or its disconnection, sets the token for good.
Cancel ==
    /\ pc \notin Terminal /\ ~cancelled
    /\ cancelled' = TRUE
    /\ UNCHANGED <<kind, req, pc, searcher, pool, found, todo, ann, answer>>

Return(how) == pc' = how /\ searcher' = 0 /\ todo' = <<>> /\ UNCHANGED answer
Enter(p) == pc' = p /\ searcher' = 0 /\ UNCHANGED answer
NextSearcher == pc' = pc /\ searcher' = 1 /\ UNCHANGED answer

\* boolean_candidates, one searcher at a time.  A query without operators has
\* no pool; a pasted prompt that does not parse is searched as text; a broken
\* one-line expression is an error.
BooleanPass ==
    /\ pc = "boolean"
    /\ UNCHANGED <<kind, req, cancelled, found, ann>>
    /\ \/ /\ searcher = 0 /\ cancelled
          /\ Return("empty") /\ UNCHANGED pool
       \/ /\ searcher = 0 => ~cancelled
          /\ req.query \in {"plain", "prompt"}
          /\ Enter("literal") /\ UNCHANGED <<pool, todo>>
       \/ /\ searcher = 0 => ~cancelled
          /\ req.query = "broken"
          /\ Return("error") /\ UNCHANGED pool
       \/ /\ searcher = 0 => ~cancelled
          /\ req.query = "boolean"
          /\ pool' = pool \cup TopDocs(searcher, BooleanMatch, TextScore,
                                       {k \in Keys : EligibleForPool(searcher, k)})
          /\ IF searcher = 0 THEN NextSearcher /\ UNCHANGED todo
             ELSE IF pool' = {} THEN Return("empty")
             ELSE Enter("literal") /\ UNCHANGED todo

\* collect_literal_candidate_chunks: the candidates of both searchers, up to
\* the limit, the workspace's own first.
LiteralCandidates(i, matched) ==
    LET docs == TopDocs(i, matched, TextScore, Admitted(i))
        visible == {k \in docs : EligibleForPool(i, k)} \ literal
    IN  Top(visible, TextScore, req.limit - Cardinality(literal))

\* The literal pass gathers candidates and then keeps the ones whose text
\* really holds the literal; when none does, it tries the relaxed query.
LiteralPass ==
    /\ pc \in {"literal", "relaxed"}
    /\ LET matched == IF pc = "literal" THEN Matched(TextScore)
                      ELSE RelaxedMatch
           all == literal \cup LiteralCandidates(searcher, matched)
           verified == all \cap HoldsLiteral
       IN  IF searcher = 0
           THEN literal' = all /\ NextSearcher /\ UNCHANGED todo
           ELSE /\ literal' = verified
                /\ IF pc = "literal" /\ verified = {} THEN Enter("relaxed") /\ UNCHANGED todo
                   ELSE IF cancelled THEN Return("empty")
                   ELSE Enter("lexical") /\ UNCHANGED todo
    /\ UNCHANGED <<kind, req, cancelled, pool, lexical, symbols, path, semantic, ann>>

\* What both searchers collected, definitions boosted, is sorted and cut.
MergeLexical(S) == Top(S, Boosted, req.limit)

\* The lexical pass: the documents of the pool, or the best of each searcher
\* by raw score; then the best of both by boosted score.
LexicalPass ==
    /\ pc = "lexical"
    /\ LET docs == IF req.query = "boolean" THEN {k \in pool : Indexed(searcher, k)}
                   ELSE TopDocs(searcher, Matched(TextScore), TextScore,
                                Admitted(searcher))
           all == lexical \cup {k \in docs : EligibleForPool(searcher, k)}
       IN  IF searcher = 0
           THEN lexical' = all /\ NextSearcher /\ UNCHANGED todo
           ELSE /\ lexical' = MergeLexical(all)
                /\ Enter("symbols") /\ todo' = Rounds
    /\ UNCHANGED <<kind, req, cancelled, pool, literal, symbols, path, semantic, ann>>

\* definition_candidates_eligible: eligible definitions, in key order, that no
\* earlier round has given; the base fills what the limit has left.
Definitions(i) ==
    LET rows == {k \in Defines[Head(todo)] : Indexed(i, k) /\ Eligible(i, k)}
        one == [k \in Keys |-> 1]
    IN  IF cancelled THEN {}
        ELSE Top(rows \ symbols, one, req.limit - Cardinality(symbols))

SymbolPass ==
    /\ pc = "symbols"
    /\ symbols' = symbols \cup Definitions(searcher)
    /\ IF searcher = 0 THEN NextSearcher /\ UNCHANGED todo
       ELSE IF Len(todo) > 1 THEN Enter("symbols") /\ todo' = Tail(todo)
       ELSE Enter("path") /\ todo' = <<>>
    /\ UNCHANGED <<kind, req, cancelled, pool, literal, lexical, path, semantic, ann>>

\* The path pass.  A short query keeps every chunk the lexical pass has not;
\* a sentence keeps one chunk of each file, the best lexical one if any.
BestOfFile(f, S) ==
    IF lexical \cap ChunksOf[f] # {} THEN Top(lexical \cap ChunksOf[f], Boosted, 1)
    ELSE Top(S \cap ChunksOf[f], PathScore, 1)

PathPass ==
    /\ pc = "path"
    /\ LET docs == TopDocs(searcher, Matched(PathScore), PathScore,
                           Admitted(searcher))
           seen == {k \in docs : EligibleForPool(searcher, k)}
           all == path \cup (IF req.exactPath THEN seen \ lexical ELSE seen)
       IN  IF searcher = 0
           THEN path' = all /\ NextSearcher
           ELSE /\ path' = IF req.exactPath THEN all
                           ELSE Top(UNION {BestOfFile(FileOf(k), all) : k \in all},
                                    PathScore, req.limit)
                /\ Enter("semantic")
    /\ UNCHANGED <<kind, req, cancelled, pool, literal, lexical, symbols, semantic, todo, ann>>

-----------------------------------------------------------------------------
(* The semantic pass, one vector source after the other.                   *)

AllVectors(s) == Vectors(s, 0) \cup Vectors(s, 1)

\* VectorStore::search is approximate: any keys may come back, as many as were
\* asked for, if the store has them.  Both stores answer, the best are kept.
Nearest(s, n) ==
    LET Some(S) == {T \in SUBSET S : Cardinality(T) = AtMost(n, S)}
    IN  {Top(A \cup B, VectorScore[s], n) :
             A \in Some(Vectors(s, 0)), B \in Some(Vectors(s, 1))}

Servable(k) == Row(k) /\ Passes(k)
Best(s, S) == Top(S, VectorScore[s], req.limit)
Smaller(m, n) == IF m < n THEN m ELSE n
Larger(m, n) == IF m > n THEN m ELSE n

SemanticStart ==
    /\ pc = "semantic"
    /\ IF cancelled THEN Return("empty")
       ELSE /\ todo' = IF req.neural THEN Sources ELSE <<"hash">>
            /\ Enter("vectors")
    /\ UNCHANGED <<kind, req, cancelled, pool, found, ann>>

(* Mutant: after the last source the token is not read again. *)
SourceDoneGoesOn(s, keys) ==
    /\ semantic' = [semantic EXCEPT ![s] = keys]
    /\ ann' = NoRefill
    /\ IF Len(todo) > 1 THEN Enter("vectors") /\ todo' = Tail(todo)
       ELSE Enter("fuse") /\ todo' = <<>>

\* The source is done; after the last one the token is read once more.
SourceDone(s, keys) ==
    /\ semantic' = [semantic EXCEPT ![s] = keys]
    /\ ann' = NoRefill
    /\ IF Len(todo) > 1 THEN Enter("vectors") /\ todo' = Tail(todo)
       ELSE IF cancelled THEN Return("empty")
       ELSE Enter("fuse") /\ todo' = <<>>

\* next_ann_limit: twice the pool, or what the last survival rate asks for.
NextAnnLimit(current, eligible, cap) ==
    LET estimated == (req.limit * current * 3) \div (2 * Larger(eligible, 1))
    IN  Smaller(Larger(2 * current, estimated), cap)
RefillCap(previous) ==
    Larger(Larger(Smaller(RefillFactor * req.limit, AnnCap), req.limit), previous)

StartRefill(previous, eligible) ==
    /\ ann' = [limit |-> NextAnnLimit(previous, eligible, RefillCap(previous)),
               previous |-> previous, rounds |-> 0]
    /\ Enter("refill") /\ UNCHANGED <<semantic, todo>>

Untouched == UNCHANGED <<kind, req, cancelled, pool, literal, lexical, symbols, path>>

\* score_constrained_semantic_keys: the pool's keys are scored exactly.
SemanticInPool ==
    /\ pc = "vectors" /\ req.query = "boolean"
    /\ LET s == Head(todo)
           best == Best(s, pool \cap AllVectors(s))
       IN  SourceDone(s, IF cancelled THEN {} ELSE {k \in best : Servable(k)})
    /\ Untouched

\* collect_unfiltered_semantic_candidates_with_refill: the nearest keys, and
\* a refill when any of them cannot be shown.
SemanticUnfiltered ==
    /\ pc = "vectors" /\ req.query # "boolean" /\ ~req.filters
    /\ LET s == Head(todo) IN
       \E matches \in Nearest(s, req.limit) :
           LET good == {k \in matches : Servable(k)} IN
           IF cancelled THEN SourceDone(s, {})
           ELSE IF good = matches THEN SourceDone(s, good)
           ELSE StartRefill(req.limit, Cardinality(good))
    /\ Untouched

\* build_semantic_filter_plan: a small filtered set is scored exactly; a broad
\* one takes the over-fetched nearest keys, more of them when they underfill,
\* and then a refill.
FilteredRows == {k \in Keys : Servable(k)}
SemanticFiltered ==
    /\ pc = "vectors" /\ req.query # "boolean" /\ req.filters
    /\ LET s == Head(todo)
           small == Smaller(BroadFactor * req.limit, AnnCap)
           large == Smaller(Larger(FallbackFactor * req.limit, 2 * small), AnnCap)
           Kept(m) == Best(s, {k \in m : Servable(k)})
           Full(m) == Cardinality(Kept(m)) >= req.limit
           Rejected(m) == \E k \in m : ~Servable(k)
       IN  IF Cardinality(FilteredRows) <= MaxExact
           THEN SourceDone(s, Best(s, FilteredRows \cap AllVectors(s)))
           ELSE \E near \in Nearest(s, small) :
                IF Full(near) THEN SourceDone(s, Kept(near))
                ELSE \E far \in (IF large > small THEN Nearest(s, large) ELSE {near}) :
                     IF (Rejected(near) \/ Rejected(far)) /\ ~Full(far)
                     THEN IF cancelled THEN SourceDone(s, {})
                          ELSE StartRefill(large, Cardinality(Kept(far)))
                     ELSE SourceDone(s, Kept(far))
    /\ Untouched

\* refill_semantic_matches: at most three larger ANN pools.
RefillRound ==
    /\ pc = "refill"
    /\ ann.rounds < MaxRefillRounds /\ ann.limit > ann.previous
    /\ LET s == Head(todo)
           cap == RefillCap(ann.previous)
       IN  IF cancelled THEN SourceDone(s, {})
           ELSE \E matches \in Nearest(s, ann.limit) :
                LET good == Best(s, {k \in matches : Servable(k)}) IN
                IF Cardinality(good) >= req.limit THEN SourceDone(s, good)
                ELSE /\ UNCHANGED <<semantic, todo>>
                     /\ IF ann.limit >= cap \/ Cardinality(matches) < ann.limit
                        THEN Enter("scan") /\ UNCHANGED ann
                        ELSE /\ ann' = [ann EXCEPT !.limit =
                                          NextAnnLimit(@, Cardinality(good), cap),
                                        !.rounds = @ + 1]
                             /\ Enter("refill")
    /\ Untouched

\* ... and then every row the request may see is scored, in batches.
RefillScan ==
    /\ \/ pc = "scan"
       \/ pc = "refill" /\ ~(ann.rounds < MaxRefillRounds /\ ann.limit > ann.previous)
    /\ LET s == Head(todo)
       IN  SourceDone(s, IF cancelled THEN {}
                         ELSE Best(s, FilteredRows \cap AllVectors(s)))
    /\ Untouched

-----------------------------------------------------------------------------
\* The lists are merged and the files read; a file that is gone by now gives
\* no hit.  The token is not read any more.
Merged == literal \cup lexical \cup symbols \cup path
              \cup UNION {semantic[s] : s \in ToSet(Sources)}
Answer ==
    /\ pc = "fuse"
    /\ \E gone \in Vanished : answer' = {k \in Merged : FileOf(k) \notin gone}
    /\ pc' = "answered" /\ searcher' = 0 /\ todo' = <<>>
    /\ UNCHANGED <<ann, semantic>> /\ Untouched

Next == \/ BooleanPass \/ LiteralPass \/ LexicalPass \/ SymbolPass \/ PathPass
        \/ SemanticStart \/ SemanticInPool \/ SemanticUnfiltered
        \/ SemanticFiltered \/ RefillRound \/ RefillScan \/ Answer \/ Cancel

Spec == Init /\ [][Next]_vars

-----------------------------------------------------------------------------
\* What the request may see, from the files' standing alone: the chunks of the
\* workspace's own index and the base chunks of files the overlay leaves alone.
Visible ==
    {k \in Keys :
        LET f == FileOf(k) IN
        \/ kind[f] \in {"own", "base"}
        \/ kind[f] = "edited" /\ (k = KeptOf(f) \/ k = NewestOf(f))
        \/ kind[f] = "ignored" /\ req.skip
        \/ kind[f] = "outside" /\ ~req.filters}
Wanted == IF req.query = "boolean" THEN Visible \cap BooleanMatch ELSE Visible

(* No pass, whatever it is driven by, brings in a chunk that is ignored,    *)
(* filtered out, hidden by the overlay, without a row, or outside the       *)
(* Boolean expression (search_boolean.rs: other signals may rank the pool   *)
(* but may not admit new keys).                                             *)
OnlyVisible == Merged \cup answer \cup pool \subseteq Wanted

(* The visible matches that one index holds, for the workspace's own index  *)
(* and for the base.                                                        *)
VisibleIn(i) ==
    {k \in Wanted \cap Matched(TextScore) :
        IF i = 0 THEN kind[FileOf(k)] # "base" ELSE kind[FileOf(k)] = "base"}

(* The direct passes of an answer are complete.  The lexical list: of each  *)
(* index the best `limit` visible matches by BM25 score and then key, and   *)
(* of these the best `limit` once definitions count twice; so a visible     *)
(* match is missing only if `limit` visible ones beat it, in its own index  *)
(* or in the list.  The symbol list is full while visible definitions       *)
(* remain; the literal list has every visible chunk with the literal, if    *)
(* all the visible matches fit into the limit.  So chunks the request must  *)
(* not see cost a visible one no place, the pruning threshold skips no tie, *)
(* and no cancellation cut a pass short.                                    *)
DirectExact ==
    pc = "answered" =>
        LET inside == IF req.query = "boolean" THEN pool ELSE Visible
            defined == UNION {Defines[r] : r \in ToSet(Rounds)} \cap inside
            texts == Matched(TextScore) \cap inside
            collected == UNION {Top(VisibleIn(i), TextScore, req.limit) : i \in {0, 1}}
        IN  /\ lexical = Top(collected, Boosted, req.limit)
            /\ Cardinality(symbols) = AtMost(req.limit, defined)
            /\ Cardinality(texts) <= req.limit => HoldsLiteral \cap texts \subseteq literal

(* Every vector source of an answer gave as many chunks as the limit and    *)
(* the visible vectors allow: neither stale vectors nor hidden neighbours,  *)
(* nor a cancellation while the vectors were searched, leave it short.      *)
SemanticFull ==
    pc = "answered" =>
        \A s \in {"hash"} \cup (IF req.neural THEN {"neural"} ELSE {}) :
            LET inside == IF req.query = "boolean" THEN pool ELSE Visible
            IN  Cardinality(semantic[s]) =
                    AtMost(req.limit, inside \cap HasVector[s])
=============================================================================
