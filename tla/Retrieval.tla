------------------------------ MODULE Retrieval ------------------------------
(***************************************************************************)
(* HybridRetrievalEngine.retrieve_evidence of retrieval/engine.py over     *)
(* HybridSearchEngine of retrieval/search.py.  The store of chunks has a   *)
(* lock, held by each call on its own: between the dense and the sparse    *)
(* search of one request other threads may add chunks or put new ones in   *)
(* the place of old ones.  What follows the two searches is local.         *)
(*                                                                         *)
(* A request asks the same query of the store; a text is told by what the  *)
(* scorers find in it.  Scores are integers: fused ones in 1 / 10^8, fine  *)
(* enough to tell any two sums of ranks apart, re-ranked ones in 1 / 10^4  *)
(* and confidence in hundredths, as the code rounds them.                  *)
(***************************************************************************)
EXTENDS Integers, Sequences, FiniteSets, SequenceFilters

CONSTANTS Chunks,      \* the chunks that may be added: records of ChunkShape
          Texts,       \* contents, with their titles
          Content,     \* the content of a text, without the white space around it
          Dense,       \* the similarity of a text to the query
          Keywords,    \* the score of the query's keywords in a text
          Overlap,     \* the share of the query's words in it, in hundredths
          TitleHit,    \* whether a word of the query is in its title
          Tokens,      \* its estimated tokens
          Scopes,      \* the tenant and the workspace requests come from
          TopK,        \* top_k of the searches and of the fusion, 10
          RerankTopK,  \* top_k of retrieve_evidence, 5
          Budget,      \* max_token_budget
          MaxAdds,     \* bound on the chunks added
          Seeded,      \* the chunks of _seed_default_knowledge
          Absent

RrfK == 60

\* The code's top_k is 10.  Behind rank 20 a chunk that one search finds, with
\* no word of the query in it, scores below 0.005: Confidence rounds it to none.
Parameters ==
    /\ {TopK, RerankTopK, Budget, MaxAdds} \subseteq Nat /\ TopK <= 20
    /\ \A c \in Chunks : c.text \in Texts
    /\ Dense \in [Texts -> Nat] /\ Keywords \in [Texts -> Nat]
    /\ Overlap \in [Texts -> 0..100] /\ TitleHit \in [Texts -> BOOLEAN]
    /\ Tokens \in [Texts -> Nat \ {0}]
    /\ Seeded \in Seq(Chunks)

ASSUME RetrievalAssumption == Parameters

VARIABLES chunks,   \* _chunks in the order of its keys
          job,      \* the request in hand: its scope and what it has found
          package,  \* the latest EvidencePackage, with what led to it
          adds      \* how many chunks were added

retrievalVars == <<chunks, job, package, adds>>

\* The searched lists and the fused and re-ranked candidates.
Candidates == Seq([chunk : Chunks, score : Nat])

ChunkIds == {c.chunk_id : c \in Chunks}

\* outdated: the ids that were put in the place of others during the request.
Jobs == [scope : Scopes, dense : Candidates, outdated : SUBSET ChunkIds]

\* sparse: the ids the sparse search has found.
Packages == [candidates : Candidates, scope : Scopes, sparse : SUBSET ChunkIds,
             outdated : SUBSET ChunkIds, chunks : Seq(Chunks),
             citations : Seq([citation : Nat, chunk : Chunks]), confidence : 0..100]

RetrievalTypeOK ==
    /\ chunks \in Seq(Chunks)
    /\ job \in Jobs \cup {Absent}
    /\ package \in Packages \cup {Absent}
    /\ package # Absent => Len(package.candidates) <= RerankTopK
    /\ adds \in 0..MaxAdds

RetrievalInit == chunks = Seeded /\ job = Absent /\ package = Absent /\ adds = 0

-----------------------------------------------------------------------------
Ids(candidates) == {candidates[n].chunk.chunk_id : n \in DOMAIN candidates}
RankOf(candidates, id) ==
    CHOOSE n \in DOMAIN candidates : candidates[n].chunk.chunk_id = id

Upto(s, k) == SubSeq(s, 1, IF Len(s) < k THEN Len(s) ELSE k)

\* list.sort(reverse=True) on the scores: stable.
ByScore(candidates) ==
    LET place(n) == Cardinality({m \in DOMAIN candidates :
                        \/ candidates[m].score > candidates[n].score
                        \/ candidates[m].score = candidates[n].score /\ m <= n})
    IN  [p \in DOMAIN candidates |->
            candidates[CHOOSE n \in DOMAIN candidates : place(n) = p]]

Visible(c, scope) ==
    /\ c.tenant \in {scope.tenant, "global_tenant"}
    /\ c.workspace \in {scope.workspace, "global_ws"}

Scored(scope, Score) ==
    LET found == Without(chunks, {c \in Chunks : ~Visible(c, scope)})
    IN  [n \in DOMAIN found |-> [chunk |-> found[n], score |-> Score[found[n].text]]]

SearchDense(scope) == Upto(ByScore(Scored(scope, Dense)), TopK)

SearchSparse(scope) ==
    LET missed == [chunk : Chunks, score : {0}]
    IN  Upto(ByScore(Without(Scored(scope, Keywords), missed)), TopK)

\* 1 / (rrf_k + rank)
Reciprocal(candidates, id) ==
    IF id \in Ids(candidates) THEN 100000000 \div (RrfK + RankOf(candidates, id)) ELSE 0

RrfScore(dense, sparse, id) == Reciprocal(dense, id) + Reciprocal(sparse, id)

\* Mutant of Version: the chunk is looked up in the store again.
VersionNow(dense, sparse, id) ==
    chunks[CHOOSE n \in DOMAIN chunks : chunks[n].chunk_id = id]

\* Mutant of Version: what was found first is kept.
VersionFirst(dense, sparse, id) ==
    IF id \in Ids(dense) THEN dense[RankOf(dense, id)].chunk
    ELSE sparse[RankOf(sparse, id)].chunk

\* chunks_map: the sparse search found its chunk later.
Version(dense, sparse, id) ==
    IF id \in Ids(sparse) THEN sparse[RankOf(sparse, id)].chunk
    ELSE dense[RankOf(dense, id)].chunk

\* The ids in the order in which they enter the scores.
Fuse(dense, sparse) ==
    LET known == {sparse[n] : n \in {m \in DOMAIN sparse :
                                        sparse[m].chunk.chunk_id \in Ids(dense)}}
        listed == dense \o Without(sparse, known)
        entry(n) == listed[n].chunk.chunk_id
    IN  Upto(ByScore([n \in DOMAIN listed |->
                 [chunk |-> Version(dense, sparse, entry(n)),
                  score |-> RrfScore(dense, sparse, entry(n))]]), TopK)

\* 0.4 of the fused score, which fuse rounds to six places, 0.4 of the overlap
\* and 0.3 for the title.
RerankScore(s) ==
    (4 * ((s.score + 50) \div 100) + 500) \div 1000 + 40 * Overlap[s.chunk.text]
        + (IF TitleHit[s.chunk.text] THEN 3000 ELSE 0)

\* Mutant of Rerank: scores and does not sort.
RerankInPlace(fused) ==
    Upto([n \in DOMAIN fused |->
             [chunk |-> fused[n].chunk, score |-> RerankScore(fused[n])]], RerankTopK)

Rerank(fused) ==
    Upto(ByScore([n \in DOMAIN fused |->
                     [chunk |-> fused[n].chunk, score |-> RerankScore(fused[n])]]), RerankTopK)

-----------------------------------------------------------------------------
\* build_evidence_package: n goes over the candidates that are kept.  A content
\* seen before is skipped, whatever its title, and the first that the budget has
\* no room for ends the list.
ContentAt(candidates, n) == Content[candidates[n].chunk.text]

Repeats(candidates, n) ==
    \E m \in 1..(n - 1) : ContentAt(candidates, m) = ContentAt(candidates, n)

Distinct(candidates) == {n \in DOMAIN candidates : ~Repeats(candidates, n)}

TokensUpto(candidates, n) ==
    Running([m \in DOMAIN candidates |->
                IF Repeats(candidates, m) THEN 0 ELSE Tokens[candidates[m].chunk.text]])[n]

\* Mutant of Kept: a chunk too large is passed over, not counted, and kept out.
KeptEach(candidates) ==
    {n \in Distinct(candidates) : Tokens[candidates[n].chunk.text] <= Budget}

Kept(candidates) == {n \in Distinct(candidates) : TokensUpto(candidates, n) <= Budget}

\* The places that are kept, in order.
InOrder(candidates) ==
    Without([n \in DOMAIN candidates |-> n], DOMAIN candidates \ Kept(candidates))

\* The average goes over as many candidates as were kept, from the first on.
Confidence(candidates, count) ==
    IF count = 0 THEN 0
    ELSE LET sum == Running([n \in DOMAIN candidates |-> candidates[n].score])[count]
             rounded == (sum \div count + 50) \div 100
         IN  IF rounded = 0 THEN 85 ELSE IF rounded > 100 THEN 100 ELSE rounded

\* citation_id is the place among the candidates.
Cite(candidates, n) == [citation |-> n, chunk |-> candidates[n].chunk]

\* What the engine answers: sparse are the ids the sparse search has found.
Package(request, sparse, candidates) ==
    LET kept == InOrder(candidates)
    IN  [candidates |-> candidates, scope |-> request.scope,
         sparse |-> sparse, outdated |-> request.outdated,
         chunks |-> [n \in DOMAIN kept |-> candidates[kept[n]].chunk],
         citations |-> [n \in DOMAIN kept |-> Cite(candidates, kept[n])],
         confidence |-> Confidence(candidates, Len(kept))]

-----------------------------------------------------------------------------
\* A chunk takes the place of the one with its id, or the last.
add_chunk(c) ==
    LET same == {n \in DOMAIN chunks : chunks[n].chunk_id = c.chunk_id} IN
    /\ adds < MaxAdds /\ adds' = adds + 1
    /\ chunks' = IF same = {} THEN Append(chunks, c)
                 ELSE [n \in DOMAIN chunks |-> IF n \in same THEN c ELSE chunks[n]]
    /\ job' = IF job = Absent THEN Absent
              ELSE [job EXCEPT !.outdated = @ \cup {chunks[n].chunk_id : n \in same}]
    /\ UNCHANGED package

search_dense(scope) ==
    /\ job = Absent
    /\ job' = [scope |-> scope, dense |-> SearchDense(scope), outdated |-> {}]
    /\ UNCHANGED <<chunks, package, adds>>

\* The sparse search, and all that the request still does by itself.
search_sparse ==
    /\ job # Absent
    /\ LET sparse == SearchSparse(job.scope)
       IN  package' = Package(job, Ids(sparse), Rerank(Fuse(job.dense, sparse)))
    /\ job' = Absent
    /\ UNCHANGED <<chunks, adds>>

RetrievalNext ==
    \/ \E c \in Chunks : add_chunk(c)
    \/ \E scope \in Scopes : search_dense(scope)
    \/ search_sparse

RetrievalSpec == RetrievalInit /\ [][RetrievalNext]_retrievalVars

-----------------------------------------------------------------------------
Answered == package # Absent
Given(n) == package.chunks[n]

\* A request gets no chunk its tenant or its workspace may not see, also when
\* a chunk changes hands while the request runs.
OnlyVisible == Answered => \A n \in DOMAIN package.chunks : Visible(Given(n), package.scope)

\* The evidence is what the store holds when the sparse search looks, but for
\* chunks that were replaced meanwhile by ones that search does not find.
NewestFound ==
    [][package' # package =>
        \A n \in DOMAIN package'.chunks : LET c == package'.chunks[n] IN
            \/ \E m \in DOMAIN chunks : chunks[m] = c
            \/ c.chunk_id \in package'.outdated \ package'.sparse]_retrievalVars

\* The evidence fits the budget and holds no content twice, under one title or
\* under two; a citation names the chunk it stands beside, and no two have one id.  RetrievalTypeOK holds beside it: the
\* lists are no longer than asked for.
EvidenceFits ==
    RetrievalTypeOK /\ (Answered =>
        LET given == package.chunks cited == package.citations IN
        /\ Running([n \in DOMAIN given |-> Tokens[given[n].text]])[Len(given)] <= Budget
        /\ Len(cited) = Len(given)
        /\ \A m, n \in DOMAIN given : m < n =>
               Content[given[m].text] # Content[given[n].text] /\ cited[m].citation < cited[n].citation
        /\ \A n \in DOMAIN given : cited[n].chunk = given[n])

\* The confidence is the average of what was kept, or, where a repeated content
\* was passed over, no less than that; evidence that scores next to nothing
\* gets next to no confidence and never the fallback of 0.85.
ConfidenceOfEvidence ==
    Answered /\ package.chunks # <<>> =>
        LET count == Len(package.citations)
            scores == [n \in DOMAIN package.citations |->
                           package.candidates[package.citations[n].citation].score]
            mean == Running(scores)[count] \div count
        IN  /\ 100 * package.confidence + 50 >= mean
            /\ Distinct(package.candidates) = DOMAIN package.candidates =>
                   100 * package.confidence <= mean + 50
=============================================================================
