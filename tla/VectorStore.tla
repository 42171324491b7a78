---------------------------- MODULE VectorStore ----------------------------
(***************************************************************************)
(* HybridVectorStore of storage/vector_store.py under the calls of         *)
(* api/main.py and retrieval/hybrid_search.py.  The store keeps one row    *)
(* per chunk in three parallel lists, a map from chunk ids to chunks, and  *)
(* a count.  It has no lock, and the endpoints that write and search it    *)
(* run on threads of their own: a thread is preempted between any two      *)
(* steps below.  A step ends where the code calls something or goes round  *)
(* a loop; plain assignments with no call between them are one step.       *)
(***************************************************************************)
EXTENDS Naturals, Sequences, Functions

CONSTANTS Threads,
          Chunks,   \* chunks, by their text
          IdOf,     \* their chunk_id; a text ingested anew has the ids of the old
          DocOf,    \* metadata["doc_id"]; None if the metadata has none
          Uploads,  \* what process_text may yield: sequences of chunks
          Samples,  \* what process_file yields for the sample documents
          Names,    \* what operators ask to delete
          Relevant, \* the chunks that contain the token searched for
          Error,    \* the exception that ends a search
          None

Ids == {IdOf[c] : c \in Chunks}

ASSUME StoreAssumption ==
    /\ IdOf \in [Chunks -> Ids] /\ DOMAIN DocOf = Chunks
    /\ Uploads \subseteq Seq(Chunks) /\ Samples \in Seq(Chunks)
    /\ Relevant \subseteq Chunks
    /\ None \notin Chunks \cup Names /\ \A S \in SUBSET Chunks : S # Error
    \* A file's chunks are numbered, and no two samples have one name.
    /\ \A m, n \in DOMAIN Samples : IdOf[Samples[m]] = IdOf[Samples[n]] => m = n

VARIABLES chunks,           \* self.chunks
          dense_vectors,    \* the chunk each vector is the embedding of
          tokenized_corpus, \* the chunk each token list was taken from
          chunk_map,
          corpus_size,
          frame             \* the call a thread is in, with its locals

rows == <<chunks, dense_vectors, tokenized_corpus>>
vars == <<rows, chunk_map, corpus_size, frame>>

Idle == [at |-> "idle"]
At(t, label) == frame[t].at = label
Goto(t, f) == frame' = [frame EXCEPT ![t] = f]
Step(t, label) == Goto(t, [frame[t] EXCEPT !.at = label])

\* The store right after add_chunks(Samples), which the constructor of the
\* search engine runs before the first request.
Init ==
    /\ chunks = Samples /\ dense_vectors = Samples /\ tokenized_corpus = Samples
    /\ chunk_map = [i \in Ids |->
                      IF \E c \in Range(Samples) : IdOf[c] = i
                      THEN CHOOSE c \in Range(Samples) : IdOf[c] = i ELSE None]
    /\ corpus_size = Len(Samples)
    /\ frame = [t \in Threads |-> Idle]

-----------------------------------------------------------------------------
\* add_chunks.  search calls it too (query), and goes on when it returns.
Adding(todo, query) == [at |-> "append", todo |-> todo, query |-> query]

ingest(t, upload) ==
    /\ At(t, "idle")
    /\ Goto(t, Adding(upload, FALSE))
    /\ UNCHANGED <<rows, chunk_map, corpus_size>>

\* One round of the loop, up to the append: a chunk whose id is in the map is
\* skipped.
AppendChunk(t) ==
    /\ At(t, "append") /\ frame[t].todo # <<>>
    /\ LET c == Head(frame[t].todo) IN
       IF chunk_map[IdOf[c]] # None
       THEN /\ Goto(t, [frame[t] EXCEPT !.todo = Tail(@)])
            /\ UNCHANGED chunks
       ELSE /\ chunks' = Append(chunks, c)
            /\ Step(t, "map")
    /\ UNCHANGED <<dense_vectors, tokenized_corpus, chunk_map, corpus_size>>

MapChunk(t) ==
    /\ At(t, "map")
    /\ LET c == Head(frame[t].todo) IN chunk_map' = [chunk_map EXCEPT ![IdOf[c]] = c]
    /\ Step(t, "embed")
    /\ UNCHANGED <<rows, corpus_size>>

AppendVector(t) ==
    /\ At(t, "embed")
    /\ dense_vectors' = Append(dense_vectors, Head(frame[t].todo))
    /\ Step(t, "tokenize")
    /\ UNCHANGED <<chunks, tokenized_corpus, chunk_map, corpus_size>>

AppendTokens(t) ==
    /\ At(t, "tokenize")
    /\ tokenized_corpus' = Append(tokenized_corpus, Head(frame[t].todo))
    /\ Goto(t, Adding(Tail(frame[t].todo), frame[t].query))
    /\ UNCHANGED <<chunks, dense_vectors, chunk_map, corpus_size>>

\* Mutant of CountRows: counts one row less.
CountRowsButOne(t) ==
    /\ At(t, "append") /\ frame[t].todo = <<>>
    /\ corpus_size' = IF chunks = <<>> THEN 0 ELSE Len(chunks) - 1
    /\ Goto(t, IF frame[t].query THEN [at |-> "dense"] ELSE Idle)
    /\ UNCHANGED <<rows, chunk_map>>

CountRows(t) ==
    /\ At(t, "append") /\ frame[t].todo = <<>>
    /\ corpus_size' = Len(chunks)
    /\ Goto(t, IF frame[t].query THEN [at |-> "dense"] ELSE Idle)
    /\ UNCHANGED <<rows, chunk_map>>

-----------------------------------------------------------------------------
\* A deletion at the idx-th row of the list it goes over.
Filtering(targets, list, idx, kept) ==
    [at |-> "filter", targets |-> targets, list |-> list, idx |-> idx, kept |-> kept]

\* delete_document, up to its early return for a name that matches nothing.
Targets(name) == {IdOf[c] : c \in {x \in Range(chunks) : name \in {DocOf[x], IdOf[x]}}}

delete_document(t, name) ==
    /\ At(t, "idle")
    /\ Targets(name) # {}
    /\ Goto(t, Filtering(Targets(name), None, 1, << <<>>, <<>>, <<>> >>))
    /\ UNCHANGED <<rows, chunk_map, corpus_size>>

\* The list object the loop goes over: the one self.chunks names, appends by
\* other threads included, or one that another deletion has replaced.
Iterated(t) == IF frame[t].list = None THEN chunks ELSE frame[t].list

\* Mutant of FilterTarget: the chunk stays in the map.
FilterTargetMapped(t) ==
    /\ At(t, "filter") /\ frame[t].idx <= Len(Iterated(t))
    /\ IdOf[Iterated(t)[frame[t].idx]] \in frame[t].targets
    /\ Goto(t, [frame[t] EXCEPT !.idx = @ + 1])
    /\ UNCHANGED <<rows, chunk_map, corpus_size>>

FilterTarget(t) ==
    /\ At(t, "filter") /\ frame[t].idx <= Len(Iterated(t))
    /\ LET i == IdOf[Iterated(t)[frame[t].idx]] IN
       /\ i \in frame[t].targets
       /\ chunk_map' = [chunk_map EXCEPT ![i] = None]
    /\ Goto(t, [frame[t] EXCEPT !.idx = @ + 1])
    /\ UNCHANGED <<rows, corpus_size>>

\* A row that is kept is put together from the lists as they now are; the
\* deletion ends with an IndexError where one of them is too short.
FilterKept(t) ==
    /\ At(t, "filter") /\ frame[t].idx <= Len(Iterated(t))
    /\ LET n == frame[t].idx
           c == Iterated(t)[n]
           k == frame[t].kept
       IN  /\ IdOf[c] \notin frame[t].targets
           /\ Goto(t, IF n \in DOMAIN dense_vectors \cap DOMAIN tokenized_corpus
                      THEN Filtering(frame[t].targets, frame[t].list, n + 1,
                                     <<Append(k[1], c), Append(k[2], dense_vectors[n]),
                                       Append(k[3], tokenized_corpus[n])>>)
                      ELSE Idle)
    /\ UNCHANGED <<rows, chunk_map, corpus_size>>

\* Another deletion that is going over the replaced list keeps it.
Detached(u) ==
    IF At(u, "filter") /\ frame[u].list = None
    THEN [frame[u] EXCEPT !.list = chunks] ELSE frame[u]

\* Mutant of ReplaceLists: the vectors are not replaced.
ReplaceListsButVectors(t) ==
    /\ At(t, "filter") /\ frame[t].idx > Len(Iterated(t))
    /\ chunks' = frame[t].kept[1]
    /\ tokenized_corpus' = frame[t].kept[3]
    /\ Goto(t, [at |-> "recount", targets |-> frame[t].targets])
    /\ UNCHANGED <<dense_vectors, chunk_map, corpus_size>>

ReplaceLists(t) ==
    /\ At(t, "filter") /\ frame[t].idx > Len(Iterated(t))
    /\ chunks' = frame[t].kept[1]
    /\ dense_vectors' = frame[t].kept[2]
    /\ tokenized_corpus' = frame[t].kept[3]
    /\ frame' = [u \in Threads |->
          IF u = t THEN [at |-> "recount", targets |-> frame[t].targets]
                   ELSE Detached(u)]
    /\ UNCHANGED <<chunk_map, corpus_size>>

\* Mutant of RecountRows: the count is left as it was.
RecountNothing(t) ==
    /\ At(t, "recount")
    /\ Goto(t, Idle)
    /\ UNCHANGED <<rows, chunk_map, corpus_size>>

RecountRows(t) ==
    /\ At(t, "recount")
    /\ corpus_size' = Len(chunks)
    /\ Goto(t, Idle)
    /\ UNCHANGED <<rows, chunk_map>>

-----------------------------------------------------------------------------
\* HybridSearchEngine.search: an empty store is filled with the samples first.
search(t) ==
    /\ At(t, "idle")
    /\ Goto(t, IF chunks = <<>> THEN Adding(Samples, TRUE) ELSE [at |-> "dense"])
    /\ UNCHANGED <<rows, chunk_map, corpus_size>>

Reply(t, r, hits) == Goto(t, [at |-> "reply", reply |-> r, hits |-> hits])

\* search_dense, up to the matrix: no row can be multiplied if there is a chunk
\* and no vector yet.
search_dense(t) ==
    /\ At(t, "dense")
    /\ IF chunks # <<>> /\ dense_vectors = <<>>
       THEN Reply(t, Error, {})
       ELSE Goto(t, [at |-> "rank",
                     matrix |-> IF chunks = <<>> THEN <<>> ELSE dense_vectors])
    /\ UNCHANGED <<rows, chunk_map, corpus_size>>

\* Every row of the matrix is a hit: a chunk, and the vector that scored it.  The
\* store is taken to hold no more chunks than top_k.
RankDense(t) ==
    /\ At(t, "rank")
    /\ LET m == frame[t].matrix IN
       IF Len(m) <= Len(chunks)
       THEN Goto(t, [at |-> "sparse", hits |-> {<<chunks[n], m[n]>> : n \in DOMAIN m}])
       ELSE Reply(t, Error, {})
    /\ UNCHANGED <<rows, chunk_map, corpus_size>>

\* search_sparse_bm25, up to the array of scores.
search_sparse_bm25(t) ==
    /\ At(t, "sparse")
    /\ Goto(t, IF chunks = <<>> \/ corpus_size = 0
               THEN [at |-> "fuse", hits |-> frame[t].hits]
               ELSE [at |-> "scan", hits |-> frame[t].hits, size |-> corpus_size])
    /\ UNCHANGED <<rows, chunk_map, corpus_size>>

Matching == {n \in DOMAIN tokenized_corpus : tokenized_corpus[n] \in Relevant}

\* A write is bringing doc_freqs up to date; until it has, the token may be
\* unknown to it, and an unknown token scores nothing.  Otherwise doc_freqs and
\* avg_doc_len only weigh the scores.
Reweighing == \E u \in Threads : At(u, "append") \/ At(u, "recount")

ScoreSparse(t) ==
    /\ At(t, "scan")
    /\ \/ IF \A n \in Matching : n <= frame[t].size
          THEN Goto(t, [at |-> "pick", hits |-> frame[t].hits,
                        found |-> {<<n, tokenized_corpus[n]>> : n \in Matching}])
          ELSE Reply(t, Error, {})
       \/ /\ Reweighing
          /\ Goto(t, [at |-> "fuse", hits |-> frame[t].hits])
    /\ UNCHANGED <<rows, chunk_map, corpus_size>>

PickSparse(t) ==
    /\ At(t, "pick")
    /\ LET found == frame[t].found IN
       IF \A f \in found : f[1] \in DOMAIN chunks
       THEN Goto(t, [at |-> "fuse", hits |-> frame[t].hits \cup
                        {<<chunks[f[1]], f[2]>> : f \in found}])
       ELSE Reply(t, Error, {})
    /\ UNCHANGED <<rows, chunk_map, corpus_size>>

\* The end of search_hybrid: hits are merged by id and looked up in chunk_map.
Fuse(t) ==
    /\ At(t, "fuse")
    /\ LET found == {chunk_map[IdOf[h[1]]] : h \in frame[t].hits} IN
       Reply(t, IF None \in found THEN Error ELSE found, frame[t].hits)
    /\ UNCHANGED <<rows, chunk_map, corpus_size>>

Return(t) ==
    /\ At(t, "reply")
    /\ Goto(t, Idle)
    /\ UNCHANGED <<rows, chunk_map, corpus_size>>

-----------------------------------------------------------------------------
Proceed(t) ==
    \/ AppendChunk(t) \/ MapChunk(t) \/ AppendVector(t) \/ AppendTokens(t)
    \/ CountRows(t)
    \/ FilterTarget(t) \/ FilterKept(t) \/ ReplaceLists(t) \/ RecountRows(t)
    \/ search_dense(t) \/ RankDense(t)
    \/ search_sparse_bm25(t) \/ ScoreSparse(t) \/ PickSparse(t)
    \/ Fuse(t) \/ Return(t)

Next ==
    \E t \in Threads :
       \/ \E u \in Uploads : ingest(t, u)
       \/ \E n \in Names : delete_document(t, n)
       \/ search(t)
       \/ Proceed(t)

Spec == Init /\ [][Next]_vars
=============================================================================
