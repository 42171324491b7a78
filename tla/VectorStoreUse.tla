--------------------------- MODULE VectorStoreUse ---------------------------
(***************************************************************************)
(* VectorStore with a record of which writes and searches overlapped, of   *)
(* what was indexed when a search began, and of what the API has reported  *)
(* as indexed and not as deleted.  The store has no lock: the properties   *)
(* say what its users may rely on, and which overlap takes it from them.   *)
(***************************************************************************)
EXTENDS VectorStore, FiniteSets

VARIABLES clashed, \* two writes have overlapped, at any time so far
          met,     \* what a search under way has overlapped: "add", "delete"
          before,  \* the chunks fully indexed when it began
          upload,  \* the document a thread ingests
          claims   \* chunks reported as indexed, and not deleted since

history == <<clashed, met, before, upload, claims>>

Adders == {t \in Threads : frame[t].at \in {"append", "map", "embed", "tokenize"}}
Deleters == {t \in Threads : frame[t].at \in {"filter", "recount"}}
Searching(t) ==
    \/ frame[t].at \in {"dense", "rank", "sparse", "scan", "pick", "fuse", "reply"}
    \/ t \in Adders /\ frame[t].query

Overlaps(t) == {op \in {"add", "delete"} :
                  (IF op = "add" THEN Adders ELSE Deleters) \ {t} # {}}

Observe ==
    /\ clashed' = (clashed \/ Cardinality(Adders' \cup Deleters') > 1)
    /\ met' = [t \in Threads |->
                 IF ~Searching(t)' THEN {} ELSE met[t] \cup Overlaps(t)']
    /\ before' = [t \in Threads |->
                    IF ~Searching(t)' THEN {}
                    ELSE IF Searching(t) THEN before[t] ELSE Range(tokenized_corpus)]

UseInit ==
    /\ Init
    /\ clashed = FALSE
    /\ met = [t \in Threads |-> {}]
    /\ before = [t \in Threads |-> {}]
    /\ upload = [t \in Threads |-> {}]
    /\ claims = Range(Samples)

\* The ingestion of t reports that its document is indexed.
Ingested(t) == CountRows(t) /\ upload[t] # {}

UseNext ==
    /\ \E t \in Threads :
          \/ \E u \in Uploads : /\ ingest(t, u)
                              /\ upload' = [upload EXCEPT ![t] = Range(u)]
                              /\ UNCHANGED claims
          \/ /\ Ingested(t)
             /\ claims' = claims \cup upload[t]
             /\ upload' = [upload EXCEPT ![t] = {}]
          \/ \E n \in Names : /\ delete_document(t, n)
                             /\ claims' = {c \in claims : IdOf[c] \notin Targets(n)}
                             /\ UNCHANGED upload
          \/ /\ search(t) \/ (Proceed(t) /\ ~ Ingested(t))
             /\ UNCHANGED <<upload, claims>>
    /\ Observe

\* Bound: what follows two overlapping writes is not explored, the invariants say
\* nothing about it.
BeforeClash == ~clashed

UseSpec == UseInit /\ [][UseNext]_<<vars, history>>

-----------------------------------------------------------------------------
Frames ==
    LET Hits == SUBSET (Chunks \X Chunks) IN
    {Idle, [at |-> "dense"]}
    \cup [at : {"append", "map", "embed", "tokenize"}, todo : Seq(Chunks),
          query : BOOLEAN]
    \cup [at : {"filter"}, targets : SUBSET Ids, list : Seq(Chunks) \cup {None},
          idx : Nat, kept : Seq(Seq(Chunks))]
    \cup [at : {"recount"}, targets : SUBSET Ids]
    \cup [at : {"rank"}, matrix : Seq(Chunks)]
    \cup [at : {"sparse", "fuse"}, hits : Hits]
    \cup [at : {"scan"}, hits : Hits, size : Nat]
    \cup [at : {"pick"}, hits : Hits, found : SUBSET (Nat \X Chunks)]
    \cup [at : {"reply"}, hits : Hits, reply : (SUBSET Chunks) \cup {Error}]

TypeOK ==
    /\ chunks \in Seq(Chunks) /\ dense_vectors \in Seq(Chunks)
    /\ tokenized_corpus \in Seq(Chunks)
    /\ chunk_map \in [Ids -> Chunks \cup {None}]
    /\ corpus_size \in Nat
    /\ \A t \in Threads : frame[t] \in Frames

\* Unless two writes overlap, the lists, the map and the count agree: whatever
\* step a write is at, no list disagrees with the others on a row both have,
\* and once it is over all of them hold the same rows, each id once.  TypeOK
\* holds beside it.
RowsAgree ==
    TypeOK /\ (~clashed =>
       /\ \A n \in DOMAIN dense_vectors : n \in DOMAIN chunks /\ dense_vectors[n] = chunks[n]
       /\ \A n \in DOMAIN tokenized_corpus :
             n \in DOMAIN chunks /\ tokenized_corpus[n] = chunks[n]
       /\ Adders \cup Deleters = {} =>
             /\ Len(dense_vectors) = Len(chunks) /\ Len(tokenized_corpus) = Len(chunks)
             /\ corpus_size = Len(chunks)
             /\ \A c \in Chunks : c \in Range(chunks) <=> chunk_map[IdOf[c]] = c
             /\ \A m, n \in DOMAIN chunks : IdOf[chunks[m]] = IdOf[chunks[n]] => m = n)

\* A search fails only if it overlaps a write, or after writes have overlapped.
FailsOnlyByOverlap ==
    \A t \in Threads :
       At(t, "reply") /\ frame[t].reply = Error => clashed \/ met[t] # {}

\* A search that overlaps no deletion scores no chunk by the vector or the words
\* of another, whatever is ingested meanwhile; and if it succeeds it finds all
\* that was fully indexed when it began.
SearchesSoundly ==
    \A t \in Threads : At(t, "reply") /\ ~clashed /\ "delete" \notin met[t] =>
       /\ \A h \in frame[t].hits : h[1] = h[2]
       /\ frame[t].reply # Error => before[t] \subseteq frame[t].reply

IdsOf(S) == {IdOf[c] : c \in S}
Quiet == ~clashed /\ Adders \cup Deleters = {}

\* The store keeps what was reported as indexed until it is deleted, and nothing
\* else; only the samples come back, when a search finds the store empty.  This
\* is a statement about ids: under the id of an indexed chunk a new text is
\* reported as indexed and dropped.
KeepsWhatItReports ==
    Quiet => /\ IdsOf(claims) \subseteq IdsOf(Range(chunks))
             /\ IdsOf(Range(chunks)) \subseteq IdsOf(claims \cup Range(Samples))
=============================================================================
