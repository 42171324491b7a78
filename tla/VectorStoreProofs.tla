-------------------------- MODULE VectorStoreProofs --------------------------
(***************************************************************************)
(* The vector store for any threads, chunks, documents and samples: what   *)
(* its users may rely on as long as no two writes have overlapped.  The    *)
(* store has no lock, so the argument follows a write from step to step    *)
(* and says at each how the lists, the map and the count stand, what a     *)
(* search that goes on beside it has in hand, and what is reported.        *)
(***************************************************************************)
EXTENDS VectorStoreUse, Integers, FiniteSetTheorems, TLAPS

Writes == {"append", "map", "embed", "tokenize", "filter", "recount"}
Writer(t) == frame[t].at \in Writes

\* The variables have their types, and a frame the fields its step goes by.
Shaped(t) ==
    /\ frame[t] \in Frames
    /\ frame[t].at \in {"map", "embed", "tokenize"} => frame[t].todo # <<>>
    /\ frame[t].at = "filter" => Len(frame[t].kept) = 3 /\ frame[t].idx > 0

StoreTyped ==
    /\ chunks \in Seq(Chunks) /\ dense_vectors \in Seq(Chunks)
    /\ tokenized_corpus \in Seq(Chunks)
    /\ chunk_map \in [Ids -> Chunks \cup {None}]
    /\ corpus_size \in Nat
    /\ \A i \in Ids : chunk_map[i] # None => IdOf[chunk_map[i]] = i

FramesTyped == frame = [t \in Threads |-> frame[t]] /\ \A t \in Threads : Shaped(t)

ObservedTyped ==
    /\ clashed \in BOOLEAN
    /\ met \in [Threads -> SUBSET {"add", "delete"}]
    /\ before \in [Threads -> SUBSET Chunks]

ReportsTyped ==
    /\ upload \in [Threads -> SUBSET Chunks] /\ claims \in SUBSET Chunks
    /\ \A t \in Threads : upload[t] # {} => t \in Adders /\ ~frame[t].query

Typed == StoreTyped /\ FramesTyped /\ ObservedTyped /\ ReportsTyped

\* Writes do not overlap: at most one thread is in one.
Solo == ~clashed => \A t, u \in Threads : Writer(t) /\ Writer(u) => t = u

-----------------------------------------------------------------------------
\* A list holds the rows of chunks but for the last few.
Prefix(s, short) ==
    /\ Len(s) + short = Len(chunks)
    /\ \A n \in 1..Len(s) : s[n] = chunks[n]

Both(short) == Prefix(dense_vectors, short) /\ Prefix(tokenized_corpus, short)

Maps(c) == c \in Range(chunks) <=> chunk_map[IdOf[c]] = c
Mapped == \A c \in Chunks : Maps(c)

Once(s) == \A m, n \in DOMAIN s : IdOf[s[m]] = IdOf[s[n]] => m = n

\* How the rows stand at each step of a write.
Adding1(t) ==
    LET c == Head(frame[t].todo) IN
    /\ chunks # <<>> /\ chunks[Len(chunks)] = c
    /\ Prefix(tokenized_corpus, 1)
    /\ Prefix(dense_vectors, IF frame[t].at = "tokenize" THEN 0 ELSE 1)
    /\ frame[t].at = "map" => chunk_map[IdOf[c]] = None
    /\ \A x \in Chunks : frame[t].at # "map" \/ x # c => Maps(x)

Filtered(x, i) == \E n \in DOMAIN chunks : n < i /\ chunks[n] = x

Halfway(t) ==
    LET f == frame[t] IN
    /\ Both(0)
    /\ f.list = None /\ f.idx <= Len(chunks) + 1
    /\ f.kept[2] = f.kept[1] /\ f.kept[3] = f.kept[1] /\ Once(f.kept[1])
    /\ \A x \in Chunks :
          /\ x \in Range(f.kept[1]) <=> Filtered(x, f.idx) /\ IdOf[x] \notin f.targets
          /\ chunk_map[IdOf[x]] = x <=>
                x \in Range(chunks) /\ ~(Filtered(x, f.idx) /\ IdOf[x] \in f.targets)

RowsOf(t) ==
    /\ Once(chunks)
    /\ frame[t].at \in {"append", "recount"} => Both(0) /\ Mapped
    /\ frame[t].at \in {"map", "embed", "tokenize"} => Adding1(t)
    /\ frame[t].at = "filter" => Halfway(t)

AtRest == Once(chunks) /\ Both(0) /\ Mapped /\ corpus_size = Len(chunks)

Rows == ~clashed =>
    /\ \A t \in Threads : Writer(t) => RowsOf(t)
    /\ (\A t \in Threads : ~Writer(t)) => AtRest

-----------------------------------------------------------------------------
\* What a search that no deletion overlaps has in hand: rows of chunks, each
\* with its own vector and words, and among them all it has to find.
Finds(f, known) ==
    /\ f.at = "rank" =>
          /\ Len(f.matrix) <= Len(chunks)
          /\ \A n \in 1..Len(f.matrix) : f.matrix[n] = chunks[n]
          /\ known \subseteq Range(f.matrix)
    /\ f.at \in {"sparse", "scan", "pick", "fuse"} =>
          /\ \A h \in f.hits : h[1] = h[2] /\ h[1] \in Range(chunks)
          /\ \A c \in known : <<c, c>> \in f.hits
    /\ f.at = "pick" => \A x \in f.found : x[1] \in DOMAIN chunks /\ chunks[x[1]] = x[2]
    /\ f.at = "reply" =>
          /\ \A h \in f.hits : h[1] = h[2]
          /\ f.reply # Error => known \subseteq f.reply

Sound(t) ==
    /\ \A u \in Threads : u # t => frame[u].at \notin {"filter", "recount"}
    /\ before[t] \subseteq Range(tokenized_corpus)
    /\ Finds(frame[t], before[t])

\* A search that no write at all overlaps does not fail.
Succeeds(f) ==
    /\ f.at = "scan" => f.size = Len(chunks)
    /\ f.at = "reply" => f.reply # Error

Undisturbed(t) == (\A u \in Threads : u # t => ~Writer(u)) /\ Succeeds(frame[t])

Searches == ~clashed => \A t \in Threads : Searching(t) =>
    /\ "delete" \notin met[t] => Sound(t)
    /\ met[t] = {} => Undisturbed(t)

-----------------------------------------------------------------------------
Indexed == IdsOf(Range(chunks))

\* How what is reported stands to what is indexed.
ClaimsOf(t) ==
    LET f == frame[t] IN
    /\ t \in Adders =>
          /\ IdsOf(claims) \subseteq Indexed
          /\ Indexed \subseteq IdsOf(claims \cup Range(Samples) \cup upload[t])
          /\ IdsOf(upload[t]) \subseteq Indexed \cup IdsOf(Range(f.todo))
          /\ Range(f.todo) \subseteq upload[t] \cup Range(Samples)
    /\ f.at = "filter" =>
          /\ IdsOf(claims) \subseteq Indexed \ f.targets
          /\ Indexed \ f.targets \subseteq IdsOf(claims \cup Range(Samples))
    /\ f.at = "recount" =>
          /\ IdsOf(claims) \subseteq Indexed
          /\ Indexed \subseteq IdsOf(claims \cup Range(Samples))

Claims == ~clashed =>
    /\ \A t \in Threads : ClaimsOf(t)
    /\ (\A t \in Threads : ~Writer(t)) =>
          /\ IdsOf(claims) \subseteq Indexed
          /\ Indexed \subseteq IdsOf(claims \cup Range(Samples))

Inv == Typed /\ Solo /\ Rows /\ Searches /\ Claims

-----------------------------------------------------------------------------
\* What a frame at each step is made of, and what makes one.
LEMMA Fields ==
  ASSUME NEW f \in Frames
  PROVE  /\ f.at \in {"append", "map", "embed", "tokenize"} =>
              /\ f.todo \in Seq(Chunks) /\ f.query \in BOOLEAN
              /\ f = [at |-> f.at, todo |-> f.todo, query |-> f.query]
         /\ f.at = "filter" =>
              /\ f.targets \in SUBSET Ids /\ f.list \in Seq(Chunks) \cup {None}
              /\ f.idx \in Nat /\ f.kept \in Seq(Seq(Chunks))
              /\ f = [at |-> "filter", targets |-> f.targets, list |-> f.list,
                      idx |-> f.idx, kept |-> f.kept]
         /\ f.at = "recount" => f.targets \in SUBSET Ids
         /\ f.at = "rank" => f.matrix \in Seq(Chunks)
         /\ f.at \in {"sparse", "scan", "pick", "fuse", "reply"} =>
              f.hits \in SUBSET (Chunks \X Chunks)
         /\ f.at = "scan" => f.size \in Nat
         /\ f.at = "pick" => f.found \in SUBSET (Nat \X Chunks)
         /\ f.at = "reply" => f.reply \in (SUBSET Chunks) \cup {Error}
         /\ f.at \in Writes \cup {"idle", "dense", "rank", "sparse", "scan", "pick", "fuse", "reply"}
BY DEF Frames, Idle, Writes

LEMMA Made ==
  /\ Idle \in Frames /\ [at |-> "dense"] \in Frames
  /\ \A a \in {"append", "map", "embed", "tokenize"}, s \in Seq(Chunks), q \in BOOLEAN :
        [at |-> a, todo |-> s, query |-> q] \in Frames
  /\ \A T \in SUBSET Ids, n \in Nat : \A k \in Seq(Seq(Chunks)), l \in Seq(Chunks) \cup {None} :
        [at |-> "filter", targets |-> T, list |-> l, idx |-> n, kept |-> k] \in Frames
  /\ \A T \in SUBSET Ids : [at |-> "recount", targets |-> T] \in Frames
  /\ \A s \in Seq(Chunks) : [at |-> "rank", matrix |-> s] \in Frames
  /\ \A H \in SUBSET (Chunks \X Chunks) :
        /\ [at |-> "sparse", hits |-> H] \in Frames
        /\ [at |-> "fuse", hits |-> H] \in Frames
        /\ \A n \in Nat : [at |-> "scan", hits |-> H, size |-> n] \in Frames
        /\ \A F \in SUBSET (Nat \X Chunks) : [at |-> "pick", hits |-> H, found |-> F] \in Frames
        /\ \A r \in (SUBSET Chunks) \cup {Error} : [at |-> "reply", reply |-> r, hits |-> H] \in Frames
<1>1. Idle \in Frames /\ [at |-> "dense"] \in Frames
  BY DEF Frames
<1>2. ASSUME NEW a \in {"append", "map", "embed", "tokenize"}, NEW s \in Seq(Chunks), NEW q \in BOOLEAN
      PROVE  [at |-> a, todo |-> s, query |-> q] \in Frames
  BY <1>2 DEF Frames
<1>3. ASSUME NEW T \in SUBSET Ids, NEW n \in Nat, NEW k \in Seq(Seq(Chunks)),
             NEW l \in Seq(Chunks) \cup {None}
      PROVE  [at |-> "filter", targets |-> T, list |-> l, idx |-> n, kept |-> k] \in Frames
  BY <1>3 DEF Frames
<1>4. ASSUME NEW T \in SUBSET Ids PROVE [at |-> "recount", targets |-> T] \in Frames
  BY <1>4 DEF Frames
<1>5. ASSUME NEW s \in Seq(Chunks) PROVE [at |-> "rank", matrix |-> s] \in Frames
  BY <1>5 DEF Frames
<1>6. ASSUME NEW H \in SUBSET (Chunks \X Chunks)
      PROVE  /\ [at |-> "sparse", hits |-> H] \in Frames
             /\ [at |-> "fuse", hits |-> H] \in Frames
             /\ \A n \in Nat : [at |-> "scan", hits |-> H, size |-> n] \in Frames
             /\ \A F \in SUBSET (Nat \X Chunks) :
                   [at |-> "pick", hits |-> H, found |-> F] \in Frames
             /\ \A r \in (SUBSET Chunks) \cup {Error} :
                   [at |-> "reply", reply |-> r, hits |-> H] \in Frames
  BY <1>6 DEF Frames
<1> QED BY <1>1, <1>2, <1>3, <1>4, <1>5, <1>6

Others(t) == \A u \in Threads : u # t => frame'[u] = frame[u]

LEMMA Moves ==
  ASSUME Typed, NEW t \in Threads, NEW f, Goto(t, f)
  PROVE  /\ frame'[t] = f /\ Others(t)
         /\ frame' = [u \in Threads |-> frame'[u]]
BY DEF Typed, FramesTyped, Goto, Others

\* A row more.
LEMMA Longer ==
  ASSUME NEW s \in Seq(Chunks), NEW c \in Chunks
  PROVE  /\ Append(s, c) \in Seq(Chunks) /\ Len(Append(s, c)) = Len(s) + 1
         /\ \A n \in 1..Len(s) : Append(s, c)[n] = s[n]
         /\ Append(s, c)[Len(s) + 1] = c
         /\ Range(Append(s, c)) = Range(s) \cup {c}
<1>1. /\ Append(s, c) \in Seq(Chunks) /\ Len(Append(s, c)) = Len(s) + 1
      /\ \A n \in 1..Len(s) : Append(s, c)[n] = s[n]
      /\ Append(s, c)[Len(s) + 1] = c
  OBVIOUS
<1>2. DOMAIN Append(s, c) = 1..Len(s) + 1 /\ DOMAIN s = 1..Len(s)
  BY <1>1
<1>3. Range(Append(s, c)) = Range(s) \cup {c}
  BY <1>1, <1>2 DEF Range
<1> QED BY <1>1, <1>3

\* A list and its first chunk.
LEMMA First ==
  ASSUME NEW s \in Seq(Chunks), s # <<>>
  PROVE  /\ Head(s) \in Chunks /\ Tail(s) \in Seq(Chunks)
         /\ Range(s) = {Head(s)} \cup Range(Tail(s))
<1>1. /\ Head(s) = s[1] /\ Len(s) \in Nat /\ Len(s) > 0 /\ DOMAIN s = 1..Len(s)
      /\ Tail(s) \in Seq(Chunks) /\ Len(Tail(s)) = Len(s) - 1
      /\ DOMAIN Tail(s) = 1..Len(s) - 1
      /\ \A n \in 1..Len(s) - 1 : Tail(s)[n] = s[n + 1]
  OBVIOUS
<1>2. \A n \in 2..Len(s) : n - 1 \in 1..Len(s) - 1 /\ s[n] = Tail(s)[n - 1]
  BY <1>1
<1>3. ASSUME NEW n \in 1..Len(s) PROVE s[n] \in {Head(s)} \cup Range(Tail(s))
  <2>1. CASE n = 1 BY <2>1, <1>1
  <2>2. CASE n \in 2..Len(s) BY <2>2, <1>1, <1>2 DEF Range
  <2> QED BY <2>1, <2>2, <1>1
<1>4. Range(s) \subseteq {Head(s)} \cup Range(Tail(s))
  BY <1>1, <1>3 DEF Range
<1>5. {Head(s)} \cup Range(Tail(s)) \subseteq Range(s)
  BY <1>1 DEF Range
<1>6. s[1] \in Chunks
  BY <1>1
<1> QED BY <1>1, <1>4, <1>5, <1>6

LEMMA RangeType == \A s \in Seq(Chunks) : Range(s) \subseteq Chunks
BY DEF Range

-----------------------------------------------------------------------------
\* Types.
LEMMA FramesStayTyped ==
  ASSUME Typed, NEW t \in Threads, NEW f \in Frames, Goto(t, f),
         f.at \in {"map", "embed", "tokenize"} => f.todo # <<>>,
         f.at = "filter" => Len(f.kept) = 3 /\ f.idx > 0
  PROVE  FramesTyped'
BY Moves DEF Typed, FramesTyped, Shaped, Others

LEMMA StoreStaysTyped == ASSUME Typed, UNCHANGED <<rows, chunk_map, corpus_size>> PROVE StoreTyped'
BY DEF Typed, StoreTyped, rows

\* The fields of the frame a thread is in.
LEMMA InHand ==
  ASSUME Typed, NEW t \in Threads
  PROVE  LET f == frame[t] IN
         /\ f \in Frames
         /\ f.at \in {"append", "map", "embed", "tokenize"} =>
              /\ f.todo \in Seq(Chunks) /\ f.query \in BOOLEAN
              /\ f = [at |-> f.at, todo |-> f.todo, query |-> f.query]
         /\ f.at \in {"map", "embed", "tokenize"} => f.todo # <<>>
         /\ f.at = "filter" =>
              /\ f.targets \in SUBSET Ids /\ f.list \in Seq(Chunks) \cup {None}
              /\ f.idx \in Nat /\ f.idx > 0 /\ f.kept \in Seq(Seq(Chunks)) /\ Len(f.kept) = 3
              /\ f.kept[1] \in Seq(Chunks) /\ f.kept[2] \in Seq(Chunks) /\ f.kept[3] \in Seq(Chunks)
              /\ f = [at |-> "filter", targets |-> f.targets, list |-> f.list,
                      idx |-> f.idx, kept |-> f.kept]
         /\ f.at = "recount" => f.targets \in SUBSET Ids
         /\ f.at = "rank" => f.matrix \in Seq(Chunks)
         /\ f.at \in {"sparse", "scan", "pick", "fuse", "reply"} =>
              f.hits \in SUBSET (Chunks \X Chunks)
         /\ f.at = "scan" => f.size \in Nat
         /\ f.at = "pick" => f.found \in SUBSET (Nat \X Chunks)
         /\ f.at = "reply" => f.reply \in (SUBSET Chunks) \cup {Error}
         /\ f.at \in Writes \cup {"idle", "dense", "rank", "sparse", "scan", "pick", "fuse", "reply"}
<1>1. frame[t] \in Frames /\ Shaped(t)
  BY DEF Typed, FramesTyped, Shaped
<1>2. ASSUME frame[t].at = "filter"
      PROVE  /\ frame[t].kept[1] \in Seq(Chunks) /\ frame[t].kept[2] \in Seq(Chunks)
             /\ frame[t].kept[3] \in Seq(Chunks)
  <2>1. frame[t].kept \in Seq(Seq(Chunks)) /\ Len(frame[t].kept) = 3
    BY <1>1, <1>2, Fields DEF Shaped
  <2> QED BY <2>1
<1>3. /\ frame[t].at \in {"map", "embed", "tokenize"} => frame[t].todo # <<>>
      /\ frame[t].at = "filter" => Len(frame[t].kept) = 3 /\ frame[t].idx > 0
  BY <1>1 DEF Shaped
<1> HIDE <1>2
<1> QED BY <1>1, <1>2, <1>3, Fields

LEMMA IngestTyped ==
  ASSUME Typed, NEW t \in Threads, NEW u \in Uploads, ingest(t, u)
  PROVE  StoreTyped' /\ FramesTyped'
<1>1. Adding(u, FALSE) \in Frames /\ Adding(u, FALSE).at = "append"
  BY Made, StoreAssumption DEF Adding
<1> QED BY <1>1, FramesStayTyped, StoreStaysTyped DEF ingest

LEMMA SearchTyped ==
  ASSUME Typed, NEW t \in Threads, search(t)
  PROVE  StoreTyped' /\ FramesTyped'
<1>1. Adding(Samples, TRUE) \in Frames /\ Adding(Samples, TRUE).at = "append"
  BY Made, StoreAssumption DEF Adding
<1>2. [at |-> "dense"] \in Frames
  BY Made
<1>3. Goto(t, Adding(Samples, TRUE)) \/ Goto(t, [at |-> "dense"])
  BY DEF search
<1> QED BY <1>1, <1>2, <1>3, FramesStayTyped, StoreStaysTyped DEF search

LEMMA IdType == \A c \in Chunks : IdOf[c] \in Ids
BY DEF Ids

LEMMA TargetsType == ASSUME Typed, NEW n PROVE Targets(n) \in SUBSET Ids
<1>1. Range(chunks) \subseteq Chunks
  BY RangeType DEF Typed, StoreTyped
<1> QED BY <1>1, IdType DEF Targets

LEMMA DeleteTyped ==
  ASSUME Typed, NEW t \in Threads, NEW n \in Names, delete_document(t, n)
  PROVE  StoreTyped' /\ FramesTyped'
<1> DEFINE f == [at |-> "filter", targets |-> Targets(n), list |-> None,
                 idx |-> 1, kept |-> << <<>>, <<>>, <<>> >>]
<1>1. << <<>>, <<>>, <<>> >> \in Seq(Seq(Chunks)) /\ Len(<< <<>>, <<>>, <<>> >>) = 3
  OBVIOUS
<1>2. f \in Frames
  BY <1>1, Made, TargetsType
<1>3. Goto(t, f) /\ UNCHANGED <<rows, chunk_map, corpus_size>>
  BY DEF delete_document, Filtering
<1>4. f.at = "filter" /\ Len(f.kept) = 3 /\ f.idx > 0
  BY <1>1
<1>5. FramesTyped'
  <2> HIDE DEF f
  <2>1. f.at \notin {"map", "embed", "tokenize"}
    BY <1>4
  <2> QED BY <1>2, <1>3, <1>4, <2>1, FramesStayTyped
<1> QED BY <1>3, <1>5, StoreStaysTyped

LEMMA AppendTyped ==
  ASSUME Typed, NEW t \in Threads, AppendChunk(t)
  PROVE  StoreTyped' /\ FramesTyped'
<1> DEFINE f == frame[t]
<1>1. /\ f.todo \in Seq(Chunks) /\ f.query \in BOOLEAN /\ f.todo # <<>>
      /\ f = [at |-> "append", todo |-> f.todo, query |-> f.query]
  BY InHand DEF AppendChunk, At
<1>2. Head(f.todo) \in Chunks /\ Tail(f.todo) \in Seq(Chunks)
  BY <1>1, First
<1>3. CASE chunk_map[IdOf[Head(f.todo)]] # None
  <2>1. /\ Goto(t, [frame[t] EXCEPT !.todo = Tail(@)])
        /\ UNCHANGED <<rows, chunk_map, corpus_size>>
    BY <1>3 DEF AppendChunk, rows
  <2>2. [frame[t] EXCEPT !.todo = Tail(@)]
           = [at |-> "append", todo |-> Tail(f.todo), query |-> f.query]
    BY <1>1
  <2> QED BY <1>1, <1>2, <2>1, <2>2, Made, FramesStayTyped, StoreStaysTyped
<1>4. CASE chunk_map[IdOf[Head(f.todo)]] = None
  <2>1. /\ Goto(t, [at |-> "map", todo |-> f.todo, query |-> f.query])
        /\ chunks' = Append(chunks, Head(f.todo))
        /\ UNCHANGED <<dense_vectors, tokenized_corpus, chunk_map, corpus_size>>
    BY <1>1, <1>4 DEF AppendChunk, Step
  <2>2. StoreTyped'
    BY <2>1, <1>2, Longer DEF Typed, StoreTyped
  <2> QED BY <1>1, <1>2, <2>1, <2>2, Made, FramesStayTyped
<1> QED BY <1>3, <1>4

LEMMA MapTyped ==
  ASSUME Typed, NEW t \in Threads, MapChunk(t)
  PROVE  StoreTyped' /\ FramesTyped'
<1> DEFINE f == frame[t]
           c == Head(f.todo)
<1>1. /\ f.todo \in Seq(Chunks) /\ f.query \in BOOLEAN /\ f.todo # <<>>
      /\ f = [at |-> "map", todo |-> f.todo, query |-> f.query]
  BY InHand DEF MapChunk, At
<1>2. c \in Chunks /\ IdOf[c] \in Ids
  BY <1>1, First, IdType
<1>3. /\ Goto(t, [at |-> "embed", todo |-> f.todo, query |-> f.query])
      /\ chunk_map' = [chunk_map EXCEPT ![IdOf[c]] = c]
      /\ UNCHANGED <<rows, corpus_size>>
  BY <1>1 DEF MapChunk, Step
<1>4. StoreTyped'
  BY <1>2, <1>3 DEF Typed, StoreTyped, rows
<1> QED BY <1>1, <1>3, <1>4, Made, FramesStayTyped

LEMMA EmbedTyped ==
  ASSUME Typed, NEW t \in Threads, AppendVector(t)
  PROVE  StoreTyped' /\ FramesTyped'
<1> DEFINE f == frame[t]
<1>1. /\ f.todo \in Seq(Chunks) /\ f.query \in BOOLEAN /\ f.todo # <<>>
      /\ f = [at |-> "embed", todo |-> f.todo, query |-> f.query]
  BY InHand DEF AppendVector, At
<1>2. Head(f.todo) \in Chunks
  BY <1>1, First
<1>3. Goto(t, [at |-> "tokenize", todo |-> f.todo, query |-> f.query])
  BY <1>1 DEF AppendVector, Step
<1>4. StoreTyped'
  BY <1>2, Longer DEF Typed, StoreTyped, AppendVector
<1> QED BY <1>1, <1>3, <1>4, Made, FramesStayTyped

LEMMA TokenizeTyped ==
  ASSUME Typed, NEW t \in Threads, AppendTokens(t)
  PROVE  StoreTyped' /\ FramesTyped'
<1> DEFINE f == frame[t]
<1>1. f.todo \in Seq(Chunks) /\ f.query \in BOOLEAN /\ f.todo # <<>>
  BY InHand DEF AppendTokens, At
<1>2. Head(f.todo) \in Chunks /\ Tail(f.todo) \in Seq(Chunks)
  BY <1>1, First
<1>3. Goto(t, [at |-> "append", todo |-> Tail(f.todo), query |-> f.query])
  BY <1>1 DEF AppendTokens, Adding
<1>4. StoreTyped'
  BY <1>2, Longer DEF Typed, StoreTyped, AppendTokens
<1> QED BY <1>1, <1>2, <1>3, <1>4, Made, FramesStayTyped

LEMMA CountTyped ==
  ASSUME Typed, NEW t \in Threads, CountRows(t)
  PROVE  StoreTyped' /\ FramesTyped'
<1>1. StoreTyped'
  BY DEF Typed, StoreTyped, CountRows, rows
<1>2. Goto(t, [at |-> "dense"]) \/ Goto(t, Idle)
  BY DEF CountRows
<1>3. Idle.at = "idle"
  BY DEF Idle
<1> QED BY <1>1, <1>2, <1>3, Made, FramesStayTyped

LEMMA IteratedType ==
  ASSUME Typed, NEW t \in Threads, At(t, "filter")
  PROVE  Iterated(t) \in Seq(Chunks)
<1>1. chunks \in Seq(Chunks) /\ frame[t].list \in Seq(Chunks) \cup {None}
  BY InHand DEF Typed, StoreTyped, At
<1> QED BY <1>1 DEF Iterated

LEMMA FilterTargetTyped ==
  ASSUME Typed, NEW t \in Threads, FilterTarget(t)
  PROVE  StoreTyped' /\ FramesTyped'
<1> DEFINE f == frame[t]
           i == IdOf[Iterated(t)[f.idx]]
<1>1. /\ f.targets \in SUBSET Ids /\ f.list \in Seq(Chunks) \cup {None}
      /\ f.idx \in Nat /\ f.idx > 0 /\ f.kept \in Seq(Seq(Chunks)) /\ Len(f.kept) = 3
      /\ f = [at |-> "filter", targets |-> f.targets, list |-> f.list,
              idx |-> f.idx, kept |-> f.kept]
  BY InHand DEF FilterTarget, At
<1>2. /\ Goto(t, [frame[t] EXCEPT !.idx = @ + 1])
      /\ chunk_map' = [chunk_map EXCEPT ![i] = None]
      /\ UNCHANGED <<rows, corpus_size>>
  BY DEF FilterTarget
<1>3. [frame[t] EXCEPT !.idx = @ + 1]
         = [at |-> "filter", targets |-> f.targets, list |-> f.list,
            idx |-> f.idx + 1, kept |-> f.kept]
  BY <1>1
<1>4. StoreTyped'
  BY <1>2 DEF Typed, StoreTyped, rows
<1>5. f.idx + 1 \in Nat /\ f.idx + 1 > 0
  BY <1>1
<1> HIDE DEF f, i
<1> QED BY <1>1, <1>2, <1>3, <1>4, <1>5, Made, FramesStayTyped

LEMMA FilterKeptTyped ==
  ASSUME Typed, NEW t \in Threads, FilterKept(t)
  PROVE  StoreTyped' /\ FramesTyped'
<1> DEFINE f == frame[t]
           n == f.idx
           c == Iterated(t)[n]
           k == <<Append(f.kept[1], c), Append(f.kept[2], dense_vectors[n]),
                  Append(f.kept[3], tokenized_corpus[n])>>
<1>1. /\ f.targets \in SUBSET Ids /\ f.list \in Seq(Chunks) \cup {None}
      /\ f.idx \in Nat /\ f.idx > 0
      /\ f.kept[1] \in Seq(Chunks) /\ f.kept[2] \in Seq(Chunks) /\ f.kept[3] \in Seq(Chunks)
      /\ f = [at |-> "filter", targets |-> f.targets, list |-> f.list,
              idx |-> f.idx, kept |-> f.kept]
  BY InHand DEF FilterKept, At
<1>2. StoreTyped'
  BY StoreStaysTyped DEF FilterKept
<1>3. CASE n \in DOMAIN dense_vectors \cap DOMAIN tokenized_corpus
  <2>1. dense_vectors[n] \in Chunks /\ tokenized_corpus[n] \in Chunks
    BY <1>3 DEF Typed, StoreTyped
  <2>2. c \in Chunks
    <3>1. Iterated(t) \in Seq(Chunks) /\ n <= Len(Iterated(t))
      BY IteratedType DEF FilterKept
    <3> QED BY <3>1, <1>1
  <2>3. /\ Append(f.kept[1], c) \in Seq(Chunks)
        /\ Append(f.kept[2], dense_vectors[n]) \in Seq(Chunks)
        /\ Append(f.kept[3], tokenized_corpus[n]) \in Seq(Chunks)
    BY <1>1, <2>1, <2>2
  <2>4. k \in Seq(Seq(Chunks)) /\ Len(k) = 3
    BY <2>3
  <2>5. Goto(t, Filtering(f.targets, f.list, n + 1, k))
    BY <1>3 DEF FilterKept
  <2> HIDE DEF k
  <2> DEFINE g == [at |-> "filter", targets |-> f.targets, list |-> f.list,
                   idx |-> n + 1, kept |-> k]
  <2>6. Filtering(f.targets, f.list, n + 1, k) = g
    BY DEF Filtering
  <2>7. g.at = "filter" /\ g.kept = k /\ g.idx > 0
    BY <1>1
  <2>8. g \in Frames
    <3>1. f.targets \in SUBSET Ids /\ n + 1 \in Nat
      BY <1>1
    <3>2. f.list \in Seq(Chunks) \cup {None} /\ k \in Seq(Seq(Chunks))
      BY <1>1, <2>4
    <3> HIDE DEF f, n
    <3> QED BY <3>1, <3>2, Made
  <2> HIDE DEF g
  <2>9. g.at \notin {"map", "embed", "tokenize"}
    BY <2>7
  <2> QED BY <2>4, <2>5, <2>6, <2>7, <2>8, <2>9, <1>2, FramesStayTyped
<1>4. CASE n \notin DOMAIN dense_vectors \cap DOMAIN tokenized_corpus
  <2>1. Goto(t, Idle)
    BY <1>4 DEF FilterKept
  <2> QED BY <2>1, <1>2, Made, FramesStayTyped DEF Idle
<1> QED BY <1>3, <1>4

LEMMA ReplaceTyped ==
  ASSUME Typed, NEW t \in Threads, ReplaceLists(t)
  PROVE  StoreTyped' /\ FramesTyped'
<1>1. frame[t].kept[1] \in Seq(Chunks) /\ frame[t].kept[2] \in Seq(Chunks)
      /\ frame[t].kept[3] \in Seq(Chunks) /\ frame[t].targets \in SUBSET Ids
  BY InHand DEF ReplaceLists, At
<1>2. StoreTyped'
  BY <1>1 DEF Typed, StoreTyped, ReplaceLists
<1>3. frame'[t] = [at |-> "recount", targets |-> frame[t].targets]
  BY DEF ReplaceLists
<1>4. Shaped(t)'
  <2>1. frame'[t] \in Frames
    BY <1>1, <1>3, Made
  <2> QED BY <1>3, <2>1 DEF Shaped
<1>5. ASSUME NEW u \in Threads, u # t PROVE Shaped(u)'
  <2>1. frame'[u] = Detached(u) /\ Shaped(u)
    BY <1>5 DEF ReplaceLists, Typed, FramesTyped
  <2> DEFINE f == frame[u]
  <2>2. CASE ~(At(u, "filter") /\ f.list = None)
    BY <2>1, <2>2 DEF Detached, Shaped
  <2>3. CASE At(u, "filter") /\ f.list = None
    <3>1. /\ f.targets \in SUBSET Ids /\ f.idx \in Nat /\ f.idx > 0
          /\ f.kept \in Seq(Seq(Chunks)) /\ Len(f.kept) = 3
          /\ f = [at |-> "filter", targets |-> f.targets, list |-> f.list,
                  idx |-> f.idx, kept |-> f.kept]
      BY <1>5, <2>3, InHand DEF At
    <3>2. frame'[u] = [at |-> "filter", targets |-> f.targets, list |-> chunks,
                       idx |-> f.idx, kept |-> f.kept]
      BY <2>1, <2>3, <3>1 DEF Detached
    <3>3. chunks \in Seq(Chunks)
      BY DEF Typed, StoreTyped
    <3>4. frame'[u] \in Frames
      BY <3>1, <3>2, <3>3, Made
    <3> QED BY <3>1, <3>2, <3>4 DEF Shaped
  <2> QED BY <2>2, <2>3
<1>6. frame' = [u \in Threads |-> frame'[u]]
  BY DEF ReplaceLists
<1>7. \A u \in Threads : Shaped(u)'
  BY <1>4, <1>5
<1> QED BY <1>2, <1>6, <1>7 DEF FramesTyped

LEMMA RecountTyped ==
  ASSUME Typed, NEW t \in Threads, RecountRows(t)
  PROVE  StoreTyped' /\ FramesTyped'
<1>1. StoreTyped'
  BY DEF Typed, StoreTyped, RecountRows, rows
<1> QED BY <1>1, Made, FramesStayTyped DEF RecountRows, Idle

LEMMA ReplyTyped ==
  ASSUME Typed, NEW t \in Threads, NEW r \in (SUBSET Chunks) \cup {Error},
         NEW H \in SUBSET (Chunks \X Chunks), Reply(t, r, H)
  PROVE  FramesTyped'
<1> DEFINE g == [at |-> "reply", reply |-> r, hits |-> H]
<1>1. Goto(t, g) /\ g \in Frames /\ g.at = "reply"
  BY Made DEF Reply
<1> HIDE DEF g
<1> QED BY <1>1, FramesStayTyped

LEMMA FailTyped ==
  ASSUME Typed, NEW t \in Threads, Reply(t, Error, {})
  PROVE  FramesTyped'
<1>1. {} \in SUBSET (Chunks \X Chunks) /\ Error \in (SUBSET Chunks) \cup {Error}
  OBVIOUS
<1> QED BY <1>1, ReplyTyped

LEMMA DenseTyped ==
  ASSUME Typed, NEW t \in Threads, search_dense(t)
  PROVE  StoreTyped' /\ FramesTyped'
<1>1. StoreTyped'
  BY StoreStaysTyped DEF search_dense
<1> DEFINE m == IF chunks = <<>> THEN <<>> ELSE dense_vectors
<1>2. CASE Reply(t, Error, {})
  BY <1>1, <1>2, FailTyped
<1>3. CASE Goto(t, [at |-> "rank", matrix |-> m])
  <2>1. m \in Seq(Chunks)
    BY DEF Typed, StoreTyped
  <2> HIDE DEF m
  <2> QED BY <1>1, <1>3, <2>1, Made, FramesStayTyped
<1> QED BY <1>2, <1>3 DEF search_dense

LEMMA RankTyped ==
  ASSUME Typed, NEW t \in Threads, RankDense(t)
  PROVE  StoreTyped' /\ FramesTyped'
<1>1. StoreTyped'
  BY StoreStaysTyped DEF RankDense
<1> DEFINE m == frame[t].matrix
           H == {<<chunks[n], m[n]>> : n \in DOMAIN m}
<1>2. CASE Reply(t, Error, {})
  BY <1>1, <1>2, FailTyped
<1>3. CASE Len(m) <= Len(chunks) /\ Goto(t, [at |-> "sparse", hits |-> H])
  <2>1. m \in Seq(Chunks) /\ chunks \in Seq(Chunks)
    BY InHand DEF RankDense, At, Typed, StoreTyped
  <2>2. \A n \in DOMAIN m : m[n] \in Chunks /\ chunks[n] \in Chunks
    BY <2>1, <1>3
  <2>3. H \in SUBSET (Chunks \X Chunks)
    BY <2>2
  <2> HIDE DEF H
  <2> QED BY <1>1, <1>3, <2>3, Made, FramesStayTyped
<1> QED BY <1>2, <1>3 DEF RankDense

LEMMA SparseTyped ==
  ASSUME Typed, NEW t \in Threads, search_sparse_bm25(t)
  PROVE  StoreTyped' /\ FramesTyped'
<1>1. StoreTyped'
  BY StoreStaysTyped DEF search_sparse_bm25
<1>2. frame[t].hits \in SUBSET (Chunks \X Chunks) /\ corpus_size \in Nat
  BY InHand DEF search_sparse_bm25, At, Typed, StoreTyped
<1>3. \/ Goto(t, [at |-> "fuse", hits |-> frame[t].hits])
      \/ Goto(t, [at |-> "scan", hits |-> frame[t].hits, size |-> corpus_size])
  BY DEF search_sparse_bm25
<1> QED BY <1>1, <1>2, <1>3, Made, FramesStayTyped

LEMMA ScoreTyped ==
  ASSUME Typed, NEW t \in Threads, ScoreSparse(t)
  PROVE  StoreTyped' /\ FramesTyped'
<1>1. StoreTyped'
  BY StoreStaysTyped DEF ScoreSparse
<1> DEFINE F == {<<n, tokenized_corpus[n]>> : n \in Matching}
<1>2. frame[t].hits \in SUBSET (Chunks \X Chunks)
  BY InHand DEF ScoreSparse, At
<1>3. CASE Reply(t, Error, {})
  BY <1>1, <1>3, FailTyped
<1>4. CASE Goto(t, [at |-> "pick", hits |-> frame[t].hits, found |-> F])
  <2>1. \A n \in Matching : n \in Nat /\ tokenized_corpus[n] \in Chunks
    BY DEF Typed, StoreTyped, Matching
  <2>2. F \in SUBSET (Nat \X Chunks)
    BY <2>1
  <2> HIDE DEF F
  <2> QED BY <1>1, <1>2, <1>4, <2>2, Made, FramesStayTyped
<1>5. CASE Goto(t, [at |-> "fuse", hits |-> frame[t].hits])
  BY <1>1, <1>2, <1>5, Made, FramesStayTyped
<1> QED BY <1>3, <1>4, <1>5 DEF ScoreSparse

LEMMA PickTyped ==
  ASSUME Typed, NEW t \in Threads, PickSparse(t)
  PROVE  StoreTyped' /\ FramesTyped'
<1>1. StoreTyped'
  BY StoreStaysTyped DEF PickSparse
<1> DEFINE F == frame[t].found
           H == {<<chunks[x[1]], x[2]>> : x \in F}
<1>2. frame[t].hits \in SUBSET (Chunks \X Chunks) /\ F \in SUBSET (Nat \X Chunks)
  BY InHand DEF PickSparse, At
<1>3. CASE Reply(t, Error, {})
  BY <1>1, <1>3, FailTyped
<1>4. CASE /\ \A x \in F : x[1] \in DOMAIN chunks
           /\ Goto(t, [at |-> "fuse", hits |-> frame[t].hits \cup H])
  <2>1. \A x \in F : chunks[x[1]] \in Chunks /\ x[2] \in Chunks
    BY <1>2, <1>4 DEF Typed, StoreTyped
  <2>2. H \in SUBSET (Chunks \X Chunks)
    BY <2>1
  <2> HIDE DEF H
  <2>3. frame[t].hits \cup H \in SUBSET (Chunks \X Chunks)
    BY <1>2, <2>2
  <2> QED BY <1>1, <1>4, <2>3, Made, FramesStayTyped
<1> QED BY <1>3, <1>4 DEF PickSparse

LEMMA FuseTyped ==
  ASSUME Typed, NEW t \in Threads, Fuse(t)
  PROVE  StoreTyped' /\ FramesTyped'
<1>1. StoreTyped'
  BY StoreStaysTyped DEF Fuse
<1> DEFINE S == {chunk_map[IdOf[h[1]]] : h \in frame[t].hits}
<1>2. frame[t].hits \in SUBSET (Chunks \X Chunks)
  BY InHand DEF Fuse, At
<1>3. S \subseteq Chunks \cup {None}
  <2>1. ASSUME NEW h \in frame[t].hits PROVE chunk_map[IdOf[h[1]]] \in Chunks \cup {None}
    <3>1. h[1] \in Chunks
      BY <1>2
    <3> QED BY <3>1, IdType DEF Typed, StoreTyped
  <2> QED BY <2>1
<1>4. (IF None \in S THEN Error ELSE S) \in (SUBSET Chunks) \cup {Error}
  <2> HIDE DEF S
  <2>1. CASE None \in S BY <2>1
  <2>2. CASE None \notin S BY <2>2, <1>3
  <2> QED BY <2>1, <2>2
<1> QED BY <1>1, <1>2, <1>4, ReplyTyped DEF Fuse

LEMMA ReturnTyped ==
  ASSUME Typed, NEW t \in Threads, Return(t)
  PROVE  StoreTyped' /\ FramesTyped'
BY StoreStaysTyped, Made, FramesStayTyped DEF Return, Idle

LEMMA ProceedTyped ==
  ASSUME Typed, NEW t \in Threads, Proceed(t)
  PROVE  StoreTyped' /\ FramesTyped'
BY AppendTyped, MapTyped, EmbedTyped, TokenizeTyped, CountTyped, FilterTargetTyped,
   FilterKeptTyped, ReplaceTyped, RecountTyped, DenseTyped, RankTyped, SparseTyped,
   ScoreTyped, PickTyped, FuseTyped, ReturnTyped DEF Proceed

-----------------------------------------------------------------------------
\* A step of t leaves the other threads where they are; only a deletion that
\* replaces the lists touches them, and of them only other deletions.
Aside(t) ==
    \A u \in Threads : u # t =>
        /\ frame'[u].at = frame[u].at
        /\ frame[u].at # "filter" => frame'[u] = frame[u]

LEMMA Goes == ASSUME Typed, NEW t \in Threads, NEW f, Goto(t, f) PROVE Others(t) /\ Aside(t)
BY Moves DEF Aside, Others

LEMMA ProceedsAside ==
  ASSUME Typed, NEW t \in Threads, Proceed(t)
  PROVE  Aside(t) /\ (~ReplaceLists(t) => Others(t))
<1>1. CASE ReplaceLists(t)
  <2>1. ASSUME NEW u \in Threads, u # t
        PROVE  /\ frame'[u].at = frame[u].at
               /\ frame[u].at # "filter" => frame'[u] = frame[u]
    <3>1. frame'[u] = Detached(u)
      BY <1>1, <2>1 DEF ReplaceLists
    <3>2. CASE At(u, "filter") /\ frame[u].list = None
      <4>1. frame[u] = [at |-> "filter", targets |-> frame[u].targets, list |-> frame[u].list,
                        idx |-> frame[u].idx, kept |-> frame[u].kept]
        BY <2>1, <3>2, InHand DEF At
      <4>2. [frame[u] EXCEPT !.list = chunks].at = "filter"
        BY <4>1
      <4> QED BY <3>1, <3>2, <4>2 DEF Detached, At
    <3>3. CASE ~(At(u, "filter") /\ frame[u].list = None)
      BY <3>1, <3>3 DEF Detached
    <3> QED BY <3>2, <3>3
  <2> QED BY <1>1, <2>1 DEF Aside
<1>2. CASE AppendChunk(t) BY <1>2, Goes DEF AppendChunk, Step
<1>3. CASE MapChunk(t) BY <1>3, Goes DEF MapChunk, Step
<1>4. CASE AppendVector(t) BY <1>4, Goes DEF AppendVector, Step
<1>5. CASE AppendTokens(t) BY <1>5, Goes DEF AppendTokens
<1>6. CASE CountRows(t) BY <1>6, Goes DEF CountRows
<1>7. CASE FilterTarget(t) BY <1>7, Goes DEF FilterTarget
<1>8. CASE FilterKept(t) BY <1>8, Goes DEF FilterKept
<1>9. CASE RecountRows(t) BY <1>9, Goes DEF RecountRows
<1>10. CASE search_dense(t) BY <1>10, Goes DEF search_dense, Reply
<1>11. CASE RankDense(t) BY <1>11, Goes DEF RankDense, Reply
<1>12. CASE search_sparse_bm25(t) BY <1>12, Goes DEF search_sparse_bm25
<1>13. CASE ScoreSparse(t) BY <1>13, Goes DEF ScoreSparse, Reply
<1>14. CASE PickSparse(t) BY <1>14, Goes DEF PickSparse, Reply
<1>15. CASE Fuse(t) BY <1>15, Goes DEF Fuse, Reply
<1>16. CASE Return(t) BY <1>16, Goes DEF Return
<1> QED BY <1>1, <1>2, <1>3, <1>4, <1>5, <1>6, <1>7, <1>8, <1>9, <1>10, <1>11, <1>12,
           <1>13, <1>14, <1>15, <1>16 DEF Proceed

LEMMA ObservedStaysTyped == ASSUME Typed, Observe PROVE ObservedTyped'
<1>1. Range(tokenized_corpus) \subseteq Chunks
  BY RangeType DEF Typed, StoreTyped
<1>2. \A t \in Threads : Overlaps(t)' \subseteq {"add", "delete"}
  BY DEF Overlaps
<1> QED BY <1>1, <1>2 DEF Typed, ObservedTyped, Observe

\* An ingestion goes on until it reports.
LEMMA IngestionGoesOn ==
  ASSUME Typed, NEW t \in Threads, Proceed(t), ~Ingested(t), upload[t] # {}
  PROVE  t \in Adders' /\ ~frame'[t].query
<1>1. /\ frame[t].at \in {"append", "map", "embed", "tokenize"} /\ ~frame[t].query
      /\ frame[t] = [at |-> frame[t].at, todo |-> frame[t].todo, query |-> frame[t].query]
  BY InHand DEF Typed, ReportsTyped, Adders
<1>2. ~CountRows(t)
  BY DEF Ingested
<1>3. CASE AppendChunk(t)
  BY <1>1, <1>3, Moves DEF AppendChunk, Step, Adders
<1>4. CASE MapChunk(t)
  BY <1>1, <1>4, Moves DEF MapChunk, Step, Adders
<1>5. CASE AppendVector(t)
  BY <1>1, <1>5, Moves DEF AppendVector, Step, Adders
<1>6. CASE AppendTokens(t)
  BY <1>1, <1>6, Moves DEF AppendTokens, Adding, Adders
<1> QED BY <1>1, <1>2, <1>3, <1>4, <1>5, <1>6
        DEF Proceed, At, FilterTarget, FilterKept, ReplaceLists, RecountRows, search_dense,
            RankDense, search_sparse_bm25, ScoreSparse, PickSparse, Fuse, Return

\* What a step of t does: the four ways of UseNext.
Does(t) ==
    \/ \E u \in Uploads : /\ ingest(t, u)
                          /\ upload' = [upload EXCEPT ![t] = Range(u)] /\ claims' = claims
    \/ Ingested(t) /\ claims' = claims \cup upload[t] /\ upload' = [upload EXCEPT ![t] = {}]
    \/ \E n \in Names : /\ delete_document(t, n)
                        /\ claims' = {c \in claims : IdOf[c] \notin Targets(n)}
                        /\ upload' = upload
    \/ search(t) /\ upload' = upload /\ claims' = claims
    \/ Proceed(t) /\ ~Ingested(t) /\ upload' = upload /\ claims' = claims

LEMMA Doing == ASSUME UseNext PROVE Observe /\ \E t \in Threads : Does(t)
BY DEF UseNext, Does

LEMMA DoesAside ==
  ASSUME Typed, NEW t \in Threads, Does(t)
  PROVE  Aside(t)
<1>1. ASSUME NEW u \in Uploads, ingest(t, u) PROVE Aside(t)
  BY <1>1, Goes DEF ingest
<1>2. ASSUME NEW n \in Names, delete_document(t, n) PROVE Aside(t)
  BY <1>2, Goes DEF delete_document
<1>3. ASSUME search(t) PROVE Aside(t)
  BY <1>3, Goes DEF search
<1>4. CASE Proceed(t) \/ Ingested(t)
  BY <1>4, ProceedsAside DEF Ingested, Proceed
<1> QED BY <1>1, <1>2, <1>3, <1>4 DEF Does

LEMMA ReportsStayTyped ==
  ASSUME Typed, NEW t \in Threads, Does(t)
  PROVE  ReportsTyped'
<1>1. Aside(t)
  BY DoesAside
<1>2. /\ upload \in [Threads -> SUBSET Chunks] /\ claims \in SUBSET Chunks
      /\ \A u \in Threads : upload[u] # {} => u \in Adders /\ ~frame[u].query
  BY DEF Typed, ReportsTyped
<1>3. ASSUME NEW u \in Threads, u # t, upload[u] # {}
      PROVE  u \in Adders' /\ ~frame'[u].query
  BY <1>1, <1>2, <1>3 DEF Aside, Adders
<1>4. upload[t] # {} => t \in Adders
  BY <1>2
<1>5. ASSUME NEW u \in Uploads, ingest(t, u), upload' = [upload EXCEPT ![t] = Range(u)],
             claims' = claims
      PROVE  ReportsTyped'
  <2>1. Range(u) \in SUBSET Chunks
    BY RangeType, StoreAssumption
  <2>2. t \in Adders' /\ ~frame'[t].query
    BY <1>5, Moves DEF ingest, Adding, Adders
  <2> QED BY <1>2, <1>3, <1>5, <2>1, <2>2 DEF ReportsTyped
<1>6. CASE Ingested(t) /\ claims' = claims \cup upload[t] /\ upload' = [upload EXCEPT ![t] = {}]
  BY <1>2, <1>3, <1>6 DEF ReportsTyped
<1>7. ASSUME At(t, "idle"), upload' = upload, claims' \subseteq claims
      PROVE  ReportsTyped'
  BY <1>2, <1>3, <1>4, <1>7 DEF ReportsTyped, At, Adders
<1>8. CASE Proceed(t) /\ ~Ingested(t) /\ upload' = upload /\ claims' = claims
  BY <1>2, <1>3, <1>8, IngestionGoesOn DEF ReportsTyped
<1>9. (\E n \in Names : delete_document(t, n)) \/ search(t) => At(t, "idle")
  BY DEF delete_document, search
<1> QED BY <1>5, <1>6, <1>7, <1>8, <1>9 DEF Does

LEMMA TypedStep ==
  ASSUME Typed, Observe, NEW t \in Threads, Does(t)
  PROVE  Typed'
<1>1. StoreTyped' /\ FramesTyped'
  BY IngestTyped, SearchTyped, DeleteTyped, ProceedTyped, CountTyped DEF Does, Ingested
<1> QED BY <1>1, ObservedStaysTyped, ReportsStayTyped DEF Typed

-----------------------------------------------------------------------------
\* While no two writes have overlapped there is one at most.
LEMMA SoloStep ==
  ASSUME Typed, Solo, Observe, NEW t \in Threads, Does(t)
  PROVE  Solo'
<1> SUFFICES ASSUME ~clashed', NEW a \in Threads, NEW b \in Threads, Writer(a)', Writer(b)', a # b
             PROVE  FALSE
  BY DEF Solo
<1> DEFINE S == Adders' \cup Deleters'
<1>1. ~clashed /\ ~(Cardinality(S) > 1)
  BY DEF Observe
<1>2. \A u \in Threads : u \in S <=> Writer(u)'
  BY DEF Adders, Deleters, Writer, Writes
<1>3. \A u \in Threads : u # t => (Writer(u)' <=> Writer(u))
  BY DoesAside DEF Aside, Writer
<1>4. PICK w \in Threads : \A u \in Threads : Writer(u) => u = w
  BY <1>1 DEF Solo
<1>5. S \subseteq {t, w}
  BY <1>2, <1>3, <1>4 DEF Adders, Deleters
<1>6. IsFiniteSet({t, w}) /\ Cardinality({a, b}) = 2
  <2>1. IsFiniteSet({t}) /\ IsFiniteSet({a}) /\ Cardinality({a}) = 1
    BY FS_Singleton
  <2>2. {t, w} = {t} \cup {w} /\ {a, b} = {a} \cup {b} /\ b \notin {a}
    OBVIOUS
  <2>3. IsFiniteSet({t} \cup {w})
    BY <2>1, FS_AddElement
  <2>4. Cardinality({a} \cup {b}) = IF b \in {a} THEN Cardinality({a}) ELSE Cardinality({a}) + 1
    BY <2>1, FS_AddElement
  <2> QED BY <2>1, <2>2, <2>3, <2>4
<1>7. IsFiniteSet(S)
  BY <1>5, <1>6, FS_Subset
<1>8. Cardinality({a, b}) <= Cardinality(S)
  BY <1>2, <1>7, FS_Subset
<1>9. Cardinality(S) \in Nat
  BY <1>7, FS_CardinalityType
<1> QED BY <1>1, <1>6, <1>8, <1>9

-----------------------------------------------------------------------------
\* Rows.
LEMMA Clash == ASSUME Observe, ~clashed' PROVE ~clashed
BY DEF Observe

\* A step in a write, or into one or out of one: the others are in none.
LEMMA RowsAfterWrite ==
  ASSUME Typed, Solo, Solo', Rows, NEW t \in Threads, Aside(t), ~clashed,
         Writer(t) \/ Writer(t)',
         Writer(t)' => RowsOf(t)', ~Writer(t)' => AtRest'
  PROVE  Rows'
<1>1. \A u \in Threads : u # t => (Writer(u)' <=> Writer(u))
  BY DEF Aside, Writer
<1>2. ASSUME ~clashed', NEW u \in Threads, Writer(u)' PROVE u = t
  BY <1>1, <1>2 DEF Solo
<1>3. ASSUME ~clashed', NEW u \in Threads, Writer(u)' PROVE RowsOf(u)'
  BY <1>2, <1>3
<1> QED BY <1>3 DEF Rows

LEMMA RowsAfterOther ==
  ASSUME Typed, Rows, NEW t \in Threads, Others(t), ~clashed, ~Writer(t), ~Writer(t)',
         UNCHANGED <<rows, chunk_map, corpus_size>>
  PROVE  Rows'
<1>1. \A u \in Threads : Writer(u)' <=> Writer(u)
  BY DEF Others, Writer
<1>2. ASSUME NEW u \in Threads, Writer(u) PROVE RowsOf(u)'
  <2>1. frame'[u] = frame[u] /\ RowsOf(u)
    BY <1>2 DEF Others, Rows
  <2>2. Adding1(u) => Adding1(u)'
    BY <2>1 DEF Adding1, Prefix, Maps, rows
  <2>3. Halfway(u) => Halfway(u)'
    BY <2>1 DEF Halfway, Filtered, Both, Prefix, Once, rows
  <2> QED BY <2>1, <2>2, <2>3 DEF RowsOf, Both, Prefix, Mapped, Maps, Once, rows
<1>3. AtRest => AtRest'
  BY DEF AtRest, Both, Prefix, Mapped, Maps, Once, rows
<1> QED BY <1>1, <1>2, <1>3 DEF Rows

\* Nobody else writes when a thread takes up a write.
LEMMA RestBefore ==
  ASSUME Typed, Solo', Rows, NEW t \in Threads, Aside(t), ~clashed, ~clashed', ~Writer(t), Writer(t)'
  PROVE  AtRest /\ \A u \in Threads : ~Writer(u)
<1>1. \A u \in Threads : u # t => (Writer(u)' <=> Writer(u))
  BY DEF Aside, Writer
<1>2. \A u \in Threads : ~Writer(u)
  BY <1>1 DEF Solo
<1> QED BY <1>2 DEF Rows

LEMMA AtRestStays ==
  ASSUME AtRest, UNCHANGED <<rows, chunk_map>>
  PROVE  Once(chunks)' /\ Both(0)' /\ Mapped'
BY DEF AtRest, Both, Prefix, Mapped, Maps, Once, rows

LEMMA RowsIngest ==
  ASSUME Typed, Solo, Solo', Rows, NEW t \in Threads, NEW u \in Uploads, ingest(t, u), Observe
  PROVE  Rows'
<1> SUFFICES ASSUME ~clashed' PROVE Rows'
  BY DEF Rows
<1>1. ~clashed /\ Aside(t) /\ UNCHANGED <<rows, chunk_map, corpus_size>>
  BY Clash, Goes DEF ingest
<1>2. frame'[t].at = "append" /\ ~Writer(t)
  BY Moves DEF ingest, Adding, At, Writer, Writes
<1>3. Writer(t)'
  BY <1>2 DEF Writer, Writes
<1>4. AtRest
  BY <1>1, <1>2, <1>3, RestBefore
<1>5. RowsOf(t)'
  BY <1>1, <1>2, <1>4, AtRestStays DEF RowsOf
<1> QED BY <1>1, <1>3, <1>5, RowsAfterWrite

LEMMA RowsSearch ==
  ASSUME Typed, Solo, Solo', Rows, NEW t \in Threads, search(t), Observe
  PROVE  Rows'
<1> SUFFICES ASSUME ~clashed' PROVE Rows'
  BY DEF Rows
<1>1. ~clashed /\ Aside(t) /\ Others(t) /\ UNCHANGED <<rows, chunk_map, corpus_size>>
  BY Clash, Goes DEF search
<1>2. frame'[t].at \in {"append", "dense"} /\ ~Writer(t)
  BY Moves DEF search, Adding, At, Writer, Writes
<1>3. CASE frame'[t].at = "append"
  <2>1. Writer(t)'
    BY <1>3 DEF Writer, Writes
  <2>2. AtRest
    BY <1>1, <1>2, <2>1, RestBefore
  <2>3. RowsOf(t)'
    BY <1>1, <1>3, <2>2, AtRestStays DEF RowsOf
  <2> QED BY <1>1, <2>1, <2>3, RowsAfterWrite
<1>4. CASE frame'[t].at = "dense"
  <2>1. ~Writer(t)'
    BY <1>4 DEF Writer, Writes
  <2> QED BY <1>1, <1>2, <2>1, RowsAfterOther
<1> QED BY <1>2, <1>3, <1>4

LEMMA RowsDelete ==
  ASSUME Typed, Solo, Solo', Rows, NEW t \in Threads, NEW n \in Names, delete_document(t, n), Observe
  PROVE  Rows'
<1> SUFFICES ASSUME ~clashed' PROVE Rows'
  BY DEF Rows
<1>1. ~clashed /\ Aside(t) /\ UNCHANGED <<rows, chunk_map, corpus_size>>
  BY Clash, Goes DEF delete_document
<1>2. /\ frame'[t] = Filtering(Targets(n), None, 1, << <<>>, <<>>, <<>> >>)
      /\ ~Writer(t)
  BY Moves DEF delete_document, At, Writer, Writes
<1>3. /\ frame'[t].at = "filter" /\ frame'[t].list = None /\ frame'[t].idx = 1
      /\ frame'[t].kept[1] = <<>> /\ frame'[t].kept[2] = <<>> /\ frame'[t].kept[3] = <<>>
  BY <1>2 DEF Filtering
<1>4. Writer(t)'
  BY <1>3 DEF Writer, Writes
<1>5. AtRest
  BY <1>1, <1>2, <1>4, RestBefore
<1>6. Once(chunks)' /\ Both(0)' /\ Mapped'
  BY <1>1, <1>5, AtRestStays
<1>7. chunks' \in Seq(Chunks)
  BY <1>1 DEF Typed, StoreTyped, rows
<1>8. Range(<<>>) = {} /\ Once(<<>>)
  BY DEF Range, Once
<1>9. \A x : ~Filtered(x, 1)'
  BY <1>7 DEF Filtered
<1>10. Halfway(t)'
  <2>1. Len(chunks') + 1 \in Nat /\ 1 <= Len(chunks') + 1
    BY <1>7
  <2> QED BY <1>3, <1>6, <1>8, <1>9, <2>1 DEF Halfway, Mapped, Maps, Once
<1>11. RowsOf(t)'
  BY <1>3, <1>6, <1>10 DEF RowsOf
<1> QED BY <1>1, <1>4, <1>11, RowsAfterWrite

\* What a write in progress has: its own place, and nobody beside it.
LEMMA AtWork ==
  ASSUME Typed, Solo, Rows, NEW t \in Threads, Writer(t), ~clashed
  PROVE  RowsOf(t) /\ Once(chunks) /\ \A u \in Threads : u # t => ~Writer(u)
BY DEF Solo, Rows, RowsOf

LEMMA RowsAppend ==
  ASSUME Typed, Solo, Solo', Rows, NEW t \in Threads, AppendChunk(t), Observe
  PROVE  Rows'
<1> SUFFICES ASSUME ~clashed' PROVE Rows'
  BY DEF Rows
<1> DEFINE f == frame[t]
           c == Head(f.todo)
<1>1. ~clashed /\ Aside(t) /\ f.at = "append" /\ Writer(t)
  BY Clash, Goes DEF AppendChunk, Step, At, Writer, Writes
<1>2. /\ f.todo \in Seq(Chunks) /\ f.todo # <<>> /\ c \in Chunks
      /\ f = [at |-> "append", todo |-> f.todo, query |-> f.query]
      /\ chunks \in Seq(Chunks)
  BY <1>1, InHand, First DEF AppendChunk, Typed, StoreTyped
<1>3. Once(chunks) /\ Both(0) /\ Mapped
  BY <1>1, AtWork DEF RowsOf
<1>4. CASE chunk_map[IdOf[c]] # None
  <2>1. frame'[t].at = "append" /\ UNCHANGED <<rows, chunk_map, corpus_size>>
    BY <1>1, <1>2, <1>4, Moves DEF AppendChunk, rows
  <2>2. RowsOf(t)'
    BY <1>3, <2>1 DEF RowsOf, Both, Prefix, Mapped, Maps, Once, rows
  <2>3. Writer(t)'
    BY <2>1 DEF Writer, Writes
  <2> QED BY <1>1, <2>2, <2>3, RowsAfterWrite
<1>5. CASE chunk_map[IdOf[c]] = None
  <2>1. /\ frame'[t].at = "map" /\ frame'[t].todo = f.todo
        /\ chunks' = Append(chunks, c)
        /\ UNCHANGED <<dense_vectors, tokenized_corpus, chunk_map, corpus_size>>
    BY <1>1, <1>2, <1>5, Moves DEF AppendChunk, Step
  <2>2. /\ chunks' \in Seq(Chunks) /\ Len(chunks') = Len(chunks) + 1 /\ Len(chunks) \in Nat
        /\ \A n \in 1..Len(chunks) : chunks'[n] = chunks[n]
        /\ chunks'[Len(chunks')] = c /\ Range(chunks') = Range(chunks) \cup {c}
    BY <1>2, <2>1, Longer
  <2>3. \A n \in 1..Len(chunks) : IdOf[chunks[n]] # IdOf[c]
    <3>1. \A n \in 1..Len(chunks) : chunks[n] \in Chunks /\ chunks[n] \in Range(chunks)
      BY <1>2 DEF Range
    <3>2. \A n \in 1..Len(chunks) : chunk_map[IdOf[chunks[n]]] = chunks[n]
      BY <1>3, <3>1 DEF Mapped, Maps
    <3> QED BY <1>5, <3>1, <3>2, StoreAssumption
  <2>4. Once(chunks')
    <3>1. DOMAIN chunks' = 1..Len(chunks) + 1 /\ DOMAIN chunks = 1..Len(chunks)
      BY <1>2, <2>2
    <3>2. \A n \in 1..Len(chunks) + 1 : n = Len(chunks) + 1 \/ n \in 1..Len(chunks)
      BY <2>2
    <3> QED BY <1>3, <2>2, <2>3, <3>1, <3>2 DEF Once
  <2>5. Prefix(dense_vectors, 1)' /\ Prefix(tokenized_corpus, 1)'
    <3>1. Prefix(dense_vectors, 0) /\ Prefix(tokenized_corpus, 0)
      BY <1>3 DEF Both
    <3>2. Len(dense_vectors) \in Nat /\ Len(tokenized_corpus) \in Nat
      BY DEF Typed, StoreTyped
    <3> QED BY <2>1, <2>2, <3>1, <3>2 DEF Prefix
  <2>6. \A x \in Chunks : x # c => Maps(x)'
    BY <1>3, <2>1, <2>2 DEF Mapped, Maps
  <2>7. Adding1(t)'
    <3>1. chunks' # <<>>
      BY <2>2
    <3> QED BY <1>5, <2>1, <2>2, <2>5, <2>6, <3>1 DEF Adding1
  <2>8. RowsOf(t)' /\ Writer(t)'
    BY <2>1, <2>4, <2>7 DEF RowsOf, Once, Writer, Writes
  <2> QED BY <1>1, <2>8, RowsAfterWrite
<1> QED BY <1>4, <1>5

LEMMA RowsMap ==
  ASSUME Typed, Solo, Solo', Rows, NEW t \in Threads, MapChunk(t), Observe
  PROVE  Rows'
<1> SUFFICES ASSUME ~clashed' PROVE Rows'
  BY DEF Rows
<1> DEFINE f == frame[t]
           c == Head(f.todo)
<1>1. ~clashed /\ Aside(t) /\ f.at = "map" /\ Writer(t)
  BY Clash, Goes DEF MapChunk, Step, At, Writer, Writes
<1>2. /\ f.todo \in Seq(Chunks) /\ f.todo # <<>> /\ c \in Chunks
      /\ f = [at |-> "map", todo |-> f.todo, query |-> f.query]
      /\ chunks \in Seq(Chunks) /\ chunk_map \in [Ids -> Chunks \cup {None}]
      /\ \A x \in Chunks : IdOf[x] \in Ids
  BY <1>1, InHand, First, IdType DEF Typed, StoreTyped
<1>3. Once(chunks) /\ Adding1(t)
  BY <1>1, AtWork DEF RowsOf
<1>4. /\ frame'[t].at = "embed" /\ frame'[t].todo = f.todo
      /\ chunk_map' = [chunk_map EXCEPT ![IdOf[c]] = c]
      /\ chunks' = chunks /\ dense_vectors' = dense_vectors /\ tokenized_corpus' = tokenized_corpus
  BY <1>1, <1>2, Moves DEF MapChunk, Step, rows
<1>5. c \in Range(chunks)
  BY <1>2, <1>3 DEF Adding1, Range
<1>6. ASSUME NEW x \in Chunks PROVE Maps(x)'
  <2>1. CASE IdOf[x] # IdOf[c]
    <3>1. Maps(x)
      BY <1>1, <1>3, <2>1 DEF Adding1
    <3> QED BY <1>2, <1>4, <2>1, <3>1 DEF Maps
  <2>2. CASE IdOf[x] = IdOf[c] /\ x # c
    <3>1. x \notin Range(chunks)
      BY <1>3, <1>5, <2>2 DEF Once, Range
    <3> QED BY <1>2, <1>4, <2>2, <3>1 DEF Maps
  <2>3. CASE x = c
    BY <1>2, <1>4, <1>5, <2>3 DEF Maps
  <2> QED BY <2>1, <2>2, <2>3
<1>7. Adding1(t)'
  BY <1>1, <1>3, <1>4, <1>6 DEF Adding1, Prefix
<1>8. RowsOf(t)' /\ Writer(t)'
  BY <1>3, <1>4, <1>7 DEF RowsOf, Once, Writer, Writes
<1> QED BY <1>1, <1>8, RowsAfterWrite

\* A row that the list lacks, added.
LEMMA LongerPrefix ==
  ASSUME NEW s \in Seq(Chunks), NEW c \in Chunks, NEW q \in Seq(Chunks), q # <<>>,
         Len(s) + 1 = Len(q), \A n \in 1..Len(s) : s[n] = q[n], q[Len(q)] = c
  PROVE  Len(Append(s, c)) = Len(q) /\ \A n \in 1..Len(Append(s, c)) : Append(s, c)[n] = q[n]
<1>1. \A n \in 1..Len(s) + 1 : n \in 1..Len(s) \/ n = Len(s) + 1
  OBVIOUS
<1> QED BY <1>1, Longer

LEMMA RowsEmbed ==
  ASSUME Typed, Solo, Solo', Rows, NEW t \in Threads, AppendVector(t), Observe
  PROVE  Rows'
<1> SUFFICES ASSUME ~clashed' PROVE Rows'
  BY DEF Rows
<1> DEFINE f == frame[t]
           c == Head(f.todo)
<1>1. ~clashed /\ Aside(t) /\ f.at = "embed" /\ Writer(t)
  BY Clash, Goes DEF AppendVector, Step, At, Writer, Writes
<1>2. /\ c \in Chunks
      /\ f = [at |-> "embed", todo |-> f.todo, query |-> f.query]
      /\ chunks \in Seq(Chunks) /\ dense_vectors \in Seq(Chunks)
  BY <1>1, InHand, First DEF Typed, StoreTyped
<1>3. Once(chunks) /\ Adding1(t)
  BY <1>1, AtWork DEF RowsOf
<1>4. /\ frame'[t].at = "tokenize" /\ frame'[t].todo = f.todo
      /\ dense_vectors' = Append(dense_vectors, c)
      /\ chunks' = chunks /\ chunk_map' = chunk_map /\ tokenized_corpus' = tokenized_corpus
  BY <1>1, <1>2, Moves DEF AppendVector, Step
<1>5. Prefix(dense_vectors, 0)'
  <2>1. Len(dense_vectors) + 1 = Len(chunks) /\ \A n \in 1..Len(dense_vectors) : dense_vectors[n] = chunks[n]
    BY <1>1, <1>3 DEF Adding1, Prefix
  <2>2. chunks # <<>> /\ chunks[Len(chunks)] = c
    BY <1>3 DEF Adding1
  <2>3. /\ Len(dense_vectors') = Len(chunks)
        /\ \A n \in 1..Len(dense_vectors') : dense_vectors'[n] = chunks[n]
    BY <1>2, <1>4, <2>1, <2>2, LongerPrefix
  <2>4. Len(chunks) \in Nat
    BY <1>2
  <2> QED BY <1>4, <2>3, <2>4 DEF Prefix
<1>6. Adding1(t)'
  BY <1>1, <1>3, <1>4, <1>5 DEF Adding1, Prefix, Maps
<1>7. RowsOf(t)' /\ Writer(t)'
  BY <1>3, <1>4, <1>6 DEF RowsOf, Once, Writer, Writes
<1> QED BY <1>1, <1>7, RowsAfterWrite

LEMMA RowsTokenize ==
  ASSUME Typed, Solo, Solo', Rows, NEW t \in Threads, AppendTokens(t), Observe
  PROVE  Rows'
<1> SUFFICES ASSUME ~clashed' PROVE Rows'
  BY DEF Rows
<1> DEFINE f == frame[t]
           c == Head(f.todo)
<1>1. ~clashed /\ Aside(t) /\ f.at = "tokenize" /\ Writer(t)
  BY Clash, Goes DEF AppendTokens, At, Writer, Writes
<1>2. c \in Chunks /\ chunks \in Seq(Chunks) /\ tokenized_corpus \in Seq(Chunks)
  BY <1>1, InHand, First DEF Typed, StoreTyped
<1>3. Once(chunks) /\ Adding1(t)
  BY <1>1, AtWork DEF RowsOf
<1>4. /\ frame'[t].at = "append"
      /\ tokenized_corpus' = Append(tokenized_corpus, c)
      /\ chunks' = chunks /\ chunk_map' = chunk_map /\ dense_vectors' = dense_vectors
  BY <1>1, <1>2, Moves DEF AppendTokens, Adding
<1>5. Both(0)'
  <2>1. /\ Len(tokenized_corpus) + 1 = Len(chunks)
        /\ \A n \in 1..Len(tokenized_corpus) : tokenized_corpus[n] = chunks[n]
    BY <1>3 DEF Adding1, Prefix
  <2>2. chunks # <<>> /\ chunks[Len(chunks)] = c
    BY <1>3 DEF Adding1
  <2>3. /\ Len(tokenized_corpus') = Len(chunks)
        /\ \A n \in 1..Len(tokenized_corpus') : tokenized_corpus'[n] = chunks[n]
    BY <1>2, <1>4, <2>1, <2>2, LongerPrefix
  <2>4. Len(chunks) \in Nat
    BY <1>2
  <2> QED BY <1>1, <1>3, <1>4, <2>3, <2>4 DEF Adding1, Both, Prefix
<1>6. Mapped'
  BY <1>1, <1>3, <1>4 DEF Adding1, Mapped, Maps
<1>7. RowsOf(t)' /\ Writer(t)'
  BY <1>3, <1>4, <1>5, <1>6 DEF RowsOf, Once, Writer, Writes
<1> QED BY <1>1, <1>7, RowsAfterWrite

LEMMA RowsCount ==
  ASSUME Typed, Solo, Solo', Rows, NEW t \in Threads, CountRows(t), Observe
  PROVE  Rows'
<1> SUFFICES ASSUME ~clashed' PROVE Rows'
  BY DEF Rows
<1>1. ~clashed /\ Aside(t) /\ frame[t].at = "append" /\ Writer(t)
  BY Clash, Goes DEF CountRows, At, Writer, Writes
<1>2. Once(chunks) /\ Both(0) /\ Mapped
  BY <1>1, AtWork DEF RowsOf
<1>3. frame'[t].at \in {"dense", "idle"} /\ ~Writer(t)'
  BY Moves DEF CountRows, Idle, Writer, Writes
<1>4. AtRest'
  BY <1>2 DEF CountRows, AtRest, Both, Prefix, Mapped, Maps, Once, rows
<1> QED BY <1>1, <1>3, <1>4, RowsAfterWrite

LEMMA RowsFilterTarget ==
  ASSUME Typed, Solo, Solo', Rows, NEW t \in Threads, FilterTarget(t), Observe
  PROVE  Rows'
<1> SUFFICES ASSUME ~clashed' PROVE Rows'
  BY DEF Rows
<1> DEFINE f == frame[t]
           n == f.idx
           i == IdOf[chunks[n]]
<1>1. ~clashed /\ Aside(t) /\ f.at = "filter" /\ Writer(t)
  BY Clash, Goes DEF FilterTarget, At, Writer, Writes
<1>2. Once(chunks) /\ Halfway(t) /\ f.list = None
  BY <1>1, AtWork DEF RowsOf, Halfway
<1>3. /\ n \in Nat /\ n > 0 /\ chunks \in Seq(Chunks)
      /\ chunk_map \in [Ids -> Chunks \cup {None}] /\ \A x \in Chunks : IdOf[x] \in Ids
      /\ f = [at |-> "filter", targets |-> f.targets, list |-> f.list,
              idx |-> n, kept |-> f.kept]
  BY <1>1, InHand, IdType DEF Typed, StoreTyped
<1>4. Iterated(t) = chunks
  BY <1>2 DEF Iterated
<1>5. /\ n <= Len(chunks) /\ i \in f.targets /\ chunk_map' = [chunk_map EXCEPT ![i] = None]
      /\ UNCHANGED rows
  BY <1>4 DEF FilterTarget
<1>6. frame'[t] = [at |-> "filter", targets |-> f.targets, list |-> f.list,
                   idx |-> n + 1, kept |-> f.kept]
  BY <1>3, Moves DEF FilterTarget
<1>7. /\ frame'[t].at = "filter" /\ frame'[t].targets = f.targets /\ frame'[t].list = f.list
      /\ frame'[t].idx = n + 1 /\ frame'[t].kept = f.kept
  BY <1>6
<1>8. chunks' = chunks /\ dense_vectors' = dense_vectors /\ tokenized_corpus' = tokenized_corpus
  BY <1>5 DEF rows
<1>9. chunks[n] \in Chunks /\ n \in DOMAIN chunks /\ i \in Ids
  BY <1>3, <1>5
<1>10. \A x : Filtered(x, n + 1) <=> Filtered(x, n) \/ x = chunks[n]
  <2>1. \A m \in DOMAIN chunks : m < n + 1 <=> m < n \/ m = n
    BY <1>3
  <2> QED BY <1>8, <1>9, <2>1 DEF Filtered
<1> HIDE DEF i, n
<1>11. ASSUME NEW x \in Chunks
       PROVE  x \in Range(f.kept[1]) <=> Filtered(x, n + 1) /\ IdOf[x] \notin f.targets
  <2>1. x \in Range(f.kept[1]) <=> Filtered(x, n) /\ IdOf[x] \notin f.targets
    BY <1>2 DEF Halfway, n
  <2>2. x = chunks[n] => IdOf[x] \in f.targets
    BY <1>5 DEF i
  <2> QED BY <1>10, <2>1, <2>2
<1>12. ASSUME NEW x \in Chunks
       PROVE  chunk_map'[IdOf[x]] = x <=>
                x \in Range(chunks) /\ ~(Filtered(x, n + 1) /\ IdOf[x] \in f.targets)
  <2>1. chunk_map[IdOf[x]] = x <=>
           x \in Range(chunks) /\ ~(Filtered(x, n) /\ IdOf[x] \in f.targets)
    BY <1>2 DEF Halfway, n
  <2>2. CASE IdOf[x] = i
    <3>1. chunk_map'[IdOf[x]] = None /\ x # None
      BY <1>3, <1>5, <1>9, <2>2, StoreAssumption
    <3>2. x \in Range(chunks) => x = chunks[n]
      BY <1>2, <1>9, <2>2 DEF Once, Range, i
    <3>3. x = chunks[n] => Filtered(x, n + 1) /\ IdOf[x] \in f.targets
      BY <1>5, <1>10 DEF i
    <3> QED BY <3>1, <3>2, <3>3
  <2>3. CASE IdOf[x] # i
    <3>1. chunk_map'[IdOf[x]] = chunk_map[IdOf[x]]
      BY <1>3, <1>5, <2>3
    <3>2. x # chunks[n]
      BY <2>3 DEF i
    <3> QED BY <1>10, <2>1, <3>1, <3>2
  <2> QED BY <2>2, <2>3
<1>13. n + 1 <= Len(chunks) + 1
  BY <1>3, <1>5
<1>14. Both(0)' /\ Once(f.kept[1]) /\ f.kept[2] = f.kept[1] /\ f.kept[3] = f.kept[1]
  BY <1>2, <1>8 DEF Halfway, Both, Prefix
<1>15. Halfway(t)'
  <2>1. \A x \in Chunks : Filtered(x, frame[t].idx)' <=> Filtered(x, n + 1)
    BY <1>7, <1>8 DEF Filtered
  <2> QED BY <1>2, <1>7, <1>8, <1>11, <1>12, <1>13, <1>14, <2>1 DEF Halfway, Once
<1>16. RowsOf(t)' /\ Writer(t)'
  BY <1>2, <1>7, <1>8, <1>15 DEF RowsOf, Once, Writer, Writes
<1> QED BY <1>1, <1>16, RowsAfterWrite

LEMMA RowsFilterKept ==
  ASSUME Typed, Solo, Solo', Rows, NEW t \in Threads, FilterKept(t), Observe
  PROVE  Rows'
<1> SUFFICES ASSUME ~clashed' PROVE Rows'
  BY DEF Rows
<1> DEFINE f == frame[t]
           n == f.idx
           c == chunks[n]
           s == f.kept[1]
<1>1. ~clashed /\ Aside(t) /\ f.at = "filter" /\ Writer(t)
  BY Clash, Goes DEF FilterKept, At, Writer, Writes
<1>2. Once(chunks) /\ Halfway(t) /\ f.list = None
  BY <1>1, AtWork DEF RowsOf, Halfway
<1>3. /\ n \in Nat /\ n > 0 /\ chunks \in Seq(Chunks) /\ s \in Seq(Chunks)
      /\ dense_vectors \in Seq(Chunks) /\ tokenized_corpus \in Seq(Chunks)
  BY <1>1, InHand DEF Typed, StoreTyped
<1>4. Iterated(t) = chunks
  BY <1>2 DEF Iterated
<1>5. n <= Len(chunks) /\ IdOf[c] \notin f.targets /\ UNCHANGED <<rows, chunk_map>>
  BY <1>4 DEF FilterKept
<1>6. c \in Chunks /\ n \in 1..Len(chunks) /\ DOMAIN chunks = 1..Len(chunks)
  BY <1>3, <1>5
<1>7. /\ n \in DOMAIN dense_vectors \cap DOMAIN tokenized_corpus
      /\ dense_vectors[n] = c /\ tokenized_corpus[n] = c
  BY <1>2, <1>3, <1>6 DEF Halfway, Both, Prefix
<1>8. f.kept[2] = s /\ f.kept[3] = s /\ Once(s)
  BY <1>2 DEF Halfway
<1>9. frame'[t] = Filtering(f.targets, None, n + 1, <<Append(s, c), Append(s, c), Append(s, c)>>)
  BY <1>2, <1>4, <1>7, <1>8, Moves DEF FilterKept
<1>10. /\ frame'[t].at = "filter" /\ frame'[t].targets = f.targets /\ frame'[t].list = None
       /\ frame'[t].idx = n + 1 /\ frame'[t].kept[1] = Append(s, c)
       /\ frame'[t].kept[2] = Append(s, c) /\ frame'[t].kept[3] = Append(s, c)
  BY <1>9 DEF Filtering
<1>11. /\ chunks' = chunks /\ dense_vectors' = dense_vectors
       /\ tokenized_corpus' = tokenized_corpus /\ chunk_map' = chunk_map
  BY <1>5 DEF rows
<1>12. \A x : Filtered(x, n + 1) <=> Filtered(x, n) \/ x = c
  <2>1. \A m \in DOMAIN chunks : m < n + 1 <=> m < n \/ m = n
    BY <1>3
  <2> QED BY <1>6, <1>11, <2>1 DEF Filtered
<1>13. /\ Append(s, c) \in Seq(Chunks) /\ Len(Append(s, c)) = Len(s) + 1 /\ Len(s) \in Nat
       /\ \A m \in 1..Len(s) : Append(s, c)[m] = s[m]
       /\ Append(s, c)[Len(s) + 1] = c /\ Range(Append(s, c)) = Range(s) \cup {c}
  BY <1>3, <1>6, Longer, SMTT(30)
<1>14. ASSUME NEW x \in Chunks
       PROVE  x \in Range(s) <=> Filtered(x, n) /\ IdOf[x] \notin f.targets
  BY <1>2 DEF Halfway
<1>15. ASSUME NEW m \in 1..Len(s) PROVE IdOf[s[m]] # IdOf[c]
  <2>1. s[m] \in Chunks /\ s[m] \in Range(s)
    BY <1>3 DEF Range
  <2>2. PICK k \in DOMAIN chunks : k < n /\ chunks[k] = s[m]
    BY <1>14, <2>1 DEF Filtered
  <2>3. k # n /\ n \in DOMAIN chunks
    BY <1>3, <1>6, <2>2
  <2> QED BY <1>2, <2>2, <2>3 DEF Once
<1>16. Once(Append(s, c))
  <2>1. DOMAIN Append(s, c) = 1..Len(s) + 1 /\ DOMAIN s = 1..Len(s)
    BY <1>3, <1>13
  <2>2. \A m \in 1..Len(s) + 1 : m = Len(s) + 1 \/ m \in 1..Len(s)
    BY <1>13
  <2> HIDE DEF c, s
  <2> QED BY <1>8, <1>13, <1>15, <2>1, <2>2 DEF Once
<1>17. ASSUME NEW x \in Chunks
       PROVE  x \in Range(Append(s, c)) <=> Filtered(x, n + 1) /\ IdOf[x] \notin f.targets
  BY <1>5, <1>12, <1>13, <1>14
<1>18. ASSUME NEW x \in Chunks
       PROVE  chunk_map[IdOf[x]] = x <=>
                x \in Range(chunks) /\ ~(Filtered(x, n + 1) /\ IdOf[x] \in f.targets)
  <2>1. chunk_map[IdOf[x]] = x <=>
           x \in Range(chunks) /\ ~(Filtered(x, n) /\ IdOf[x] \in f.targets)
    BY <1>2 DEF Halfway
  <2> QED BY <1>5, <1>12, <2>1
<1>19. n + 1 <= Len(chunks) + 1 /\ Both(0)'
  BY <1>2, <1>3, <1>5, <1>11 DEF Halfway, Both, Prefix
<1> HIDE DEF n, c, s
<1>20. Halfway(t)'
  <2>1. \A x \in Chunks : Filtered(x, frame[t].idx)' <=> Filtered(x, n + 1)
    BY <1>10, <1>11 DEF Filtered
  <2> QED BY <1>10, <1>11, <1>16, <1>17, <1>18, <1>19, <2>1 DEF Halfway, Once
<1>21. RowsOf(t)' /\ Writer(t)'
  BY <1>2, <1>10, <1>11, <1>20 DEF RowsOf, Once, Writer, Writes
<1> QED BY <1>1, <1>21, RowsAfterWrite

\* All rows filtered: the kept ones are those whose chunk is no target.
LEMMA AllFiltered ==
  ASSUME Typed, NEW t \in Threads, Halfway(t), frame[t].at = "filter", frame[t].idx > Len(chunks)
  PROVE  \A x \in Chunks :
            /\ x \in Range(frame[t].kept[1]) <=>
                  x \in Range(chunks) /\ IdOf[x] \notin frame[t].targets
            /\ x \in Range(frame[t].kept[1]) <=> chunk_map[IdOf[x]] = x
<1>1. chunks \in Seq(Chunks) /\ frame[t].idx \in Nat
  BY InHand DEF Typed, StoreTyped
<1>2. \A x : Filtered(x, frame[t].idx) <=> x \in Range(chunks)
  <2>1. \A m \in DOMAIN chunks : m < frame[t].idx
    BY <1>1
  <2> QED BY <2>1 DEF Filtered, Range
<1> QED BY <1>2 DEF Halfway

LEMMA RowsReplace ==
  ASSUME Typed, Solo, Solo', Rows, NEW t \in Threads, ReplaceLists(t), Observe
  PROVE  Rows'
<1> SUFFICES ASSUME ~clashed' PROVE Rows'
  BY DEF Rows
<1> DEFINE f == frame[t]
           s == f.kept[1]
<1>1. ~clashed /\ Aside(t) /\ f.at = "filter" /\ Writer(t)
  BY Clash, ProceedsAside DEF ReplaceLists, Proceed, At, Writer, Writes
<1>2. Once(chunks) /\ Halfway(t) /\ f.list = None
  BY <1>1, AtWork DEF RowsOf, Halfway
<1>3. f.idx > Len(chunks) /\ chunks' = s /\ chunk_map' = chunk_map
  BY <1>2 DEF ReplaceLists, Iterated
<1>4. dense_vectors' = s /\ tokenized_corpus' = s /\ Once(s)
  BY <1>2 DEF ReplaceLists, Halfway
<1>5. frame'[t].at = "recount"
  BY DEF ReplaceLists
<1>6. \A x \in Chunks : x \in Range(s) <=> chunk_map[IdOf[x]] = x
  BY <1>1, <1>2, <1>3, AllFiltered
<1>7. s \in Seq(Chunks)
  BY <1>1, InHand
<1> HIDE DEF s
<1>8. Mapped'
  BY <1>3, <1>6 DEF Mapped, Maps
<1>9. Both(0)'
  <2>1. Len(s) + 0 = Len(s)
    BY <1>7
  <2> QED BY <1>3, <1>4, <2>1 DEF Both, Prefix
<1>10. RowsOf(t)' /\ Writer(t)'
  BY <1>3, <1>4, <1>5, <1>8, <1>9 DEF RowsOf, Once, Writer, Writes
<1> QED BY <1>1, <1>10, RowsAfterWrite

LEMMA RowsRecount ==
  ASSUME Typed, Solo, Solo', Rows, NEW t \in Threads, RecountRows(t), Observe
  PROVE  Rows'
<1> SUFFICES ASSUME ~clashed' PROVE Rows'
  BY DEF Rows
<1>1. ~clashed /\ Aside(t) /\ frame[t].at = "recount" /\ Writer(t)
  BY Clash, Goes DEF RecountRows, At, Writer, Writes
<1>2. Once(chunks) /\ Both(0) /\ Mapped
  BY <1>1, AtWork DEF RowsOf
<1>3. ~Writer(t)'
  BY Moves DEF RecountRows, Idle, Writer, Writes
<1>4. AtRest'
  BY <1>2 DEF RecountRows, AtRest, Both, Prefix, Mapped, Maps, Once, rows
<1> QED BY <1>1, <1>3, <1>4, RowsAfterWrite

\* The steps of a search once the store has chunks.
Seeks(t) ==
    \/ search_dense(t) \/ RankDense(t) \/ search_sparse_bm25(t) \/ ScoreSparse(t)
    \/ PickSparse(t) \/ Fuse(t) \/ Return(t)

Seeking == {"dense", "rank", "sparse", "scan", "pick", "fuse", "reply"}

LEMMA SeeksBeside ==
  ASSUME Typed, NEW t \in Threads, Seeks(t)
  PROVE  /\ UNCHANGED <<rows, chunk_map, corpus_size>> /\ Others(t) /\ Aside(t)
         /\ frame[t].at \in Seeking /\ frame'[t].at \in Seeking \cup {"idle"}
         /\ ~Writer(t) /\ ~Writer(t)'
<1>1. ASSUME NEW g, Goto(t, g), g.at \in Seeking \cup {"idle"}, frame[t].at \in Seeking,
             UNCHANGED <<rows, chunk_map, corpus_size>>
      PROVE  /\ UNCHANGED <<rows, chunk_map, corpus_size>> /\ Others(t) /\ Aside(t)
             /\ frame[t].at \in Seeking /\ frame'[t].at \in Seeking \cup {"idle"}
             /\ ~Writer(t) /\ ~Writer(t)'
  BY <1>1, Moves, Goes DEF Writer, Writes, Seeking
<1>2. ASSUME NEW r, NEW H, Reply(t, r, H), frame[t].at \in Seeking,
             UNCHANGED <<rows, chunk_map, corpus_size>>
      PROVE  \E g : Goto(t, g) /\ g.at \in Seeking \cup {"idle"}
  BY <1>2 DEF Reply, Seeking
<1>3. CASE search_dense(t) BY <1>1, <1>2, <1>3 DEF search_dense, At, Seeking
<1>4. CASE RankDense(t) BY <1>1, <1>2, <1>4 DEF RankDense, At, Seeking
<1>5. CASE search_sparse_bm25(t) BY <1>1, <1>5 DEF search_sparse_bm25, At, Seeking
<1>6. CASE ScoreSparse(t) BY <1>1, <1>2, <1>6 DEF ScoreSparse, At, Seeking
<1>7. CASE PickSparse(t) BY <1>1, <1>2, <1>7 DEF PickSparse, At, Seeking
<1>8. CASE Fuse(t) BY <1>1, <1>2, <1>8 DEF Fuse, At, Seeking
<1>9. CASE Return(t) BY <1>1, <1>9 DEF Return, Idle, At, Seeking
<1> QED BY <1>3, <1>4, <1>5, <1>6, <1>7, <1>8, <1>9 DEF Seeks

LEMMA RowsStep ==
  ASSUME Typed, Solo, Solo', Rows, Observe, NEW t \in Threads, Does(t)
  PROVE  Rows'
<1>1. ASSUME Seeks(t) PROVE Rows'
  BY <1>1, Clash, SeeksBeside, RowsAfterOther DEF Rows
<1>2. ASSUME Proceed(t) PROVE Rows'
  BY <1>1, <1>2, RowsAppend, RowsMap, RowsEmbed, RowsTokenize, RowsCount, RowsFilterTarget,
     RowsFilterKept, RowsReplace, RowsRecount DEF Proceed, Seeks
<1> QED BY <1>2, RowsIngest, RowsSearch, RowsDelete, RowsCount DEF Does, Ingested

\* Whatever step a write is at, the vectors and the words are those of the first
\* chunks, and no vector is behind its words.
LEMMA Aligned ==
  ASSUME Typed, Rows, ~clashed
  PROVE  /\ Len(tokenized_corpus) <= Len(dense_vectors) /\ Len(dense_vectors) <= Len(chunks)
         /\ \A n \in 1..Len(dense_vectors) : dense_vectors[n] = chunks[n]
         /\ \A n \in 1..Len(tokenized_corpus) : tokenized_corpus[n] = chunks[n]
         /\ Once(chunks)
<1>1. /\ Len(tokenized_corpus) \in Nat /\ Len(dense_vectors) \in Nat /\ Len(chunks) \in Nat
  BY DEF Typed, StoreTyped
<1>2. CASE \A t \in Threads : ~Writer(t)
  BY <1>1, <1>2 DEF Rows, AtRest, Both, Prefix
<1>3. ASSUME NEW t \in Threads, Writer(t)
      PROVE  /\ Len(tokenized_corpus) <= Len(dense_vectors) /\ Len(dense_vectors) <= Len(chunks)
             /\ \A n \in 1..Len(dense_vectors) : dense_vectors[n] = chunks[n]
             /\ \A n \in 1..Len(tokenized_corpus) : tokenized_corpus[n] = chunks[n]
             /\ Once(chunks)
  <2>1. RowsOf(t)
    BY <1>3 DEF Rows
  <2>2. CASE frame[t].at \in {"append", "recount"}
    BY <1>1, <2>1, <2>2 DEF RowsOf, Both, Prefix
  <2>3. CASE frame[t].at \in {"map", "embed", "tokenize"}
    BY <1>1, <2>1, <2>3 DEF RowsOf, Adding1, Prefix
  <2>4. CASE frame[t].at = "filter"
    BY <1>1, <2>1, <2>4 DEF RowsOf, Halfway, Both, Prefix
  <2> QED BY <1>3, <2>2, <2>3, <2>4 DEF Writer, Writes
<1> QED BY <1>2, <1>3

LEMMA RowsTheorem == ASSUME Typed, Rows PROVE RowsAgree
<1>1. TypeOK
  BY DEF Typed, StoreTyped, FramesTyped, Shaped, TypeOK
<1> SUFFICES ASSUME ~clashed
             PROVE  /\ \A n \in DOMAIN dense_vectors :
                         n \in DOMAIN chunks /\ dense_vectors[n] = chunks[n]
                    /\ \A n \in DOMAIN tokenized_corpus :
                         n \in DOMAIN chunks /\ tokenized_corpus[n] = chunks[n]
                    /\ Adders \cup Deleters = {} =>
                         /\ Len(dense_vectors) = Len(chunks) /\ Len(tokenized_corpus) = Len(chunks)
                         /\ corpus_size = Len(chunks)
                         /\ \A c \in Chunks : c \in Range(chunks) <=> chunk_map[IdOf[c]] = c
                         /\ \A m, n \in DOMAIN chunks : IdOf[chunks[m]] = IdOf[chunks[n]] => m = n
  BY <1>1 DEF RowsAgree
<1>2. /\ DOMAIN dense_vectors = 1..Len(dense_vectors) /\ Len(dense_vectors) \in Nat
      /\ DOMAIN tokenized_corpus = 1..Len(tokenized_corpus) /\ Len(tokenized_corpus) \in Nat
      /\ DOMAIN chunks = 1..Len(chunks) /\ Len(chunks) \in Nat
  BY DEF Typed, StoreTyped
<1>3. Adders \cup Deleters = {} => AtRest
  BY DEF Adders, Deleters, Rows, Writer, Writes
<1>4. ASSUME AtRest
      PROVE  /\ Len(dense_vectors) = Len(chunks) /\ Len(tokenized_corpus) = Len(chunks)
             /\ corpus_size = Len(chunks)
             /\ \A c \in Chunks : c \in Range(chunks) <=> chunk_map[IdOf[c]] = c
             /\ \A m, n \in DOMAIN chunks : IdOf[chunks[m]] = IdOf[chunks[n]] => m = n
  <2>1. Len(dense_vectors) = Len(chunks) /\ Len(tokenized_corpus) = Len(chunks)
    <3>1. Len(dense_vectors) \in Nat /\ Len(tokenized_corpus) \in Nat
      BY <1>2
    <3>2. Len(dense_vectors) + 0 = Len(chunks) /\ Len(tokenized_corpus) + 0 = Len(chunks)
      BY <1>4 DEF AtRest, Both, Prefix
    <3> QED BY <3>1, <3>2
  <2>2. corpus_size = Len(chunks) /\ \A c \in Chunks : c \in Range(chunks) <=> chunk_map[IdOf[c]] = c
    BY <1>4 DEF AtRest, Mapped, Maps
  <2>3. \A m, n \in DOMAIN chunks : IdOf[chunks[m]] = IdOf[chunks[n]] => m = n
    BY <1>4 DEF AtRest, Once
  <2> QED BY <2>1, <2>2, <2>3
<1>5. \A n \in DOMAIN dense_vectors : n \in DOMAIN chunks /\ dense_vectors[n] = chunks[n]
  BY <1>2, Aligned
<1>6. \A n \in DOMAIN tokenized_corpus : n \in DOMAIN chunks /\ tokenized_corpus[n] = chunks[n]
  BY <1>2, Aligned
<1> QED BY <1>3, <1>4, <1>5, <1>6

-----------------------------------------------------------------------------
\* Searches.
LEMMA Observed ==
  ASSUME Typed, Observe, NEW t \in Threads, Searching(t)'
  PROVE  /\ met'[t] = met[t] \cup Overlaps(t)'
         /\ before'[t] = IF Searching(t) THEN before[t] ELSE Range(tokenized_corpus)
         /\ "delete" \notin met'[t] =>
              \A u \in Threads : u # t => frame'[u].at \notin {"filter", "recount"}
         /\ met'[t] = {} => \A u \in Threads : u # t => ~Writer(u)'
<1>1. /\ met'[t] = met[t] \cup Overlaps(t)'
      /\ before'[t] = IF Searching(t) THEN before[t] ELSE Range(tokenized_corpus)
  BY DEF Observe
<1>2. "delete" \notin Overlaps(t)' =>
        \A u \in Threads : u # t => frame'[u].at \notin {"filter", "recount"}
  BY DEF Overlaps, Deleters
<1>3. "add" \notin Overlaps(t)' =>
        \A u \in Threads : u # t => frame'[u].at \notin {"append", "map", "embed", "tokenize"}
  BY DEF Overlaps, Adders
<1> QED BY <1>1, <1>2, <1>3 DEF Writer, Writes

LEMMA Growing ==
  ASSUME NEW s \in Seq(Chunks), NEW r \in Seq(Chunks), NEW c \in Chunks, r = s \/ r = Append(s, c)
  PROVE  /\ Range(s) \subseteq Range(r) /\ Len(s) <= Len(r)
         /\ \A n \in 1..Len(s) : r[n] = s[n] /\ n \in DOMAIN r
<1>1. CASE r = s
  BY <1>1
<1>2. CASE r = Append(s, c)
  BY <1>2, Longer
<1> QED BY <1>1, <1>2

\* A step of a thread that is in no deletion leaves the rows there are as they are.
LEMMA Grown ==
  ASSUME Typed, NEW t \in Threads, Does(t), frame[t].at \notin {"filter", "recount"}
  PROVE  /\ Range(chunks) \subseteq Range(chunks') /\ Len(chunks) <= Len(chunks')
         /\ \A n \in 1..Len(chunks) : chunks'[n] = chunks[n] /\ n \in DOMAIN chunks'
         /\ Range(tokenized_corpus) \subseteq Range(tokenized_corpus')
<1>1. chunks \in Seq(Chunks) /\ tokenized_corpus \in Seq(Chunks)
  BY DEF Typed, StoreTyped
<1> DEFINE Thesis ==
         /\ Range(chunks) \subseteq Range(chunks') /\ Len(chunks) <= Len(chunks')
         /\ \A n \in 1..Len(chunks) : chunks'[n] = chunks[n] /\ n \in DOMAIN chunks'
         /\ Range(tokenized_corpus) \subseteq Range(tokenized_corpus')
<1>2. ASSUME NEW c \in Chunks, chunks' = chunks \/ chunks' = Append(chunks, c),
             tokenized_corpus' = tokenized_corpus \/ tokenized_corpus' = Append(tokenized_corpus, c)
      PROVE  Thesis
  <2>1. Append(chunks, c) \in Seq(Chunks) /\ Append(tokenized_corpus, c) \in Seq(Chunks)
    BY <1>1
  <2>2. chunks' \in Seq(Chunks) /\ tokenized_corpus' \in Seq(Chunks)
    BY <1>1, <1>2, <2>1
  <2> QED BY <1>1, <1>2, <2>2, Growing
<1>3. ASSUME chunks' = chunks, tokenized_corpus' = tokenized_corpus PROVE Thesis
  BY <1>1, <1>3
<1> SUFFICES Thesis
  OBVIOUS
<1> HIDE DEF Thesis
<1>4. CASE AppendChunk(t) \/ MapChunk(t) \/ AppendVector(t) \/ AppendTokens(t)
  <2>1. Head(frame[t].todo) \in Chunks
    BY <1>4, InHand, First DEF AppendChunk, MapChunk, AppendVector, AppendTokens, At
  <2>2. chunks' = chunks \/ chunks' = Append(chunks, Head(frame[t].todo))
    BY <1>4 DEF AppendChunk, MapChunk, AppendVector, AppendTokens, rows
  <2>3. \/ tokenized_corpus' = tokenized_corpus
        \/ tokenized_corpus' = Append(tokenized_corpus, Head(frame[t].todo))
    BY <1>4 DEF AppendChunk, MapChunk, AppendVector, AppendTokens, rows
  <2> DEFINE c == Head(frame[t].todo)
  <2> HIDE DEF c
  <2> QED BY <1>2, <2>1, <2>2, <2>3 DEF c
<1>5. CASE CountRows(t)
  BY <1>3, <1>5 DEF CountRows, rows
<1>6. CASE search(t)
  BY <1>3, <1>6 DEF search, rows
<1>7. CASE \E u \in Uploads : ingest(t, u)
  BY <1>3, <1>7 DEF ingest, rows
<1>8. CASE \E n \in Names : delete_document(t, n)
  BY <1>3, <1>8 DEF delete_document, rows
<1>9. CASE Seeks(t)
  BY <1>3, <1>9, SeeksBeside DEF rows
<1>10. CASE Proceed(t)
  <2>1. ~FilterTarget(t) /\ ~FilterKept(t) /\ ~ReplaceLists(t) /\ ~RecountRows(t)
    BY DEF At, FilterTarget, FilterKept, ReplaceLists, RecountRows
  <2> QED BY <1>4, <1>5, <1>9, <1>10, <2>1 DEF Proceed, Seeks
<1> QED BY <1>5, <1>6, <1>7, <1>8, <1>10 DEF Does, Ingested

\* A thread that is in no write leaves the store alone.
LEMMA LeftAlone ==
  ASSUME Typed, NEW t \in Threads, Does(t), ~Writer(t)
  PROVE  UNCHANGED <<rows, chunk_map, corpus_size>>
<1>1. CASE Seeks(t)
  BY <1>1, SeeksBeside
<1>2. CASE search(t) \/ \E u \in Uploads : ingest(t, u)
  BY <1>2 DEF search, ingest
<1>3. CASE \E n \in Names : delete_document(t, n)
  BY <1>3 DEF delete_document
<1> QED BY <1>1, <1>2, <1>3
        DEF Does, Ingested, Proceed, Seeks, Writer, Writes, At, AppendChunk, MapChunk, AppendVector,
            AppendTokens, CountRows, FilterTarget, FilterKept, ReplaceLists, RecountRows

\* A search beside the step of another thread.
LEMMA SearchBeside ==
  ASSUME Typed, Searches, Observe, NEW t \in Threads, Does(t), ~clashed',
         NEW u \in Threads, u # t, Searching(u)'
  PROVE  /\ "delete" \notin met'[u] => Sound(u)'
         /\ met'[u] = {} => Undisturbed(u)'
<1>1. /\ frame'[u].at = frame[u].at
      /\ frame[u].at # "filter" => frame'[u] = frame[u]
  BY DoesAside DEF Aside
<1>2. Searching(u) /\ frame'[u] = frame[u]
  BY <1>1 DEF Searching, Adders
<1>3. ~clashed /\ met'[u] = met[u] \cup Overlaps(u)' /\ before'[u] = before[u]
  BY <1>2, Clash, Observed
<1>4. ASSUME "delete" \notin met'[u] PROVE Sound(u)'
  <2>1. Sound(u)
    BY <1>2, <1>3, <1>4 DEF Searches
  <2>2. frame[t].at \notin {"filter", "recount"}
    BY <2>1 DEF Sound
  <2>3. /\ Range(chunks) \subseteq Range(chunks') /\ Len(chunks) <= Len(chunks')
        /\ \A n \in 1..Len(chunks) : chunks'[n] = chunks[n] /\ n \in DOMAIN chunks'
        /\ Range(tokenized_corpus) \subseteq Range(tokenized_corpus')
    BY <2>2, Grown
  <2>4. before[u] \subseteq Range(tokenized_corpus) /\ Finds(frame[u], before[u])
    BY <2>1 DEF Sound
  <2>5. Finds(frame[u], before[u])'
    <3>1. /\ Len(chunks) \in Nat /\ Len(chunks') \in Nat /\ DOMAIN chunks = 1..Len(chunks)
          /\ frame[u].at = "rank" => Len(frame[u].matrix) \in Nat
      BY InHand, TypedStep DEF Typed, StoreTyped
    <3>2. /\ frame'[u].at = "rank" =>
              /\ Len(frame'[u].matrix) <= Len(chunks')
              /\ \A n \in 1..Len(frame'[u].matrix) : frame'[u].matrix[n] = chunks'[n]
              /\ before'[u] \subseteq Range(frame'[u].matrix)
      BY <1>2, <1>3, <2>3, <2>4, <3>1 DEF Finds
    <3>3. /\ frame'[u].at \in {"sparse", "scan", "pick", "fuse"} =>
              /\ \A h \in frame'[u].hits : h[1] = h[2] /\ h[1] \in Range(chunks')
              /\ \A c \in before'[u] : <<c, c>> \in frame'[u].hits
      BY <1>2, <1>3, <2>3, <2>4 DEF Finds
    <3>4. frame'[u].at = "pick" =>
             \A x \in frame'[u].found : x[1] \in DOMAIN chunks' /\ chunks'[x[1]] = x[2]
      BY <1>2, <2>3, <2>4, <3>1 DEF Finds
    <3>5. frame'[u].at = "reply" =>
              /\ \A h \in frame'[u].hits : h[1] = h[2]
              /\ frame'[u].reply # Error => before'[u] \subseteq frame'[u].reply
      BY <1>2, <1>3, <2>4 DEF Finds
    <3> QED BY <3>2, <3>3, <3>4, <3>5 DEF Finds
  <2>6. \A w \in Threads : w # u => frame'[w].at \notin {"filter", "recount"}
    BY <1>4, Observed
  <2>7. before'[u] \subseteq Range(tokenized_corpus')
    BY <1>3, <2>3, <2>4
  <2> QED BY <2>5, <2>6, <2>7 DEF Sound
<1>5. ASSUME met'[u] = {} PROVE Undisturbed(u)'
  <2>1. Undisturbed(u)
    BY <1>2, <1>3, <1>5 DEF Searches
  <2>2. ~Writer(t) /\ Succeeds(frame[u])
    BY <2>1 DEF Undisturbed
  <2>3. chunks' = chunks
    BY <2>2, LeftAlone DEF rows
  <2>4. Succeeds(frame[u])'
    BY <1>2, <2>2, <2>3 DEF Succeeds
  <2> QED BY <1>5, <2>4, Observed DEF Undisturbed
<1> QED BY <1>4, <1>5

\* A search that has hold of nothing yet.
LEMMA SearchEarly ==
  ASSUME Typed, Observe, NEW t \in Threads, Searching(t)',
         frame'[t].at \in Writes \cup {"dense"},
         "delete" \notin met'[t] => before'[t] \subseteq Range(tokenized_corpus')
  PROVE  /\ "delete" \notin met'[t] => Sound(t)'
         /\ met'[t] = {} => Undisturbed(t)'
<1>1. frame'[t].at \notin {"rank", "sparse", "scan", "pick", "fuse", "reply"}
  BY DEF Writes
<1>2. Succeeds(frame[t])'
  BY <1>1 DEF Succeeds
<1>3. Finds(frame[t], before[t])'
  BY <1>1 DEF Finds
<1> QED BY <1>2, <1>3, Observed DEF Sound, Undisturbed

\* Steps from nowhere, and those that add chunks.
LEMMA SearchAdds ==
  ASSUME Typed, Searches, Observe, NEW t \in Threads, Does(t), ~clashed', Searching(t)', ~Seeks(t)
  PROVE  /\ "delete" \notin met'[t] => Sound(t)'
         /\ met'[t] = {} => Undisturbed(t)'
<1>1. CASE search(t)
  <2>1. frame'[t].at \in Writes \cup {"dense"}
    BY <1>1, Moves DEF search, Adding, Writes
  <2>2. ~Searching(t) /\ tokenized_corpus' = tokenized_corpus
    BY <1>1 DEF search, At, Searching, Adders, rows
  <2>3. before'[t] = Range(tokenized_corpus')
    BY <2>2, Observed
  <2> QED BY <2>1, <2>3, SearchEarly
<1>2. CASE AppendChunk(t) \/ MapChunk(t) \/ AppendVector(t) \/ AppendTokens(t) \/ CountRows(t)
  <2>1. /\ frame[t].at \in {"append", "map", "embed", "tokenize"}
        /\ frame[t] = [at |-> frame[t].at, todo |-> frame[t].todo, query |-> frame[t].query]
    BY <1>2, InHand DEF AppendChunk, MapChunk, AppendVector, AppendTokens, CountRows, At
  <2>2. /\ frame'[t].at \in Writes \cup {"dense", "idle"}
        /\ frame'[t].at \in Writes => frame'[t].query = frame[t].query
        /\ frame'[t].at = "dense" => frame[t].query
    <3>1. CASE AppendChunk(t)
      BY <2>1, <3>1, Moves DEF AppendChunk, Step, Writes
    <3>2. CASE MapChunk(t)
      BY <2>1, <3>2, Moves DEF MapChunk, Step, Writes
    <3>3. CASE AppendVector(t)
      BY <2>1, <3>3, Moves DEF AppendVector, Step, Writes
    <3>4. CASE AppendTokens(t)
      BY <2>1, <3>4, Moves DEF AppendTokens, Adding, Writes
    <3>5. CASE CountRows(t)
      BY <2>1, <3>5, Moves DEF CountRows, Idle, Writes
    <3> QED BY <1>2, <3>1, <3>2, <3>3, <3>4, <3>5
  <2>3. Searching(t)
    BY <2>1, <2>2 DEF Searching, Adders, Writes
  <2>4. frame'[t].at \in Writes \cup {"dense"}
    BY <2>2 DEF Searching, Adders
  <2>5. /\ before'[t] = before[t] /\ met'[t] = met[t] \cup Overlaps(t)' /\ ~clashed
        /\ Range(tokenized_corpus) \subseteq Range(tokenized_corpus')
    BY <2>1, <2>3, Observed, Clash, Grown
  <2>6. "delete" \notin met[t] => before[t] \subseteq Range(tokenized_corpus)
    BY <2>3, <2>5 DEF Searches, Sound
  <2>7. "delete" \notin met'[t] => before'[t] \subseteq Range(tokenized_corpus')
    BY <2>5, <2>6
  <2> QED BY <2>4, <2>7, SearchEarly
<1>3. ASSUME NEW u \in Uploads, ingest(t, u) PROVE FALSE
  BY <1>3, Moves DEF ingest, Adding, Searching, Adders
<1>4. ASSUME NEW n \in Names, delete_document(t, n) PROVE FALSE
  BY <1>4, Moves DEF delete_document, Filtering, Searching, Adders
<1>5. ASSUME FilterTarget(t) PROVE FALSE
  <2>1. frame[t] = [at |-> "filter", targets |-> frame[t].targets, list |-> frame[t].list,
                    idx |-> frame[t].idx, kept |-> frame[t].kept]
    BY <1>5, InHand DEF FilterTarget, At
  <2> QED BY <1>5, <2>1, Moves DEF FilterTarget, Searching, Adders
<1>6. ASSUME FilterKept(t) PROVE FALSE
  BY <1>6, Moves DEF FilterKept, Filtering, Idle, Searching, Adders
<1>7. ASSUME ReplaceLists(t) PROVE FALSE
  BY <1>7 DEF ReplaceLists, Searching, Adders
<1>8. ASSUME RecountRows(t) PROVE FALSE
  BY <1>8, Moves DEF RecountRows, Idle, Searching, Adders
<1>9. CASE Proceed(t)
  BY <1>2, <1>5, <1>6, <1>7, <1>8, <1>9 DEF Proceed, Seeks
<1> QED BY <1>1, <1>2, <1>3, <1>4, <1>9 DEF Does, Ingested

\* A step of a search that goes on: the rows it is in stand as they were.
LEMMA SeekSound ==
  ASSUME Typed, Searches, Observe, NEW t \in Threads, Seeks(t), Searching(t)', ~clashed',
         Sound(t) => Finds(frame'[t], before[t]),
         Sound(t) /\ Undisturbed(t) => Succeeds(frame'[t])
  PROVE  /\ "delete" \notin met'[t] => Sound(t)'
         /\ met'[t] = {} => Undisturbed(t)'
<1>1. /\ chunks' = chunks /\ tokenized_corpus' = tokenized_corpus /\ ~clashed /\ Searching(t)
  BY SeeksBeside, Clash DEF Searching, Seeking, rows
<1>2. before'[t] = before[t] /\ met'[t] = met[t] \cup Overlaps(t)'
  BY <1>1, Observed
<1>3. "delete" \notin met'[t] => Sound(t)
  BY <1>1, <1>2 DEF Searches
<1>4. met'[t] = {} => Sound(t) /\ Undisturbed(t)
  BY <1>1, <1>2 DEF Searches
<1>5. Finds(frame'[t], before[t]) => Finds(frame[t], before[t])'
  BY <1>1, <1>2 DEF Finds
<1>6. Succeeds(frame'[t]) => Succeeds(frame[t])'
  BY <1>1 DEF Succeeds
<1> QED BY <1>1, <1>2, <1>3, <1>4, <1>5, <1>6, Observed DEF Sound, Undisturbed

LEMMA SeekDense ==
  ASSUME Typed, Rows, ~clashed, NEW t \in Threads, search_dense(t), Sound(t)
  PROVE  /\ Finds(frame'[t], before[t])
         /\ Undisturbed(t) => Succeeds(frame'[t])
<1>1. /\ Len(tokenized_corpus) <= Len(dense_vectors) /\ Len(dense_vectors) <= Len(chunks)
      /\ \A n \in 1..Len(dense_vectors) : dense_vectors[n] = chunks[n]
      /\ \A n \in 1..Len(tokenized_corpus) : tokenized_corpus[n] = chunks[n]
  BY Aligned
<1>2. /\ Len(tokenized_corpus) \in Nat /\ Len(dense_vectors) \in Nat /\ Len(chunks) \in Nat
      /\ DOMAIN tokenized_corpus = 1..Len(tokenized_corpus)
      /\ DOMAIN dense_vectors = 1..Len(dense_vectors)
      /\ chunks = <<>> <=> Len(chunks) = 0
      /\ dense_vectors = <<>> <=> Len(dense_vectors) = 0
  BY DEF Typed, StoreTyped
<1>3. before[t] \subseteq Range(tokenized_corpus)
  BY DEF Sound
<1>4. Range(tokenized_corpus) \subseteq Range(dense_vectors)
  BY <1>1, <1>2 DEF Range
<1>5. CASE chunks # <<>> /\ dense_vectors = <<>>
  <2>1. frame'[t].at = "reply" /\ frame'[t].reply = Error /\ frame'[t].hits = {}
    BY <1>5, Moves DEF search_dense, Reply
  <2>2. Finds(frame'[t], before[t])
    BY <2>1 DEF Finds
  <2>3. ASSUME Undisturbed(t) PROVE FALSE
    <3>1. \A u \in Threads : ~Writer(u)
      BY <2>3 DEF Undisturbed, search_dense, At, Writer, Writes
    <3>2. Len(dense_vectors) + 0 = Len(chunks)
      BY <3>1 DEF Rows, AtRest, Both, Prefix
    <3> QED BY <1>2, <1>5, <3>2
  <2> QED BY <2>2, <2>3
<1>6. CASE ~(chunks # <<>> /\ dense_vectors = <<>>)
  <2> DEFINE m == IF chunks = <<>> THEN <<>> ELSE dense_vectors
  <2>1. m = dense_vectors
    BY <1>1, <1>2
  <2>2. frame'[t].at = "rank" /\ frame'[t].matrix = dense_vectors
    BY <1>6, <2>1, Moves DEF search_dense
  <2>3. Finds(frame'[t], before[t])
    BY <1>1, <1>3, <1>4, <2>2 DEF Finds
  <2> QED BY <2>2, <2>3 DEF Succeeds
<1> QED BY <1>5, <1>6

LEMMA SeekRank ==
  ASSUME Typed, NEW t \in Threads, RankDense(t), Sound(t)
  PROVE  Finds(frame'[t], before[t]) /\ Succeeds(frame'[t])
<1> DEFINE m == frame[t].matrix
<1>1. m \in Seq(Chunks) /\ chunks \in Seq(Chunks) /\ DOMAIN m = 1..Len(m) /\ Len(m) \in Nat
  <2>1. m \in Seq(Chunks) /\ chunks \in Seq(Chunks)
    BY InHand DEF RankDense, At, Typed, StoreTyped
  <2> QED BY <2>1
<1>2. /\ Len(m) <= Len(chunks) /\ \A n \in 1..Len(m) : m[n] = chunks[n]
      /\ before[t] \subseteq Range(m)
  BY DEF Sound, Finds, RankDense, At
<1>3. frame'[t] = [at |-> "sparse", hits |-> {<<chunks[n], m[n]>> : n \in DOMAIN m}]
  BY <1>2, Moves DEF RankDense
<1>4. frame'[t].at = "sparse" /\ frame'[t].hits = {<<chunks[n], m[n]>> : n \in DOMAIN m}
  BY <1>3
<1>5. \A n \in DOMAIN m : n \in DOMAIN chunks /\ chunks[n] \in Range(chunks)
  BY <1>1, <1>2 DEF Range
<1>6. \A h \in frame'[t].hits : h[1] = h[2] /\ h[1] \in Range(chunks)
  BY <1>1, <1>2, <1>4, <1>5
<1>7. ASSUME NEW c \in before[t] PROVE <<c, c>> \in frame'[t].hits
  <2>1. PICK n \in DOMAIN m : m[n] = c
    BY <1>2 DEF Range
  <2>2. chunks[n] = c
    BY <1>1, <1>2, <2>1
  <2> QED BY <1>4, <2>1, <2>2
<1> QED BY <1>4, <1>6, <1>7 DEF Finds, Succeeds

LEMMA SeekSparse ==
  ASSUME Typed, Rows, ~clashed, NEW t \in Threads, search_sparse_bm25(t), Sound(t)
  PROVE  /\ Finds(frame'[t], before[t])
         /\ Undisturbed(t) => Succeeds(frame'[t])
<1>1. /\ frame'[t].at \in {"scan", "fuse"} /\ frame'[t].hits = frame[t].hits
      /\ frame'[t].at = "scan" => frame'[t].size = corpus_size
  BY Moves DEF search_sparse_bm25
<1>2. Finds(frame'[t], before[t])
  BY <1>1 DEF Sound, Finds, search_sparse_bm25, At
<1>3. ASSUME Undisturbed(t) PROVE corpus_size = Len(chunks)
  BY <1>3 DEF Undisturbed, search_sparse_bm25, At, Writer, Writes, Rows, AtRest
<1> QED BY <1>1, <1>2, <1>3 DEF Succeeds

LEMMA SeekScore ==
  ASSUME Typed, Rows, ~clashed, NEW t \in Threads, ScoreSparse(t), Sound(t)
  PROVE  /\ Finds(frame'[t], before[t])
         /\ Undisturbed(t) => Succeeds(frame'[t])
<1>1. /\ Len(dense_vectors) <= Len(chunks) /\ Len(tokenized_corpus) <= Len(dense_vectors)
      /\ \A n \in 1..Len(tokenized_corpus) : tokenized_corpus[n] = chunks[n]
  BY Aligned
<1>2. /\ Len(tokenized_corpus) \in Nat /\ Len(dense_vectors) \in Nat /\ Len(chunks) \in Nat
      /\ DOMAIN tokenized_corpus = 1..Len(tokenized_corpus) /\ DOMAIN chunks = 1..Len(chunks)
  BY DEF Typed, StoreTyped
<1>3. \A n \in Matching :
         n \in DOMAIN chunks /\ n <= Len(chunks) /\ chunks[n] = tokenized_corpus[n]
  BY <1>1, <1>2 DEF Matching
<1>4. CASE Goto(t, [at |-> "fuse", hits |-> frame[t].hits])
  <2>1. frame'[t].at = "fuse" /\ frame'[t].hits = frame[t].hits
    BY <1>4, Moves
  <2> QED BY <2>1 DEF Sound, Finds, ScoreSparse, At, Succeeds
<1>5. CASE Goto(t, [at |-> "pick", hits |-> frame[t].hits,
                    found |-> {<<n, tokenized_corpus[n]>> : n \in Matching}])
  <2>1. /\ frame'[t].at = "pick" /\ frame'[t].hits = frame[t].hits
        /\ frame'[t].found = {<<n, tokenized_corpus[n]>> : n \in Matching}
    BY <1>5, Moves
  <2>2. \A x \in frame'[t].found : x[1] \in DOMAIN chunks /\ chunks[x[1]] = x[2]
    BY <1>3, <2>1
  <2> QED BY <2>1, <2>2 DEF Sound, Finds, ScoreSparse, At, Succeeds
<1>6. CASE Reply(t, Error, {}) /\ ~(\A n \in Matching : n <= frame[t].size)
  <2>1. frame'[t].at = "reply" /\ frame'[t].reply = Error /\ frame'[t].hits = {}
    BY <1>6, Moves DEF Reply
  <2>2. ~Undisturbed(t)
    BY <1>3, <1>6 DEF Undisturbed, Succeeds, ScoreSparse, At
  <2> QED BY <2>1, <2>2 DEF Finds
<1> QED BY <1>4, <1>5, <1>6 DEF ScoreSparse

LEMMA SeekPick ==
  ASSUME Typed, NEW t \in Threads, PickSparse(t), Sound(t)
  PROVE  Finds(frame'[t], before[t]) /\ Succeeds(frame'[t])
<1> DEFINE F == frame[t].found
           H == {<<chunks[x[1]], x[2]>> : x \in F}
<1>1. /\ \A x \in F : x[1] \in DOMAIN chunks /\ chunks[x[1]] = x[2]
      /\ \A h \in frame[t].hits : h[1] = h[2] /\ h[1] \in Range(chunks)
      /\ \A c \in before[t] : <<c, c>> \in frame[t].hits
  BY DEF Sound, Finds, PickSparse, At
<1>2. frame'[t] = [at |-> "fuse", hits |-> frame[t].hits \cup H]
  BY <1>1, Moves DEF PickSparse
<1>3. frame'[t].at = "fuse" /\ frame'[t].hits = frame[t].hits \cup H
  BY <1>2
<1>4. \A h \in H : h[1] = h[2] /\ h[1] \in Range(chunks)
  BY <1>1 DEF Range
<1> HIDE DEF H
<1> QED BY <1>1, <1>3, <1>4 DEF Finds, Succeeds

\* What was indexed when the search began is in the map, also while a chunk is
\* being added.
LEMMA KnownMapped ==
  ASSUME Typed, Rows, ~clashed, NEW t \in Threads, Sound(t), frame[t].at = "fuse",
         NEW c \in before[t]
  PROVE  chunk_map[IdOf[c]] = c
<1>1. c \in Range(tokenized_corpus) /\ c \in Chunks
  BY RangeType DEF Sound, Typed, ObservedTyped, StoreTyped
<1>2. /\ Len(tokenized_corpus) \in Nat /\ Len(dense_vectors) \in Nat /\ Len(chunks) \in Nat
      /\ DOMAIN tokenized_corpus = 1..Len(tokenized_corpus) /\ DOMAIN chunks = 1..Len(chunks)
  BY DEF Typed, StoreTyped
<1>3. PICK n \in 1..Len(tokenized_corpus) : c = chunks[n] /\ n \in DOMAIN chunks
  <2>1. PICK n \in DOMAIN tokenized_corpus : tokenized_corpus[n] = c
    BY <1>1 DEF Range
  <2>2. n \in 1..Len(tokenized_corpus) /\ n \in DOMAIN chunks /\ tokenized_corpus[n] = chunks[n]
    BY <1>2, <2>1, Aligned
  <2> QED BY <2>1, <2>2
<1>4. c \in Range(chunks)
  BY <1>3 DEF Range
<1>5. ASSUME NEW u \in Threads, Writer(u) PROVE Maps(c)
  <2>1. RowsOf(u) /\ frame[u].at \notin {"filter", "recount"}
    BY <1>5 DEF Rows, Sound, Writer, Writes
  <2>2. CASE frame[u].at = "append"
    BY <1>1, <2>1, <2>2 DEF RowsOf, Mapped
  <2>3. CASE frame[u].at \in {"map", "embed", "tokenize"}
    <3>1. Adding1(u) /\ Once(chunks)
      BY <2>1, <2>3 DEF RowsOf
    <3>2. /\ Len(tokenized_corpus) + 1 = Len(chunks)
          /\ chunks[Len(chunks)] = Head(frame[u].todo)
      BY <3>1 DEF Adding1, Prefix
    <3>3. n # Len(chunks) /\ Len(chunks) \in DOMAIN chunks
      BY <1>2, <1>3, <3>2
    <3>4. c # Head(frame[u].todo)
      BY <1>3, <3>1, <3>2, <3>3 DEF Once
    <3> QED BY <1>1, <3>1, <3>4 DEF Adding1
  <2> QED BY <1>5, <2>1, <2>2, <2>3 DEF Writer, Writes
<1>6. CASE \A u \in Threads : ~Writer(u)
  BY <1>1, <1>4, <1>6 DEF Rows, AtRest, Mapped, Maps
<1> QED BY <1>4, <1>5, <1>6 DEF Maps

LEMMA SeekFuse ==
  ASSUME Typed, Rows, ~clashed, NEW t \in Threads, Fuse(t), Sound(t)
  PROVE  /\ Finds(frame'[t], before[t])
         /\ Undisturbed(t) => Succeeds(frame'[t])
<1> DEFINE S == {chunk_map[IdOf[h[1]]] : h \in frame[t].hits}
<1>1. /\ \A h \in frame[t].hits : h[1] = h[2] /\ h[1] \in Range(chunks)
      /\ \A c \in before[t] : <<c, c>> \in frame[t].hits
  BY DEF Sound, Finds, Fuse, At
<1>2. /\ frame'[t].at = "reply" /\ frame'[t].hits = frame[t].hits
      /\ frame'[t].reply = IF None \in S THEN Error ELSE S
  BY Moves DEF Fuse, Reply
<1>3. before[t] \subseteq S
  <2>1. ASSUME NEW c \in before[t] PROVE c \in S
    <3>1. <<c, c>> \in frame[t].hits /\ <<c, c>>[1] = c
      BY <1>1
    <3>2. chunk_map[IdOf[c]] = c
      BY KnownMapped DEF Fuse, At
    <3> QED BY <3>1, <3>2
  <2> QED BY <2>1
<1>4. Finds(frame'[t], before[t])
  <2> HIDE DEF S
  <2> QED BY <1>1, <1>2, <1>3 DEF Finds
<1>5. ASSUME Undisturbed(t) PROVE frame'[t].reply # Error
  <2>1. Mapped
    BY <1>5 DEF Undisturbed, Fuse, At, Writer, Writes, Rows, AtRest
  <2>2. Range(chunks) \subseteq Chunks
    BY RangeType DEF Typed, StoreTyped
  <2>3. \A h \in frame[t].hits : chunk_map[IdOf[h[1]]] \in Chunks
    BY <1>1, <2>1, <2>2 DEF Mapped, Maps
  <2>4. S \subseteq Chunks /\ None \notin Chunks
    BY <2>3, StoreAssumption
  <2>5. S # Error
    <3> HIDE DEF S
    <3> QED BY <2>4, StoreAssumption
  <2> HIDE DEF S
  <2> QED BY <1>2, <2>4, <2>5
<1> QED BY <1>2, <1>4, <1>5 DEF Succeeds

LEMMA SearchesStep ==
  ASSUME Typed, Rows, Searches, Observe, NEW t \in Threads, Does(t)
  PROVE  Searches'
<1> SUFFICES ASSUME ~clashed', NEW u \in Threads, Searching(u)'
             PROVE  /\ "delete" \notin met'[u] => Sound(u)'
                    /\ met'[u] = {} => Undisturbed(u)'
  BY DEF Searches
<1>1. ~clashed
  BY Clash
<1>2. CASE u # t
  BY <1>2, SearchBeside
<1>3. CASE u = t /\ ~Seeks(t)
  BY <1>3, SearchAdds
<1>4. CASE u = t /\ Seeks(t)
  <2>1. ~Return(t)
    BY <1>4, Moves DEF Return, Idle, Searching, Adders
  <2>2. /\ Sound(t) => Finds(frame'[t], before[t])
        /\ Sound(t) /\ Undisturbed(t) => Succeeds(frame'[t])
    BY <1>1, <1>4, <2>1, SeekDense, SeekRank, SeekSparse, SeekScore, SeekPick, SeekFuse DEF Seeks
  <2> QED BY <1>4, <2>2, SeekSound
<1> QED BY <1>2, <1>3, <1>4

-----------------------------------------------------------------------------
\* Reports.
RestClaims ==
    /\ IdsOf(claims) \subseteq Indexed
    /\ Indexed \subseteq IdsOf(claims \cup Range(Samples))

LEMMA ClaimsAfterWrite ==
  ASSUME Typed, Solo, Solo', NEW t \in Threads, Aside(t), ~clashed,
         Writer(t) \/ Writer(t)', Writer(t)' => ClaimsOf(t)', ~Writer(t)' => RestClaims'
  PROVE  Claims'
<1> SUFFICES ASSUME ~clashed'
             PROVE  /\ \A u \in Threads : ClaimsOf(u)'
                    /\ (\A u \in Threads : ~Writer(u)') => RestClaims'
  BY DEF Claims, RestClaims
<1>1. \A u \in Threads : u # t => (Writer(u)' <=> Writer(u))
  BY DEF Aside, Writer
<1>2. \A u \in Threads : Writer(u)' => u = t
  BY <1>1 DEF Solo
<1>3. \A u \in Threads : ~Writer(u)' => ClaimsOf(u)'
  BY DEF ClaimsOf, Adders, Writer, Writes
<1> QED BY <1>2, <1>3

LEMMA ClaimsAfterOther ==
  ASSUME Typed, Claims, NEW t \in Threads, Others(t), ~clashed, ~Writer(t), ~Writer(t)',
         chunks' = chunks, claims' = claims, upload' = upload
  PROVE  Claims'
<1>1. \A u \in Threads : Writer(u)' <=> Writer(u)
  BY DEF Others, Writer
<1>2. Indexed' = Indexed
  BY DEF Indexed, IdsOf
<1>3. ASSUME NEW u \in Threads PROVE ClaimsOf(u)'
  <2>1. CASE ~Writer(u)'
    BY <2>1 DEF ClaimsOf, Adders, Writer, Writes
  <2>2. CASE Writer(u)'
    <3>1. frame'[u] = frame[u] /\ ClaimsOf(u)
      BY <2>2 DEF Others, Claims
    <3> QED BY <1>2, <3>1 DEF ClaimsOf, Adders, IdsOf
  <2> QED BY <2>1, <2>2
<1>4. RestClaims => RestClaims'
  BY <1>2 DEF RestClaims, IdsOf
<1> QED BY <1>1, <1>3, <1>4 DEF Claims, RestClaims

\* Nothing but the claims of the writer and of a store at rest matter.
LEMMA AtRestClaims ==
  ASSUME Typed, Solo', Claims, NEW t \in Threads, Aside(t), ~clashed, ~clashed', ~Writer(t), Writer(t)'
  PROVE  RestClaims
<1>1. \A u \in Threads : u # t => (Writer(u)' <=> Writer(u))
  BY DEF Aside, Writer
<1>2. \A u \in Threads : ~Writer(u)
  BY <1>1 DEF Solo
<1> QED BY <1>2 DEF Claims, RestClaims

LEMMA IdsOfUnion == \A S, T : IdsOf(S \cup T) = IdsOf(S) \cup IdsOf(T)
BY DEF IdsOf

LEMMA NotUploading == ASSUME Typed, NEW t \in Threads, ~Writer(t) PROVE upload[t] = {}
BY DEF Typed, ReportsTyped, Adders, Writer, Writes

LEMMA ClaimsIngest ==
  ASSUME Typed, Solo, Solo', Claims, Observe, NEW t \in Threads, NEW u \in Uploads, ingest(t, u),
         upload' = [upload EXCEPT ![t] = Range(u)], claims' = claims
  PROVE  Claims'
<1> SUFFICES ASSUME ~clashed' PROVE Claims'
  BY DEF Claims
<1>1. ~clashed /\ Aside(t) /\ chunks' = chunks
  BY Clash, Goes DEF ingest, rows
<1>2. frame'[t].at = "append" /\ frame'[t].todo = u /\ ~Writer(t)
  BY Moves DEF ingest, Adding, At, Writer, Writes
<1>3. Writer(t)' /\ t \in Adders'
  BY <1>2 DEF Adders, Writer, Writes
<1>4. RestClaims
  BY <1>1, <1>2, <1>3, AtRestClaims
<1>5. upload'[t] = Range(u) /\ Indexed' = Indexed
  BY <1>1 DEF Typed, ReportsTyped, Indexed
<1>6. ClaimsOf(t)'
  <2>1. /\ IdsOf(claims') \subseteq Indexed'
        /\ Indexed' \subseteq IdsOf(claims' \cup Range(Samples) \cup upload'[t])
    BY <1>4, <1>5, IdsOfUnion DEF RestClaims
  <2>2. /\ IdsOf(upload'[t]) \subseteq Indexed' \cup IdsOf(Range(frame'[t].todo))
        /\ Range(frame'[t].todo) \subseteq upload'[t] \cup Range(Samples)
    BY <1>2, <1>5
  <2> QED BY <1>2, <2>1, <2>2 DEF ClaimsOf
<1> QED BY <1>1, <1>3, <1>6, ClaimsAfterWrite

LEMMA ClaimsSearch ==
  ASSUME Typed, Solo, Solo', Claims, Observe, NEW t \in Threads, search(t),
         upload' = upload, claims' = claims
  PROVE  Claims'
<1> SUFFICES ASSUME ~clashed' PROVE Claims'
  BY DEF Claims
<1>1. ~clashed /\ Aside(t) /\ Others(t) /\ chunks' = chunks
  BY Clash, Goes DEF search, rows
<1>2. /\ frame'[t].at \in {"append", "dense"} /\ ~Writer(t)
      /\ frame'[t].at = "append" => frame'[t].todo = Samples
  BY Moves DEF search, Adding, At, Writer, Writes
<1>3. CASE frame'[t].at = "dense"
  BY <1>1, <1>2, <1>3, ClaimsAfterOther DEF Writer, Writes
<1>4. CASE frame'[t].at = "append"
  <2>1. Writer(t)' /\ t \in Adders'
    BY <1>4 DEF Adders, Writer, Writes
  <2>2. RestClaims /\ upload'[t] = {} /\ Indexed' = Indexed
    BY <1>1, <1>2, <2>1, AtRestClaims, NotUploading DEF Indexed
  <2>3. ClaimsOf(t)'
    <3>1. /\ IdsOf(claims') \subseteq Indexed'
          /\ Indexed' \subseteq IdsOf(claims' \cup Range(Samples) \cup upload'[t])
      BY <2>2, IdsOfUnion DEF RestClaims
    <3>2. /\ IdsOf(upload'[t]) \subseteq Indexed' \cup IdsOf(Range(frame'[t].todo))
          /\ Range(frame'[t].todo) \subseteq upload'[t] \cup Range(Samples)
      BY <1>2, <1>4, <2>2 DEF IdsOf
    <3> QED BY <1>4, <3>1, <3>2 DEF ClaimsOf
  <2> QED BY <1>1, <2>1, <2>3, ClaimsAfterWrite
<1> QED BY <1>2, <1>3, <1>4

LEMMA ClaimsDelete ==
  ASSUME Typed, Solo, Solo', Claims, Observe, NEW t \in Threads, NEW n \in Names,
         delete_document(t, n), upload' = upload,
         claims' = {c \in claims : IdOf[c] \notin Targets(n)}
  PROVE  Claims'
<1> SUFFICES ASSUME ~clashed' PROVE Claims'
  BY DEF Claims
<1>1. ~clashed /\ Aside(t) /\ chunks' = chunks
  BY Clash, Goes DEF delete_document, rows
<1>2. frame'[t].at = "filter" /\ frame'[t].targets = Targets(n) /\ ~Writer(t)
  BY Moves DEF delete_document, Filtering, At, Writer, Writes
<1>3. Writer(t)'
  BY <1>2 DEF Writer, Writes
<1>4. RestClaims /\ Indexed' = Indexed
  BY <1>1, <1>2, <1>3, AtRestClaims DEF Indexed
<1>5. IdsOf(claims') = IdsOf(claims) \ Targets(n)
  BY DEF IdsOf
<1>6. ClaimsOf(t)'
  <2>1. /\ IdsOf(claims') \subseteq Indexed' \ frame'[t].targets
        /\ Indexed' \ frame'[t].targets \subseteq IdsOf(claims' \cup Range(Samples))
    BY <1>2, <1>4, <1>5, IdsOfUnion DEF RestClaims
  <2> QED BY <1>2, <2>1 DEF ClaimsOf, Adders
<1> QED BY <1>1, <1>3, <1>6, ClaimsAfterWrite

\* A step of an ingestion, or of a search that adds the samples: what is indexed
\* and what is still to come.
LEMMA ClaimsAdd ==
  ASSUME Typed, Solo, Solo', Claims, Observe, NEW t \in Threads, t \in Adders, t \in Adders',
         Aside(t), claims' = claims, upload' = upload,
         NEW S, Indexed' = Indexed \cup S,
         S \subseteq IdsOf(Range(frame[t].todo)),
         Range(frame'[t].todo) \subseteq Range(frame[t].todo),
         IdsOf(Range(frame[t].todo)) \subseteq Indexed' \cup IdsOf(Range(frame'[t].todo))
  PROVE  Claims'
<1> SUFFICES ASSUME ~clashed' PROVE Claims'
  BY DEF Claims
<1>1. ~clashed /\ Writer(t) /\ Writer(t)'
  BY Clash DEF Adders, Writer, Writes
<1>2. /\ IdsOf(claims) \subseteq Indexed
      /\ Indexed \subseteq IdsOf(claims \cup Range(Samples) \cup upload[t])
      /\ IdsOf(upload[t]) \subseteq Indexed \cup IdsOf(Range(frame[t].todo))
      /\ Range(frame[t].todo) \subseteq upload[t] \cup Range(Samples)
  BY <1>1 DEF Claims, ClaimsOf
<1>3. IdsOf(Range(frame[t].todo)) \subseteq IdsOf(claims \cup Range(Samples) \cup upload[t])
  BY <1>2 DEF IdsOf
<1>4. /\ IdsOf(claims') \subseteq Indexed'
      /\ Indexed' \subseteq IdsOf(claims' \cup Range(Samples) \cup upload'[t])
      /\ IdsOf(upload'[t]) \subseteq Indexed' \cup IdsOf(Range(frame'[t].todo))
      /\ Range(frame'[t].todo) \subseteq upload'[t] \cup Range(Samples)
  BY <1>2, <1>3
<1>5. ClaimsOf(t)'
  BY <1>4 DEF ClaimsOf, Adders
<1> QED BY <1>1, <1>5, ClaimsAfterWrite

LEMMA ClaimsAppend ==
  ASSUME Typed, Solo, Solo', Rows, Claims, Observe, NEW t \in Threads, AppendChunk(t),
         claims' = claims, upload' = upload
  PROVE  Claims'
<1> SUFFICES ASSUME ~clashed' PROVE Claims'
  BY DEF Claims
<1> DEFINE f == frame[t]
           c == Head(f.todo)
<1>1. ~clashed /\ Aside(t) /\ f.at = "append" /\ Writer(t) /\ t \in Adders
  BY Clash, Goes DEF AppendChunk, Step, At, Writer, Writes, Adders
<1>2. /\ f.todo \in Seq(Chunks) /\ f.todo # <<>> /\ c \in Chunks
      /\ f = [at |-> "append", todo |-> f.todo, query |-> f.query]
      /\ chunks \in Seq(Chunks)
      /\ Range(f.todo) = {c} \cup Range(Tail(f.todo))
  BY <1>1, InHand, First DEF AppendChunk, Typed, StoreTyped
<1>3. Mapped
  BY <1>1, AtWork DEF RowsOf
<1>4. CASE chunk_map[IdOf[c]] # None
  <2>1. frame'[t].at = "append" /\ frame'[t].todo = Tail(f.todo) /\ chunks' = chunks
    <3>1. Goto(t, [frame[t] EXCEPT !.todo = Tail(@)]) /\ chunks' = chunks
      BY <1>4 DEF AppendChunk
    <3>2. [frame[t] EXCEPT !.todo = Tail(@)]
             = [at |-> "append", todo |-> Tail(f.todo), query |-> f.query]
      <4>1. /\ f = [at |-> "append", todo |-> f.todo, query |-> f.query]
            /\ f.todo \in Seq(Chunks) /\ f.query \in BOOLEAN /\ f.todo # <<>>
        BY <1>1, <1>2, InHand
      <4> QED BY <4>1
    <3>3. frame'[t] = [at |-> "append", todo |-> Tail(f.todo), query |-> f.query]
      BY <3>1, <3>2, Moves
    <3> QED BY <3>1, <3>3
  <2>2. IdOf[c] \in Indexed
    <3>1. chunk_map[IdOf[c]] \in Chunks /\ IdOf[chunk_map[IdOf[c]]] = IdOf[c]
      BY <1>2, <1>4, IdType DEF Typed, StoreTyped
    <3>2. chunk_map[IdOf[c]] \in Range(chunks)
      BY <1>3, <3>1 DEF Mapped, Maps
    <3> QED BY <3>1, <3>2 DEF Indexed, IdsOf
  <2>3. Indexed' = Indexed \cup {}
    BY <2>1 DEF Indexed
  <2>4. IdsOf(Range(f.todo)) \subseteq Indexed' \cup IdsOf(Range(frame'[t].todo))
    BY <1>2, <2>1, <2>2, <2>3 DEF IdsOf
  <2>5. t \in Adders' /\ Range(frame'[t].todo) \subseteq Range(f.todo)
    BY <1>2, <2>1 DEF Adders
  <2> QED BY <1>1, <2>3, <2>4, <2>5, ClaimsAdd
<1>5. CASE chunk_map[IdOf[c]] = None
  <2>1. frame'[t].at = "map" /\ frame'[t].todo = f.todo /\ chunks' = Append(chunks, c)
    BY <1>1, <1>2, <1>5, Moves DEF AppendChunk, Step
  <2>2. Range(chunks') = Range(chunks) \cup {c}
    BY <1>2, <2>1, Longer
  <2>3. Indexed' = Indexed \cup {IdOf[c]}
    BY <2>2 DEF Indexed, IdsOf
  <2>4. {IdOf[c]} \subseteq IdsOf(Range(f.todo))
    BY <1>2 DEF IdsOf
  <2>5. t \in Adders' /\ Range(frame'[t].todo) \subseteq Range(f.todo)
    BY <2>1 DEF Adders
  <2> QED BY <1>1, <2>1, <2>3, <2>4, <2>5, ClaimsAdd
<1> QED BY <1>4, <1>5

LEMMA ClaimsMapEmbed ==
  ASSUME Typed, Solo, Solo', Claims, Observe, NEW t \in Threads, MapChunk(t) \/ AppendVector(t),
         claims' = claims, upload' = upload
  PROVE  Claims'
<1> DEFINE f == frame[t]
<1>1. /\ f.at \in {"map", "embed"}
      /\ f = [at |-> f.at, todo |-> f.todo, query |-> f.query]
  BY InHand DEF MapChunk, AppendVector, At
<1>2. /\ frame'[t].at \in {"embed", "tokenize"} /\ frame'[t].todo = f.todo /\ Aside(t)
      /\ chunks' = chunks
  BY <1>1, Moves, Goes DEF MapChunk, AppendVector, Step, rows
<1>3. t \in Adders /\ t \in Adders' /\ Indexed' = Indexed \cup {}
  BY <1>1, <1>2 DEF Adders, Indexed
<1> QED BY <1>2, <1>3, ClaimsAdd

LEMMA ClaimsTokenize ==
  ASSUME Typed, Solo, Solo', Rows, Claims, Observe, NEW t \in Threads, AppendTokens(t),
         claims' = claims, upload' = upload
  PROVE  Claims'
<1> SUFFICES ASSUME ~clashed' PROVE Claims'
  BY DEF Claims
<1> DEFINE f == frame[t]
           c == Head(f.todo)
<1>1. ~clashed /\ Aside(t) /\ f.at = "tokenize" /\ Writer(t) /\ t \in Adders
  BY Clash, Goes DEF AppendTokens, At, Writer, Writes, Adders
<1>2. Range(f.todo) = {c} \cup Range(Tail(f.todo)) /\ chunks \in Seq(Chunks)
  BY <1>1, InHand, First DEF Typed, StoreTyped
<1>3. c \in Range(chunks)
  <2>1. Adding1(t)
    BY <1>1, AtWork DEF RowsOf
  <2>2. chunks # <<>> /\ chunks[Len(chunks)] = c
    BY <2>1 DEF Adding1
  <2>3. Len(chunks) \in DOMAIN chunks
    BY <1>2, <2>2
  <2> QED BY <2>2, <2>3 DEF Range
<1>4. frame'[t].at = "append" /\ frame'[t].todo = Tail(f.todo) /\ chunks' = chunks
  <2>1. frame'[t] = [at |-> "append", todo |-> Tail(f.todo), query |-> f.query]
    BY Moves DEF AppendTokens, Adding
  <2> QED BY <2>1 DEF AppendTokens
<1>5. Indexed' = Indexed \cup {} /\ t \in Adders'
  BY <1>4 DEF Indexed, Adders
<1>6. IdsOf(Range(f.todo)) \subseteq Indexed' \cup IdsOf(Range(frame'[t].todo))
  BY <1>2, <1>3, <1>4 DEF Indexed, IdsOf
<1>7. Range(frame'[t].todo) \subseteq Range(f.todo)
  BY <1>2, <1>4
<1> QED BY <1>1, <1>5, <1>6, <1>7, ClaimsAdd

\* The end of an ingestion: what it reports is indexed.
LEMMA ClaimsCount ==
  ASSUME Typed, Solo, Solo', Claims, Observe, NEW t \in Threads, CountRows(t),
         claims' = claims \cup upload[t]
  PROVE  Claims'
<1> SUFFICES ASSUME ~clashed' PROVE Claims'
  BY DEF Claims
<1>1. /\ ~clashed /\ Aside(t) /\ frame[t].at = "append" /\ Writer(t) /\ t \in Adders
      /\ frame[t].todo = <<>> /\ chunks' = chunks
  BY Clash, Goes DEF CountRows, At, Writer, Writes, Adders, rows
<1>2. ~Writer(t)'
  BY Moves DEF CountRows, Idle, Writer, Writes
<1>3. /\ IdsOf(claims) \subseteq Indexed
      /\ Indexed \subseteq IdsOf(claims \cup Range(Samples) \cup upload[t])
      /\ IdsOf(upload[t]) \subseteq Indexed \cup IdsOf(Range(<<>>))
  BY <1>1 DEF Claims, ClaimsOf
<1>4. IdsOf(Range(<<>>)) = {} /\ Indexed' = Indexed
  BY <1>1 DEF IdsOf, Range, Indexed
<1>5. RestClaims'
  BY <1>3, <1>4, IdsOfUnion DEF RestClaims
<1> QED BY <1>1, <1>2, <1>5, ClaimsAfterWrite

LEMMA ClaimsFilter ==
  ASSUME Typed, Solo, Solo', Rows, Claims, Observe, NEW t \in Threads,
         FilterTarget(t) \/ FilterKept(t), claims' = claims, upload' = upload
  PROVE  Claims'
<1> SUFFICES ASSUME ~clashed' PROVE Claims'
  BY DEF Claims
<1>1. ~clashed /\ Aside(t) /\ frame[t].at = "filter" /\ Writer(t) /\ chunks' = chunks
  BY Clash, Goes DEF FilterTarget, FilterKept, At, Writer, Writes, rows
<1>2. frame'[t].at = "filter" /\ frame'[t].targets = frame[t].targets
  <2>1. CASE FilterTarget(t)
    <3>1. frame[t] = [at |-> "filter", targets |-> frame[t].targets, list |-> frame[t].list,
                      idx |-> frame[t].idx, kept |-> frame[t].kept]
      BY <1>1, InHand
    <3> QED BY <2>1, <3>1, Moves DEF FilterTarget
  <2>2. CASE FilterKept(t)
    <3>1. Halfway(t) /\ Iterated(t) = chunks
      BY <1>1, AtWork DEF RowsOf, Halfway, Iterated
    <3>2. /\ frame[t].idx \in Nat /\ frame[t].idx > 0 /\ frame[t].idx <= Len(chunks)
          /\ chunks \in Seq(Chunks) /\ dense_vectors \in Seq(Chunks)
          /\ tokenized_corpus \in Seq(Chunks)
      BY <1>1, <2>2, <3>1, InHand DEF FilterKept, Typed, StoreTyped
    <3>3. frame[t].idx \in DOMAIN dense_vectors \cap DOMAIN tokenized_corpus
      BY <3>1, <3>2 DEF Halfway, Both, Prefix
    <3> QED BY <2>2, <3>3, Moves DEF FilterKept, Filtering
  <2> QED BY <2>1, <2>2
<1>3. Writer(t)' /\ Indexed' = Indexed
  BY <1>1, <1>2 DEF Writer, Writes, Indexed
<1>4. ClaimsOf(t)
  BY <1>1 DEF Claims
<1>5. ClaimsOf(t)'
  BY <1>1, <1>2, <1>3, <1>4 DEF ClaimsOf, Adders
<1> QED BY <1>1, <1>3, <1>5, ClaimsAfterWrite

LEMMA ClaimsReplace ==
  ASSUME Typed, Solo, Solo', Rows, Claims, Observe, NEW t \in Threads, ReplaceLists(t),
         claims' = claims, upload' = upload
  PROVE  Claims'
<1> SUFFICES ASSUME ~clashed' PROVE Claims'
  BY DEF Claims
<1> DEFINE f == frame[t]
           s == f.kept[1]
<1>1. ~clashed /\ Aside(t) /\ f.at = "filter" /\ Writer(t)
  BY Clash, ProceedsAside DEF ReplaceLists, Proceed, At, Writer, Writes
<1>2. Halfway(t) /\ f.list = None
  BY <1>1, AtWork DEF RowsOf, Halfway
<1>3. f.idx > Len(chunks) /\ chunks' = s /\ frame'[t].at = "recount"
  BY <1>2 DEF ReplaceLists, Iterated
<1>4. \A x \in Chunks : x \in Range(s) <=> x \in Range(chunks) /\ IdOf[x] \notin f.targets
  BY <1>1, <1>2, <1>3, AllFiltered
<1>5. s \in Seq(Chunks) /\ chunks \in Seq(Chunks)
  BY <1>1, InHand DEF Typed, StoreTyped
<1>6. Range(s) \subseteq Chunks /\ Range(chunks) \subseteq Chunks
  BY <1>5, RangeType
<1>7. Indexed' = Indexed \ f.targets
  <2> HIDE DEF s
  <2> QED BY <1>3, <1>4, <1>6 DEF Indexed, IdsOf
<1>8. /\ IdsOf(claims) \subseteq Indexed \ f.targets
      /\ Indexed \ f.targets \subseteq IdsOf(claims \cup Range(Samples))
  BY <1>1 DEF Claims, ClaimsOf
<1>9. Writer(t)' /\ ClaimsOf(t)'
  BY <1>3, <1>7, <1>8 DEF Writer, Writes, ClaimsOf, Adders
<1> QED BY <1>1, <1>9, ClaimsAfterWrite

LEMMA ClaimsRecount ==
  ASSUME Typed, Solo, Solo', Claims, Observe, NEW t \in Threads, RecountRows(t),
         claims' = claims, upload' = upload
  PROVE  Claims'
<1> SUFFICES ASSUME ~clashed' PROVE Claims'
  BY DEF Claims
<1>1. ~clashed /\ Aside(t) /\ frame[t].at = "recount" /\ Writer(t) /\ chunks' = chunks
  BY Clash, Goes DEF RecountRows, At, Writer, Writes, rows
<1>2. ~Writer(t)'
  BY Moves DEF RecountRows, Idle, Writer, Writes
<1>3. RestClaims'
  BY <1>1 DEF Claims, ClaimsOf, RestClaims, Indexed
<1> QED BY <1>1, <1>2, <1>3, ClaimsAfterWrite

LEMMA ClaimsStep ==
  ASSUME Typed, Solo, Solo', Rows, Claims, Observe, NEW t \in Threads, Does(t)
  PROVE  Claims'
<1>1. CASE Seeks(t) /\ upload' = upload /\ claims' = claims
  BY <1>1, Clash, SeeksBeside, ClaimsAfterOther DEF Claims, rows
<1>2. CASE CountRows(t) /\ ~Ingested(t) /\ claims' = claims
  <2>1. claims' = claims \cup upload[t]
    BY <1>2 DEF Ingested
  <2> QED BY <1>2, <2>1, ClaimsCount
<1>3. CASE Proceed(t) /\ ~Ingested(t) /\ upload' = upload /\ claims' = claims
  BY <1>1, <1>2, <1>3, ClaimsAppend, ClaimsMapEmbed, ClaimsTokenize, ClaimsFilter, ClaimsReplace,
     ClaimsRecount DEF Proceed, Seeks
<1>4. CASE Ingested(t) /\ claims' = claims \cup upload[t]
  BY <1>4, ClaimsCount DEF Ingested
<1> QED BY <1>3, <1>4, ClaimsIngest, ClaimsSearch, ClaimsDelete DEF Does

-----------------------------------------------------------------------------
\* The invariant.
LEMMA InvInit == UseInit => Inv
<1> SUFFICES ASSUME UseInit PROVE Inv
  OBVIOUS
<1> USE DEF UseInit, Init
<1>1. /\ \A t \in Threads : frame[t] = Idle /\ frame[t].at = "idle" /\ ~Writer(t) /\ ~Searching(t)
      /\ Adders = {}
  BY DEF Idle, Writer, Writes, Searching, Adders
<1>2. Samples \in Seq(Chunks) /\ Range(Samples) \subseteq Chunks /\ Len(Samples) \in Nat
  BY StoreAssumption, RangeType
<1>3. \A c \in Range(Samples) : \A d \in Range(Samples) : IdOf[c] = IdOf[d] => c = d
  BY StoreAssumption DEF Range
<1>4. ASSUME NEW i \in Ids
      PROVE  /\ chunk_map[i] \in Chunks \cup {None}
             /\ chunk_map[i] # None => chunk_map[i] \in Range(Samples) /\ IdOf[chunk_map[i]] = i
             /\ (\E c \in Range(Samples) : IdOf[c] = i) => chunk_map[i] # None
  BY <1>2, StoreAssumption
<1>5. StoreTyped
  <2>1. chunk_map \in [Ids -> Chunks \cup {None}]
    BY <1>4
  <2> QED BY <1>2, <1>4, <2>1 DEF StoreTyped
<1>6. FramesTyped
  BY <1>1, Made DEF FramesTyped, Shaped
<1>7. ObservedTyped /\ ReportsTyped
  BY <1>2 DEF ObservedTyped, ReportsTyped
<1>8. AtRest
  <2>1. Mapped
    <3> SUFFICES ASSUME NEW c \in Chunks
                 PROVE  c \in Range(Samples) <=> chunk_map[IdOf[c]] = c
      BY DEF Mapped, Maps
    <3>1. IdOf[c] \in Ids /\ c # None
      BY IdType, StoreAssumption
    <3> QED BY <1>3, <1>4, <3>1
  <2>2. Once(Samples)
    BY StoreAssumption DEF Once
  <2>3. Both(0)
    BY <1>2 DEF Both, Prefix
  <2> QED BY <2>1, <2>2, <2>3 DEF AtRest, Once
<1>9. Claims
  <2>1. RestClaims
    BY IdsOfUnion DEF RestClaims, Indexed
  <2>2. \A t \in Threads : ClaimsOf(t)
    BY <1>1 DEF ClaimsOf
  <2> QED BY <2>1, <2>2 DEF Claims, RestClaims
<1> QED BY <1>1, <1>5, <1>6, <1>7, <1>8, <1>9 DEF Inv, Typed, Solo, Rows, Searches

LEMMA InvStep == Inv /\ [UseNext]_<<vars, history>> => Inv'
<1> SUFFICES ASSUME Inv, [UseNext]_<<vars, history>> PROVE Inv'
  OBVIOUS
<1>1. CASE UseNext
  <2>1. PICK t \in Threads : Does(t)
    BY <1>1, Doing
  <2>2. Observe /\ Typed /\ Solo /\ Rows /\ Searches /\ Claims
    BY <1>1, Doing DEF Inv
  <2>3. Typed' /\ Solo'
    BY <2>1, <2>2, TypedStep, SoloStep
  <2> QED BY <2>1, <2>2, <2>3, RowsStep, SearchesStep, ClaimsStep DEF Inv
<1>2. CASE UNCHANGED <<vars, history>>
  <2> USE <1>2 DEF vars, rows, history, Inv
  <2>1. Typed'
    BY DEF Typed, StoreTyped, FramesTyped, Shaped, ObservedTyped, ReportsTyped, Adders
  <2>2. Solo'
    BY DEF Solo, Writer
  <2>3. Rows'
    BY DEF Rows, Writer, RowsOf, AtRest, Both, Prefix, Mapped, Maps, Once, Adding1, Halfway, Filtered
  <2>4. Searches'
    BY DEF Searches, Searching, Adders, Sound, Undisturbed, Finds, Succeeds, Writer
  <2>5. Claims'
    BY DEF Claims, ClaimsOf, Adders, Writer, Indexed, IdsOf
  <2> QED BY <2>1, <2>2, <2>3, <2>4, <2>5
<1> QED BY <1>1, <1>2

LEMMA Invariant == UseSpec => []Inv
BY InvInit, InvStep, PTL DEF UseSpec

\* Unless two writes have overlapped, the lists, the map and the count of the
\* store agree, at each step of a write as far as it has got.
THEOREM ListsAgree == UseSpec => []RowsAgree
<1>1. Inv => RowsAgree
  BY RowsTheorem DEF Inv
<1> QED BY <1>1, Invariant, PTL

\* A search that no write overlaps does not fail, nor is failed by writes that
\* were over when it began, if none of them overlapped.
THEOREM NoIdleFailure == UseSpec => []FailsOnlyByOverlap
<1>1. Inv => FailsOnlyByOverlap
  BY DEF Inv, Searches, Undisturbed, Succeeds, Searching, FailsOnlyByOverlap, At
<1> QED BY <1>1, Invariant, PTL

\* A search beside an ingestion scores every chunk by its own vector and words,
\* and finds all that was indexed when it began.
THEOREM SoundSearches == UseSpec => []SearchesSoundly
<1>1. Inv => SearchesSoundly
  BY DEF Inv, Searches, Sound, Finds, Searching, SearchesSoundly, At
<1> QED BY <1>1, Invariant, PTL

\* What the API has reported as indexed stays so until it is deleted, and nothing
\* but the samples is indexed beside it.
THEOREM ReportsHold == UseSpec => []KeepsWhatItReports
<1>1. Inv => KeepsWhatItReports
  BY DEF Inv, Claims, Indexed, KeepsWhatItReports, Quiet, Adders, Deleters, Writer, Writes
<1> QED BY <1>1, Invariant, PTL
=============================================================================
