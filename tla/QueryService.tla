---------------------------- MODULE QueryService ----------------------------
(***************************************************************************)
(* POST /api/v1/query and what it shares with the other endpoints: the     *)
(* cache of answers, the index of documents and the queue of human         *)
(* review.  A request runs on a thread of the server's pool.  No component *)
(* here has a lock; the interpreter switches threads at calls, so a step   *)
(* is what lies between two calls after which shared state is used.        *)
(*                                                                         *)
(* The answer cache is modelled without Redis, in the process's memory.    *)
(* The index is the set of documents it holds: VectorStore is about how.   *)
(***************************************************************************)
EXTENDS Guardrails

CONSTANTS Threads,
          Requests,   \* payloads of a query: role, query and bypass_cache
          Docs,       \* what one deletion removes: a document, or a chunk of one
                      \* that does not name itself in its metadata
          Samples,    \* those an empty index is filled with
          TicketIds,
          Actions,    \* what operators answer a ticket with
          TTL,        \* ticks an answer stays cached
          None

ASSUME QueryAssumption ==
    /\ Requests \subseteq [role : STRING, query : Questions, bypass_cache : BOOLEAN]
    /\ Samples \subseteq Docs /\ Samples # {}
    /\ Actions \subseteq [approve : BOOLEAN, modified : BOOLEAN]
    /\ TTL \in Nat \ {0}
    /\ None \notin Requests \cup TicketIds

VARIABLES
    frame,         \* per thread: the call it is in, with its locals
    memory_cache,  \* answers by key: documents cited, ticks left, and
                   \* those of them gone already when it was stored
    indexed,       \* documents of the vector store
    gone,          \* ticks since a document was deleted, at most TTL
    pending_queue, \* tickets to review
    audit_log,     \* resolved tickets
    issued         \* tickets a reply has been flagged under

vars == <<frame, memory_cache, indexed, gone, pending_queue, audit_log, issued>>

Keys == {<<r.role, r.query>> : r \in Requests}
KeyOf(r) == <<r.role, r.query>>
Answer == SUBSET {"records", "evidence"}

Idle == [at |-> "idle", req |-> None, rows |-> FALSE, cites |-> {}, answer |-> {},
         flagged |-> FALSE, confident |-> FALSE, ticket |-> None, status |-> "PENDING"]

Init ==
    /\ frame = [t \in Threads |-> Idle]
    /\ memory_cache = << >>
    /\ indexed = Samples
    /\ gone = [d \in Docs |-> IF d \in Samples THEN 0 ELSE TTL]
    /\ pending_queue = {}
    /\ audit_log = << >>
    /\ issued = {}

At(t, place) == frame[t].at = place
Go(t, place) == frame' = [frame EXCEPT ![t].at = place]
Return(t) == frame' = [frame EXCEPT ![t] = Idle]
Query(t) == frame[t].req.query
-----------------------------------------------------------------------------
(* The cache of answers.                                                   *)

\* Every request in the pipeline may need a ticket.
TicketsLeft ==
    Cardinality(issued) + Cardinality({t \in Threads : frame[t].req # None})
        < Cardinality(TicketIds)

process_query(t, r) ==
    /\ At(t, "idle") /\ TicketsLeft
    /\ frame' = [frame EXCEPT ![t] =
                   [Idle EXCEPT !.at = IF r.bypass_cache THEN "pre" ELSE "get",
                                !.req = r]]
    /\ UNCHANGED <<memory_cache, indexed, gone, pending_queue, audit_log, issued>>

\* get finds the key and takes the time; what it does about an entry that has
\* expired comes after that call.
GetMiss(t) ==
    /\ At(t, "get") /\ KeyOf(frame[t].req) \notin DOMAIN memory_cache
    /\ Go(t, "pre")
    /\ UNCHANGED <<memory_cache, indexed, gone, pending_queue, audit_log, issued>>

\* Mutant of GetHit: a hit starts the entry's time again.
GetHitRenewed(t) ==
    LET k == KeyOf(frame[t].req) IN
    /\ At(t, "get") /\ k \in DOMAIN memory_cache /\ memory_cache[k].left > 0
    /\ memory_cache' = [memory_cache EXCEPT ![k].left = TTL]
    /\ Return(t)
    /\ UNCHANGED <<indexed, gone, pending_queue, audit_log, issued>>

GetHit(t) ==
    /\ At(t, "get") /\ KeyOf(frame[t].req) \in DOMAIN memory_cache
    /\ memory_cache[KeyOf(frame[t].req)].left > 0
    /\ Return(t)
    /\ UNCHANGED <<memory_cache, indexed, gone, pending_queue, audit_log, issued>>

GetExpired(t) ==
    /\ At(t, "get") /\ KeyOf(frame[t].req) \in DOMAIN memory_cache
    /\ memory_cache[KeyOf(frame[t].req)].left = 0
    /\ Go(t, "drop")
    /\ UNCHANGED <<memory_cache, indexed, gone, pending_queue, audit_log, issued>>

\* del deletes whatever the key has by now, and raises KeyError if that is nothing.
DropExpired(t) ==
    LET k == KeyOf(frame[t].req) IN
    /\ At(t, "drop")
    /\ Go(t, IF k \in DOMAIN memory_cache THEN "pre" ELSE "error")
    /\ memory_cache' = [x \in DOMAIN memory_cache \ {k} |-> memory_cache[x]]
    /\ UNCHANGED <<indexed, gone, pending_queue, audit_log, issued>>

\* The request ends with status 500.
ReportError(t) ==
    /\ At(t, "error")
    /\ Return(t)
    /\ UNCHANGED <<memory_cache, indexed, gone, pending_queue, audit_log, issued>>

\* The answer that set stores under the thread's key.
Stored(t) == [cites |-> frame[t].cites, left |-> TTL, late |-> frame[t].cites \ indexed]

Cacheable(t) == ~ frame[t].flagged /\ frame[t].confident

\* The end of process_query: a clean answer is cached, and the reply sent.
Reply(t) ==
    /\ At(t, "reply")
    /\ memory_cache' =
         IF Cacheable(t)
         THEN [k \in DOMAIN memory_cache \cup {KeyOf(frame[t].req)} |->
                 IF k = KeyOf(frame[t].req) THEN Stored(t) ELSE memory_cache[k]]
         ELSE memory_cache
    /\ Return(t)
    /\ UNCHANGED <<indexed, gone, pending_queue, audit_log, issued>>
-----------------------------------------------------------------------------
(* The nodes of the agent workflow, in the order of execute_workflow.      *)

\* A refused query is answered at once: flagged, not cached, without a ticket.
pre_guardrail_node(t) ==
    /\ At(t, "pre")
    /\ IF AllPassed(run_pre_execution(Query(t), frame[t].req.role))
       THEN Go(t, "route")
       ELSE frame' = [frame EXCEPT ![t].at = "reply", ![t].flagged = TRUE,
                                   ![t].confident = TRUE]
    /\ UNCHANGED <<memory_cache, indexed, gone, pending_queue, audit_log, issued>>

intent_route(words) ==
    CASE "summary" \in words -> "SUMMARIZATION"
      [] "policy" \in words /\ "summary" \notin words -> "POLICY_LOOKUP"
      [] words = {"sql"} -> "STRUCTURED_SQL"
      [] words = {"rag"} -> "UNSTRUCTURED_RAG"
      [] OTHER -> "HYBRID_FUSION"

Route(t) == intent_route(Query(t).words)

intent_router_node(t) ==
    /\ At(t, "route")
    /\ Go(t, IF Route(t) \in {"STRUCTURED_SQL", "HYBRID_FUSION"} THEN "sql" ELSE "rag")
    /\ UNCHANGED <<memory_cache, indexed, gone, pending_queue, audit_log, issued>>

\* The validator also says whether a statement needs an approval.
validate_sql(statement) ==
    [is_valid |-> statement \notin {"forbidden", "no_select", "several", "empty"},
     requires_hitl |-> statement = "salary"]

\* Whether a statement yields rows; one that fails yields made-up ones.
execute_read_only_query == BOOLEAN

\* A refused statement is answered by a row with the reason.  Nobody reads
\* requires_hitl.
execute_structured_query(statement) ==
    IF validate_sql(statement).is_valid THEN execute_read_only_query ELSE {TRUE}

sql_agent_node(t) ==
    /\ At(t, "sql")
    /\ \E rows \in execute_structured_query(Query(t).statement) :
          frame' = [frame EXCEPT ![t].rows = rows,
                      ![t].at = IF Route(t) = "HYBRID_FUSION" THEN "rag" ELSE "synthesis"]
    /\ UNCHANGED <<memory_cache, indexed, gone, pending_queue, audit_log, issued>>

\* Mutant of GeneratedSql: the sanitized statement, empty if it was refused.
GeneratedSqlSanitized(t) ==
    IF /\ Route(t) \in {"STRUCTURED_SQL", "HYBRID_FUSION"}
       /\ validate_sql(Query(t).statement).is_valid
    THEN Query(t).statement ELSE "none"

\* The statement post_guardrail_node hands to layer 6.
GeneratedSql(t) ==
    IF Route(t) \in {"STRUCTURED_SQL", "HYBRID_FUSION"} THEN Query(t).statement ELSE "none"

\* A search fills an empty index with the samples, and ranks every document.
search == IF indexed = {} THEN Samples ELSE indexed

\* The best of the chunks found are cited.
rerank(candidates) == SUBSET candidates \ {{}}

rag_agent_node(t) ==
    /\ At(t, "rag")
    /\ indexed' = search
    /\ gone' = [d \in Docs |-> IF d \in search THEN 0 ELSE gone[d]]
    /\ \E cites \in rerank(search) :
          frame' = [frame EXCEPT ![t].cites = cites, ![t].at = "synthesis"]
    /\ UNCHANGED <<memory_cache, pending_queue, audit_log, issued>>

\* A search beside a write may raise.
SearchRaises(t) ==
    /\ At(t, "rag")
    /\ Go(t, "error")
    /\ UNCHANGED <<memory_cache, indexed, gone, pending_queue, audit_log, issued>>

evidence_synthesis_node(t) ==
    /\ At(t, "synthesis")
    /\ frame' = [frame EXCEPT ![t].at = "post", ![t].rows = FALSE,
                   ![t].answer = (IF frame[t].rows THEN {"records"} ELSE {})
                            \cup (IF frame[t].cites # {} THEN {"evidence"} ELSE {})]
    /\ UNCHANGED <<memory_cache, indexed, gone, pending_queue, audit_log, issued>>

\* What the layers may say of the thread's answer.
Verdicts(t) ==
    {[flagged |-> hitl_triggered(evals), confident |-> AverageAtLeast(evals, 80)] :
       evals \in run_post_execution(run_pre_execution(Query(t), frame[t].req.role),
                   Query(t), GeneratedSql(t), frame[t].cites, frame[t].answer)}

\* An answer that fails a layer, or is not confident, is put on the queue.
post_guardrail_node(t) ==
    /\ At(t, "post")
    /\ \E v \in Verdicts(t) :
          /\ frame' = [frame EXCEPT ![t].at = "reply", ![t].answer = {},
                         ![t].flagged = v.flagged, ![t].confident = v.confident]
          /\ IF v.flagged
             THEN \E k \in TicketIds \ issued :
                     /\ pending_queue' = pending_queue \cup {k}
                     /\ issued' = issued \cup {k}
             ELSE UNCHANGED <<pending_queue, issued>>
    /\ UNCHANGED <<memory_cache, indexed, gone, audit_log>>
-----------------------------------------------------------------------------
(* The other endpoints.                                                    *)

ingest(d) ==
    /\ d \notin indexed
    /\ indexed' = indexed \cup {d}
    /\ gone' = [gone EXCEPT ![d] = 0]
    /\ UNCHANGED <<frame, memory_cache, pending_queue, audit_log, issued>>

\* Deletion leaves the answers that cite the document in the cache.
delete_document(d) ==
    /\ d \in indexed
    /\ indexed' = indexed \ {d}
    /\ UNCHANGED <<frame, memory_cache, gone, pending_queue, audit_log, issued>>

Status(action) ==
    CASE ~ action.approve -> "REJECTED"
      [] action.approve /\ action.modified -> "MODIFIED"
      [] OTHER -> "APPROVED"

\* Mutant of resolve_ticket: the ticket is looked up and not taken off.
resolve_ticket_in_place(t, k, action) ==
    /\ At(t, "idle") /\ k \in pending_queue
    /\ frame' = [frame EXCEPT ![t] = [Idle EXCEPT !.at = "audit", !.ticket = k,
                                                  !.status = Status(action)]]
    /\ UNCHANGED <<memory_cache, indexed, gone, pending_queue, audit_log, issued>>

\* A ticket that is not pending is refused: the request changes nothing.
resolve_ticket(t, k, action) ==
    /\ At(t, "idle") /\ k \in pending_queue
    /\ pending_queue' = pending_queue \ {k}
    /\ frame' = [frame EXCEPT ![t] = [Idle EXCEPT !.at = "audit", !.ticket = k,
                                                  !.status = Status(action)]]
    /\ UNCHANGED <<memory_cache, indexed, gone, audit_log, issued>>

\* It takes the time before it logs the ticket.
LogTicket(t) ==
    /\ At(t, "audit")
    /\ audit_log' = Append(audit_log, [ticket |-> frame[t].ticket, status |-> frame[t].status])
    /\ Return(t)
    /\ UNCHANGED <<memory_cache, indexed, gone, pending_queue, issued>>

Tick ==
    /\ memory_cache' = [k \in DOMAIN memory_cache |->
                          [memory_cache[k] EXCEPT !.left = IF @ = 0 THEN 0 ELSE @ - 1]]
    /\ gone' = [d \in Docs |-> IF d \in indexed \/ gone[d] = TTL THEN gone[d]
                               ELSE gone[d] + 1]
    /\ UNCHANGED <<frame, indexed, pending_queue, audit_log, issued>>

Step(t) ==
    \/ \E r \in Requests : process_query(t, r)
    \/ GetMiss(t) \/ GetHit(t) \/ GetExpired(t) \/ DropExpired(t) \/ ReportError(t)
    \/ pre_guardrail_node(t) \/ intent_router_node(t)
    \/ sql_agent_node(t) \/ rag_agent_node(t) \/ SearchRaises(t)
    \/ evidence_synthesis_node(t) \/ post_guardrail_node(t) \/ Reply(t)
    \/ \E k \in TicketIds, action \in Actions : resolve_ticket(t, k, action)
    \/ LogTicket(t)

Next ==
    \/ \E t \in Threads : Step(t)
    \/ \E d \in Docs : ingest(d) \/ delete_document(d)
    \/ Tick

Spec == Init /\ [][Next]_vars
-----------------------------------------------------------------------------
Frames ==
    [at : {"idle", "get", "drop", "error", "pre", "route", "sql", "rag",
           "synthesis", "post", "reply", "audit"},
     req : Requests \cup {None}, rows : BOOLEAN, cites : SUBSET Docs,
     answer : Answer, flagged : BOOLEAN, confident : BOOLEAN,
     ticket : TicketIds \cup {None},
     status : {"PENDING", "APPROVED", "REJECTED", "MODIFIED"}]

Entries == [cites : SUBSET Docs, left : 0 .. TTL, late : SUBSET Docs]

Resolved == [ticket : TicketIds, status : {"APPROVED", "REJECTED", "MODIFIED"}]

(* Every variable has its type. *)
TypeOK ==
    /\ frame \in [Threads -> Frames]
    /\ DOMAIN memory_cache \subseteq Keys
    /\ \A k \in DOMAIN memory_cache : memory_cache[k] \in Entries
    /\ indexed \subseteq Docs
    /\ gone \in [Docs -> 0 .. TTL]
    /\ pending_queue \subseteq TicketIds /\ issued \subseteq TicketIds
    /\ audit_log \in Seq(Resolved)

(* An answer that no layer held back is confident enough to be cached: no
   combination of passing scores falls between the two thresholds, 0.75 for
   the review in run_post_execution and 0.8 for the cache in process_query,
   so low confidence never is the only reason to review an answer. *)
CleanIsConfident ==
    \A t \in Threads : At(t, "reply") /\ ~ frame[t].flagged => frame[t].confident

(* No cached answer is one to a query that the layers before execution refuse,
   or whose SQL the validator refused for a denied word or for not being a
   SELECT: process_query asks neither, it relies on layer 6 finding again what
   the validator found, and on the flag.  What the validator refused for being
   several statements, for a semicolon in front, or empty, layer 6 does not find:
   such answers are cached. *)
RefusedNotCached ==
    \A k \in DOMAIN memory_cache :
        /\ AllPassed(run_pre_execution(k[2], k[1]))
        /\ intent_route(k[2].words) \in {"STRUCTURED_SQL", "HYBRID_FUSION"}
             => \/ validate_sql(k[2].statement).is_valid
                \/ k[2].statement \in {"several", "empty"}

(* Deleting a document does not touch the cache, yet an answer that cites it is
   served for at most TTL after the deletion, however often it is asked for;
   but for the answers of requests that had found the document before it was
   deleted and were cached after. *)
StaleAnswersEnd ==
    \A k \in DOMAIN memory_cache :
        LET entry == memory_cache[k] IN
        \A d \in (entry.cites \ indexed) \ entry.late :
            entry.left > 0 => entry.left + gone[d] <= TTL

Resolving(k) == {t \in Threads : At(t, "audit") /\ frame[t].ticket = k}
Logged(k) == {i \in DOMAIN audit_log : audit_log[i].ticket = k}

(* However many operators answer it, a ticket is in one place: on the queue,
   with the one operator whose answer counts, or once in the audit log. *)
TicketsKept ==
    \A k \in issued :
        (IF k \in pending_queue THEN 1 ELSE 0)
          + Cardinality(Resolving(k)) + Cardinality(Logged(k)) = 1
=============================================================================
