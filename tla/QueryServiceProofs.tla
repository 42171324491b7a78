------------------------- MODULE QueryServiceProofs -------------------------
(***************************************************************************)
(* Types, the review queue and the cached answers of the query service,    *)
(* for any set of threads, requests, documents and tickets, and any time   *)
(* to live; then the engines that guard an answer, and the retrieval       *)
(* engine.                                                                 *)
(***************************************************************************)
EXTENDS QueryService, Answering, Retrieval, TLAPS, FiniteSetTheorems, SequenceTheorems

Seqs == INSTANCE LRUCacheProofs WITH
    Keys <- {}, Tags <- {}, Values <- {}, Capacity <- 1, NoEntry <- 0,
    order <- <<>>, entry <- <<>>, tagIndex <- <<>>, log <- <<>>

\* What a thread holds at each place of a call.
Fits(f, held) ==
    /\ f.at \notin {"idle", "audit"} => f.req \in Requests
    /\ f.at = "audit" => f.ticket \in held /\ f.status # "PENDING"

FramesFit == \A t \in Threads : Fits(frame[t], issued)

TInv == TypeOK /\ FramesFit

LEMMA VerdictsTyped ==
  ASSUME NEW t \in Threads, NEW v \in Verdicts(t)
  PROVE  v.flagged \in BOOLEAN /\ v.confident \in BOOLEAN
<1>1. PICK evals : v = [flagged |-> hitl_triggered(evals),
                        confident |-> AverageAtLeast(evals, 80)]
  BY DEF Verdicts
<1>2. hitl_triggered(evals) \in BOOLEAN
  BY DEF hitl_triggered
<1>3. AverageAtLeast(evals, 80) \in BOOLEAN
  BY DEF AverageAtLeast
<1> QED
  BY <1>1, <1>2, <1>3

LEMMA TypeInit == Init => TInv
BY QueryAssumption
   DEF Init, TInv, TypeOK, FramesFit, Fits, Frames, Entries, Idle, Answer

\* One thread's frame changes to one that fits, and no ticket is withdrawn.
LEMMA Moves ==
  ASSUME TInv, NEW t \in Threads, NEW f \in Frames, Fits(f, issued'),
         frame' = [frame EXCEPT ![t] = f], issued \subseteq issued'
  PROVE  frame' \in [Threads -> Frames] /\ FramesFit'
BY DEF TInv, TypeOK, FramesFit, Fits

\* A thread goes on with the same request.
LEMMA Goes ==
  ASSUME TInv, NEW t \in Threads, frame[t].at \notin {"idle", "audit"},
         NEW place \in {"get", "drop", "error", "pre", "route", "sql", "rag",
                        "synthesis", "post", "reply"},
         Go(t, place), issued' = issued
  PROVE  frame' \in [Threads -> Frames] /\ FramesFit'
BY SMTT(30) DEF TInv, TypeOK, FramesFit, Fits, Frames, Go

LEMMA Returns ==
  ASSUME TInv, NEW t \in Threads, Return(t), issued' = issued
  PROVE  frame' \in [Threads -> Frames] /\ FramesFit'
<1>1. Idle \in Frames /\ Fits(Idle, issued')
  BY DEF Idle, Frames, Fits, Answer
<1> QED
  BY <1>1, Moves DEF Return

\* The steps that change the thread's frame and nothing else.
Local(t) ==
    \/ \E r \in Requests : process_query(t, r)
    \/ GetMiss(t) \/ GetHit(t) \/ GetExpired(t) \/ ReportError(t)
    \/ pre_guardrail_node(t) \/ intent_router_node(t) \/ sql_agent_node(t)
    \/ SearchRaises(t) \/ evidence_synthesis_node(t)

LEMMA LocalTyped ==
  ASSUME TInv, NEW t \in Threads, Local(t)
  PROVE  TInv' /\ UNCHANGED <<memory_cache, indexed, gone, pending_queue, audit_log, issued>>
<1>1. UNCHANGED <<memory_cache, indexed, gone, pending_queue, audit_log, issued>>
  BY DEF Local, process_query, GetMiss, GetHit, GetExpired, ReportError,
         pre_guardrail_node, intent_router_node, sql_agent_node, SearchRaises,
         evidence_synthesis_node
<1>2. SUFFICES frame' \in [Threads -> Frames] /\ FramesFit'
  BY <1>1 DEF TInv, TypeOK
<1>3. CASE GetMiss(t) \/ GetExpired(t) \/ SearchRaises(t) \/ intent_router_node(t)
  BY <1>1, <1>3, Goes DEF GetMiss, GetExpired, SearchRaises, intent_router_node, At
<1>4. CASE GetHit(t) \/ ReportError(t)
  BY <1>1, <1>4, Returns DEF GetHit, ReportError
<1>5. CASE pre_guardrail_node(t)
  <2>1. CASE Go(t, "route")
    BY <1>1, <1>5, <2>1, Goes DEF pre_guardrail_node, At
  <2>2. CASE ~ Go(t, "route")
    <3> DEFINE f == [frame[t] EXCEPT !.at = "reply", !.flagged = TRUE, !.confident = TRUE]
    <3>1. frame[t] \in Frames /\ At(t, "pre") /\ Fits(frame[t], issued)
      BY <1>5 DEF pre_guardrail_node, TInv, TypeOK, FramesFit
    <3>2. f \in Frames /\ Fits(f, issued')
      BY <3>1 DEF Frames, Fits, At
    <3>3. frame' = [frame EXCEPT ![t] = f]
      BY <1>5, <2>2 DEF pre_guardrail_node, Go
    <3> QED
      BY <1>1, <3>2, <3>3, Moves
  <2> QED
    BY <2>1, <2>2
<1>6. CASE sql_agent_node(t)
  <2>1. PICK rows \in execute_structured_query(Query(t).statement) :
          frame' = [frame EXCEPT ![t].rows = rows,
                      ![t].at = IF Route(t) = "HYBRID_FUSION" THEN "rag" ELSE "synthesis"]
    BY <1>6 DEF sql_agent_node
  <2>2. rows \in BOOLEAN /\ At(t, "sql")
    BY <1>6, <2>1 DEF execute_structured_query, execute_read_only_query, sql_agent_node
  <2> DEFINE f == [frame[t] EXCEPT !.rows = rows,
                     !.at = IF Route(t) = "HYBRID_FUSION" THEN "rag" ELSE "synthesis"]
  <2>3. frame[t] \in Frames /\ Fits(frame[t], issued)
    BY DEF TInv, TypeOK, FramesFit
  <2>4. f \in Frames /\ Fits(f, issued')
    BY <2>2, <2>3 DEF Frames, Fits, At
  <2>5. frame' = [frame EXCEPT ![t] = f]
    BY <2>1
  <2> QED
    BY <1>1, <2>4, <2>5, Moves
<1>7. CASE evidence_synthesis_node(t)
  <2> DEFINE answer == (IF frame[t].rows THEN {"records"} ELSE {})
                         \cup (IF frame[t].cites # {} THEN {"evidence"} ELSE {})
             f == [frame[t] EXCEPT !.at = "post", !.rows = FALSE, !.answer = answer]
  <2>1. frame[t] \in Frames /\ At(t, "synthesis") /\ Fits(frame[t], issued)
    BY <1>7 DEF evidence_synthesis_node, TInv, TypeOK, FramesFit
  <2>2. f \in Frames /\ Fits(f, issued')
    BY <2>1 DEF Frames, Fits, At, Answer
  <2>3. frame' = [frame EXCEPT ![t] = f]
    BY <1>7 DEF evidence_synthesis_node
  <2> QED
    BY <1>1, <2>2, <2>3, Moves
<1>8. CASE \E r \in Requests : process_query(t, r)
  <2>1. PICK r \in Requests : process_query(t, r)
    BY <1>8
  <2> DEFINE f == [Idle EXCEPT !.at = IF r.bypass_cache THEN "pre" ELSE "get", !.req = r]
  <2>2. f \in Frames /\ Fits(f, issued')
    BY DEF Idle, Frames, Fits, Answer
  <2>3. frame' = [frame EXCEPT ![t] = f]
    BY <2>1 DEF process_query
  <2> QED
    BY <1>1, <2>2, <2>3, Moves
<1> QED
  BY <1>3, <1>4, <1>5, <1>6, <1>7, <1>8 DEF Local

LEMMA DropTyped ==
  ASSUME TInv, NEW t \in Threads, DropExpired(t)
  PROVE  TInv'
<1>1. frame' \in [Threads -> Frames] /\ FramesFit'
  BY Goes DEF DropExpired, At
<1> QED
  BY <1>1 DEF DropExpired, TInv, TypeOK

LEMMA ReplyTyped ==
  ASSUME TInv, NEW t \in Threads, Reply(t)
  PROVE  TInv'
<1>1. frame' \in [Threads -> Frames] /\ FramesFit'
  BY Returns DEF Reply
<1>2. Stored(t) \in Entries /\ KeyOf(frame[t].req) \in Keys
  BY QueryAssumption
     DEF Reply, At, TInv, TypeOK, FramesFit, Fits, Frames, Entries, Stored, KeyOf, Keys
<1>3. /\ DOMAIN memory_cache' \subseteq Keys
      /\ \A k \in DOMAIN memory_cache' : memory_cache'[k] \in Entries
  BY <1>2 DEF Reply, TInv, TypeOK
<1> QED
  BY <1>1, <1>3 DEF Reply, TInv, TypeOK

LEMMA RagTyped ==
  ASSUME TInv, NEW t \in Threads, rag_agent_node(t)
  PROVE  TInv'
<1>1. search \subseteq Docs
  BY QueryAssumption DEF search, TInv, TypeOK
<1>2. PICK cites \in rerank(search) :
        frame' = [frame EXCEPT ![t].cites = cites, ![t].at = "synthesis"]
  BY DEF rag_agent_node
<1> DEFINE f == [frame[t] EXCEPT !.cites = cites, !.at = "synthesis"]
<1>3. frame[t] \in Frames /\ At(t, "rag") /\ Fits(frame[t], issued)
  BY DEF rag_agent_node, TInv, TypeOK, FramesFit
<1>4. cites \subseteq Docs
  BY <1>1 DEF rerank
<1>5. f \in Frames /\ Fits(f, issued')
  BY <1>3, <1>4 DEF Frames, Fits, At
<1>6. frame' = [frame EXCEPT ![t] = f]
  BY <1>2
<1>7. frame' \in [Threads -> Frames] /\ FramesFit'
  BY <1>5, <1>6, Moves DEF rag_agent_node
<1>8. gone' \in [Docs -> 0 .. TTL]
  BY QueryAssumption DEF rag_agent_node, TInv, TypeOK
<1> QED
  BY <1>1, <1>7, <1>8 DEF rag_agent_node, TInv, TypeOK

LEMMA PostTyped ==
  ASSUME TInv, NEW t \in Threads, post_guardrail_node(t)
  PROVE  TInv'
<1>1. PICK v \in Verdicts(t) :
        frame' = [frame EXCEPT ![t].at = "reply", ![t].answer = {},
                    ![t].flagged = v.flagged, ![t].confident = v.confident]
  BY DEF post_guardrail_node
<1> DEFINE f == [frame[t] EXCEPT !.at = "reply", !.answer = {},
                   !.flagged = v.flagged, !.confident = v.confident]
<1>2. frame[t] \in Frames /\ At(t, "post") /\ Fits(frame[t], issued)
  BY DEF post_guardrail_node, TInv, TypeOK, FramesFit
<1>3. f \in Frames /\ Fits(f, issued')
  BY <1>2, VerdictsTyped DEF Frames, Fits, At, Answer
<1>4. frame' = [frame EXCEPT ![t] = f]
  BY <1>1
<1>5. pending_queue' \subseteq TicketIds /\ issued' \subseteq TicketIds
  BY DEF post_guardrail_node, TInv, TypeOK
<1>6. issued \subseteq issued'
  BY DEF post_guardrail_node
<1>7. frame' \in [Threads -> Frames] /\ FramesFit'
  BY <1>3, <1>4, <1>6, Moves
<1> QED
  BY <1>5, <1>7 DEF post_guardrail_node, TInv, TypeOK

\* A ticket on the queue has been issued; one that is taken off goes to the
\* thread that took it.
LEMMA ResolveTyped ==
  ASSUME TInv, pending_queue \subseteq issued,
         NEW t \in Threads, NEW k \in TicketIds, NEW action \in Actions,
         resolve_ticket(t, k, action)
  PROVE  TInv'
<1> DEFINE f == [Idle EXCEPT !.at = "audit", !.ticket = k, !.status = Status(action)]
<1>1. Status(action) \in {"APPROVED", "REJECTED", "MODIFIED"}
  BY DEF Status
<1>2. f \in Frames /\ Fits(f, issued')
  BY <1>1 DEF Idle, Frames, Fits, Answer, resolve_ticket
<1>3. frame' = [frame EXCEPT ![t] = f]
  BY DEF resolve_ticket
<1>4. frame' \in [Threads -> Frames] /\ FramesFit'
  BY <1>2, <1>3, Moves DEF resolve_ticket
<1> QED
  BY <1>4 DEF resolve_ticket, TInv, TypeOK

LEMMA LogTyped ==
  ASSUME TInv, NEW t \in Threads, LogTicket(t)
  PROVE  TInv'
<1>1. frame' \in [Threads -> Frames] /\ FramesFit'
  BY Returns DEF LogTicket
<1>2. [ticket |-> frame[t].ticket, status |-> frame[t].status] \in Resolved
  BY DEF LogTicket, At, TInv, TypeOK, FramesFit, Fits, Frames, Resolved
<1>3. audit_log' \in Seq(Resolved)
  BY <1>2 DEF LogTicket, TInv, TypeOK
<1> QED
  BY <1>1, <1>3 DEF LogTicket, TInv, TypeOK

LEMMA OthersTyped ==
  ASSUME TInv, Tick \/ \E d \in Docs : ingest(d) \/ delete_document(d)
  PROVE  TInv'
<1>1. CASE Tick
  <2>1. \A e \in Entries : [e EXCEPT !.left = IF @ = 0 THEN 0 ELSE @ - 1] \in Entries
    BY QueryAssumption DEF Entries
  <2>2. \A k \in DOMAIN memory_cache' : memory_cache'[k] \in Entries
    BY <1>1, <2>1 DEF Tick, TInv, TypeOK
  <2>3. DOMAIN memory_cache' = DOMAIN memory_cache
    BY <1>1 DEF Tick
  <2>4. gone' \in [Docs -> 0 .. TTL]
    BY <1>1, QueryAssumption DEF Tick, TInv, TypeOK
  <2> QED
    BY <1>1, <2>2, <2>3, <2>4 DEF Tick, TInv, TypeOK, FramesFit
<1>2. ASSUME NEW d \in Docs, ingest(d)
      PROVE  TInv'
  BY <1>2, QueryAssumption DEF ingest, TInv, TypeOK, FramesFit
<1>3. ASSUME NEW d \in Docs, delete_document(d)
      PROVE  TInv'
  BY <1>3 DEF delete_document, TInv, TypeOK, FramesFit
<1> QED
  BY <1>1, <1>2, <1>3
-----------------------------------------------------------------------------
(* The review queue.  Every ticket issued is on the queue, or with one       *)
(* thread, or at one place of the log, and never at two of them.             *)

Holds(t, k) == At(t, "audit") /\ frame[t].ticket = k
InLog(k) == \E i \in DOMAIN audit_log : audit_log[i].ticket = k

PendingIssued == pending_queue \subseteq issued

LogIssued == \A i \in DOMAIN audit_log : audit_log[i].ticket \in issued

PendingApart ==
    \A k \in pending_queue : ~ InLog(k) /\ \A t \in Threads : ~ Holds(t, k)

HolderApart ==
    \A t, u \in Threads, k \in issued :
        Holds(t, k) => ~ InLog(k) /\ (Holds(u, k) => t = u)

LoggedOnce ==
    \A i, j \in DOMAIN audit_log : audit_log[i].ticket = audit_log[j].ticket => i = j

Somewhere ==
    \A k \in issued : k \in pending_queue \/ InLog(k) \/ \E t \in Threads : Holds(t, k)

QInv ==
    /\ PendingIssued /\ LogIssued /\ PendingApart
    /\ HolderApart /\ LoggedOnce /\ Somewhere

LEMMA QueueInit == Init => QInv
BY DEF Init, QInv, PendingIssued, LogIssued, PendingApart, HolderApart, LoggedOnce,
       Somewhere, InLog, Holds, At, Idle

\* A step that moves no ticket.
LEMMA QueueStays ==
  ASSUME QInv, NEW t \in Threads, ~ At(t, "audit"), ~ At(t, "audit")',
         \A u \in Threads \ {t} : frame'[u] = frame[u],
         UNCHANGED <<pending_queue, audit_log, issued>>
  PROVE  QInv'
<1>1. \A u \in Threads : \A k : Holds(u, k)' <=> Holds(u, k)
  BY DEF Holds, At
<1>2. \A k : InLog(k)' <=> InLog(k)
  BY DEF InLog
<1> QED
  BY <1>1, <1>2 DEF QInv, PendingIssued, LogIssued, PendingApart, HolderApart,
                    LoggedOnce, Somewhere

LEMMA QueueLocal ==
  ASSUME TInv, QInv, NEW t \in Threads,
         Local(t) \/ DropExpired(t) \/ Reply(t) \/ rag_agent_node(t)
  PROVE  QInv'
<1> USE DEF TInv, TypeOK, Frames, At, Go, Return, Idle
<1>1. UNCHANGED <<pending_queue, audit_log, issued>>
  BY LocalTyped DEF DropExpired, Reply, rag_agent_node
<1>2. /\ ~ At(t, "audit") /\ ~ At(t, "audit")'
      /\ \A u \in Threads \ {t} : frame'[u] = frame[u]
  <2>1. CASE \E r \in Requests : process_query(t, r)
    <3>1. PICK r \in Requests : process_query(t, r)
      BY <2>1
    <3> QED
      BY <3>1 DEF process_query
  <2>2. CASE \/ GetMiss(t) \/ GetHit(t) \/ GetExpired(t) \/ ReportError(t)
             \/ intent_router_node(t) \/ SearchRaises(t)
    BY <2>2 DEF GetMiss, GetHit, GetExpired, ReportError, intent_router_node, SearchRaises
  <2>3. CASE pre_guardrail_node(t)
    BY <2>3 DEF pre_guardrail_node
  <2>4. CASE sql_agent_node(t)
    BY <2>4 DEF sql_agent_node
  <2>5. CASE evidence_synthesis_node(t)
    BY <2>5 DEF evidence_synthesis_node
  <2>6. CASE DropExpired(t) \/ Reply(t)
    BY <2>6 DEF DropExpired, Reply
  <2>7. CASE rag_agent_node(t)
    BY <2>7 DEF rag_agent_node
  <2> QED
    BY <2>1, <2>2, <2>3, <2>4, <2>5, <2>6, <2>7 DEF Local
<1> QED
  BY <1>1, <1>2, QueueStays

\* A ticket is put on the queue when it is issued.
LEMMA QueuePost ==
  ASSUME TInv, QInv, NEW t \in Threads, post_guardrail_node(t)
  PROVE  QInv'
<1>1. /\ At(t, "post") /\ ~ At(t, "audit") /\ ~ At(t, "audit")'
      /\ \A u \in Threads \ {t} : frame'[u] = frame[u]
  BY DEF post_guardrail_node, TInv, TypeOK, Frames, At
<1>2. CASE UNCHANGED <<pending_queue, issued>>
  BY <1>1, <1>2, QueueStays DEF post_guardrail_node
<1>3. ASSUME NEW k \in TicketIds \ issued,
             pending_queue' = pending_queue \cup {k}, issued' = issued \cup {k}
      PROVE  QInv'
  <2>1. \A u \in Threads : \A j : Holds(u, j)' <=> Holds(u, j)
    BY <1>1 DEF Holds, At
  <2>2. \A j : InLog(j)' <=> InLog(j)
    BY DEF InLog, post_guardrail_node
  <2>3. ~ InLog(k) /\ \A u \in Threads : ~ Holds(u, k)
    BY DEF QInv, LogIssued, InLog, TInv, FramesFit, Fits, Holds, At
  <2>4. audit_log' = audit_log
    BY DEF post_guardrail_node
  <2> QED
    BY <1>3, <2>1, <2>2, <2>3, <2>4
       DEF QInv, PendingIssued, LogIssued, PendingApart, HolderApart, LoggedOnce, Somewhere
<1> QED
  BY <1>2, <1>3 DEF post_guardrail_node

\* The thread that takes a ticket off the queue is the only one to hold it.
LEMMA QueueResolve ==
  ASSUME TInv, QInv, NEW t \in Threads, NEW k \in TicketIds, NEW action \in Actions,
         resolve_ticket(t, k, action)
  PROVE  QInv'
<1>1. /\ ~ At(t, "audit") /\ k \in pending_queue
      /\ pending_queue' = pending_queue \ {k}
      /\ UNCHANGED <<audit_log, issued>>
  BY DEF resolve_ticket, At
<1>2. \A u \in Threads : \A j : Holds(u, j)' <=> Holds(u, j) \/ (u = t /\ j = k)
  BY DEF resolve_ticket, Holds, At, Idle, TInv, TypeOK
<1>3. \A j : InLog(j)' <=> InLog(j)
  BY <1>1 DEF InLog
<1>4. ~ InLog(k) /\ \A u \in Threads : ~ Holds(u, k)
  BY <1>1 DEF QInv, PendingApart
<1>5. \A j : ~ Holds(t, j)
  BY <1>1 DEF Holds
<1> QED
  BY <1>1, <1>2, <1>3, <1>4, <1>5
     DEF QInv, PendingIssued, LogIssued, PendingApart, HolderApart, LoggedOnce, Somewhere

\* A ticket goes from the thread that holds it to the end of the log.
LEMMA QueueLog ==
  ASSUME TInv, QInv, NEW t \in Threads, LogTicket(t)
  PROVE  QInv'
<1> DEFINE k == frame[t].ticket
           n == Len(audit_log)
<1>1. Holds(t, k) /\ k \in issued
  BY DEF LogTicket, Holds, At, TInv, FramesFit, Fits
<1>2. UNCHANGED <<pending_queue, issued>>
  BY DEF LogTicket
<1>3. \A u \in Threads : \A j : Holds(u, j)' <=> Holds(u, j) /\ u # t
  BY DEF LogTicket, Return, Holds, At, Idle, TInv, TypeOK
<1>4. /\ DOMAIN audit_log = 1 .. n /\ n \in Nat /\ DOMAIN audit_log' = 1 .. n + 1
      /\ \A i \in 1 .. n : audit_log'[i] = audit_log[i]
      /\ audit_log'[n + 1].ticket = k
  BY DEF LogTicket, TInv, TypeOK
<1>5. \A j : InLog(j)' <=> InLog(j) \/ j = k
  BY <1>4 DEF InLog
<1>6. ~ InLog(k) /\ k \notin pending_queue /\ \A u \in Threads : Holds(u, k) => u = t
  BY <1>1 DEF QInv, HolderApart, PendingApart
<1> HIDE DEF k, n
<1>7. LoggedOnce'
  <2>1. \A i \in 1 .. n : audit_log[i].ticket # k
    BY <1>4, <1>6 DEF InLog
  <2> QED
    BY <1>4, <2>1 DEF QInv, LoggedOnce
<1>8. LogIssued'
  BY <1>1, <1>2, <1>4 DEF QInv, LogIssued
<1>9. PendingIssued' /\ PendingApart'
  BY <1>2, <1>3, <1>5, <1>6 DEF QInv, PendingIssued, PendingApart
<1>10. HolderApart'
  BY <1>2, <1>3, <1>5, <1>6 DEF QInv, HolderApart
<1>11. Somewhere'
  <2>1. \A u \in Threads : \A j : Holds(u, j) => j = k \/ u # t
    BY <1>1 DEF Holds
  <2> QED
    BY <1>2, <1>3, <1>5, <2>1 DEF QInv, Somewhere
<1> QED
  BY <1>7, <1>8, <1>9, <1>10, <1>11 DEF QInv

IInv == TInv /\ QInv

LEMMA StepKeeps == IInv /\ [Next]_vars => IInv'
<1> SUFFICES ASSUME IInv, [Next]_vars
             PROVE  IInv'
  OBVIOUS
<1>1. CASE UNCHANGED vars
  BY <1>1 DEF vars, IInv, TInv, TypeOK, FramesFit, QInv, PendingIssued, LogIssued,
              PendingApart, HolderApart, LoggedOnce, Somewhere, InLog, Holds, At
<1>2. ASSUME NEW t \in Threads, Local(t)
      PROVE  IInv'
  BY <1>2, LocalTyped, QueueLocal DEF IInv
<1>3. ASSUME NEW t \in Threads, DropExpired(t) \/ Reply(t) \/ rag_agent_node(t)
      PROVE  IInv'
  BY <1>3, DropTyped, ReplyTyped, RagTyped, QueueLocal DEF IInv
<1>4. ASSUME NEW t \in Threads, post_guardrail_node(t)
      PROVE  IInv'
  BY <1>4, PostTyped, QueuePost DEF IInv
<1>5. ASSUME NEW t \in Threads, NEW k \in TicketIds, NEW action \in Actions,
             resolve_ticket(t, k, action)
      PROVE  IInv'
  BY <1>5, ResolveTyped, QueueResolve DEF IInv, QInv, PendingIssued
<1>6. ASSUME NEW t \in Threads, LogTicket(t)
      PROVE  IInv'
  BY <1>6, LogTyped, QueueLog DEF IInv
<1>7. CASE Tick \/ \E d \in Docs : ingest(d) \/ delete_document(d)
  <2>1. UNCHANGED <<frame, pending_queue, audit_log, issued>>
    BY <1>7 DEF Tick, ingest, delete_document
  <2>2. QInv'
    BY <2>1 DEF IInv, QInv, PendingIssued, LogIssued, PendingApart, HolderApart,
                LoggedOnce, Somewhere, InLog, Holds, At
  <2> QED
    BY <1>7, <2>2, OthersTyped DEF IInv
<1> QED
  BY <1>1, <1>2, <1>3, <1>4, <1>5, <1>6, <1>7 DEF Next, Step, Local

\* The log and the threads count a ticket as often as they have it.
LEMMA Counted == IInv => TicketsKept
<1> SUFFICES ASSUME IInv, NEW k \in issued
             PROVE  (IF k \in pending_queue THEN 1 ELSE 0)
                      + Cardinality(Resolving(k)) + Cardinality(Logged(k)) = 1
  BY DEF TicketsKept
<1> USE DEF IInv, QInv
<1>0. Cardinality({}) = 0
  BY FS_EmptySet
<1>1. CASE k \in pending_queue
  <2>1. Resolving(k) = {} /\ Logged(k) = {}
    BY <1>1 DEF PendingApart, Resolving, Logged, Holds, InLog
  <2> QED
    BY <1>0, <1>1, <2>1
<1>2. CASE \E t \in Threads : Holds(t, k)
  <2>1. PICK t \in Threads : Holds(t, k)
    BY <1>2
  <2>2. Resolving(k) = {t} /\ Logged(k) = {} /\ k \notin pending_queue
    BY <2>1 DEF HolderApart, PendingApart, Resolving, Logged, Holds, InLog
  <2>3. Cardinality({t}) = 1
    BY FS_Singleton
  <2> QED
    BY <1>0, <2>2, <2>3
<1>3. CASE InLog(k)
  <2>1. PICK i \in DOMAIN audit_log : audit_log[i].ticket = k
    BY <1>3 DEF InLog
  <2>2. Logged(k) = {i}
    BY <2>1 DEF LoggedOnce, Logged
  <2>3. Resolving(k) = {} /\ k \notin pending_queue
    BY <1>3 DEF HolderApart, PendingApart, Resolving, Holds
  <2>4. Cardinality({i}) = 1
    BY FS_Singleton
  <2> QED
    BY <1>0, <2>2, <2>3, <2>4
<1> QED
  BY <1>1, <1>2, <1>3 DEF Somewhere

-----------------------------------------------------------------------------
(* What is cached: only clean answers, none to a query that was refused.    *)

NeedsSql(q) == intent_route(q.words) \in {"STRUCTURED_SQL", "HYBRID_FUSION"}

Unrefused(r) ==
    /\ AllPassed(run_pre_execution(r.query, r.role))
    /\ NeedsSql(r.query) => \/ validate_sql(r.query.statement).is_valid
                            \/ r.query.statement \in {"several", "empty"}

Clean(f) == f.flagged \/ (f.confident /\ Unrefused(f.req))

\* A reply that is not flagged is a confident one to a query nobody refused.
CleanReplies == \A t \in Threads : At(t, "reply") => Clean(frame[t])

LEMMA MaxOfLayers ==
  ASSUME NEW s \in SUBSET (1 .. 9), s # {}
  PROVE  Max(s) \in s /\ \A i \in s : i <= Max(s)
<1>1. \E m \in s : \A i \in s : m >= i
  <2> SUFFICES ASSUME \A m \in s : \E i \in s : ~ m >= i
               PROVE  FALSE
    OBVIOUS
  <2> DEFINE none(n) == \A i \in s : i < n
  <2>1. \A n \in 1 .. 9 : none(n + 1) => none(n)
    OBVIOUS
  <2>2. none(10)
    OBVIOUS
  <2>3. none(9) /\ none(8) /\ none(7) /\ none(6)
    BY <2>1, <2>2
  <2>4. none(5) /\ none(4) /\ none(3)
    BY <2>1, <2>3
  <2>5. none(2) /\ none(1)
    BY <2>1, <2>4
  <2>6. PICK i \in s : i \in 1 .. 9
    OBVIOUS
  <2> QED
    BY <2>5, <2>6
<1> QED
  BY <1>1 DEF Max

\* What the fold of nine scores is.
LEMMA NineScores ==
  ASSUME NEW e, DOMAIN e = 1 .. 9, \A i \in 1 .. 9 : e[i].score \in Nat
  PROVE  Total(e) = e[1].score + e[2].score + e[3].score + e[4].score + e[5].score
                      + e[6].score + e[7].score + e[8].score + e[9].score
<1> DEFINE sum(g) == [s \in SUBSET (1 .. 9) |->
                        IF s = {} THEN 0 ELSE g[s \ {Max(s)}] + e[Max(s)].score]
           iter == CHOOSE g : g = sum(g)
<1>1. Total(e) = iter[1 .. 9]
  BY DEF Total, FoldLeft, MapThenFoldSet
<1>2. \E g : g = sum(g)
  <2> DEFINE part(i, s) == IF i \in s THEN e[i].score ELSE 0
             g == [s \in SUBSET (1 .. 9) |->
                     part(1, s) + part(2, s) + part(3, s) + part(4, s) + part(5, s)
                       + part(6, s) + part(7, s) + part(8, s) + part(9, s)]
  <2>1. ASSUME NEW s \in SUBSET (1 .. 9), s # {}
        PROVE  g[s] = g[s \ {Max(s)}] + e[Max(s)].score
    <3> DEFINE m == Max(s)
               r == s \ {m}
    <3>1. m \in s /\ m \in 1 .. 9 /\ r \in SUBSET (1 .. 9)
      BY <2>1, MaxOfLayers
    <3>2. part(m, s) = e[m].score /\ part(m, r) = 0
      BY <3>1
    <3>3. \A i \in 1 .. 9 : i # m => part(i, s) = part(i, r)
      OBVIOUS
    <3>4. \A i \in 1 .. 9 : part(i, s) \in Nat /\ part(i, r) \in Nat
      OBVIOUS
    <3>5. /\ g[s] = part(1, s) + part(2, s) + part(3, s) + part(4, s) + part(5, s)
                      + part(6, s) + part(7, s) + part(8, s) + part(9, s)
          /\ g[r] = part(1, r) + part(2, r) + part(3, r) + part(4, r) + part(5, r)
                      + part(6, r) + part(7, r) + part(8, r) + part(9, r)
      BY <3>1
    <3> HIDE DEF part, g, m, r
    <3>6. e[m].score \in Nat
      BY <3>1
    <3> QED
      BY <3>1, <3>2, <3>3, <3>4, <3>5, <3>6 DEF m, r
  <2>2. g[{}] = 0
    OBVIOUS
  <2> HIDE DEF part
  <2>3. g = sum(g)
    BY <2>1, <2>2
  <2> QED
    BY <2>3
<1>3. iter = sum(iter)
  BY <1>2
<1> HIDE DEF iter
<1>4. ASSUME NEW s \in SUBSET (1 .. 9), s # {}
      PROVE  iter[s] = iter[s \ {Max(s)}] + e[Max(s)].score
  BY <1>3, <1>4
<1>5. iter[{}] = 0
  BY <1>3
<1>6. ASSUME NEW k \in 1 .. 9
      PROVE  iter[1 .. k] = iter[1 .. k - 1] + e[k].score
  <2>1. 1 .. k \in SUBSET (1 .. 9) /\ 1 .. k # {}
    BY <1>6
  <2>2. Max(1 .. k) = k
    <3> DEFINE m == Max(1 .. k)
    <3>1. m \in 1 .. k /\ \A i \in 1 .. k : i <= m
      BY <2>1, MaxOfLayers
    <3> HIDE DEF m
    <3>2. m = k
      BY <3>1
    <3> QED
      BY <3>2 DEF m
  <2>3. (1 .. k) \ {k} = 1 .. k - 1
    OBVIOUS
  <2> QED
    BY <1>4, <2>1, <2>2, <2>3
<1>7. 1 .. 0 = {}
  OBVIOUS
<1> QED
  BY <1>1, <1>5, <1>6, <1>7

\* What the layers say of an answer, one after the other.
LEMMA NineLayers ==
  ASSUME NEW q, NEW role, NEW sql, NEW retrieved, NEW answer,
         NEW evals \in run_post_execution(run_pre_execution(q, role), q, sql, retrieved, answer)
  PROVE  /\ DOMAIN evals = 1 .. 9 /\ Len(evals) = 9
         /\ evals[1] = InjectionGuard(q) /\ evals[2] = PIIMaskingGuard(q)
         /\ evals[3] = DomainBoundaryGuard(q) /\ evals[4] = RBACIsolationGuard(role)
         /\ evals[5] \in SemanticDriftGuard(q, retrieved) /\ evals[6] = SQLSafetyGuard(sql)
         /\ evals[7] \in {Pass(100)} \cup GroundednessGuard
         /\ evals[8] \in ToxicitySafetyGuard(answer)
         /\ evals[9] \in DataLeakageGuard(answer)
<1> DEFINE pre == run_pre_execution(q, role)
           L7 == IF retrieved = {} THEN {Pass(100)} ELSE GroundednessGuard
           L == SemanticDriftGuard(q, retrieved) \X L7
                  \X ToxicitySafetyGuard(answer) \X DataLeakageGuard(answer)
           c == SQLSafetyGuard(sql)
<1>1. L7 \subseteq {Pass(100)} \cup GroundednessGuard
  OBVIOUS
<1>2. PICK l \in L : evals = pre \o <<l[1], c, l[2], l[3], l[4]>>
  BY DEF run_post_execution
<1> DEFINE l5 == l[1]
           l7 == l[2]
           l8 == l[3]
           l9 == l[4]
<1>0. /\ l5 \in SemanticDriftGuard(q, retrieved) /\ l7 \in L7
      /\ l8 \in ToxicitySafetyGuard(answer) /\ l9 \in DataLeakageGuard(answer)
  OBVIOUS
<1>9. evals = pre \o <<l5, c, l7, l8, l9>>
  BY <1>2
<1> HIDE DEF pre, L7, L, c, l5, l7, l8, l9
<1>3. PICK a, b, d, e : /\ pre = <<a, b, d, e>>
                        /\ a = InjectionGuard(q) /\ b = PIIMaskingGuard(q)
                        /\ d = DomainBoundaryGuard(q) /\ e = RBACIsolationGuard(role)
  BY DEF pre, run_pre_execution
<1>4. /\ Len(evals) = 9 /\ DOMAIN evals = 1 .. 9
      /\ evals[1] = a /\ evals[2] = b /\ evals[3] = d /\ evals[4] = e
      /\ evals[5] = l5 /\ evals[6] = c /\ evals[7] = l7 /\ evals[8] = l8 /\ evals[9] = l9
  <2> DEFINE S == {a, b, d, e, l5, c, l7, l8, l9}
             x == <<a, b, d, e>>
             y == <<l5, c, l7, l8, l9>>
  <2>1. x \in Seq(S) /\ y \in Seq(S) /\ Len(x) = 4 /\ Len(y) = 5
    OBVIOUS
  <2>2. /\ x[1] = a /\ x[2] = b /\ x[3] = d /\ x[4] = e
        /\ y[1] = l5 /\ y[2] = c /\ y[3] = l7 /\ y[4] = l8 /\ y[5] = l9
    OBVIOUS
  <2> HIDE DEF x, y, S
  <2>3. /\ x \o y \in Seq(S) /\ Len(x \o y) = 9
        /\ \A i \in 1 .. 9 : (x \o y)[i] = IF i <= 4 THEN x[i] ELSE y[i - 4]
    <3>1. /\ x \o y \in Seq(S) /\ Len(x \o y) = Len(x) + Len(y)
          /\ \A i \in 1 .. Len(x) + Len(y) :
                (x \o y)[i] = IF i <= Len(x) THEN x[i] ELSE y[i - Len(x)]
      BY <2>1, ConcatProperties
    <3> QED
      BY <2>1, <3>1
  <2>4. evals = x \o y
    BY <1>3, <1>9 DEF x, y
  <2>5. evals \in Seq(S) /\ Len(evals) = 9
    BY <2>3, <2>4
  <2>6. DOMAIN evals = 1 .. 9
    BY <2>5, LenProperties
  <2>7. \A i \in 1 .. 9 : evals[i] = IF i <= 4 THEN x[i] ELSE y[i - 4]
    BY <2>3, <2>4
  <2>8. evals[1] = x[1] /\ evals[2] = x[2] /\ evals[3] = x[3] /\ evals[4] = x[4]
    BY <2>7
  <2>9. /\ evals[5] = y[1] /\ evals[6] = y[2] /\ evals[7] = y[3]
        /\ evals[8] = y[4] /\ evals[9] = y[5]
    BY <2>7
  <2> QED
    BY <2>2, <2>5, <2>6, <2>8, <2>9
<1> QED
  BY <1>0, <1>1, <1>3, <1>4 DEF c

\* Layers 1 to 4 are evaluated again as part of all nine, and layer 6 finds
\* a denied word, or that there is no SELECT, as the validator did.
LEMMA LayersClean ==
  ASSUME NEW q, NEW role, NEW sql, NEW retrieved, NEW answer,
         NEW evals \in run_post_execution(run_pre_execution(q, role), q, sql, retrieved, answer),
         ~ hitl_triggered(evals)
  PROVE  AllPassed(run_pre_execution(q, role)) /\ sql \notin {"forbidden", "no_select"}
<1>1. \A i \in 1 .. 9 : evals[i].passed
  BY NineLayers DEF hitl_triggered, AllPassed
<1>2. /\ InjectionGuard(q).passed /\ PIIMaskingGuard(q).passed
      /\ DomainBoundaryGuard(q).passed /\ RBACIsolationGuard(role).passed
      /\ SQLSafetyGuard(sql).passed
  BY <1>1, NineLayers
<1>3. AllPassed(run_pre_execution(q, role))
  BY <1>2 DEF AllPassed, run_pre_execution
<1> QED
  BY <1>2, <1>3 DEF SQLSafetyGuard, Fail

\* Layers that pass score at least 785 hundredths together: an average of 0.87.
LEMMA LayersConfident ==
  ASSUME NEW q \in Questions, NEW role, NEW sql, NEW retrieved, NEW answer,
         NEW evals \in run_post_execution(run_pre_execution(q, role), q, sql, retrieved, answer),
         ~ hitl_triggered(evals)
  PROVE  AverageAtLeast(evals, 80)
<1>1. \A i \in 1 .. 9 : evals[i].passed
  BY NineLayers DEF hitl_triggered, AllPassed
<1> USE DEF Pass, Fail
<1>2. evals[1].score \in Nat /\ evals[1].score >= 100
  <2>1. evals[1] = InjectionGuard(q) /\ evals[1].passed
    BY <1>1, NineLayers
  <2> QED
    BY <2>1 DEF InjectionGuard
<1>3. evals[2].score \in Nat /\ evals[2].score >= 90
  <2>1. evals[2] = PIIMaskingGuard(q)
    BY NineLayers
  <2> QED
    BY <2>1 DEF PIIMaskingGuard
<1>4. evals[3].score \in Nat /\ evals[3].score >= 80
  <2>1. evals[3] = DomainBoundaryGuard(q) /\ evals[3].passed
    BY <1>1, NineLayers
  <2> QED
    BY <2>1 DEF DomainBoundaryGuard, Questions
<1>5. evals[4].score \in Nat /\ evals[4].score >= 100
  <2>1. evals[4] = RBACIsolationGuard(role) /\ evals[4].passed
    BY <1>1, NineLayers
  <2> QED
    BY <2>1 DEF RBACIsolationGuard
<1>6. evals[5].score \in Nat /\ evals[5].score >= 50
  <2>1. evals[5] \in SemanticDriftGuard(q, retrieved) /\ evals[5].passed
    BY <1>1, NineLayers
  <2> QED
    BY <2>1 DEF SemanticDriftGuard
<1>7. evals[6].score \in Nat /\ evals[6].score >= 100
  <2>1. evals[6] = SQLSafetyGuard(sql) /\ evals[6].passed
    BY <1>1, NineLayers
  <2> QED
    BY <2>1 DEF SQLSafetyGuard
<1>8. evals[7].score \in Nat /\ evals[7].score >= 65
  <2>1. evals[7] \in {Pass(100)} \cup GroundednessGuard /\ evals[7].passed
    BY <1>1, NineLayers
  <2> QED
    BY <2>1 DEF GroundednessGuard
<1>9. evals[8].score \in Nat /\ evals[8].score >= 100
  <2>1. evals[8] \in ToxicitySafetyGuard(answer) /\ evals[8].passed
    BY <1>1, NineLayers
  <2> QED
    BY <2>1 DEF ToxicitySafetyGuard
<1>10. evals[9].score \in Nat /\ evals[9].score >= 100
  <2>1. evals[9] \in DataLeakageGuard(answer) /\ evals[9].passed
    BY <1>1, NineLayers
  <2> QED
    BY <2>1 DEF DataLeakageGuard
<1>11. /\ DOMAIN evals = 1 .. 9 /\ Len(evals) = 9
       /\ \A i \in 1 .. 9 : evals[i].score \in Nat
  BY <1>2, <1>3, <1>4, <1>5, <1>6, <1>7, <1>8, <1>9, <1>10, NineLayers
<1>12. Total(evals) \in Nat /\ Total(evals) >= 785
  BY <1>2, <1>3, <1>4, <1>5, <1>6, <1>7, <1>8, <1>9, <1>10, <1>11, NineScores
<1> QED
  BY <1>11, <1>12 DEF AverageAtLeast

LEMMA VerdictsClean ==
  ASSUME TInv, NEW t \in Threads, At(t, "post"), NEW v \in Verdicts(t), ~ v.flagged
  PROVE  v.confident /\ Unrefused(frame[t].req)
<1>1. PICK evals \in run_post_execution(run_pre_execution(Query(t), frame[t].req.role),
                       Query(t), GeneratedSql(t), frame[t].cites, frame[t].answer) :
        v = [flagged |-> hitl_triggered(evals), confident |-> AverageAtLeast(evals, 80)]
  BY DEF Verdicts
<1>2. ~ hitl_triggered(evals)
  BY <1>1
<1>3. Query(t) \in Questions
  BY QueryAssumption DEF TInv, FramesFit, Fits, At, Query
<1>4. /\ AllPassed(run_pre_execution(Query(t), frame[t].req.role))
      /\ GeneratedSql(t) \notin {"forbidden", "no_select"}
  BY <1>2, LayersClean
<1>5. v.confident
  BY <1>1, <1>2, <1>3, LayersConfident
<1> QED
  BY <1>4, <1>5 DEF Unrefused, NeedsSql, Query, Route, GeneratedSql, validate_sql

CInv == CleanReplies /\ RefusedNotCached

\* A step of a thread that ends with no reply to send, or with a flagged one.
LEMMA CleanStays ==
  ASSUME TInv, CleanReplies, NEW t \in Threads,
         At(t, "reply")' => Clean(frame'[t]),
         \A u \in Threads \ {t} : frame'[u] = frame[u]
  PROVE  CleanReplies'
BY DEF CleanReplies, Clean, Unrefused, NeedsSql, At

LEMMA CleanStep == TInv /\ CInv /\ [Next]_vars => CInv'
<1> SUFFICES ASSUME TInv, CInv, [Next]_vars
             PROVE  CInv'
  OBVIOUS
<1> USE DEF CInv
<1>1. CASE UNCHANGED vars
  BY <1>1 DEF vars, CleanReplies, Clean, Unrefused, NeedsSql, RefusedNotCached, At
<1>2. ASSUME NEW t \in Threads, Step(t), ~ post_guardrail_node(t)
      PROVE  CleanReplies'
  <2> USE DEF TInv, TypeOK, Frames, At, Go, Return, Idle
  <2>1. /\ At(t, "reply")' => frame[t].flagged'
        /\ \A u \in Threads \ {t} : frame'[u] = frame[u]
    <3>1. CASE \E r \in Requests : process_query(t, r)
      <4>1. PICK r \in Requests : process_query(t, r)
        BY <3>1
      <4> QED
        BY <4>1 DEF process_query
    <3>2. CASE \/ GetMiss(t) \/ GetHit(t) \/ GetExpired(t) \/ ReportError(t)
               \/ intent_router_node(t) \/ SearchRaises(t) \/ LogTicket(t)
      BY <3>2 DEF GetMiss, GetHit, GetExpired, ReportError, intent_router_node,
                  SearchRaises, LogTicket
    <3>3. CASE pre_guardrail_node(t)
      BY <3>3 DEF pre_guardrail_node
    <3>4. CASE sql_agent_node(t)
      BY <3>4 DEF sql_agent_node
    <3>5. CASE evidence_synthesis_node(t)
      BY <3>5 DEF evidence_synthesis_node
    <3>6. CASE DropExpired(t) \/ Reply(t)
      BY <3>6 DEF DropExpired, Reply
    <3>7. CASE rag_agent_node(t)
      BY <3>7 DEF rag_agent_node
    <3>8. CASE \E k \in TicketIds, action \in Actions : resolve_ticket(t, k, action)
      BY <3>8 DEF resolve_ticket
    <3> QED
      BY <1>2, <3>1, <3>2, <3>3, <3>4, <3>5, <3>6, <3>7, <3>8 DEF Step
  <2> QED
    BY <2>1, CleanStays DEF Clean
<1>3. ASSUME NEW t \in Threads, post_guardrail_node(t)
      PROVE  CleanReplies'
  <2>1. PICK v \in Verdicts(t) :
          frame' = [frame EXCEPT ![t].at = "reply", ![t].answer = {},
                      ![t].flagged = v.flagged, ![t].confident = v.confident]
    BY <1>3 DEF post_guardrail_node
  <2>2. v.flagged \/ (v.confident /\ Unrefused(frame[t].req))
    BY <1>3, VerdictsClean DEF post_guardrail_node
  <2>3. /\ frame'[t].flagged = v.flagged /\ frame'[t].confident = v.confident
        /\ frame'[t].req = frame[t].req
        /\ \A u \in Threads \ {t} : frame'[u] = frame[u]
    BY <2>1 DEF TInv, TypeOK, Frames
  <2> QED
    BY <2>2, <2>3, CleanStays DEF Clean
<1>4. ASSUME NEW t \in Threads, Reply(t)
      PROVE  RefusedNotCached'
  <2> DEFINE r == frame[t].req
  <2>1. Cacheable(t) => Unrefused(r)
    BY <1>4 DEF Reply, Cacheable, CleanReplies, Clean
  <2>2. /\ DOMAIN memory_cache' \subseteq DOMAIN memory_cache \cup {KeyOf(r)}
        /\ KeyOf(r) \in DOMAIN memory_cache' \ DOMAIN memory_cache => Cacheable(t)
    BY <1>4 DEF Reply
  <2>3. KeyOf(r)[1] = r.role /\ KeyOf(r)[2] = r.query
    BY DEF KeyOf
  <2> QED
    BY <2>1, <2>2, <2>3 DEF RefusedNotCached, Unrefused, NeedsSql
<1>5. ASSUME NEW t \in Threads, Step(t), ~ Reply(t)
      PROVE  DOMAIN memory_cache' \subseteq DOMAIN memory_cache
  BY <1>5 DEF Step, process_query, GetMiss, GetHit, GetExpired, DropExpired, ReportError,
       pre_guardrail_node, intent_router_node, sql_agent_node, rag_agent_node,
       SearchRaises, evidence_synthesis_node, post_guardrail_node, resolve_ticket, LogTicket
<1>6. CASE Tick \/ \E d \in Docs : ingest(d) \/ delete_document(d)
  <2>1. frame' = frame /\ DOMAIN memory_cache' = DOMAIN memory_cache
    BY <1>6 DEF Tick, ingest, delete_document
  <2> QED
    BY <2>1 DEF CleanReplies, Clean, Unrefused, NeedsSql, RefusedNotCached, At
<1>7. ASSUME NEW t \in Threads, Step(t)
      PROVE  CInv'
  <2>1. CleanReplies'
    BY <1>2, <1>3, <1>7
  <2>2. RefusedNotCached'
    BY <1>4, <1>5, <1>7 DEF RefusedNotCached
  <2> QED
    BY <2>1, <2>2
<1> QED
  BY <1>1, <1>6, <1>7 DEF Next
-----------------------------------------------------------------------------
(* How long an answer outlives a document it cites.                         *)

\* The clock of a document runs from its deletion.
Present == \A d \in indexed : gone[d] = 0

SInv == Present /\ StaleAnswersEnd

LEMMA StaleStep == TInv /\ SInv /\ [Next]_vars => SInv'
<1> SUFFICES ASSUME TInv, SInv, [Next]_vars
             PROVE  SInv'
  OBVIOUS
<1> USE DEF SInv
<1>0. TTL \in Nat
  BY QueryAssumption
<1>1. CASE UNCHANGED <<memory_cache, indexed, gone>>
  BY <1>1 DEF Present, StaleAnswersEnd
<1>2. ASSUME NEW t \in Threads, DropExpired(t)
      PROVE  SInv'
  BY <1>2 DEF DropExpired, Present, StaleAnswersEnd
\* A document that is gone when its answer is stored is one of the late ones.
<1>3. ASSUME NEW t \in Threads, Reply(t)
      PROVE  SInv'
  <2>1. \A k \in DOMAIN memory_cache' :
           \/ k \in DOMAIN memory_cache /\ memory_cache'[k] = memory_cache[k]
           \/ memory_cache'[k] = Stored(t)
    BY <1>3 DEF Reply
  <2>2. (Stored(t).cites \ indexed) \ Stored(t).late = {}
    BY DEF Stored
  <2>3. UNCHANGED <<indexed, gone>>
    BY <1>3 DEF Reply
  <2> QED
    BY <2>1, <2>2, <2>3 DEF Present, StaleAnswersEnd
<1>4. ASSUME NEW t \in Threads, rag_agent_node(t)
      PROVE  SInv'
  <2>1. /\ indexed \subseteq indexed' /\ indexed' \subseteq Docs
        /\ \A d \in Docs : gone'[d] = IF d \in indexed' THEN 0 ELSE gone[d]
        /\ memory_cache' = memory_cache
    BY <1>4, QueryAssumption DEF rag_agent_node, search, TInv, TypeOK
  <2>2. \A k \in DOMAIN memory_cache : memory_cache[k].cites \subseteq Docs
    BY DEF TInv, TypeOK, Entries
  <2> QED
    BY <2>1, <2>2 DEF Present, StaleAnswersEnd
<1>5. ASSUME NEW d \in Docs, ingest(d)
      PROVE  SInv'
  <2>1. /\ indexed' = indexed \cup {d}
        /\ \A e \in Docs : gone'[e] = IF e = d THEN 0 ELSE gone[e]
        /\ memory_cache' = memory_cache /\ indexed \subseteq Docs
    BY <1>5 DEF ingest, TInv, TypeOK
  <2>2. \A k \in DOMAIN memory_cache : memory_cache[k].cites \subseteq Docs
    BY DEF TInv, TypeOK, Entries
  <2> QED
    BY <2>1, <2>2 DEF Present, StaleAnswersEnd
\* Its clock stands at zero, and no answer has more than TTL left.
<1>6. ASSUME NEW d \in Docs, delete_document(d)
      PROVE  SInv'
  <2>1. /\ d \in indexed /\ gone[d] = 0 /\ indexed' = indexed \ {d}
        /\ UNCHANGED <<gone, memory_cache>>
    BY <1>6 DEF delete_document, Present
  <2>2. \A k \in DOMAIN memory_cache :
           memory_cache[k].left \in Nat /\ memory_cache[k].left <= TTL
    BY <1>0 DEF TInv, TypeOK, Entries
  <2> QED
    BY <1>0, <2>1, <2>2 DEF Present, StaleAnswersEnd
\* An answer loses a tick where a deleted document gains at most one.
<1>7. CASE Tick
  <2>1. /\ indexed' = indexed /\ indexed \subseteq Docs
        /\ \A d \in Docs : /\ gone[d] \in Nat /\ gone'[d] \in Nat
                           /\ gone'[d] <= gone[d] + 1
                           /\ d \in indexed => gone'[d] = gone[d]
    BY <1>0, <1>7 DEF Tick, TInv, TypeOK
  <2>2. ASSUME NEW k \in DOMAIN memory_cache'
        PROVE  /\ k \in DOMAIN memory_cache
               /\ memory_cache[k].cites \subseteq Docs /\ memory_cache[k].left \in Nat
               /\ memory_cache'[k].cites = memory_cache[k].cites
               /\ memory_cache'[k].late = memory_cache[k].late
               /\ memory_cache'[k].left
                    = IF memory_cache[k].left = 0 THEN 0 ELSE memory_cache[k].left - 1
    BY <1>0, <1>7 DEF Tick, TInv, TypeOK, Entries
  <2>3. ASSUME NEW k \in DOMAIN memory_cache', memory_cache'[k].left > 0,
               NEW d \in (memory_cache'[k].cites \ indexed') \ memory_cache'[k].late
        PROVE  memory_cache'[k].left + gone'[d] <= TTL
    <3>1. d \in Docs /\ d \in (memory_cache[k].cites \ indexed) \ memory_cache[k].late
      BY <2>1, <2>2
    <3>2. memory_cache[k].left > 0 /\ memory_cache'[k].left = memory_cache[k].left - 1
      BY <2>2, <2>3
    <3>3. memory_cache[k].left + gone[d] <= TTL
      BY <2>2, <3>1, <3>2 DEF StaleAnswersEnd
    <3> QED
      BY <1>0, <2>1, <2>2, <3>1, <3>2, <3>3
  <2> QED
    BY <2>1, <2>3 DEF Present, StaleAnswersEnd
<1>8. ASSUME NEW t \in Threads, Step(t),
             ~ DropExpired(t), ~ Reply(t), ~ rag_agent_node(t)
      PROVE  UNCHANGED <<memory_cache, indexed, gone>>
  BY <1>8 DEF Step, process_query, GetMiss, GetHit, GetExpired, ReportError,
       pre_guardrail_node, intent_router_node, sql_agent_node, SearchRaises,
       evidence_synthesis_node, post_guardrail_node, resolve_ticket, LogTicket
<1> QED
  BY <1>1, <1>2, <1>3, <1>4, <1>5, <1>6, <1>7, <1>8 DEF Next, vars
\* Every variable keeps its type, and a thread past its cache has a request.
THEOREM TypeCorrect == Spec => []TypeOK
<1>1. Init => IInv
  BY TypeInit, QueueInit DEF IInv
<1>2. IInv => TypeOK
  BY DEF IInv, TInv
<1> QED
  BY <1>1, <1>2, StepKeeps, PTL DEF Spec

\* However many operators answer a ticket at once, it is never lost and never
\* resolved twice: resolve_ticket is safe without a lock, since it takes the
\* ticket off the queue by a pop, at which only one thread can succeed.
THEOREM Tickets == Spec => []TicketsKept
<1>1. Init => IInv
  BY TypeInit, QueueInit DEF IInv
<1> QED
  BY <1>1, Counted, StepKeeps, PTL DEF Spec

LEMMA CleanAndFresh == Spec => [](CleanReplies /\ RefusedNotCached /\ StaleAnswersEnd)
<1>1. Init => IInv /\ CInv /\ SInv
  <2>1. Init => CInv
    BY DEF Init, CInv, CleanReplies, RefusedNotCached, At, Idle
  <2>2. Init => SInv
    BY QueryAssumption DEF Init, SInv, Present, StaleAnswersEnd
  <2> QED
    BY <2>1, <2>2, TypeInit, QueueInit DEF IInv
<1>2. IInv /\ CInv /\ SInv /\ [Next]_vars => (IInv /\ CInv /\ SInv)'
  BY StepKeeps, CleanStep, StaleStep DEF IInv
<1>3. CInv /\ SInv => CleanReplies /\ RefusedNotCached /\ StaleAnswersEnd
  BY DEF CInv, SInv
<1> QED
  BY <1>1, <1>2, <1>3, PTL DEF Spec

\* Whatever scores the layers that pass may give together, their average is
\* above both thresholds: an answer that no layer of run_post_execution fails
\* is neither reviewed nor kept out of the cache for its confidence.
THEOREM Confident == Spec => []CleanIsConfident
<1>1. CleanReplies => CleanIsConfident
  BY DEF CleanReplies, Clean, CleanIsConfident
<1> QED
  BY <1>1, CleanAndFresh, PTL

\* process_query caches no answer to a query that the layers before execution
\* refused, or whose SQL the validator refused for a denied word or for being no
\* SELECT: layers 1 to 4 are evaluated again after execution, and layer 6 finds
\* these two again.  It says nothing of several statements or of none.
THEOREM NoRefusedAnswer == Spec => []RefusedNotCached
BY CleanAndFresh, PTL

\* The cache serves an answer for at most TTL after the deletion of a document
\* it cites, but for an answer that was stored after the deletion.
THEOREM StaleEnds == Spec => []StaleAnswersEnd
BY CleanAndFresh, PTL

-----------------------------------------------------------------------------
(* The engines that guard an answer, for any number of claims and numbers in   *)
(* it, any signals of a query and any capabilities that are switched off: what *)
(* the verifier's thresholds come to, what the stages clear, what the planner  *)
(* selects, and how long its plan takes.                                       *)

\* The lemmas on Without and Running, proved beside the L1 cache, hold here too.
LEMMA Provided == 1 \in Nat \ {0} /\ 0 \notin Seqs!Entries
  BY DEF Seqs!Entries

LEMMA SameWithout ==
  ASSUME NEW s, NEW S
  PROVE  Without(s, S) = Seqs!Without(s, S)
  BY DEF Without, Seqs!Without

LEMMA WithoutIs ==
  ASSUME NEW K, NEW s \in Seq(K), NEW S
  PROVE  /\ Without(s, S) \in Seq(K)
         /\ Seqs!Elements(Without(s, S)) = Seqs!Elements(s) \ S
         /\ Len(Without(s, S)) <= Len(s)
<1>1. /\ Seqs!Without(s, S) \in Seq(K)
      /\ Seqs!Elements(Seqs!Without(s, S)) = Seqs!Elements(s) \ S
      /\ Len(Seqs!Without(s, S)) <= Len(s)
  BY Provided, Seqs!WithoutIs
<1> QED
  BY <1>1, SameWithout

LEMMA KeptIs ==
  ASSUME NEW s, NEW S, Len(s) \in Nat
  PROVE  /\ Without(s, S) = Seqs!Kept(s, S)[Len(s)]
         /\ Seqs!Kept(s, S)[0] = <<>>
         /\ \A n \in 1 .. Len(s) :
               Seqs!Kept(s, S)[n] = IF s[n] \in S THEN Seqs!Kept(s, S)[n - 1]
                                    ELSE Append(Seqs!Kept(s, S)[n - 1], s[n])
<1>1. /\ Seqs!Without(s, S) = Seqs!Kept(s, S)[Len(s)]
      /\ Seqs!Kept(s, S)[0] = <<>>
      /\ \A n \in 1 .. Len(s) :
            Seqs!Kept(s, S)[n] = IF s[n] \in S THEN Seqs!Kept(s, S)[n - 1]
                                 ELSE Append(Seqs!Kept(s, S)[n - 1], s[n])
  BY Provided, Seqs!KeptIs
<1> QED
  BY <1>1, SameWithout

LEMMA RunningIs ==
  ASSUME NEW s \in Seq(Nat)
  PROVE  /\ Running(s)[0] = 0
         /\ \A n \in Nat : n + 1 <= Len(s) => Running(s)[n + 1] = Running(s)[n] + s[n + 1]
         /\ \A n \in 0 .. Len(s) : Running(s)[n] \in Nat
<1>1. /\ Seqs!Running(s)[0] = 0
      /\ \A n \in Nat : n + 1 <= Len(s) =>
            Seqs!Running(s)[n + 1] = Seqs!Running(s)[n] + s[n + 1]
      /\ \A n \in 0 .. Len(s) : Seqs!Running(s)[n] \in Nat
  BY Provided, Seqs!RunningIs
<1>2. Running(s) = Seqs!Running(s)
  BY DEF Running, Seqs!Running
<1> QED
  BY <1>1, <1>2

LEMMA Induct ==
  ASSUME NEW T, 0 \in T, \A n \in Nat : n \in T => n + 1 \in T
  PROVE  Nat \subseteq T
  BY Provided, Seqs!Induct

LEMMA LeastOf ==
  ASSUME NEW S, S \subseteq Nat, S # {}
  PROVE  \E n \in S : \A m \in S : n <= m
  BY Provided, Seqs!LeastOf

-----------------------------------------------------------------------------
\* An integer division by what divides with a rest.
LEMMA DivIs ==
  ASSUME NEW n \in Nat, NEW d \in Nat, NEW k \in Nat, NEW r \in Nat, n = k * d + r, r < d
  PROVE  n \div d = k
<1> DEFINE x == n \div d
           q == n % d
<1>1. d # 0
  BY SMT
<1>2. x \in Nat /\ q \in Nat /\ n = d * x + q /\ q < d
  BY <1>1, SMT
<1> HIDE DEF x, q
<1>3. d * k \in Nat /\ d * x \in Nat /\ k * d = d * k
  BY <1>2, SMT
<1>4. ASSUME x > k
      PROVE  FALSE
  <2>1. PICK e \in Nat : x = k + 1 + e
    <3>1. x - k - 1 \in Nat /\ x = k + 1 + (x - k - 1)
      BY <1>2, <1>4
    <3> QED
      BY <3>1
  <2>2. d * x = d * k + d + d * e /\ d * e \in Nat
    BY <1>2, <2>1, SMT
  <2> DEFINE a == d * x
             b == d * k
             o == d * e
  <2> HIDE DEF a, b, o
  <2>3. a = b + d + o /\ o \in Nat /\ b \in Nat /\ n = b + r /\ n = a + q
    BY <1>2, <1>3, <2>2 DEF a, b, o
  <2> QED
    BY <1>2, <2>3
<1>5. ASSUME x < k
      PROVE  FALSE
  <2>1. PICK e \in Nat : k = x + 1 + e
    <3>1. k - x - 1 \in Nat /\ k = x + 1 + (k - x - 1)
      BY <1>2, <1>5
    <3> QED
      BY <3>1
  <2>2. d * k = d * x + d + d * e /\ d * e \in Nat
    BY <1>2, <2>1, SMT
  <2> DEFINE a == d * x
             b == d * k
             o == d * e
  <2> HIDE DEF a, b, o
  <2>3. b = a + d + o /\ o \in Nat /\ a \in Nat /\ n = b + r /\ n = a + q
    BY <1>2, <1>3, <2>2 DEF a, b, o
  <2> QED
    BY <1>2, <2>3
<1> QED
  BY <1>2, <1>4, <1>5 DEF x

\* Whose claims are all grounded scores 100, and who has one that is not, at least
\* 50 unless it is the only one.
LEMMA GroundednessIs ==
  ASSUME Bounds, NEW a \in Answers
  PROVE  /\ a.ungrounded = 0 => Groundedness(a) = 100
         /\ a.ungrounded = 1 => \/ Groundedness(a) = 0
                                \/ (Groundedness(a) \in Nat /\ Groundedness(a) >= 50)
<1> DEFINE L == a.lines
           u == a.ungrounded
<1>1. L \in Nat /\ u \in Nat /\ u <= L
  BY DEF Answers, Bounds
<1>2. Groundedness(a) = IF L = 0 THEN 100 ELSE (2 * (100 * (L - u)) + L) \div (2 * L)
  BY DEF Groundedness, Rounded
<1> HIDE DEF L, u
<1>3. ASSUME u = 0
      PROVE  Groundedness(a) = 100
  <2>1. CASE L = 0
    BY <1>2, <2>1
  <2>2. CASE L # 0
    <3> DEFINE d == 2 * L
               n == 2 * (100 * (L - u)) + L
    <3>1. d \in Nat /\ n \in Nat /\ L < d /\ n = 100 * d + L
      BY <1>1, <1>3, <2>2, SMT
    <3> HIDE DEF d, n
    <3>2. n \div d = 100
      BY <1>1, <3>1, DivIs, SMT
    <3> QED
      BY <1>2, <2>2, <3>2 DEF n, d
  <2> QED
    BY <2>1, <2>2
<1>4. ASSUME u = 1
      PROVE  Groundedness(a) = 0 \/ (Groundedness(a) \in Nat /\ Groundedness(a) >= 50)
  <2>1. CASE L = 1
    <3>1. Groundedness(a) = (2 * (100 * (1 - 1)) + 1) \div (2 * 1)
      BY <1>2, <1>4, <2>1
    <3> QED
      BY <3>1, SMT
  <2>2. CASE L # 1
    <3> DEFINE d == 2 * L
               n == 2 * (100 * (L - u)) + L
               x == n \div d
               q == n % d
    <3>1. L \in Nat /\ L >= 2
      BY <1>1, <1>4, <2>2
    <3>2. d \in Nat /\ n \in Nat /\ d # 0 /\ n >= 50 * d
      BY <1>1, <1>4, <3>1, SMT
    <3> HIDE DEF d, n
    <3>3. x \in Nat /\ q \in Nat /\ n = d * x + q /\ q < d
      BY <3>2, SMT
    <3> HIDE DEF x, q
    <3>4. ASSUME x < 50
          PROVE  FALSE
      <4>1. PICK e \in Nat : 50 = x + 1 + e
        <5>1. 50 - x - 1 \in Nat /\ 50 = x + 1 + (50 - x - 1)
          BY <3>3, <3>4, SMT
        <5> QED
          BY <5>1
      <4>2. d * 50 = d * x + d + d * e /\ d * e \in Nat /\ d * x \in Nat
        BY <3>2, <3>3, <4>1, SMT
      <4> DEFINE m == d * x
                 o == d * e
      <4> HIDE DEF m, o
      <4>3. 50 * d = m + d + o /\ o \in Nat /\ m \in Nat /\ n = m + q
        BY <3>2, <3>3, <4>2, SMT DEF m, o
      <4> QED
        BY <3>2, <3>3, <4>3, SMT
    <3>5. x >= 50
      BY <3>3, <3>4, SMT
    <3>6. L # 0
      BY <3>1
    <3> QED
      BY <1>2, <3>3, <3>5, <3>6 DEF x, n, d
  <2> QED
    BY <2>1, <2>2
<1> QED
  BY <1>3, <1>4 DEF u

\* The hallucination risk by the claims no evidence carries and the numbers it lacks.
LEMMA RiskIs ==
  ASSUME Bounds, NEW a \in Answers
  PROVE  /\ HallucinationRisk(a) \in 0 .. 100
         /\ a.ungrounded = 0 => HallucinationRisk(a) <= 40
         /\ a.ungrounded >= 2 => HallucinationRisk(a) >= 50
         /\ a.ungrounded = 1 /\ a.numbers # 0 => HallucinationRisk(a) >= 50
         /\ a.ungrounded = 1 /\ a.numbers = 0 => HallucinationRisk(a) = 25
<1>1. a.ungrounded \in Nat /\ a.numbers \in Nat
  BY DEF Answers, Bounds
<1> DEFINE x == 25 * a.ungrounded
           y == 30 * a.numbers
<1>2. /\ x \in Nat /\ y \in Nat
      /\ a.ungrounded = 0 => x = 0
      /\ a.ungrounded = 1 => x = 25
      /\ a.ungrounded >= 2 => x >= 50
      /\ a.numbers = 0 => y = 0
      /\ a.numbers # 0 => y >= 30
  BY <1>1, SMT
<1>3. HallucinationRisk(a) = (IF x < 60 THEN x ELSE 60) + (IF y < 40 THEN y ELSE 40)
  BY DEF HallucinationRisk, AtMost
<1> HIDE DEF x, y
<1> QED
  BY <1>2, <1>3, SMT

\* A grounded answer scores 65 or more, and one with a single ungrounded claim, no
\* strange number and enough grounding 50 or more.
LEMMA QualityIs ==
  ASSUME Bounds, NEW a \in Answers
  PROVE  /\ a.ungrounded = 0 => QualityScore(a) >= 65
         /\ a.ungrounded = 1 /\ a.numbers = 0 /\ ~ Groundedness(a) < 40 => QualityScore(a) >= 50
<1> DEFINE g == Groundedness(a)
           h == HallucinationRisk(a)
           f == Faithfulness(a)
           v == a.relevance
<1>1. v \in Nat /\ v >= 40
  BY DEF Answers, Relevances
<1>2. /\ f = IF 2 * g - h < 0 THEN 0 ELSE (2 * (2 * g - h) + 2) \div (2 * 2)
      /\ QualityScore(a) = (2 * (35 * g + 25 * f + 20 * v + 20 * (100 - h)) + 100) \div (2 * 100)
  BY DEF Faithfulness, Rounded, QualityScore
<1> HIDE DEF f, v
<1>3. ASSUME a.ungrounded = 0
      PROVE  QualityScore(a) >= 65
  <2>1. g = 100 /\ h \in Nat /\ h <= 40
    BY <1>3, GroundednessIs, RiskIs
  <2> HIDE DEF g, h
  <2>2. f \in Nat /\ f >= 80
    BY <1>2, <2>1, SMT
  <2> QED
    BY <1>1, <1>2, <2>1, <2>2, SMT
<1>4. ASSUME a.ungrounded = 1, a.numbers = 0, ~ g < 40
      PROVE  QualityScore(a) >= 50
  <2>1. g = 0 \/ (g \in Nat /\ g >= 50)
    BY <1>4, GroundednessIs
  <2>2. h = 25
    BY <1>4, RiskIs
  <2>3. ~ g < 40
    BY <1>4
  <2> HIDE DEF g, h
  <2>4. g \in Nat /\ g >= 50
    BY <2>1, <2>3
  <2>5. f \in Nat /\ f >= 38
    BY <1>2, <2>2, <2>4, SMT
  <2> QED
    BY <1>1, <1>2, <2>2, <2>4, <2>5, SMT
<1> QED
  BY <1>3, <1>4 DEF g

\* What map_action comes to on any answer.
LEMMA ActionIs ==
  ASSUME Bounds, NEW a \in Answers, NEW hitl \in BOOLEAN
  PROVE  LET action == Action(a, hitl) IN
         /\ action \in Approving =>
               /\ a.evidence = "enough" /\ a.ungrounded <= 1
               /\ a.ungrounded = 1 => a.numbers = 0
         /\ action = "REGENERATE" => a.ungrounded = 1 /\ a.numbers = 0
         /\ action = "REJECT" => a.ungrounded >= 1 /\ HallucinationRisk(a) >= 50
         /\ a.ungrounded = 0 /\ a.evidence = "enough" =>
               action \in Approving \cup {"ESCALATE_HITL"}
         /\ hitl => /\ action \in {"ESCALATE_HITL", "TRIGGER_CRAG_RE_RETRIEVAL"}
                    /\ ~Acceptable(a, hitl)
<1> DEFINE g == Groundedness(a)
           h == HallucinationRisk(a)
           q == QualityScore(a)
           u == a.ungrounded
           crag == a.evidence # "enough" \/ g < 40
           action == Action(a, hitl)
           Goal == /\ action \in Approving =>
                         a.evidence = "enough" /\ u <= 1 /\ (u = 1 => a.numbers = 0)
                   /\ action = "REGENERATE" => u = 1 /\ a.numbers = 0
                   /\ action = "REJECT" => u >= 1 /\ h >= 50
                   /\ u = 0 /\ a.evidence = "enough" =>
                         action \in Approving \cup {"ESCALATE_HITL"}
                   /\ hitl => action \in {"ESCALATE_HITL", "TRIGGER_CRAG_RE_RETRIEVAL"}
<1>1. u \in Nat /\ a.numbers \in Nat
  BY DEF Answers, Bounds
<1>2. /\ h \in 0 .. 100 /\ (u = 0 => h <= 40) /\ (u >= 2 => h >= 50)
      /\ (u = 1 /\ a.numbers # 0 => h >= 50)
  BY RiskIs
<1>3. /\ u = 0 => g = 100 /\ q >= 65
      /\ u = 1 /\ a.numbers = 0 /\ ~ g < 40 => q >= 50
  BY GroundednessIs, QualityIs
<1>4. /\ action = IF crag THEN "TRIGGER_CRAG_RE_RETRIEVAL"
                  ELSE IF hitl THEN "ESCALATE_HITL"
                  ELSE IF h >= 50 THEN "REJECT"
                  ELSE IF q >= 80 THEN "APPROVE"
                  ELSE IF q >= 65 THEN "APPROVE_WITH_WARNING"
                  ELSE IF q >= 50 THEN "REGENERATE"
                  ELSE "REJECT"
      /\ Acceptable(a, hitl) => action \in Approving
  BY DEF Action, CragTriggered, Acceptable
<1>5. u = 0 /\ a.evidence = "enough" => ~crag
  BY <1>3, SMT
<1> HIDE DEF g, h, q, u, action
<1>6. ~crag => a.evidence = "enough" /\ ~ g < 40
  OBVIOUS
<1> HIDE DEF crag
<1>7. ASSUME crag PROVE Goal
  BY <1>4, <1>5, <1>7 DEF Approving
<1>8. ASSUME ~crag, hitl PROVE Goal
  BY <1>4, <1>8 DEF Approving
<1>9. ASSUME ~crag, ~hitl, h >= 50 PROVE Goal
  <2>1. action = "REJECT" /\ u >= 1
    BY <1>1, <1>2, <1>4, <1>9
  <2> QED
    BY <1>9, <2>1 DEF Approving
<1>10. ASSUME ~crag, ~hitl, ~ h >= 50 PROVE Goal
  <2>1. u = 0 \/ (u = 1 /\ a.numbers = 0)
    BY <1>1, <1>2, <1>10
  <2>2. q >= 65 \/ (u = 1 /\ q >= 50)
    BY <1>3, <1>6, <1>10, <2>1
  <2>3. action \in Approving \/ (action = "REGENERATE" /\ ~ q >= 65)
    BY <1>4, <1>10, <2>2 DEF Approving
  <2>4. action = "REGENERATE" => u = 1
    BY <1>4, <1>10, <2>2, <2>3 DEF Approving
  <2>5. u = 0 => action \in Approving
    BY <1>3, <2>1, <2>3
  <2> QED
    BY <1>6, <1>10, <2>1, <2>3, <2>4, <2>5 DEF Approving
<1>11. Goal
  BY <1>7, <1>8, <1>9, <1>10
<1>12. hitl => ~Acceptable(a, hitl)
  BY <1>4, <1>11 DEF Approving
<1> QED
  BY <1>11, <1>12 DEF action, h, u

\* A context's permissions, and the two that owners alone have.
LEMMA PermissionsAre ==
  ASSUME NEW ctx \in SecurityContext
  PROVE  /\ ctx.permissions \subseteq Permission
         /\ ctx.org = "OWNER" => ctx.permissions = Permission
         /\ "user:suspend" \in ctx.permissions => ctx.org = "OWNER"
         /\ "security:admin" \in ctx.permissions => ctx.org = "OWNER"
         /\ ctx.status \in UserStatus
         /\ ctx # NoUser
<1>1. PICK st \in UserStatus, org \in OrgRole \cup {NoRole},
           ws \in WorkspaceRole \cup {NoRole} :
        ctx = [status |-> st, org |-> org, permissions |-> EffectivePermissions(org, ws)]
  BY DEF SecurityContext
<1>2. /\ ctx.permissions = EffectivePermissions(org, ws) /\ ctx.org = org
      /\ ctx.status = st /\ st # "nobody"
  BY <1>1 DEF UserStatus
<1> DEFINE byOrg == IF org \in OrgRole THEN ORG_ROLE_PERMISSIONS[org] ELSE {}
           byWs == IF ws \in WorkspaceRole THEN WORKSPACE_ROLE_PERMISSIONS[ws] ELSE {}
<1>3. /\ byOrg \subseteq Permission /\ (org = "OWNER" => byOrg = Permission)
      /\ org # "OWNER" => byOrg \subseteq Managing
  <2>1. org \in OrgRole => byOrg = CASE org = "OWNER"  -> Permission
                                     [] org = "ADMIN"  -> Managing
                                     [] org = "MEMBER" -> Working
                                     [] org = "GUEST"  -> Reading
    BY DEF ORG_ROLE_PERMISSIONS
  <2>2. org \notin OrgRole => byOrg = {} /\ org # "OWNER"
    BY DEF OrgRole
  <2>3. Reading \subseteq Working /\ Working \subseteq Managing /\ Managing \subseteq Permission
    BY DEF Working, Managing, Permission
  <2> HIDE DEF byOrg
  <2>4. CASE org \notin OrgRole
    BY <2>2, <2>4
  <2>5. CASE org = "OWNER"
    BY <2>1, <2>5 DEF OrgRole
  <2>6. CASE org = "ADMIN"
    BY <2>1, <2>3, <2>6 DEF OrgRole
  <2>7. CASE org = "MEMBER"
    BY <2>1, <2>3, <2>7 DEF OrgRole
  <2>8. CASE org = "GUEST"
    BY <2>1, <2>3, <2>8 DEF OrgRole
  <2> QED
    BY <2>4, <2>5, <2>6, <2>7, <2>8 DEF OrgRole
<1>4. byWs \subseteq Managing
  <2>1. ws \in WorkspaceRole =>
          byWs = CASE ws = "WORKSPACE_ADMIN" -> {"workspace:read", "workspace:write",
                                                 "workspace:delete", "workspace:manage_members",
                                                 "project:read", "project:write",
                                                 "project:delete"}
                   [] ws = "MEMBER"          -> {"workspace:read", "project:read", "project:write"}
                   [] ws = "VIEWER"          -> {"workspace:read", "project:read"}
    BY DEF WORKSPACE_ROLE_PERMISSIONS
  <2>2. ws \notin WorkspaceRole => byWs = {}
    OBVIOUS
  <2> HIDE DEF byWs
  <2>3. CASE ws = "WORKSPACE_ADMIN"
    BY <2>1, <2>3 DEF WorkspaceRole, Managing, Working, Reading
  <2>4. CASE ws = "MEMBER"
    BY <2>1, <2>4 DEF WorkspaceRole, Managing, Working, Reading
  <2>5. CASE ws = "VIEWER"
    BY <2>1, <2>5 DEF WorkspaceRole, Managing, Working, Reading
  <2> QED
    BY <2>2, <2>3, <2>4, <2>5 DEF WorkspaceRole
<1>5. /\ Managing \subseteq Permission
      /\ "user:suspend" \notin Managing /\ "security:admin" \notin Managing
  BY DEF Permission, Managing, Working, Reading
<1>6. ctx.permissions = byOrg \cup byWs
  BY <1>2 DEF EffectivePermissions
<1> HIDE DEF byOrg, byWs
<1>7. ctx # NoUser
  <2>1. NoUser.status = "nobody"
    BY DEF NoUser
  <2> QED
    BY <1>2, <2>1
<1>8. /\ ctx.permissions \subseteq Permission
      /\ ctx.org = "OWNER" => ctx.permissions = Permission
  BY <1>2, <1>3, <1>4, <1>5, <1>6
<1>9. ~ ctx.org = "OWNER" =>
         "user:suspend" \notin ctx.permissions /\ "security:admin" \notin ctx.permissions
  BY <1>2, <1>3, <1>4, <1>5, <1>6
<1> QED
  BY <1>2, <1>7, <1>8, <1>9

-----------------------------------------------------------------------------
\* What holds of every request that is handed on.
CleanRequest(q) ==
    /\ q.risk \in {0, 40}
    /\ q.trust = IF q.risk = 0 THEN "HIGH" ELSE "LOW"
    /\ q.sensitive \in BOOLEAN
    /\ q.user \in Callers

CleanText(text) ==
    /\ text.phrase = 0 \/ text.written = "cut"
    /\ text.pii \in {"none", "cut"}

\* What the stages let through.
LEMMA ClearedAre ==
  ASSUME NEW r \in RequestContainers, NEW ctx \in Callers, Cleared(r, ctx)
  PROVE  /\ CleanRequest(Enriched(r, ctx)) /\ Enriched(r, ctx).user = ctx
         /\ CleanText(HandedOn(r))
<1>1. /\ r.traversal \in 0 .. 2 /\ r.phrase \in {0, 75, 80, 85, 90, 95} /\ r.sensitive \in BOOLEAN
      /\ r.written \in {"plain", "disguised", "cut"} /\ r.pii \in {"none", "plain", "disguised", "cut"}
      /\ r = [path |-> r.path, body |-> r.body, traversal |-> r.traversal, long |-> r.long,
              phrase |-> r.phrase, sensitive |-> r.sensitive, written |-> r.written, pii |-> r.pii]
  BY DEF RequestContainers, RuleScores
<1> DEFINE n == Normalized(r)
           m == Anonymized(n)
           w == Undisguised(r.written)
           p == Undisguised(r.pii)
<1>2. w \in {"plain", "cut"} /\ p \in {"none", "plain", "cut"}
  BY <1>1 DEF Undisguised
<1>3. n = [path |-> r.path, body |-> r.body, traversal |-> r.traversal, long |-> r.long,
           phrase |-> r.phrase, sensitive |-> r.sensitive, written |-> w, pii |-> p]
  <2> DEFINE half == [r EXCEPT !.written = Undisguised(@)]
  <2>1. half = [path |-> r.path, body |-> r.body, traversal |-> r.traversal, long |-> r.long,
                phrase |-> r.phrase, sensitive |-> r.sensitive, written |-> w, pii |-> r.pii]
    BY <1>1
  <2>2. n = [half EXCEPT !.pii = Undisguised(@)]
    BY DEF Normalized
  <2> HIDE DEF half, n, w
  <2> QED
    BY <2>1, <2>2
<1> HIDE DEF n, w, p
<1>4. m = [path |-> r.path, body |-> r.body, traversal |-> r.traversal, long |-> r.long,
           phrase |-> r.phrase, sensitive |-> r.sensitive, written |-> w,
           pii |-> IF p = "plain" THEN "none" ELSE p]
  BY <1>3 DEF Anonymized
<1>5. HandedOn(r) = m
  BY DEF HandedOn, n
<1> HIDE DEF m
<1>6. /\ 40 * r.traversal < 80
      /\ CumulativeRisk(n) = 40 * r.traversal + (IF w = "plain" THEN r.phrase ELSE 0)
      /\ CumulativeRisk(n) < 75
  BY <1>3 DEF Cleared, PayloadValid, TraversalScore, CumulativeRisk, ThreatScore, RiskAccepted, n
<1> DEFINE c == CumulativeRisk(n)
<1>7. (r.phrase = 0 \/ w = "cut") /\ c \in {0, 40}
  <2> HIDE DEF c
  <2>1. c = 40 * r.traversal + (IF w = "plain" THEN r.phrase ELSE 0) /\ c < 75
    BY <1>6 DEF c
  <2>2. r.traversal \in {0, 1}
    BY <1>1, <1>6, SMT
  <2> QED
    BY <1>1, <1>2, <2>1, <2>2, SMT
<1>8. Enriched(r, ctx) = [sensitive |-> IsSensitive(m), risk |-> c, trust |-> TrustLevel(c), user |-> ctx]
  BY <1>5 DEF Enriched, n
<1>9. IsSensitive(m) \in BOOLEAN
  BY DEF IsSensitive
<1> HIDE DEF c
<1>10. TrustLevel(c) = IF c = 0 THEN "HIGH" ELSE "LOW"
  BY <1>7 DEF TrustLevel
<1>11. CleanRequest(Enriched(r, ctx)) /\ Enriched(r, ctx).user = ctx
  BY <1>7, <1>8, <1>9, <1>10 DEF CleanRequest
<1>12. CleanText(m)
  BY <1>2, <1>4, <1>7 DEF CleanText
<1> QED
  BY <1>5, <1>11, <1>12

\* A context made by hand has permissions and no role.
LEMMA GivenAre ==
  ASSUME NEW ctx \in GivenContexts
  PROVE  ctx # NoUser /\ ctx.org # "OWNER" /\ ctx.permissions \subseteq Permission
<1>1. ctx.status \in UserStatus /\ ctx.org = NoRole /\ ctx.permissions \subseteq Permission
  BY AnsweringAssumption
<1>2. NoUser.status \notin UserStatus /\ NoRole # "OWNER"
  BY DEF NoUser, UserStatus, NoRole
<1> QED
  BY <1>1, <1>2

\* Whoever reaches a path that needs a permission has it.
LEMMA PathsAre ==
  ASSUME NEW r \in RequestContainers, NEW ctx \in Callers, ctx # NoUser,
         Cleared(r, ctx), r.path # "query"
  PROVE  /\ ctx.status # "SUSPENDED"
         /\ PATH_PERMISSION_MAP[r.path] \in ctx.permissions
         /\ r.path = "admin_users" => ctx.org = "OWNER" \/ ctx \in GivenContexts
<1>1. r.path \in {"invitations", "audit_logs", "admin_users", "ingest_text"}
  BY DEF RequestContainers, PATH_PERMISSION_MAP
<1>2. r.path \in DOMAIN PATH_PERMISSION_MAP
  BY <1>1 DEF PATH_PERMISSION_MAP
<1>3. MayDo(ctx, PATH_PERMISSION_MAP[r.path])
  BY <1>2 DEF Cleared, RBACPassed
<1> DEFINE p == PATH_PERMISSION_MAP[r.path]
<1>4. p \in Permission
  BY <1>1 DEF PATH_PERMISSION_MAP, Permission, Managing, Working, Reading
<1>5. r.path = "admin_users" => p = "user:suspend"
  BY DEF PATH_PERMISSION_MAP
<1>6. ctx.status # "SUSPENDED" /\ (ctx.org = "OWNER" \/ p \in ctx.permissions)
  BY <1>3 DEF MayDo
<1>7. ctx \in SecurityContext \/ ctx \in GivenContexts
  BY DEF Callers
<1> HIDE DEF p
<1> QED
  BY <1>4, <1>5, <1>6, <1>7, PermissionsAre, GivenAre DEF p

\* What an envelope that may be sent shows.
LEMMA EnvelopeIs ==
  ASSUME NEW n \in Narratives, NEW ctx \in Callers, ResponseAllowed(Envelope(n, ctx))
  PROVE  /\ n.size = "fits" /\ "prompt" \notin n.holds
         /\ ctx # NoUser => ctx.status = "ACTIVE"
         /\ (Envelope(n, ctx).shows \ n.cited) \cap RedactedKinds # {} =>
               /\ "security:admin" \in PermissionsOf(ctx)
               /\ ctx.org = "OWNER" \/ ctx \in GivenContexts
<1>1. SchemaValid(n) /\ PolicyAllows(n, ctx) /\ Envelope(n, ctx).shows = Sanitized(n, ctx) \cup n.cited
  BY DEF ResponseAllowed, Envelope
<1>2. "hr:admin" \notin PermissionsOf(ctx)
  <2>1. "hr:admin" \notin Permission
    BY DEF Permission, Managing, Working, Reading
  <2>2. PermissionsOf(ctx) \subseteq Permission
    BY PermissionsAre, GivenAre DEF Callers, PermissionsOf
  <2> QED
    BY <2>1, <2>2
<1>3. ASSUME (Envelope(n, ctx).shows \ n.cited) \cap RedactedKinds # {}
      PROVE  "security:admin" \in PermissionsOf(ctx)
  <2>1. Sanitized(n, ctx) \cap RedactedKinds # {}
    BY <1>1, <1>3
  <2>2. ~SeesEmail(ctx)
    BY <1>2 DEF SeesEmail
  <2> QED
    BY <2>1, <2>2 DEF Sanitized, SeesEverything
<1>4. "security:admin" \in PermissionsOf(ctx) => ctx.org = "OWNER" \/ ctx \in GivenContexts
  <2>1. CASE ctx = NoUser
    BY <2>1 DEF PermissionsOf
  <2>2. CASE ctx # NoUser
    BY <2>2, PermissionsAre DEF Callers, PermissionsOf
  <2> QED
    BY <2>1, <2>2
<1> QED
  BY <1>1, <1>3, <1>4 DEF SchemaValid, PolicyAllows, Leaks

\* What is known of whatever was registered.
LEMMA CapabilitiesAre ==
  /\ Slowest \in Nat
  /\ \A r \in Registries : r \in Seq(Capabilities)
  /\ \A c \in Capabilities : c.latency \in Nat /\ c.latency <= Slowest
<1>1. Slowest \in Nat /\ \A r \in Registries : r \in Seq(CapabilityMetadata)
  BY PlanningAssumption
<1>2. ASSUME NEW r \in Registries
      PROVE  r \in Seq(Capabilities)
  <2>1. Len(r) \in Nat /\ DOMAIN r = 1 .. Len(r) /\ r = [i \in 1 .. Len(r) |-> r[i]]
    BY <1>1
  <2>2. \A i \in 1 .. Len(r) : r[i] \in Capabilities
    BY <2>1 DEF Capabilities
  <2> QED
    BY <2>1, <2>2
<1>3. ASSUME NEW c \in Capabilities
      PROVE  c.latency \in Nat /\ c.latency <= Slowest
  <2>1. PICK r \in Registries : \E i \in DOMAIN r : c = r[i]
    BY DEF Capabilities
  <2>2. c \in CapabilityMetadata
    BY <1>1, <2>1
  <2>3. c.latency \in 0 .. Slowest
    BY <2>2 DEF CapabilityMetadata
  <2> QED
    BY <1>1, <2>3
<1> QED
  BY <1>1, <1>2, <1>3

\* Capabilities that are switched on and that the caller may use.
Usable(s, disabled, ctx) ==
    /\ s \in Seq(Capabilities)
    /\ \A c \in Seqs!Elements(s) : c \notin disabled /\ c.needs \subseteq PermissionsOf(ctx)

\* Choosing by type leaves what may be used.
LEMMA OfTypeUsable ==
  ASSUME NEW s, NEW disabled, NEW ctx, Usable(s, disabled, ctx), NEW types
  PROVE  Usable(OfType(s, types), disabled, ctx)
<1>1. /\ OfType(s, types) \in Seq(Capabilities)
      /\ Seqs!Elements(OfType(s, types)) \subseteq Seqs!Elements(s)
  <2> DEFINE S == {c \in Capabilities : c.type \notin types}
  <2>1. s \in Seq(Capabilities)
    BY DEF Usable
  <2> HIDE DEF S
  <2>2. Without(s, S) \in Seq(Capabilities) /\ Seqs!Elements(Without(s, S)) = Seqs!Elements(s) \ S
    BY <2>1, WithoutIs
  <2> QED
    BY <2>2 DEF OfType, S
<1> QED
  BY <1>1 DEF Usable

\* So does taking the first.
LEMMA FirstUsable ==
  ASSUME NEW s, NEW disabled, NEW ctx, Usable(s, disabled, ctx)
  PROVE  Usable(FirstOf(s), disabled, ctx)
<1>1. s \in Seq(Capabilities) /\ Len(s) \in Nat
  BY DEF Usable
<1>2. CASE s = <<>>
  <2>1. FirstOf(s) = <<>>
    BY <1>1, <1>2 DEF FirstOf
  <2>2. <<>> \in Seq(Capabilities) /\ Seqs!Elements(<<>>) = {}
    BY DEF Seqs!Elements
  <2> QED
    BY <2>1, <2>2 DEF Usable
<1>3. CASE s # <<>>
  <2>1. FirstOf(s) = SubSeq(s, 1, 1) /\ 1 \in DOMAIN s
    BY <1>1, <1>3 DEF FirstOf
  <2>2. SubSeq(s, 1, 1) \in Seq(Capabilities) /\ DOMAIN SubSeq(s, 1, 1) = {1}
        /\ SubSeq(s, 1, 1)[1] = s[1]
    <3>1. 1 \in 1 .. Len(s)
      BY <1>1, <2>1
    <3>2. /\ SubSeq(s, 1, 1) \in Seq(Capabilities) /\ Len(SubSeq(s, 1, 1)) = 1
          /\ SubSeq(s, 1, 1)[1] = s[1]
      BY <1>1, <3>1
    <3> QED
      BY <3>2
  <2>3. Seqs!Elements(FirstOf(s)) = {s[1]} /\ s[1] \in Seqs!Elements(s)
    BY <2>1, <2>2 DEF Seqs!Elements
  <2> QED
    BY <2>1, <2>2, <2>3 DEF Usable
<1> QED
  BY <1>2, <1>3

\* Every intent, strategy and fallback selects what may be used.
LEMMA SelectedUsable ==
  ASSUME NEW intent, NEW strategy, NEW registry \in Registries, NEW disabled, NEW ctx
  PROVE  Usable(Selected(intent, strategy, Listed(registry, disabled), ctx), disabled, ctx)
<1> DEFINE listed == Listed(registry, disabled)
           caps == Permitted(listed, ctx)
<1>1. Usable(caps, disabled, ctx)
  <2> DEFINE T == {c \in Capabilities : ~(c.needs \subseteq PermissionsOf(ctx))}
  <2>1. listed = Without(registry, disabled) /\ caps = Without(listed, T)
    BY DEF Listed, Permitted
  <2>2. \A c \in Capabilities \ T : c.needs \subseteq PermissionsOf(ctx)
    OBVIOUS
  <2> HIDE DEF T, listed, caps
  <2>3. registry \in Seq(Capabilities)
    BY CapabilitiesAre
  <2>4. listed \in Seq(Capabilities) /\ Seqs!Elements(listed) = Seqs!Elements(registry) \ disabled
    BY <2>1, <2>3, WithoutIs
  <2>5. caps \in Seq(Capabilities) /\ Seqs!Elements(caps) = Seqs!Elements(listed) \ T
    BY <2>1, <2>4, WithoutIs
  <2>6. Seqs!Elements(registry) \subseteq Capabilities
    BY <2>3 DEF Seqs!Elements
  <2> QED
    BY <2>2, <2>4, <2>5, <2>6 DEF Usable
<1> HIDE DEF caps, listed
<1>2. Usable(Retrievers(strategy, caps), disabled, ctx)
  BY <1>1, OfTypeUsable, FirstUsable DEF Retrievers
<1>3. /\ Selected("STRUCTURED_SQL", strategy, listed, ctx) = OfType(caps, {"TEXT_TO_SQL", "ANALYTICS_ENGINE"})
      /\ Selected("UNSTRUCTURED_RAG", strategy, listed, ctx) = Retrievers(strategy, caps)
      /\ Selected("HYBRID_ANALYTICS", strategy, listed, ctx) = OfType(caps, {"TEXT_TO_SQL", "RETRIEVAL_VECTOR"})
      /\ Selected("SUMMARIZATION", strategy, listed, ctx) = OfType(caps, {"RETRIEVAL_VECTOR", "DOCUMENT_SUMMARIZER"})
      /\ intent \notin {"STRUCTURED_SQL", "UNSTRUCTURED_RAG", "HYBRID_ANALYTICS", "SUMMARIZATION"} =>
            Selected(intent, strategy, listed, ctx) = FirstOf(caps)
  BY DEF Selected, caps
<1>4. Usable(Selected(intent, strategy, listed, ctx), disabled, ctx)
  BY <1>1, <1>2, <1>3, OfTypeUsable, FirstUsable
<1> QED
  BY <1>4 DEF listed
-----------------------------------------------------------------------------
\* There is a largest latency: the least number that none exceeds is one of them.
LEMMA MaxLatencyIs ==
  ASSUME NEW caps \in Seq(Capabilities)
  PROVE  MaxLatency(caps) \in Nat
<1> DEFINE V == {caps[i].latency : i \in DOMAIN caps}
           B == {m \in Nat : \A i \in DOMAIN caps : caps[i].latency <= m}
<1>1. /\ Slowest \in Nat
      /\ \A i \in DOMAIN caps : caps[i].latency \in Nat /\ caps[i].latency <= Slowest
  BY CapabilitiesAre
<1>2. \E m \in {0} \cup V : \A i \in DOMAIN caps : caps[i].latency <= m
  <2>1. Slowest \in B
    BY <1>1, SMT
  <2>2. PICK m \in B : \A k \in B : m <= k
    BY <2>1, LeastOf
  <2>3. CASE m \in {0} \cup V
    BY <2>2, <2>3
  <2>4. CASE m \notin {0} \cup V
    <3>1. m \in Nat /\ m - 1 \in Nat /\ ~ m <= m - 1
      BY <2>2, <2>4
    <3>2. \A i \in DOMAIN caps : caps[i].latency <= m /\ caps[i].latency # m
      BY <2>2, <2>4
    <3>3. \A i \in DOMAIN caps : caps[i].latency <= m - 1
      BY <1>1, <3>1, <3>2
    <3> QED
      BY <2>2, <3>1, <3>3
  <2> QED
    BY <2>3, <2>4
<1>3. MaxLatency(caps) \in {0} \cup V
  BY <1>2 DEF MaxLatency
<1> QED
  BY <1>1, <1>3

\* A single task's largest latency is its own.
LEMMA LatencyOfOne ==
  ASSUME NEW c \in Capabilities
  PROVE  MaxLatency(<<c>>) = c.latency
<1> DEFINE l == c.latency
<1>1. l \in Nat
  BY CapabilitiesAre
<1>2. {<<c>>[i].latency : i \in DOMAIN <<c>>} = {l}
  OBVIOUS
<1>3. \A m : (\A i \in DOMAIN <<c>> : <<c>>[i].latency <= m) <=> l <= m
  OBVIOUS
<1>4. MaxLatency(<<c>>) = CHOOSE m \in {0} \cup {<<c>>[i].latency : i \in DOMAIN <<c>>} :
                            \A i \in DOMAIN <<c>> : <<c>>[i].latency <= m
  BY DEF MaxLatency
<1> DEFINE M == MaxLatency(<<c>>)
<1>5. /\ M \in {0} \cup {<<c>>[i].latency : i \in DOMAIN <<c>>}
      /\ \A i \in DOMAIN <<c>> : <<c>>[i].latency <= M
  <2>1. \E m \in {0} \cup {<<c>>[i].latency : i \in DOMAIN <<c>>} :
           \A i \in DOMAIN <<c>> : <<c>>[i].latency <= m
    BY <1>1, <1>2, <1>3
  <2> QED
    BY <1>4, <2>1
<1> HIDE DEF M, l
<1>6. M \in {0, l} /\ l <= M
  BY <1>2, <1>3, <1>5
<1> QED
  BY <1>1, <1>6 DEF M, l

\* PlanHolds of one plan; the recursion of done written as in PlanHolds.
LongestPath(stages) ==
    LET done[i \in DOMAIN stages] ==
            MaxLatency(stages[i].tasks)
              + (IF stages[i].dependencies = {} THEN 0
                 ELSE done[CHOOSE d \in stages[i].dependencies : TRUE])
    IN  done

PlanFits(stages, latency, disabled, perms) ==
    /\ \A i \in DOMAIN stages : \A j \in DOMAIN stages[i].tasks :
           /\ stages[i].tasks[j] \in Capabilities \ disabled
           /\ stages[i].tasks[j].needs \subseteq perms
    /\ \A i \in DOMAIN stages : \A d \in stages[i].dependencies : d \in 1 .. (i - 1)
    /\ latency = IF stages = <<>> THEN 0 ELSE LongestPath(stages)[Len(stages)]

\* What may be used is on and allowed.
LEMMA UsableTasks ==
  ASSUME NEW caps, NEW disabled, NEW ctx, Usable(caps, disabled, ctx)
  PROVE  \A j \in DOMAIN caps : caps[j] \in Capabilities \ disabled
                                /\ caps[j].needs \subseteq PermissionsOf(ctx)
<1>1. caps \in Seq(Capabilities)
  BY DEF Usable
<1> SUFFICES ASSUME NEW j \in DOMAIN caps
             PROVE  caps[j] \in Capabilities \ disabled /\ caps[j].needs \subseteq PermissionsOf(ctx)
  OBVIOUS
<1>2. caps[j] \in Capabilities /\ caps[j] \in Seqs!Elements(caps)
  BY <1>1 DEF Seqs!Elements
<1> QED
  BY <1>2 DEF Usable

\* One stage for all capabilities.
LEMMA SinglePlan ==
  ASSUME NEW caps, NEW disabled, NEW ctx, Usable(caps, disabled, ctx)
  PROVE  PlanFits(Stages("HYBRID_ANALYTICS", caps), MaxLatency(caps), disabled, PermissionsOf(ctx))
<1> DEFINE stage == [tasks |-> caps, parallel |-> TRUE, dependencies |-> {}]
           stages == <<stage>>
           g == [i \in {1} |-> MaxLatency(caps)]
<1>1. Stages("HYBRID_ANALYTICS", caps) = stages
  BY DEF Stages
<1>2. DOMAIN stages = {1} /\ Len(stages) = 1 /\ stages # <<>> /\ stages[1] = stage
  OBVIOUS
<1>3. stage.tasks = caps /\ stage.dependencies = {}
  OBVIOUS
<1> HIDE DEF stage, stages
<1>4. MaxLatency(caps) + 0 = MaxLatency(caps)
  BY MaxLatencyIs DEF Usable
<1> DEFINE Sol(f) == f = [i \in DOMAIN stages |->
                       MaxLatency(stages[i].tasks)
                         + (IF stages[i].dependencies = {} THEN 0
                            ELSE f[CHOOSE d \in stages[i].dependencies : TRUE])]
<1>5. LongestPath(stages) = CHOOSE f : Sol(f)
  BY DEF LongestPath
<1>6. \A f : Sol(f) <=> f = g
  BY <1>2, <1>3, <1>4
<1> HIDE DEF Sol
<1>7. Sol(LongestPath(stages))
  <2>1. Sol(g)
    BY <1>6
  <2> QED
    BY <1>5, <2>1
<1>8. LongestPath(stages)[1] = MaxLatency(caps)
  BY <1>6, <1>7
<1>9. \A j \in DOMAIN caps : caps[j] \in Capabilities \ disabled /\ caps[j].needs \subseteq PermissionsOf(ctx)
  BY UsableTasks
<1>10. PlanFits(stages, MaxLatency(caps), disabled, PermissionsOf(ctx))
  BY <1>2, <1>3, <1>8, <1>9 DEF PlanFits
<1> QED
  BY <1>1, <1>10

\* One stage for each capability.
LEMMA ChainPlan ==
  ASSUME NEW caps, NEW disabled, NEW ctx, Usable(caps, disabled, ctx),
         NEW intent, intent # "HYBRID_ANALYTICS"
  PROVE  PlanFits(Stages(intent, caps), TotalLatency(caps), disabled, PermissionsOf(ctx))
<1> DEFINE L == Len(caps)
           stages == [i \in DOMAIN caps |->
                        [tasks |-> <<caps[i]>>, parallel |-> FALSE,
                         dependencies |-> IF i > 1 THEN {i - 1} ELSE {}]]
           lats == [i \in DOMAIN caps |-> caps[i].latency]
           g == [i \in 1 .. L |-> Running(lats)[i]]
<1>1. Stages(intent, caps) = stages /\ TotalLatency(caps) = Running(lats)[L]
  BY DEF Stages, TotalLatency
<1>2. L \in Nat /\ DOMAIN caps = 1 .. L
  BY DEF Usable
<1>3. \A i \in 1 .. L : caps[i] \in Capabilities \ disabled
                        /\ caps[i].needs \subseteq PermissionsOf(ctx)
  BY <1>2, UsableTasks
<1>4. \A i \in 1 .. L : caps[i].latency \in Nat
  BY <1>3, CapabilitiesAre
<1>5. /\ Len(stages) = L /\ DOMAIN stages = 1 .. L
      /\ stages = <<>> <=> L = 0
  <2>1. DOMAIN stages = 1 .. L
    BY <1>2
  <2>2. \A i \in 1 .. L : stages[i] \in {stages[k] : k \in 1 .. L}
    OBVIOUS
  <2>3. stages = [i \in 1 .. L |-> stages[i]]
    BY <1>2
  <2> DEFINE V == {stages[k] : k \in 1 .. L}
  <2> HIDE DEF stages, V, L
  <2>4. stages \in Seq(V)
    BY <1>2, <2>1, <2>2, <2>3 DEF V
  <2>5. Len(stages) = L
    BY <1>2, <2>1, <2>4
  <2> QED
    BY <1>2, <2>1, <2>4, <2>5
<1>6. lats \in Seq(Nat) /\ Len(lats) = L /\ \A i \in 1 .. L : lats[i] = caps[i].latency
  BY <1>2, <1>4
<1>7. \A i \in 1 .. L : /\ stages[i].tasks = <<caps[i]>>
                        /\ stages[i].dependencies = IF i > 1 THEN {i - 1} ELSE {}
  BY <1>2
<1> HIDE DEF L, stages, lats
<1>8. \A i \in 1 .. L : MaxLatency(stages[i].tasks) = lats[i]
  BY <1>3, <1>6, <1>7, LatencyOfOne
<1>9. /\ Running(lats)[0] = 0
      /\ \A n \in Nat : n + 1 <= L => Running(lats)[n + 1] = Running(lats)[n] + lats[n + 1]
      /\ \A n \in 0 .. L : Running(lats)[n] \in Nat
  BY <1>6, RunningIs
<1>10. \A i \in 1 .. L : IF i = 1 THEN Running(lats)[i] = lats[i]
                         ELSE Running(lats)[i] = lats[i] + Running(lats)[i - 1]
  <2> SUFFICES ASSUME NEW i \in 1 .. L
               PROVE  IF i = 1 THEN Running(lats)[i] = lats[i]
                      ELSE Running(lats)[i] = lats[i] + Running(lats)[i - 1]
    OBVIOUS
  <2>1. i - 1 \in Nat /\ (i - 1) + 1 = i /\ i <= L /\ i - 1 \in 0 .. L
    BY <1>2
  <2>2. Running(lats)[(i - 1) + 1] = Running(lats)[i - 1] + lats[(i - 1) + 1]
    BY <1>9, <2>1
  <2>3. lats[i] \in Nat /\ Running(lats)[i - 1] \in Nat
    BY <1>4, <1>6, <1>9, <2>1
  <2> QED
    BY <1>9, <2>1, <2>2, <2>3
<1> DEFINE Sol(f) == f = [i \in DOMAIN stages |->
                       MaxLatency(stages[i].tasks)
                         + (IF stages[i].dependencies = {} THEN 0
                            ELSE f[CHOOSE d \in stages[i].dependencies : TRUE])]
<1>11. LongestPath(stages) = CHOOSE f : Sol(f)
  BY DEF LongestPath
<1>12. \A i \in 1 .. L : /\ i = 1 => stages[i].dependencies = {}
                         /\ i # 1 => /\ stages[i].dependencies # {}
                                     /\ (CHOOSE d \in stages[i].dependencies : TRUE) = i - 1
  <2> SUFFICES ASSUME NEW i \in 1 .. L
               PROVE  /\ i = 1 => stages[i].dependencies = {}
                      /\ i # 1 => /\ stages[i].dependencies # {}
                                  /\ (CHOOSE d \in stages[i].dependencies : TRUE) = i - 1
    OBVIOUS
  <2> DEFINE waits == stages[i].dependencies
  <2>0. waits = IF i > 1 THEN {i - 1} ELSE {}
    BY <1>7
  <2> HIDE DEF waits
  <2>1. i = 1 => waits = {}
    BY <1>2, <2>0
  <2>2. i # 1 => waits = {i - 1}
    BY <1>2, <2>0
  <2>3. (CHOOSE d \in {i - 1} : TRUE) = i - 1
    OBVIOUS
  <2> QED
    BY <2>1, <2>2, <2>3 DEF waits
<1> DEFINE Value(f, i) == MaxLatency(stages[i].tasks)
                            + (IF stages[i].dependencies = {} THEN 0
                               ELSE f[CHOOSE d \in stages[i].dependencies : TRUE])
<1>13. \A f : \A i \in 1 .. L : Value(f, i) = IF i = 1 THEN lats[i] ELSE lats[i] + f[i - 1]
  <2> SUFFICES ASSUME NEW f, NEW i \in 1 .. L
               PROVE  Value(f, i) = IF i = 1 THEN lats[i] ELSE lats[i] + f[i - 1]
    OBVIOUS
  <2>1. lats[i] \in Nat /\ MaxLatency(stages[i].tasks) = lats[i]
    BY <1>4, <1>6, <1>8
  <2>2. CASE i = 1
    <3>1. Value(f, i) = lats[i] + 0
      BY <1>12, <2>1, <2>2
    <3> QED
      BY <2>1, <2>2, <3>1
  <2>3. CASE i # 1
    <3> DEFINE first == CHOOSE d \in stages[i].dependencies : TRUE
    <3>1. first = i - 1 /\ stages[i].dependencies # {}
      BY <1>12, <2>3
    <3> HIDE DEF first
    <3>2. Value(f, i) = MaxLatency(stages[i].tasks) + f[first]
      BY <3>1 DEF first
    <3> QED
      BY <2>1, <2>3, <3>1, <3>2
  <2> QED
    BY <2>2, <2>3
<1>14. \A f : Sol(f) <=> f = [i \in DOMAIN stages |-> Value(f, i)]
  OBVIOUS
<1> HIDE DEF Sol, Value
<1>15. Sol(LongestPath(stages))
  <2>1. \A i \in 1 .. L : g[i] = Value(g, i)
    <3> SUFFICES ASSUME NEW i \in 1 .. L
                 PROVE  g[i] = Value(g, i)
      OBVIOUS
    <3>1. g[i] = Running(lats)[i] /\ (i # 1 => g[i - 1] = Running(lats)[i - 1])
      <4>1. i # 1 => i - 1 \in 1 .. L
        BY <1>2
      <4> QED
        BY <4>1
    <3> HIDE DEF g
    <3> QED
      BY <1>10, <1>13, <3>1
  <2>2. g = [i \in 1 .. L |-> g[i]]
    OBVIOUS
  <2> HIDE DEF g
  <2>3. g = [i \in DOMAIN stages |-> Value(g, i)]
    BY <1>5, <2>1, <2>2
  <2>4. Sol(g)
    BY <1>14, <2>3
  <2> QED
    BY <1>11, <2>4
<1> DEFINE P == LongestPath(stages)
           T == {n \in Nat : n + 1 <= L => P[n + 1] = Running(lats)[n + 1]}
<1>16. \A i \in 1 .. L : P[i] = IF i = 1 THEN lats[i] ELSE lats[i] + P[i - 1]
  <2>1. P = [i \in 1 .. L |-> Value(P, i)]
    BY <1>5, <1>14, <1>15
  <2> HIDE DEF P
  <2> QED
    BY <1>13, <2>1
<1> HIDE DEF P
<1>17. 0 \in T
  <2>1. 0 + 1 <= L => 1 \in 1 .. L
    BY <1>2
  <2> QED
    BY <1>10, <1>16, <2>1
<1>18. ASSUME NEW n \in Nat, n \in T
       PROVE  n + 1 \in T
  <2> SUFFICES ASSUME (n + 1) + 1 <= L
               PROVE  P[(n + 1) + 1] = Running(lats)[(n + 1) + 1]
    OBVIOUS
  <2> DEFINE i == (n + 1) + 1
  <2>1. i \in 1 .. L /\ i # 1 /\ i - 1 = n + 1 /\ n + 1 <= L
    BY <1>2
  <2> HIDE DEF i
  <2>2. P[i] = lats[i] + P[i - 1] /\ Running(lats)[i] = lats[i] + Running(lats)[i - 1]
    BY <1>10, <1>16, <2>1
  <2>3. P[n + 1] = Running(lats)[n + 1]
    BY <1>18, <2>1
  <2> QED
    BY <2>1, <2>2, <2>3 DEF i
<1> HIDE DEF T
<1>19. L # 0 => P[L] = Running(lats)[L]
  <2>1. Nat \subseteq T
    BY <1>17, <1>18, Induct
  <2>2. L # 0 => L - 1 \in Nat /\ (L - 1) + 1 = L
    BY <1>2
  <2>3. L # 0 => L - 1 \in T
    BY <2>1, <2>2
  <2> QED
    BY <1>2, <2>2, <2>3 DEF T
<1>20. \A i \in 1 .. L : \A d \in stages[i].dependencies : d \in 1 .. (i - 1)
  <2> SUFFICES ASSUME NEW i \in 1 .. L, NEW d \in stages[i].dependencies
               PROVE  d \in 1 .. (i - 1)
    OBVIOUS
  <2>1. i > 1 /\ d = i - 1
    BY <1>7
  <2> QED
    BY <1>2, <2>1
<1>21. \A i \in 1 .. L : \A j \in DOMAIN stages[i].tasks :
          /\ stages[i].tasks[j] \in Capabilities \ disabled
          /\ stages[i].tasks[j].needs \subseteq PermissionsOf(ctx)
  <2> SUFFICES ASSUME NEW i \in 1 .. L, NEW j \in DOMAIN stages[i].tasks
               PROVE  /\ stages[i].tasks[j] \in Capabilities \ disabled
                      /\ stages[i].tasks[j].needs \subseteq PermissionsOf(ctx)
    OBVIOUS
  <2> DEFINE c == caps[i]
  <2>1. stages[i].tasks = <<c>> /\ c \in Capabilities \ disabled /\ c.needs \subseteq PermissionsOf(ctx)
    BY <1>3, <1>7
  <2> HIDE DEF c
  <2>2. j = 1 /\ stages[i].tasks[j] = c
    BY <2>1
  <2> QED
    BY <2>1, <2>2
<1>22. PlanFits(stages, Running(lats)[L], disabled, PermissionsOf(ctx))
  BY <1>5, <1>9, <1>19, <1>20, <1>21 DEF PlanFits, P
<1> QED
  BY <1>1, <1>22

\* Any plan fits.
LEMMA PlanIs ==
  ASSUME NEW s, NEW strategy, NEW registry \in Registries, NEW disabled, NEW ctx
  PROVE  LET p == PlanOf(s, strategy, Listed(registry, disabled), ctx) IN
         PlanFits(p.stages, p.latency, disabled, PermissionsOf(ctx))
<1> DEFINE intent == Classify(s)
           listed == Listed(registry, disabled)
           caps == Selected(intent, strategy, listed, ctx)
           p == PlanOf(s, strategy, listed, ctx)
<1>1. Usable(caps, disabled, ctx)
  BY SelectedUsable
<1>2. /\ p.stages = Stages(intent, caps)
      /\ p.latency = IF intent = "HYBRID_ANALYTICS" THEN MaxLatency(caps) ELSE TotalLatency(caps)
  BY DEF PlanOf
<1> HIDE DEF intent, caps, p, listed
<1>3. PlanFits(p.stages, p.latency, disabled, PermissionsOf(ctx))
  BY <1>1, <1>2, SinglePlan, ChainPlan
<1> QED
  BY <1>3 DEF p, listed
-----------------------------------------------------------------------------
AnswerInv ==
    /\ request = NoRequest \/ CleanRequest(request)
    /\ ClearedIsClean /\ PlanHolds /\ VerdictFitsClaims /\ ReleasedIsClean

\* After a step that leaves no plan, verdict or envelope.
LEMMA Quiet ==
  ASSUME (request = NoRequest \/ CleanRequest(request))', outcome'.step \in {"none", "refused"}
  PROVE  AnswerInv'
<1>1. ClearedIsClean'
  BY DEF ClearedIsClean, AnsweringTypeOK, CleanRequest
<1> QED
  BY <1>1 DEF AnswerInv, PlanHolds, VerdictFitsClaims, ReleasedIsClean

\* Each step keeps the invariant.
LEMMA ReceiveKeeps == AnswerInv /\ Receive => AnswerInv'
<1> SUFFICES ASSUME AnswerInv, Receive
             PROVE  AnswerInv'
  OBVIOUS
<1>1. PICK r \in RequestContainers, ctx \in Callers :
        IF Cleared(r, ctx)
        THEN request' = Enriched(r, ctx)
             /\ outcome' = [step |-> "cleared", path |-> r.path, text |-> HandedOn(r)]
        ELSE UNCHANGED request /\ outcome' = [step |-> "refused"]
  BY DEF Receive
<1>2. CASE Cleared(r, ctx)
  <2>1. /\ request' = Enriched(r, ctx) /\ outcome'.step = "cleared" /\ outcome'.path = r.path
        /\ outcome'.text = HandedOn(r)
    BY <1>1, <1>2
  <2>2. CleanRequest(request') /\ request'.user = ctx /\ CleanText(outcome'.text)
    BY <1>2, <2>1, ClearedAre
  <2>3. request'.user # NoUser /\ outcome'.path # "query" =>
          /\ request'.user.status # "SUSPENDED"
          /\ PATH_PERMISSION_MAP[outcome'.path] \in request'.user.permissions
          /\ outcome'.path = "admin_users" =>
                request'.user.org = "OWNER" \/ request'.user \in GivenContexts
    BY <1>2, <2>1, <2>2, PathsAre
  <2>4. ClearedIsClean'
    BY <2>1, <2>2, <2>3 DEF ClearedIsClean, AnsweringTypeOK, CleanRequest, CleanText
  <2> QED
    BY <2>1, <2>2, <2>4 DEF AnswerInv, PlanHolds, VerdictFitsClaims, ReleasedIsClean
<1>3. CASE ~ Cleared(r, ctx)
  <2>1. request' = request /\ outcome'.step = "refused"
    BY <1>1, <1>3
  <2>2. (request = NoRequest \/ CleanRequest(request))'
    BY <2>1 DEF AnswerInv, CleanRequest
  <2> QED
    BY <2>1, <2>2, Quiet
<1> QED
  BY <1>2, <1>3

LEMMA PlanKeeps == AnswerInv /\ Plan => AnswerInv'
<1> SUFFICES ASSUME AnswerInv, Plan
             PROVE  AnswerInv'
  OBVIOUS
<1>1. PICK s \in Signals, strategy \in Strategies, registry \in Registries :
        \E disabled \in SUBSET {registry[i] : i \in DOMAIN registry} :
            outcome' = [step |-> "plan", disabled |-> disabled,
                        plan |-> PlanOf(s, strategy, Listed(registry, disabled), request.user),
                        hitl |-> RequiresApproval(request.risk, request.sensitive)]
  BY DEF Plan
<1>2. PICK disabled : outcome' = [step |-> "plan", disabled |-> disabled,
                        plan |-> PlanOf(s, strategy, Listed(registry, disabled), request.user),
                        hitl |-> RequiresApproval(request.risk, request.sensitive)]
  BY <1>1
<1> DEFINE p == PlanOf(s, strategy, Listed(registry, disabled), request.user)
<1>3. outcome'.step = "plan" /\ outcome'.disabled = disabled /\ outcome'.plan = p
  BY <1>2
<1>4. request' = request /\ CleanRequest(request)
  BY DEF Plan, AnswerInv
<1>5. PlanFits(p.stages, p.latency, disabled, PermissionsOf(request.user))
  BY PlanIs
<1> HIDE DEF p
<1>6. PlanFits(outcome'.plan.stages, outcome'.plan.latency, outcome'.disabled,
               PermissionsOf(request'.user))
  BY <1>3, <1>4, <1>5
<1>7. PlanHolds'
  BY <1>6 DEF PlanHolds, PlanFits, LongestPath
<1>8. CleanRequest(request')
  BY <1>4
<1>9. ClearedIsClean'
  BY <1>3, <1>8 DEF ClearedIsClean, AnsweringTypeOK, CleanRequest
<1> QED
  BY <1>3, <1>7, <1>8, <1>9 DEF AnswerInv, VerdictFitsClaims, ReleasedIsClean

LEMMA VerifyKeeps ==
  ASSUME Bounds
  PROVE  AnswerInv /\ Verify => AnswerInv'
<1> SUFFICES ASSUME AnswerInv, Verify
             PROVE  AnswerInv'
  OBVIOUS
<1> DEFINE hitl == RequiresHitl(request.risk, request.sensitive)
<1>1. PICK a \in Answers :
        outcome' = [step |-> "verdict", answer |-> a, action |-> Action(a, hitl),
                    acceptable |-> Acceptable(a, hitl)]
  BY DEF Verify
<1>2. /\ outcome'.step = "verdict" /\ outcome'.answer = a /\ outcome'.action = Action(a, hitl)
      /\ outcome'.acceptable = Acceptable(a, hitl)
  BY <1>1
<1>3. request' = request /\ CleanRequest(request)
  BY DEF Verify, AnswerInv
<1>4. hitl \in BOOLEAN
  BY DEF RequiresHitl
<1>5. request'.sensitive => hitl
  BY <1>3 DEF RequiresHitl
<1> HIDE DEF hitl
<1>6. VerdictFitsClaims'
  BY <1>2, <1>4, <1>5, ActionIs DEF VerdictFitsClaims
<1>7. CleanRequest(request')
  BY <1>3
<1>8. ClearedIsClean'
  BY <1>2, <1>7 DEF ClearedIsClean, AnsweringTypeOK, CleanRequest
<1> QED
  BY <1>2, <1>6, <1>7, <1>8 DEF AnswerInv, PlanHolds, ReleasedIsClean

LEMMA GovernKeeps == AnswerInv /\ Govern => AnswerInv'
<1> SUFFICES ASSUME AnswerInv, Govern
             PROVE  AnswerInv'
  OBVIOUS
<1>1. PICK n \in Narratives :
        outcome' = [step |-> "envelope", narrative |-> n, envelope |-> Envelope(n, request.user)]
  BY DEF Govern
<1>2. /\ outcome'.step = "envelope" /\ outcome'.narrative = n
      /\ outcome'.envelope = Envelope(n, request.user)
  BY <1>1
<1>3. request' = request /\ CleanRequest(request)
  BY DEF Govern, AnswerInv
<1>4. request.user \in Callers
  BY <1>3 DEF CleanRequest
<1>5. ReleasedIsClean'
  BY <1>2, <1>3, <1>4, EnvelopeIs DEF ReleasedIsClean
<1>6. CleanRequest(request')
  BY <1>3
<1>7. ClearedIsClean'
  BY <1>2, <1>6 DEF ClearedIsClean, AnsweringTypeOK, CleanRequest
<1> QED
  BY <1>2, <1>5, <1>6, <1>7 DEF AnswerInv, PlanHolds, VerdictFitsClaims

LEMMA GoOnKeeps == AnswerInv /\ GoOn => AnswerInv'
<1> SUFFICES ASSUME AnswerInv, GoOn
             PROVE  AnswerInv'
  OBVIOUS
<1>1. outcome'.step = "none" /\ request' \in {request, NoRequest}
  BY DEF GoOn, Nothing
<1>2. (request = NoRequest \/ CleanRequest(request))'
  BY <1>1 DEF AnswerInv
<1> QED
  BY <1>1, <1>2, Quiet

LEMMA InitAnswers == AnsweringInit => AnswerInv
<1> SUFFICES ASSUME AnsweringInit
             PROVE  AnswerInv
  OBVIOUS
<1>1. request = NoRequest /\ outcome.step = "none"
  BY DEF AnsweringInit, Nothing
<1>2. ClearedIsClean
  BY <1>1 DEF ClearedIsClean, AnsweringTypeOK
<1> QED
  BY <1>1, <1>2 DEF AnswerInv, PlanHolds, VerdictFitsClaims, ReleasedIsClean

\* The properties hold together, with what the stages clear.
LEMMA AlwaysAnswers ==
  ASSUME Bounds
  PROVE  AnsweringSpec => []AnswerInv
<1>1. AnswerInv /\ [AnsweringNext]_(answeringVars) => AnswerInv'
  <2> SUFFICES ASSUME AnswerInv, [AnsweringNext]_(answeringVars)
               PROVE  AnswerInv'
    OBVIOUS
  <2>1. CASE UNCHANGED answeringVars
    <3>1. request' = request /\ outcome' = outcome
      BY <2>1 DEF answeringVars
    <3> QED
      BY <3>1, SMTT(30) DEF AnswerInv, ClearedIsClean, AnsweringTypeOK,
              PlanHolds, VerdictFitsClaims, ReleasedIsClean, CleanRequest
  <2> QED
    BY <2>1, ReceiveKeeps, PlanKeeps, VerifyKeeps, GovernKeeps, GoOnKeeps DEF AnsweringNext
<1> QED
  BY InitAnswers, <1>1, PTL DEF AnsweringSpec

\* What the input pipeline hands on holds no injection phrase and no personal
\* data but such as is cut by characters it leaves, and its risk is 0 or 40; a
\* caller with a context reaches a guarded path only with the permission for it.
THEOREM HandsOnClean == AnsweringSpec => []ClearedIsClean
<1>1. Bounds
  BY VerificationAssumption
<1> QED
  BY <1>1, AlwaysAnswers, PTL DEF AnswerInv

\* Whatever is registered and switched off and whoever asks, the planner plans
\* only with what is on and allowed, in stages that can be run in order, and its
\* latency is that of the longest path through them.
THEOREM PlansHold == AnsweringSpec => []PlanHolds
<1>1. Bounds
  BY VerificationAssumption
<1> QED
  BY <1>1, AlwaysAnswers, PTL DEF AnswerInv

\* The verifier's verdict fits the claims of the answer, however many it makes,
\* and no answer to a sensitive question is approved without a human.
THEOREM VerdictsFit == AnsweringSpec => []VerdictFitsClaims
<1>1. Bounds
  BY VerificationAssumption
<1> QED
  BY <1>1, AlwaysAnswers, PTL DEF AnswerInv

\* A narrative the governance engine releases does not leak the prompt and goes to
\* nobody suspended or pending; of the kinds of secrets that are redacted it shows
\* what no citation brings to holders of security:admin only.
THEOREM ReleasesClean == AnsweringSpec => []ReleasedIsClean
<1>1. Bounds
  BY VerificationAssumption
<1> QED
  BY <1>1, AlwaysAnswers, PTL DEF AnswerInv
-----------------------------------------------------------------------------
(* The retrieval engine: what a request gets, for any chunks, scores, budget   *)
(* and number of candidates asked for up to 20, and any chunks that are added  *)
(* while it runs.  Its lists are followed from the searches through the        *)
(* fusion, the re-ranking and the budget.                                      *)

-----------------------------------------------------------------------------
Candidate == [chunk : Chunks, score : Nat]

\* How many candidates come no later than the n-th.
Before(c, n) == {m \in DOMAIN c : \/ c[m].score > c[n].score
                                  \/ c[m].score = c[n].score /\ m <= n}
Place(c, n) == Cardinality(Before(c, n))

LEMMA CandidatesAre ==
  ASSUME NEW c \in Candidates
  PROVE  /\ DOMAIN c = 1 .. Len(c) /\ Len(c) \in Nat
         /\ \A n \in 1 .. Len(c) : /\ c[n] \in Candidate /\ c[n].chunk \in Chunks
                                   /\ c[n].score \in Nat /\ c[n].score \in Int
<1>1. c \in Seq(Candidate)
  BY DEF Candidates, Candidate
<1>2. DOMAIN c = 1 .. Len(c) /\ Len(c) \in Nat /\ \A n \in 1 .. Len(c) : c[n] \in Candidate
  BY <1>1
<1> QED
  BY <1>2 DEF Candidate

LEMMA PlaceIs ==
  ASSUME NEW c \in Candidates
  PROVE  /\ \A n \in DOMAIN c : Place(c, n) \in 1 .. Len(c)
         /\ \A m, n \in DOMAIN c : c[m].score > c[n].score => Place(c, m) < Place(c, n)
         /\ \A m, n \in DOMAIN c : Place(c, m) = Place(c, n) => m = n
         /\ \A p \in DOMAIN c : \E n \in DOMAIN c : Place(c, n) = p
<1> DEFINE L == Len(c)
           D == 1 .. L
<1>1. /\ DOMAIN c = D /\ L \in Nat /\ \A n \in D : c[n].score \in Int /\ n \in Int
  BY CandidatesAre
<1> HIDE DEF L
<1>2. IsFiniteSet(D) /\ Cardinality(D) = L
  <2>1. 1 \in Int /\ L \in Int
    BY <1>1
  <2>2. IsFiniteSet(1 .. L) /\ Cardinality(1 .. L) = IF 1 > L THEN 0 ELSE L - 1 + 1
    BY <2>1, FS_Interval
  <2> QED
    BY <1>1, <2>2
<1>3. ASSUME NEW n \in D
      PROVE  /\ Before(c, n) \subseteq D /\ n \in Before(c, n)
             /\ IsFiniteSet(Before(c, n)) /\ Place(c, n) \in 1 .. L
  <2>1. Before(c, n) \subseteq D /\ n \in Before(c, n)
    BY <1>1 DEF Before
  <2>2. IsFiniteSet(Before(c, n)) /\ Cardinality(Before(c, n)) <= Cardinality(D)
    BY <1>2, <2>1, FS_Subset
  <2>3. Cardinality(Before(c, n)) # 0
    BY <2>1, <2>2, FS_EmptySet
  <2>4. Cardinality(Before(c, n)) \in Nat
    BY <2>2, FS_CardinalityType
  <2> QED
    BY <1>1, <1>2, <2>1, <2>2, <2>3, <2>4 DEF Place
<1>4. ASSUME NEW m \in D, NEW n \in D, m # n,
             c[m].score > c[n].score \/ (c[m].score = c[n].score /\ m < n)
      PROVE  Place(c, m) < Place(c, n)
  <2>1. Before(c, m) \subseteq Before(c, n) /\ n \notin Before(c, m)
    BY <1>1, <1>4 DEF Before
  <2>2. Before(c, m) # Before(c, n)
    BY <1>3, <2>1
  <2>3. /\ Cardinality(Before(c, m)) <= Cardinality(Before(c, n))
        /\ Cardinality(Before(c, m)) # Cardinality(Before(c, n))
    BY <1>3, <2>1, <2>2, FS_Subset
  <2>4. Place(c, m) \in 1 .. L /\ Place(c, n) \in 1 .. L
    BY <1>3
  <2> QED
    BY <1>1, <2>3, <2>4 DEF Place
<1>5. ASSUME NEW m \in D, NEW n \in D, Place(c, m) = Place(c, n)
      PROVE  m = n
  <2> SUFFICES ASSUME m # n
               PROVE  FALSE
    OBVIOUS
  <2>1. \/ c[m].score > c[n].score
        \/ c[m].score = c[n].score /\ m < n
        \/ c[n].score > c[m].score
        \/ c[n].score = c[m].score /\ n < m
    <3>1. c[m].score \in Int /\ c[n].score \in Int /\ m \in Int /\ n \in Int
      BY <1>1
    <3> QED
      BY <3>1
  <2>2. Place(c, m) < Place(c, n) \/ Place(c, n) < Place(c, m)
    BY <1>4, <2>1
  <2>3. Place(c, m) \in Int
    BY <1>1, <1>3
  <2> QED
    BY <1>5, <2>2, <2>3
<1>6. ASSUME NEW p \in D
      PROVE  \E n \in D : Place(c, n) = p
  <2> DEFINE f == [n \in D |-> Place(c, n)]
  <2>1. f \in [D -> D]
    BY <1>3
  <2>2. \A m, n \in D : f[m] = f[n] => m = n
    BY <1>5
  <2>3. f \in Injection(D, D)
    BY <2>1, <2>2 DEF Injection, IsInjective
  <2> HIDE DEF f
  <2>4. f \in Surjection(D, D)
    BY <1>2, <2>3, FS_Injection
  <2>5. \E n \in D : f[n] = p
    BY <2>4 DEF Surjection
  <2> QED
    BY <2>5 DEF f
<1>7. ASSUME NEW m \in D, NEW n \in D, c[m].score > c[n].score
      PROVE  Place(c, m) < Place(c, n)
  <2>1. m # n
    BY <1>1, <1>7
  <2> QED
    BY <1>1, <1>4, <1>7, <2>1
<1> QED
  BY <1>1, <1>3, <1>5, <1>6, <1>7 DEF L

Descending(c) == \A p, q \in DOMAIN c : p < q => c[q].score <= c[p].score

LEMMA ByScoreIs ==
  ASSUME NEW c \in Candidates
  PROVE  /\ ByScore(c) \in Candidates /\ Len(ByScore(c)) = Len(c)
         /\ \A p \in 1 .. Len(c) : \E n \in 1 .. Len(c) : ByScore(c)[p] = c[n]
         /\ Descending(ByScore(c))
<1> DEFINE at(p) == CHOOSE n \in DOMAIN c : Place(c, n) = p
           b == [p \in DOMAIN c |-> c[at(p)]]
<1>1. ByScore(c) = b
  BY DEF ByScore, Place, Before
<1>2. /\ DOMAIN c = 1 .. Len(c) /\ Len(c) \in Nat
      /\ \A n \in 1 .. Len(c) : c[n] \in Candidate /\ c[n].score \in Int
  BY CandidatesAre
<1>3. \A p \in DOMAIN c : at(p) \in DOMAIN c /\ Place(c, at(p)) = p
  BY PlaceIs
<1> HIDE DEF at
<1>4. \A p \in 1 .. Len(c) : at(p) \in 1 .. Len(c) /\ b[p] = c[at(p)] /\ b[p] \in Candidate
  BY <1>2, <1>3
<1>5. b \in Seq(Candidate) /\ Len(b) = Len(c)
  BY <1>2, <1>4
<1>6. DOMAIN b = 1 .. Len(c)
  BY <1>2
<1>7. ASSUME NEW p \in 1 .. Len(c), NEW q \in 1 .. Len(c), p < q
      PROVE  b[q].score <= b[p].score
  <2>1. /\ at(p) \in DOMAIN c /\ at(q) \in DOMAIN c
        /\ Place(c, at(p)) = p /\ Place(c, at(q)) = q
    BY <1>2, <1>3
  <2>2. ~ c[at(q)].score > c[at(p)].score
    <3>1. c[at(q)].score > c[at(p)].score => q < p
      BY <2>1, PlaceIs
    <3> QED
      BY <1>2, <1>7, <3>1
  <2> QED
    BY <1>2, <1>4, <2>1, <2>2
<1> HIDE DEF b
<1>8. Descending(b)
  BY <1>6, <1>7 DEF Descending
<1> QED
  BY <1>1, <1>2, <1>4, <1>5, <1>8 DEF Candidates, Candidate

LEMMA UptoIs ==
  ASSUME NEW K, NEW s \in Seq(K), NEW k \in Nat
  PROVE  /\ Upto(s, k) \in Seq(K) /\ Len(Upto(s, k)) <= k /\ Len(Upto(s, k)) <= Len(s)
         /\ \A n \in 1 .. Len(Upto(s, k)) : n \in 1 .. Len(s) /\ Upto(s, k)[n] = s[n]
<1> DEFINE m == IF Len(s) < k THEN Len(s) ELSE k
<1>1. m \in Nat /\ m <= k /\ m <= Len(s) /\ Len(s) \in Nat
  OBVIOUS
<1>2. Upto(s, k) = SubSeq(s, 1, m)
  BY DEF Upto
<1> HIDE DEF m
<1>3. /\ SubSeq(s, 1, m) \in Seq(K) /\ Len(SubSeq(s, 1, m)) = m
      /\ \A n \in 1 .. m : SubSeq(s, 1, m)[n] = s[n]
  BY <1>1
<1> QED
  BY <1>1, <1>2, <1>3

\* The first of the sorted candidates.
LEMMA BestIs ==
  ASSUME NEW c \in Candidates, NEW k \in Nat
  PROVE  /\ Upto(ByScore(c), k) \in Candidates /\ Len(Upto(ByScore(c), k)) <= k
         /\ \A p \in 1 .. Len(Upto(ByScore(c), k)) : \E n \in 1 .. Len(c) : Upto(ByScore(c), k)[p] = c[n]
         /\ Descending(Upto(ByScore(c), k))
<1> DEFINE b == ByScore(c)
           u == Upto(b, k)
<1>1. /\ b \in Candidates /\ Len(b) = Len(c)
      /\ \A p \in 1 .. Len(c) : \E n \in 1 .. Len(c) : b[p] = c[n]
      /\ Descending(b)
  BY ByScoreIs
<1>2. b \in Seq(Candidate) /\ DOMAIN b = 1 .. Len(b)
  BY <1>1 DEF Candidates, Candidate
<1> HIDE DEF b
<1>3. /\ u \in Seq(Candidate) /\ Len(u) <= k
      /\ \A n \in 1 .. Len(u) : n \in 1 .. Len(b) /\ u[n] = b[n]
  BY <1>2, UptoIs
<1>4. DOMAIN u = 1 .. Len(u)
  BY <1>3
<1> HIDE DEF u
<1>5. Descending(u)
  BY <1>1, <1>2, <1>3, <1>4 DEF Descending
<1>6. \A p \in 1 .. Len(u) : \E n \in 1 .. Len(c) : u[p] = c[n]
  BY <1>1, <1>3
<1> QED
  BY <1>3, <1>5, <1>6 DEF u, b, Candidates, Candidate

\* What a search finds is in the store and may be seen.
InStore(c) == \E m \in DOMAIN chunks : chunks[m] = c

LEMMA ScoredIs ==
  ASSUME Parameters, chunks \in Seq(Chunks), NEW scope, NEW Score \in [Texts -> Nat]
  PROVE  /\ Scored(scope, Score) \in Candidates
         /\ \A n \in 1 .. Len(Scored(scope, Score)) :
               InStore(Scored(scope, Score)[n].chunk) /\ Visible(Scored(scope, Score)[n].chunk, scope)
<1> DEFINE hidden == {c \in Chunks : ~Visible(c, scope)}
           found == Without(chunks, hidden)
           s == [n \in DOMAIN found |-> [chunk |-> found[n], score |-> Score[found[n].text]]]
<1>1. Scored(scope, Score) = s
  BY DEF Scored
<1>2. found \in Seq(Chunks) /\ Seqs!Elements(found) = Seqs!Elements(chunks) \ hidden
  BY WithoutIs
<1> HIDE DEF found
<1>3. /\ DOMAIN found = 1 .. Len(found) /\ Len(found) \in Nat
      /\ \A n \in 1 .. Len(found) : found[n] \in Chunks /\ found[n] \in Seqs!Elements(found)
  BY <1>2 DEF Seqs!Elements
<1>4. \A n \in 1 .. Len(found) : InStore(found[n]) /\ Visible(found[n], scope)
  <2>1. \A n \in 1 .. Len(found) : found[n] \in Seqs!Elements(chunks) /\ found[n] \notin hidden
    BY <1>2, <1>3
  <2> QED
    BY <1>3, <2>1 DEF Seqs!Elements, InStore
<1>5. \A n \in 1 .. Len(found) : Score[found[n].text] \in Nat
  BY <1>3 DEF Parameters
<1>6. \A n \in 1 .. Len(found) : s[n] \in Candidate /\ s[n].chunk = found[n]
  BY <1>3, <1>5 DEF Candidate
<1>7. s \in Seq(Candidate) /\ Len(s) = Len(found)
  BY <1>3, <1>6
<1> HIDE DEF s
<1> QED
  BY <1>1, <1>4, <1>6, <1>7 DEF Candidates, Candidate

LEMMA SearchIs ==
  ASSUME Parameters, chunks \in Seq(Chunks), NEW scope
  PROVE  \A found \in {SearchDense(scope), SearchSparse(scope)} :
            /\ found \in Candidates /\ Len(found) <= TopK
            /\ \A n \in 1 .. Len(found) : InStore(found[n].chunk) /\ Visible(found[n].chunk, scope)
<1>0. TopK \in Nat /\ Dense \in [Texts -> Nat] /\ Keywords \in [Texts -> Nat]
  BY DEF Parameters
<1>1. ASSUME NEW c \in Candidates,
             \A n \in 1 .. Len(c) : InStore(c[n].chunk) /\ Visible(c[n].chunk, scope)
      PROVE  /\ Upto(ByScore(c), TopK) \in Candidates /\ Len(Upto(ByScore(c), TopK)) <= TopK
             /\ \A n \in 1 .. Len(Upto(ByScore(c), TopK)) :
                   /\ InStore(Upto(ByScore(c), TopK)[n].chunk)
                   /\ Visible(Upto(ByScore(c), TopK)[n].chunk, scope)
  <2> DEFINE u == Upto(ByScore(c), TopK)
  <2>1. u \in Candidates /\ Len(u) <= TopK /\ \A p \in 1 .. Len(u) : \E n \in 1 .. Len(c) : u[p] = c[n]
    BY <1>0, BestIs
  <2> HIDE DEF u
  <2>2. \A p \in 1 .. Len(u) : InStore(u[p].chunk) /\ Visible(u[p].chunk, scope)
    BY <1>1, <2>1
  <2> QED
    BY <2>1, <2>2 DEF u
<1>2. ASSUME NEW found, found = SearchDense(scope)
      PROVE  /\ found \in Candidates /\ Len(found) <= TopK
             /\ \A n \in 1 .. Len(found) : InStore(found[n].chunk) /\ Visible(found[n].chunk, scope)
  BY <1>0, <1>1, <1>2, ScoredIs DEF SearchDense
<1>3. ASSUME NEW found, found = SearchSparse(scope)
      PROVE  /\ found \in Candidates /\ Len(found) <= TopK
             /\ \A n \in 1 .. Len(found) : InStore(found[n].chunk) /\ Visible(found[n].chunk, scope)
  <2> DEFINE s == Scored(scope, Keywords)
             missed == [chunk : Chunks, score : {0}]
             c == Without(s, missed)
  <2>1. s \in Seq(Candidate) /\ \A n \in 1 .. Len(s) : InStore(s[n].chunk) /\ Visible(s[n].chunk, scope)
    BY <1>0, ScoredIs DEF Candidates, Candidate
  <2>2. c \in Seq(Candidate) /\ Seqs!Elements(c) = Seqs!Elements(s) \ missed
    BY <2>1, WithoutIs, ZenonT(30)
  <2>3. found = Upto(ByScore(c), TopK)
    BY <1>3 DEF SearchSparse
  <2> HIDE DEF s, c, missed
  <2>4. DOMAIN c = 1 .. Len(c) /\ DOMAIN s = 1 .. Len(s)
    BY <2>1, <2>2
  <2>5. \A n \in 1 .. Len(c) : \E m \in 1 .. Len(s) : c[n] = s[m]
    BY <2>2, <2>4 DEF Seqs!Elements
  <2>6. \A n \in 1 .. Len(c) : InStore(c[n].chunk) /\ Visible(c[n].chunk, scope)
    BY <2>1, <2>5
  <2>7. c \in Candidates
    BY <2>2 DEF Candidates, Candidate
  <2> QED
    BY <1>1, <2>3, <2>6, <2>7
<1> QED
  BY <1>2, <1>3

\* What a search contributes at a rank, and its bounds.
Share(r) == 100000000 \div (60 + r)
LowShare == 1250000
HighShare == 1639344
HighScore == 3278688

LEMMA ReciprocalsAre ==
  \A r \in 1 .. 20 : /\ Share(r) \in Nat
                    /\ LowShare <= Share(r)
                    /\ Share(r) <= HighShare
<1> SUFFICES ASSUME NEW r \in 1 .. 20
             PROVE  /\ Share(r) \in Nat
                    /\ LowShare <= Share(r)
                    /\ Share(r) <= HighShare
  OBVIOUS
<1>1. r \in 1 .. 5 \/ r \in 6 .. 10 \/ r \in 11 .. 15 \/ r \in 16 .. 20
  OBVIOUS
<1>2. CASE r \in 1 .. 5
  <2>1. r = 1 \/ r = 2 \/ r = 3 \/ r = 4 \/ r = 5
    BY <1>2
  <2> QED
    BY <2>1, SMT DEF Share, LowShare, HighShare
<1>3. CASE r \in 6 .. 10
  <2>1. r = 6 \/ r = 7 \/ r = 8 \/ r = 9 \/ r = 10
    BY <1>3
  <2> QED
    BY <2>1, SMT DEF Share, LowShare, HighShare
<1>4. CASE r \in 11 .. 15
  <2>1. r = 11 \/ r = 12 \/ r = 13 \/ r = 14 \/ r = 15
    BY <1>4
  <2> QED
    BY <2>1, SMT DEF Share, LowShare, HighShare
<1>5. CASE r \in 16 .. 20
  <2>1. r = 16 \/ r = 17 \/ r = 18 \/ r = 19 \/ r = 20
    BY <1>5
  <2> QED
    BY <2>1, SMT DEF Share, LowShare, HighShare
<1> QED
  BY <1>1, <1>2, <1>3, <1>4, <1>5

LEMMA RankIs ==
  ASSUME NEW c \in Candidates, NEW id \in Ids(c)
  PROVE  /\ RankOf(c, id) \in 1 .. Len(c)
         /\ c[RankOf(c, id)].chunk.chunk_id = id
<1>1. \E n \in DOMAIN c : c[n].chunk.chunk_id = id
  BY DEF Ids
<1>2. RankOf(c, id) \in DOMAIN c /\ c[RankOf(c, id)].chunk.chunk_id = id
  BY <1>1 DEF RankOf
<1> QED
  BY <1>2, CandidatesAre

\* A search that found the chunk contributes to its score, and no rank is so low
\* that its share vanishes.
LEMMA RrfScoreIs ==
  ASSUME Parameters, NEW dense \in Candidates, NEW sparse \in Candidates, Len(dense) <= TopK,
         Len(sparse) <= TopK, NEW id \in Ids(dense) \cup Ids(sparse)
  PROVE  /\ RrfScore(dense, sparse, id) \in Nat
         /\ LowShare <= RrfScore(dense, sparse, id) /\ RrfScore(dense, sparse, id) <= HighScore
<1>1. TopK \in Nat /\ TopK <= 20
  BY DEF Parameters
<1>2. ASSUME NEW c \in Candidates, Len(c) <= TopK, NEW i
      PROVE  /\ Reciprocal(c, i) \in Nat /\ Reciprocal(c, i) <= HighShare
             /\ i \in Ids(c) => LowShare <= Reciprocal(c, i)
  <2>1. CASE i \in Ids(c)
    <3>1. RankOf(c, i) \in 1 .. Len(c) /\ Len(c) \in Nat
      BY <2>1, RankIs, CandidatesAre
    <3> DEFINE r == RankOf(c, i)
    <3> HIDE DEF r
    <3>4. r \in 1 .. Len(c)
      BY <3>1 DEF r
    <3>5. r \in 1 .. 20
      BY <1>1, <1>2, <3>1, <3>4
    <3>2. RankOf(c, i) \in 1 .. 20
      BY <3>5 DEF r
    <3>3. Reciprocal(c, i) = Share(RankOf(c, i))
      BY <2>1, SMT DEF Reciprocal, RrfK, Share
    <3> QED
      BY <3>2, <3>3, ReciprocalsAre
  <2>2. CASE i \notin Ids(c)
    BY <2>2, SMT DEF Reciprocal, HighShare
  <2> QED
    BY <2>1, <2>2
<1>3. /\ Reciprocal(dense, id) \in Nat /\ Reciprocal(dense, id) <= HighShare
      /\ id \in Ids(dense) => LowShare <= Reciprocal(dense, id)
  BY <1>2
<1>4. /\ Reciprocal(sparse, id) \in Nat /\ Reciprocal(sparse, id) <= HighShare
      /\ id \in Ids(sparse) => LowShare <= Reciprocal(sparse, id)
  BY <1>2
<1> QED
  BY <1>3, <1>4, SMT DEF RrfScore, LowShare, HighShare, HighScore

\* Where a fused chunk comes from.
FromSparse(sparse, c) == \E m \in DOMAIN sparse : sparse[m].chunk = c
FromDense(dense, sparse, c) ==
    c.chunk_id \notin Ids(sparse) /\ \E m \in DOMAIN dense : dense[m].chunk = c

LEMMA FuseIs ==
  ASSUME Parameters, NEW dense \in Candidates, NEW sparse \in Candidates, Len(dense) <= TopK,
         Len(sparse) <= TopK
  PROVE  /\ Fuse(dense, sparse) \in Candidates
         /\ \A n \in 1 .. Len(Fuse(dense, sparse)) : LET c == Fuse(dense, sparse)[n] IN
               /\ LowShare <= c.score /\ c.score <= HighScore
               /\ FromSparse(sparse, c.chunk) \/ FromDense(dense, sparse, c.chunk)
<1> DEFINE known == {sparse[n] : n \in {m \in DOMAIN sparse : sparse[m].chunk.chunk_id \in Ids(dense)}}
           new == Without(sparse, known)
           listed == dense \o new
           id(n) == listed[n].chunk.chunk_id
           item(n) == [chunk |-> Version(dense, sparse, id(n)), score |-> RrfScore(dense, sparse, id(n))]
           c == [n \in DOMAIN listed |-> item(n)]
<1>1. Fuse(dense, sparse) = Upto(ByScore(c), TopK)
  BY DEF Fuse
<1>2. dense \in Seq(Candidate) /\ sparse \in Seq(Candidate)
  BY DEF Candidates, Candidate
<1>3. new \in Seq(Candidate) /\ Seqs!Elements(new) \subseteq Seqs!Elements(sparse)
  BY <1>2, WithoutIs
<1> HIDE DEF new
<1>4. /\ listed \in Seq(Candidate) /\ DOMAIN listed = 1 .. Len(listed) /\ Len(listed) \in Nat
      /\ \A n \in DOMAIN listed : \/ \E m \in DOMAIN dense : listed[n] = dense[m]
                                  \/ \E m \in DOMAIN new : listed[n] = new[m]
  <2>1. /\ listed \in Seq(Candidate) /\ Len(listed) = Len(dense) + Len(new)
        /\ Len(dense) \in Nat /\ Len(new) \in Nat
        /\ DOMAIN dense = 1 .. Len(dense) /\ DOMAIN new = 1 .. Len(new)
        /\ \A n \in 1 .. Len(dense) + Len(new) :
              listed[n] = IF n <= Len(dense) THEN dense[n] ELSE new[n - Len(dense)]
    BY <1>2, <1>3
  <2>2. DOMAIN listed = 1 .. Len(listed)
    BY <2>1
  <2> HIDE DEF listed
  <2>3. ASSUME NEW n \in DOMAIN listed
        PROVE  \/ \E m \in DOMAIN dense : listed[n] = dense[m]
               \/ \E m \in DOMAIN new : listed[n] = new[m]
    <3>1. CASE n <= Len(dense)
      BY <2>1, <2>2, <3>1
    <3>2. CASE ~ n <= Len(dense)
      <4>1. n - Len(dense) \in DOMAIN new /\ listed[n] = new[n - Len(dense)]
        BY <2>1, <2>2, <3>2
      <4> QED
        BY <4>1
    <3> QED
      BY <3>1, <3>2
  <2> QED
    BY <2>1, <2>2, <2>3
<1> HIDE DEF listed
<1>5. ASSUME NEW n \in DOMAIN listed
      PROVE  id(n) \in Ids(dense) \cup Ids(sparse)
  <2>1. CASE \E m \in DOMAIN dense : listed[n] = dense[m]
    BY <2>1 DEF Ids
  <2>2. CASE \E m \in DOMAIN new : listed[n] = new[m]
    <3>1. listed[n] \in Seqs!Elements(sparse)
      BY <1>3, <2>2 DEF Seqs!Elements
    <3> QED
      BY <3>1 DEF Seqs!Elements, Ids
  <2> QED
    BY <1>4, <2>1, <2>2
<1> HIDE DEF id
<1>6. ASSUME NEW n \in DOMAIN listed
      PROVE  /\ item(n) \in Candidate
             /\ LowShare <= item(n).score /\ item(n).score <= HighScore
             /\ FromSparse(sparse, item(n).chunk) \/ FromDense(dense, sparse, item(n).chunk)
  <2> DEFINE i == id(n)
             v == Version(dense, sparse, i)
  <2>1. i \in Ids(dense) \cup Ids(sparse)
    BY <1>5
  <2> HIDE DEF i
  <2>2. /\ RrfScore(dense, sparse, i) \in Nat
        /\ LowShare <= RrfScore(dense, sparse, i) /\ RrfScore(dense, sparse, i) <= HighScore
    BY <2>1, RrfScoreIs
  <2>3. v \in Chunks /\ (FromSparse(sparse, v) \/ FromDense(dense, sparse, v))
    <3>1. CASE i \in Ids(sparse)
      <4>1. RankOf(sparse, i) \in 1 .. Len(sparse)
        BY <3>1, RankIs
      <4>2. v = sparse[RankOf(sparse, i)].chunk
        BY <3>1 DEF Version
      <4> QED
        BY <4>1, <4>2, CandidatesAre DEF FromSparse
    <3>2. CASE i \notin Ids(sparse)
      <4>1. RankOf(dense, i) \in 1 .. Len(dense) /\ dense[RankOf(dense, i)].chunk.chunk_id = i
        BY <2>1, <3>2, RankIs
      <4>2. v = dense[RankOf(dense, i)].chunk
        BY <3>2 DEF Version
      <4> QED
        BY <3>2, <4>1, <4>2, CandidatesAre DEF FromDense
    <3> QED
      BY <3>1, <3>2
  <2> HIDE DEF v
  <2>4. item(n) = [chunk |-> v, score |-> RrfScore(dense, sparse, i)]
    BY DEF i, v
  <2> HIDE DEF item
  <2> QED
    BY <2>2, <2>3, <2>4 DEF Candidate
<1> HIDE DEF item
<1>7. c \in Candidates /\ Len(c) = Len(listed)
  <2>1. c \in Seq(Candidate) /\ Len(c) = Len(listed)
    BY <1>4, <1>6
  <2> QED
    BY <2>1 DEF Candidates, Candidate
<1>8. \A n \in 1 .. Len(c) : n \in DOMAIN listed /\ c[n] = item(n)
  BY <1>4, <1>7
<1> HIDE DEF c
<1>9. TopK \in Nat
  BY DEF Parameters
<1>10. /\ Upto(ByScore(c), TopK) \in Candidates
       /\ \A p \in 1 .. Len(Upto(ByScore(c), TopK)) : \E n \in 1 .. Len(c) : Upto(ByScore(c), TopK)[p] = c[n]
  BY <1>7, <1>9, BestIs
<1>11. \A p \in 1 .. Len(Fuse(dense, sparse)) : \E n \in DOMAIN listed : Fuse(dense, sparse)[p] = item(n)
  BY <1>1, <1>8, <1>10
<1>12. Fuse(dense, sparse) \in Candidates
  BY <1>1, <1>10
<1> QED
  BY <1>6, <1>11, <1>12

LEMMA RerankScoreIs ==
  ASSUME Parameters, NEW s \in Candidate, LowShare <= s.score, s.score <= HighScore
  PROVE  RerankScore(s) \in Nat /\ 50 <= RerankScore(s) /\ RerankScore(s) <= 7131
<1> DEFINE x == s.score
           o == Overlap[s.chunk.text]
           t == IF TitleHit[s.chunk.text] THEN 3000 ELSE 0
<1>1. s.chunk.text \in Texts /\ x \in Nat
  BY DEF Parameters, Candidate
<1>2. o \in 0 .. 100 /\ t \in Nat /\ t <= 3000
  BY <1>1 DEF Parameters
<1>3. RerankScore(s) = (4 * ((x + 50) \div 100) + 500) \div 1000 + 40 * o + t
  BY DEF RerankScore
<1>4. LowShare <= x /\ x <= HighScore
  OBVIOUS
<1> HIDE DEF x, o, t
<1> DEFINE y == (x + 50) \div 100
           z == (4 * y + 500) \div 1000
<1>5. y \in Int /\ 12500 <= y /\ y <= 32787
  BY <1>1, <1>4, SMT DEF LowShare, HighScore
<1> HIDE DEF y
<1>6. z \in Int /\ 50 <= z /\ z <= 131
  BY <1>5, SMT
<1>7. RerankScore(s) = z + 40 * o + t
  BY <1>3 DEF y
<1> HIDE DEF z
<1>8. RerankScore(s) \in Nat /\ 50 <= RerankScore(s) /\ RerankScore(s) <= 7131
  BY <1>2, <1>6, <1>7, SMT
<1> QED
  BY <1>8

LEMMA RerankIs ==
  ASSUME Parameters, NEW fused \in Candidates,
         \A n \in 1 .. Len(fused) : LowShare <= fused[n].score /\ fused[n].score <= HighScore
  PROVE  /\ Rerank(fused) \in Candidates /\ Len(Rerank(fused)) <= RerankTopK
         /\ Descending(Rerank(fused))
         /\ \A n \in 1 .. Len(Rerank(fused)) :
               /\ 50 <= Rerank(fused)[n].score /\ Rerank(fused)[n].score <= 7131
               /\ \E m \in 1 .. Len(fused) : Rerank(fused)[n].chunk = fused[m].chunk
<1> DEFINE item(n) == [chunk |-> fused[n].chunk, score |-> RerankScore(fused[n])]
           c == [n \in DOMAIN fused |-> item(n)]
           u == Upto(ByScore(c), RerankTopK)
<1>0. RerankTopK \in Nat
  BY DEF Parameters
<1>1. /\ DOMAIN fused = 1 .. Len(fused) /\ Len(fused) \in Nat
      /\ \A n \in 1 .. Len(fused) : fused[n] \in Candidate /\ fused[n].chunk \in Chunks
  BY CandidatesAre
<1>2. \A n \in 1 .. Len(fused) : 
         LET x == RerankScore(fused[n]) IN x \in Nat /\ 50 <= x /\ x <= 7131
  BY <1>1, RerankScoreIs
<1>3. \A n \in 1 .. Len(fused) :
         /\ item(n) \in Candidate /\ 50 <= item(n).score /\ item(n).score <= 7131
         /\ item(n).chunk = fused[n].chunk
  BY <1>1, <1>2 DEF Candidate
<1>4. Rerank(fused) = u
  BY DEF Rerank
<1> HIDE DEF item
<1>5. c \in Seq(Candidate) /\ Len(c) = Len(fused) /\ \A n \in 1 .. Len(fused) : c[n] = item(n)
  BY <1>1, <1>3
<1> HIDE DEF c
<1>6. c \in Candidates
  BY <1>5 DEF Candidates, Candidate
<1>7. /\ u \in Candidates /\ Len(u) <= RerankTopK /\ Descending(u)
      /\ \A p \in 1 .. Len(u) : \E n \in 1 .. Len(c) : u[p] = c[n]
  BY <1>0, <1>6, BestIs
<1> HIDE DEF u
<1>8. \A p \in 1 .. Len(u) : /\ 50 <= u[p].score /\ u[p].score <= 7131
                             /\ \E m \in 1 .. Len(fused) : u[p].chunk = fused[m].chunk
  BY <1>3, <1>5, <1>7
<1> QED
  BY <1>4, <1>7, <1>8

\* Sums of more are more.
LEMMA RunningGrows ==
  ASSUME NEW s \in Seq(Nat), NEW m \in Nat, NEW n \in Nat, m <= n, n <= Len(s)
  PROVE  Running(s)[m] <= Running(s)[n]
<1> DEFINE g == Running(s)
           L == Len(s)
           T == {k \in Nat : m + k <= L => g[m] <= g[m + k]}
<1>1. /\ L \in Nat /\ \A k \in 1 .. L : s[k] \in Nat
      /\ \A k \in Nat : k + 1 <= L => g[k + 1] = g[k] + s[k + 1]
      /\ \A k \in 0 .. L : g[k] \in Nat
  BY RunningIs
<1> HIDE DEF g, L
<1>2. 0 \in T
  <2>1. m \in 0 .. L
    BY <1>1 DEF L
  <2>2. m + 0 = m /\ g[m] <= g[m]
    BY <1>1, <2>1
  <2> QED
    BY <2>2
<1>3. ASSUME NEW k \in Nat, k \in T
      PROVE  k + 1 \in T
  <2> SUFFICES ASSUME m + (k + 1) <= L
               PROVE  g[m] <= g[m + (k + 1)]
    OBVIOUS
  <2>1. m + (k + 1) = (m + k) + 1 /\ m + k \in Nat /\ m + k <= L /\ (m + k) + 1 <= L
        /\ (m + k) + 1 \in 1 .. L /\ m + k \in 0 .. L /\ m \in 0 .. L
    BY <1>1
  <2>2. g[(m + k) + 1] = g[m + k] + s[(m + k) + 1]
    BY <1>1, <2>1
  <2>3. g[m] <= g[m + k]
    BY <1>3, <2>1
  <2>4. g[m] \in Nat /\ g[m + k] \in Nat /\ s[(m + k) + 1] \in Nat
    BY <1>1, <2>1
  <2> QED
    BY <2>1, <2>2, <2>3, <2>4
<1> HIDE DEF T
<1>4. n - m \in T
  <2>1. n - m \in Nat
    OBVIOUS
  <2> QED
    BY <1>2, <1>3, <2>1, Induct
<1>5. m + (n - m) = n
  OBVIOUS
<1> QED
  BY <1>4, <1>5 DEF T, g, L

\* Sums of larger numbers are larger.
LEMMA RunningAbove ==
  ASSUME NEW s \in Seq(Nat), NEW t \in Seq(Nat), NEW m \in Nat, m <= Len(s), m <= Len(t),
         \A i \in 1 .. m : t[i] <= s[i]
  PROVE  Running(t)[m] <= Running(s)[m]
<1> DEFINE T == {n \in Nat : n <= m => Running(t)[n] <= Running(s)[n]}
<1>1. /\ Running(s)[0] = 0 /\ Running(t)[0] = 0
      /\ \A n \in Nat : n + 1 <= m => /\ Running(s)[n + 1] = Running(s)[n] + s[n + 1]
                                      /\ Running(t)[n + 1] = Running(t)[n] + t[n + 1]
  BY RunningIs
<1>2. \A n \in 0 .. m : Running(s)[n] \in Nat /\ Running(t)[n] \in Nat
  BY RunningIs
<1>3. \A n \in 1 .. m : s[n] \in Nat /\ t[n] \in Nat
  OBVIOUS
<1>4. 0 \in T
  BY <1>1
<1>5. ASSUME NEW n \in Nat, n \in T
      PROVE  n + 1 \in T
  <2> SUFFICES ASSUME n + 1 <= m
               PROVE  Running(t)[n + 1] <= Running(s)[n + 1]
    OBVIOUS
  <2>1. n \in 0 .. m /\ n + 1 \in 1 .. m /\ n <= m
    OBVIOUS
  <2>2. Running(t)[n] <= Running(s)[n] /\ t[n + 1] <= s[n + 1]
    BY <1>5, <2>1
  <2>3. /\ Running(s)[n] \in Nat /\ Running(t)[n] \in Nat /\ s[n + 1] \in Nat /\ t[n + 1] \in Nat
    BY <1>2, <1>3, <2>1
  <2>4. Running(s)[n + 1] = Running(s)[n] + s[n + 1] /\ Running(t)[n + 1] = Running(t)[n] + t[n + 1]
    BY <1>1
  <2> QED
    BY <2>2, <2>3, <2>4
<1> HIDE DEF T
<1>6. m \in T
  BY <1>4, <1>5, Induct
<1> QED
  BY <1>6 DEF T

\* Sums of numbers between 50 and 7131 lie between as many of these.
LEMMA RunningBetween ==
  ASSUME NEW s \in Seq(Nat), NEW m \in Nat, m <= Len(s),
         \A i \in 1 .. m : 50 <= s[i] /\ s[i] <= 7131
  PROVE  50 * m <= Running(s)[m] /\ Running(s)[m] <= 7131 * m
<1> DEFINE g == Running(s)
           T == {n \in Nat : n <= m => 50 * n <= g[n] /\ g[n] <= 7131 * n}
<1>1. /\ g[0] = 0
      /\ \A n \in Nat : n + 1 <= m => g[n + 1] = g[n] + s[n + 1]
      /\ \A n \in 0 .. m : g[n] \in Nat
      /\ \A n \in 1 .. m : s[n] \in Nat
  BY RunningIs
<1> HIDE DEF g
<1>2. 0 \in T
  BY <1>1, SMT
<1>3. ASSUME NEW n \in Nat, n \in T
      PROVE  n + 1 \in T
  <2> SUFFICES ASSUME n + 1 <= m
               PROVE  50 * (n + 1) <= g[n + 1] /\ g[n + 1] <= 7131 * (n + 1)
    BY SMT
  <2>1. n \in 0 .. m /\ n + 1 \in 1 .. m /\ n <= m
    BY SMT
  <2>2. 50 * n <= g[n] /\ g[n] <= 7131 * n
    BY <1>3, <2>1, SMT
  <2>3. g[n] \in Nat /\ s[n + 1] \in Nat /\ g[n + 1] = g[n] + s[n + 1]
        /\ 50 <= s[n + 1] /\ s[n + 1] <= 7131
    BY <1>1, <2>1, SMT
  <2> QED
    BY <2>2, <2>3, SMT
<1> HIDE DEF T
<1>4. m \in T
  <2>1. \A n \in Nat : n \in T => n + 1 \in T
    BY <1>3
  <2>2. Nat \subseteq T
    BY <1>2, <2>1, Induct, SMTT(30)
  <2> QED
    BY <2>2
<1> QED
  BY <1>4, SMT DEF T, g

Increasing(s) == \A i, j \in DOMAIN s : i < j => s[i] < s[j]

\* What is left of an increasing sequence increases.
LEMMA WithoutIncreases ==
  ASSUME NEW s \in Seq(Nat), Increasing(s), NEW S
  PROVE  Increasing(Without(s, S))
<1> DEFINE L == Len(s)
           g == Seqs!Kept(s, S)
           Like(n) == /\ g[n] \in Seq(Nat) /\ Increasing(g[n])
                      /\ \A i \in 1 .. Len(g[n]) : \E j \in 1 .. n : g[n][i] = s[j]
           T == {n \in Nat : n <= L => Like(n)}
<1>1. /\ L \in Nat /\ DOMAIN s = 1 .. L /\ \A n \in 1 .. L : s[n] \in Nat
  OBVIOUS
<1>2. /\ Without(s, S) = g[L] /\ g[0] = <<>>
      /\ \A n \in 1 .. L : g[n] = IF s[n] \in S THEN g[n - 1] ELSE Append(g[n - 1], s[n])
  BY <1>1, KeptIs, SMTT(30)
<1> HIDE DEF L, g
<1>3. 0 \in T
  <2>1. Like(0)
    BY <1>2 DEF Increasing
  <2> QED
    BY <2>1
<1>4. ASSUME NEW n \in Nat, n \in T
      PROVE  n + 1 \in T
  <2> SUFFICES ASSUME n + 1 <= L
               PROVE  Like(n + 1)
    OBVIOUS
  <2> DEFINE r == g[n]
             q == g[n + 1]
             x == s[n + 1]
  <2>1. n <= L /\ n + 1 \in 1 .. L /\ (n + 1) - 1 = n
    BY <1>1
  <2>2. Like(n)
    BY <1>4, <2>1
  <2>3. q = IF x \in S THEN r ELSE Append(r, x)
    BY <1>2, <2>1
  <2>4. /\ r \in Seq(Nat) /\ Increasing(r) /\ x \in Nat
        /\ \A i \in 1 .. Len(r) : \E j \in 1 .. n : r[i] = s[j]
    BY <1>1, <2>1, <2>2
  <2> HIDE DEF r, q, x
  <2>5. CASE x \in S
    <3>1. q = r
      BY <2>3, <2>5
    <3>2. \A i \in 1 .. Len(q) : \E j \in 1 .. n + 1 : q[i] = s[j]
      BY <2>4, <3>1
    <3> QED
      BY <2>4, <3>1, <3>2 DEF q
  <2>6. CASE x \notin S
    <3>1. q = Append(r, x)
      BY <2>3, <2>6
    <3>2. /\ q \in Seq(Nat) /\ Len(q) = Len(r) + 1 /\ Len(r) \in Nat /\ q[Len(r) + 1] = x
          /\ DOMAIN q = 1 .. Len(r) + 1 /\ DOMAIN r = 1 .. Len(r)
          /\ \A i \in 1 .. Len(r) : q[i] = r[i]
      BY <2>4, <3>1
    <3>3. \A i \in 1 .. Len(q) : \E j \in 1 .. n + 1 : q[i] = s[j]
      <4> SUFFICES ASSUME NEW i \in 1 .. Len(q)
                   PROVE  \E j \in 1 .. n + 1 : q[i] = s[j]
        OBVIOUS
      <4>1. CASE i = Len(r) + 1
        BY <3>2, <4>1 DEF x
      <4>2. CASE i \in 1 .. Len(r)
        <5>1. PICK j \in 1 .. n : r[i] = s[j]
          BY <2>4, <4>2
        <5> QED
          BY <3>2, <4>2, <5>1
      <4> QED
        BY <3>2, <4>1, <4>2
    <3>4. \A i \in 1 .. Len(r) : r[i] < x
      <4> SUFFICES ASSUME NEW i \in 1 .. Len(r)
                   PROVE  r[i] < x
        OBVIOUS
      <4>1. PICK j \in 1 .. n : r[i] = s[j]
        BY <2>4
      <4>2. j \in DOMAIN s /\ n + 1 \in DOMAIN s /\ j < n + 1
        BY <1>1, <2>1
      <4> QED
        BY <4>1, <4>2 DEF Increasing, x
    <3>5. Increasing(q)
      <4> SUFFICES ASSUME NEW i \in DOMAIN q, NEW j \in DOMAIN q, i < j
                   PROVE  q[i] < q[j]
        BY DEF Increasing
      <4>1. i \in 1 .. Len(r) /\ q[i] = r[i]
        BY <3>2
      <4>2. CASE j = Len(r) + 1
        BY <3>2, <3>4, <4>1, <4>2
      <4>3. CASE j \in 1 .. Len(r)
        BY <2>4, <3>2, <4>1, <4>3 DEF Increasing
      <4> QED
        BY <3>2, <4>2, <4>3
    <3> QED
      BY <3>2, <3>3, <3>5 DEF q
  <2> QED
    BY <2>5, <2>6
<1>5. L \in T
  <2> HIDE DEF T
  <2> QED
    BY <1>1, <1>3, <1>4, Induct
<1>6. Like(L)
  <2> HIDE DEF Like
  <2>1. L <= L => Like(L)
    BY <1>5
  <2> QED
    BY <1>1, <2>1
<1> QED
  BY <1>2, <1>6

\* The places of increasing numbers are no larger than they are.
LEMMA IncreasingAbove ==
  ASSUME NEW s \in Seq(Nat), Increasing(s), \A i \in DOMAIN s : 1 <= s[i]
  PROVE  \A i \in 1 .. Len(s) : i <= s[i]
<1> DEFINE T == {n \in Nat : n + 1 <= Len(s) => n + 1 <= s[n + 1]}
<1>1. Len(s) \in Nat /\ DOMAIN s = 1 .. Len(s) /\ \A i \in 1 .. Len(s) : s[i] \in Nat
  OBVIOUS
<1>2. 0 \in T
  BY <1>1
<1>3. ASSUME NEW n \in Nat, n \in T
      PROVE  n + 1 \in T
  <2> SUFFICES ASSUME (n + 1) + 1 <= Len(s)
               PROVE  (n + 1) + 1 <= s[(n + 1) + 1]
    OBVIOUS
  <2>1. n + 1 \in DOMAIN s /\ (n + 1) + 1 \in DOMAIN s /\ n + 1 < (n + 1) + 1 /\ n + 1 <= Len(s)
    BY <1>1
  <2>2. s[n + 1] < s[(n + 1) + 1]
    BY <2>1 DEF Increasing
  <2>3. n + 1 <= s[n + 1]
    BY <1>3, <2>1
  <2> QED
    BY <1>1, <2>1, <2>2, <2>3
<1> HIDE DEF T
<1>4. Nat \subseteq T
  BY <1>2, <1>3, Induct
<1> SUFFICES ASSUME NEW i \in 1 .. Len(s)
             PROVE  i <= s[i]
  OBVIOUS
<1>5. i - 1 \in Nat /\ (i - 1) + 1 = i /\ i <= Len(s)
  BY <1>1
<1>6. i - 1 \in T
  BY <1>4, <1>5
<1> QED
  BY <1>5, <1>6 DEF T

\* The places kept, in their order.
LEMMA InOrderIs ==
  ASSUME NEW c \in Candidates
  PROVE  /\ InOrder(c) \in Seq(Nat) /\ DOMAIN InOrder(c) = 1 .. Len(InOrder(c))
         /\ Increasing(InOrder(c)) /\ Seqs!Elements(InOrder(c)) = Kept(c)
         /\ Len(InOrder(c)) <= Len(c) /\ Len(InOrder(c)) \in Nat
         /\ \A i \in 1 .. Len(InOrder(c)) :
               InOrder(c)[i] \in 1 .. Len(c) /\ InOrder(c)[i] \in Kept(c) /\ i <= InOrder(c)[i]
<1> DEFINE all == [n \in DOMAIN c |-> n]
           w == InOrder(c)
<1>1. DOMAIN c = 1 .. Len(c) /\ Len(c) \in Nat
  BY CandidatesAre
<1>2. /\ all \in Seq(Nat) /\ DOMAIN all = 1 .. Len(c) /\ Len(all) = Len(c)
      /\ \A n \in 1 .. Len(c) : all[n] = n
  BY <1>1
<1>3. w = Without(all, DOMAIN c \ Kept(c))
  BY DEF InOrder
<1> HIDE DEF all, w
<1>4. Increasing(all)
  BY <1>2 DEF Increasing
<1>5. Seqs!Elements(all) = DOMAIN c
  BY <1>1, <1>2 DEF Seqs!Elements
<1>6. Kept(c) \subseteq DOMAIN c
  BY DEF Kept, Distinct
<1>7. /\ w \in Seq(Nat) /\ Seqs!Elements(w) = Seqs!Elements(all) \ (DOMAIN c \ Kept(c))
      /\ Len(w) <= Len(all)
  BY <1>2, <1>3, WithoutIs
<1>8. Increasing(w)
  BY <1>2, <1>3, <1>4, WithoutIncreases
<1>9. Seqs!Elements(w) = Kept(c) /\ Len(w) <= Len(c)
  BY <1>2, <1>5, <1>6, <1>7
<1>10. DOMAIN w = 1 .. Len(w) /\ Len(w) \in Nat
  BY <1>7
<1>11. \A i \in 1 .. Len(w) : w[i] \in Kept(c) /\ w[i] \in 1 .. Len(c)
  BY <1>1, <1>6, <1>9, <1>10 DEF Seqs!Elements
<1>12. \A i \in 1 .. Len(w) : i <= w[i]
  <2>1. \A i \in DOMAIN w : 1 <= w[i]
    BY <1>10, <1>11
  <2> QED
    BY <1>7, <1>8, <2>1, IncreasingAbove
<1> QED
  BY <1>7, <1>8, <1>9, <1>10, <1>11, <1>12 DEF w

\* What each candidate adds to the tokens.
Costs(c) == [m \in DOMAIN c |-> IF Repeats(c, m) THEN 0 ELSE Tokens[c[m].chunk.text]]

LEMMA CostsAre ==
  ASSUME Parameters, NEW c \in Candidates
  PROVE  /\ Costs(c) \in Seq(Nat) /\ Len(Costs(c)) = Len(c)
         /\ \A n \in 1 .. Len(c) : Tokens[c[n].chunk.text] \in Nat
         /\ \A n \in 1 .. Len(c) : n \in Distinct(c) => Costs(c)[n] = Tokens[c[n].chunk.text]
         /\ \A n \in 1 .. Len(c) : n \in Kept(c) <=> n \in Distinct(c) /\ Running(Costs(c))[n] <= Budget
<1>1. /\ DOMAIN c = 1 .. Len(c) /\ Len(c) \in Nat
      /\ \A n \in 1 .. Len(c) : c[n].chunk \in Chunks
  BY CandidatesAre
<1>2. \A n \in 1 .. Len(c) : Tokens[c[n].chunk.text] \in Nat
  <2>1. \A n \in 1 .. Len(c) : c[n].chunk.text \in Texts
    BY <1>1 DEF Parameters
  <2>2. Tokens \in [Texts -> Nat \ {0}]
    BY DEF Parameters
  <2> QED
    BY <2>1, <2>2
<1>3. \A n \in 1 .. Len(c) : (IF Repeats(c, n) THEN 0 ELSE Tokens[c[n].chunk.text]) \in Nat
  BY <1>2
<1>4. /\ Costs(c) = [n \in 1 .. Len(c) |-> IF Repeats(c, n) THEN 0 ELSE Tokens[c[n].chunk.text]]
  BY <1>1 DEF Costs
<1>5. Costs(c) \in Seq(Nat) /\ Len(Costs(c)) = Len(c)
  BY <1>1, <1>3, <1>4
<1>6. \A n \in 1 .. Len(c) : n \in Distinct(c) => Costs(c)[n] = Tokens[c[n].chunk.text]
  BY <1>4 DEF Distinct
<1>7. \A n \in 1 .. Len(c) : n \in Kept(c) <=> n \in Distinct(c) /\ Running(Costs(c))[n] <= Budget
  BY <1>1 DEF Kept, TokensUpto, Costs
<1> QED
  BY <1>2, <1>5, <1>6, <1>7

\* What is kept costs no more than all candidates up to the last that is kept.
LEMMA KeptFits ==
  ASSUME Parameters, NEW c \in Candidates
  PROVE  LET w == InOrder(c)
             t == [n \in DOMAIN w |-> Tokens[c[w[n]].chunk.text]]
         IN  t \in Seq(Nat) /\ Len(t) = Len(w) /\ Running(t)[Len(w)] <= Budget
<1> DEFINE w == InOrder(c)
           t == [n \in DOMAIN w |-> Tokens[c[w[n]].chunk.text]]
           g == Running(Costs(c))
           h == Running(t)
           k == Len(w)
           L == Len(c)
           T == {n \in Nat : n + 1 <= k => h[n + 1] <= g[w[n + 1]]}
<1>1. /\ DOMAIN w = 1 .. k /\ k \in Nat /\ Increasing(w)
      /\ \A i \in 1 .. k : w[i] \in 1 .. L /\ w[i] \in Kept(c) /\ w[i] \in Nat
  BY InOrderIs
<1>2. /\ Costs(c) \in Seq(Nat) /\ Len(Costs(c)) = L
      /\ \A n \in 1 .. L : Tokens[c[n].chunk.text] \in Nat
      /\ \A n \in 1 .. L : n \in Distinct(c) => Costs(c)[n] = Tokens[c[n].chunk.text]
      /\ \A n \in 1 .. L : n \in Kept(c) => n \in Distinct(c) /\ g[n] <= Budget
  BY CostsAre
<1>3. L \in Nat
  BY CandidatesAre
<1> HIDE DEF w, k, L
<1>4. t \in Seq(Nat) /\ Len(t) = k /\ \A n \in 1 .. k : t[n] = Tokens[c[w[n]].chunk.text]
  <2>1. t = [n \in 1 .. k |-> Tokens[c[w[n]].chunk.text]]
    BY <1>1
  <2>2. \A n \in 1 .. k : Tokens[c[w[n]].chunk.text] \in Nat
    BY <1>1, <1>2
  <2> HIDE DEF t
  <2> QED
    BY <1>1, <2>1, <2>2
<1> HIDE DEF t
<1>5. /\ h[0] = 0 /\ \A n \in Nat : n + 1 <= k => h[n + 1] = h[n] + t[n + 1]
      /\ \A n \in 0 .. k : h[n] \in Nat
  BY <1>4, RunningIs
<1>6. /\ g[0] = 0 /\ \A n \in Nat : n + 1 <= L => g[n + 1] = g[n] + Costs(c)[n + 1]
      /\ \A n \in 0 .. L : g[n] \in Nat
  BY <1>2, RunningIs
<1>7. \A m, n \in Nat : m <= n /\ n <= L => g[m] <= g[n]
  BY <1>2, RunningGrows
<1> HIDE DEF g, h
<1>8. ASSUME NEW n \in 1 .. k
      PROVE  /\ w[n] - 1 \in Nat /\ g[w[n]] = g[w[n] - 1] + t[n]
             /\ g[w[n]] \in Nat /\ g[w[n] - 1] \in Nat /\ t[n] \in Nat
  <2>1. w[n] \in 1 .. L /\ w[n] - 1 \in Nat /\ (w[n] - 1) + 1 = w[n] /\ (w[n] - 1) + 1 <= L
    BY <1>1, <1>3
  <2>2. g[(w[n] - 1) + 1] = g[w[n] - 1] + Costs(c)[(w[n] - 1) + 1]
    BY <1>6, <2>1
  <2>3. w[n] \in Distinct(c)
    BY <1>1, <1>2, <2>1
  <2>4. Costs(c)[w[n]] = t[n] /\ t[n] \in Nat
    BY <1>2, <1>4, <2>1, <2>3
  <2>5. w[n] \in 0 .. L /\ w[n] - 1 \in 0 .. L
    BY <1>3, <2>1
  <2> QED
    BY <1>6, <2>1, <2>2, <2>4, <2>5
<1>9. 0 \in T
  <2> SUFFICES ASSUME 1 <= k
               PROVE  h[1] <= g[w[1]]
    BY <1>1
  <2>1. 1 \in 1 .. k
    BY <1>1
  <2>2. h[1] = h[0] + t[1]
    <3>1. 0 \in Nat /\ 0 + 1 <= k /\ 0 + 1 = 1
      OBVIOUS
    <3> QED
      BY <1>5, <3>1
  <2> QED
    BY <1>5, <1>8, <2>1, <2>2
<1>10. ASSUME NEW n \in Nat, n \in T
       PROVE  n + 1 \in T
  <2> SUFFICES ASSUME (n + 1) + 1 <= k
               PROVE  h[(n + 1) + 1] <= g[w[(n + 1) + 1]]
    OBVIOUS
  <2> DEFINE m == n + 1
             l == m + 1
  <2>1. m \in 1 .. k /\ l \in 1 .. k /\ m < l /\ m <= k /\ m \in Nat /\ m + 1 <= k /\ m \in 0 .. k
    BY <1>1
  <2>2. h[m] <= g[w[m]]
    BY <1>10, <2>1
  <2> HIDE DEF m
  <2>3. h[l] = h[m] + t[l]
    BY <1>5, <2>1
  <2>4. w[m] < w[l]
    BY <1>1, <2>1 DEF Increasing
  <2> HIDE DEF l
  <2>5. g[w[m]] <= g[w[l] - 1]
    <3>1. w[m] \in Nat /\ w[l] - 1 \in Nat /\ w[m] <= w[l] - 1 /\ w[l] - 1 <= L
      BY <1>1, <1>3, <1>8, <2>1, <2>4
    <3> QED
      BY <1>7, <3>1
  <2>6. /\ g[w[l]] = g[w[l] - 1] + t[l] /\ g[w[l] - 1] \in Nat /\ t[l] \in Nat
        /\ g[w[m]] \in Nat /\ h[m] \in Nat
    BY <1>5, <1>8, <2>1
  <2>7. h[l] <= g[w[l]]
    BY <2>2, <2>3, <2>5, <2>6
  <2> QED
    BY <2>7 DEF l, m
<1> HIDE DEF T
<1>11. Nat \subseteq T
  BY <1>9, <1>10, Induct
<1>12. Budget \in Nat
  BY DEF Parameters
<1>13. h[k] <= Budget
  <2>1. CASE k = 0
    BY <1>5, <1>12, <2>1
  <2>2. CASE k # 0
    <3>1. k - 1 \in Nat /\ (k - 1) + 1 = k /\ (k - 1) + 1 <= k /\ k \in 1 .. k /\ k \in 0 .. k
      BY <1>1, <2>2
    <3>2. h[k] <= g[w[k]]
      BY <1>11, <3>1 DEF T
    <3>3. g[w[k]] <= Budget
      BY <1>1, <1>2, <3>1
    <3>4. h[k] \in Nat /\ g[w[k]] \in Nat
      BY <1>5, <1>8, <3>1
    <3> QED
      BY <1>12, <3>2, <3>3, <3>4
  <2> QED
    BY <2>1, <2>2
<1> QED
  BY <1>4, <1>13 DEF w, t, h, k

LEMMA DivGrows ==
  ASSUME NEW a \in Nat, NEW b \in Nat, NEW k \in Nat, k # 0, b <= a
  PROVE  b \div k <= a \div k /\ a \div k \in Nat /\ b \div k \in Nat
<1> DEFINE x == a \div k
           y == b \div k
           r == a % k
           q == b % k
<1>1. /\ x \in Nat /\ y \in Nat /\ r \in Nat /\ q \in Nat
      /\ a = k * x + r /\ b = k * y + q /\ r < k /\ q < k
  BY SMT
<1> HIDE DEF x, y, r, q
<1>2. ~ y > x
  <2> SUFFICES ASSUME y > x
               PROVE  FALSE
    OBVIOUS
  <2>1. PICK d \in Nat : y = x + 1 + d
    <3>1. y - x - 1 \in Nat /\ y = x + 1 + (y - x - 1)
      BY <1>1
    <3> QED
      BY <3>1
  <2>2. k * y = k * x + k + k * d /\ k * d >= 0 /\ k * x \in Int /\ k * d \in Int
    BY <1>1, <2>1, SMT
  <2> DEFINE p == k * x
             o == k * d
             z == k * y
  <2> HIDE DEF p, o, z
  <2>3. z = p + k + o /\ o >= 0 /\ p \in Int /\ o \in Int /\ a = p + r /\ b = z + q
    BY <1>1, <2>2 DEF p, o, z
  <2> QED
    BY <1>1, <2>3
<1> QED
  BY <1>1, <1>2 DEF x, y

LEMMA MeanBetween ==
  ASSUME NEW a \in Nat, NEW k \in Nat, k # 0, 50 * k <= a, a <= 7131 * k
  PROVE  a \div k \in Nat /\ 50 <= a \div k /\ a \div k <= 7131
<1>1. (50 * k) \div k = 50 /\ (7131 * k) \div k = 7131
  BY SMT
<1>2. 50 * k \in Nat /\ 7131 * k \in Nat
  BY SMT
<1>3. (50 * k) \div k <= a \div k /\ a \div k <= (7131 * k) \div k /\ a \div k \in Nat
  BY <1>2, DivGrows, SMT
<1> QED
  BY <1>1, <1>3, SMT

\* Where no text repeats the first so many candidates are kept.
LEMMA KeptFirst ==
  ASSUME Parameters, NEW c \in Candidates, Distinct(c) = DOMAIN c
  PROVE  \A i \in 1 .. Len(InOrder(c)) : InOrder(c)[i] = i
<1> DEFINE w == InOrder(c)
           k == Len(w)
           L == Len(c)
           g == Running(Costs(c))
           T == {n \in Nat : n <= k => \A i \in 1 .. n : w[i] = i}
<1>1. /\ DOMAIN w = 1 .. k /\ k \in Nat /\ Increasing(w) /\ Seqs!Elements(w) = Kept(c)
      /\ \A i \in 1 .. k : w[i] \in 1 .. L /\ w[i] \in Kept(c) /\ w[i] \in Nat /\ i <= w[i]
  BY InOrderIs
<1>2. /\ Costs(c) \in Seq(Nat) /\ Len(Costs(c)) = L
      /\ \A n \in 1 .. L : n \in Kept(c) <=> n \in Distinct(c) /\ g[n] <= Budget
  BY CostsAre
<1>3. L \in Nat /\ DOMAIN c = 1 .. L /\ Budget \in Nat
  BY CandidatesAre DEF Parameters
<1>4. \A n \in 0 .. L : g[n] \in Nat
  BY <1>2, RunningIs
<1>5. \A m, n \in Nat : m <= n /\ n <= L => g[m] <= g[n]
  BY <1>2, RunningGrows
<1> HIDE DEF w, k, L, g
<1>6. ASSUME NEW n \in Kept(c), NEW m \in 1 .. L, n \in 1 .. L, m <= n
      PROVE  m \in Kept(c)
  <2>1. /\ g[m] <= g[n] /\ g[n] <= Budget /\ g[m] \in Nat /\ g[n] \in Nat
    BY <1>2, <1>3, <1>4, <1>5, <1>6
  <2>2. m \in Distinct(c) /\ g[m] <= Budget
    BY <1>3, <2>1
  <2> QED
    BY <1>2, <2>2
<1>7. 0 \in T
  OBVIOUS
<1>8. ASSUME NEW n \in Nat, n \in T
      PROVE  n + 1 \in T
  <2> SUFFICES ASSUME n + 1 <= k
               PROVE  \A i \in 1 .. n + 1 : w[i] = i
    OBVIOUS
  <2>1. n <= k /\ n + 1 \in 1 .. k
    BY <1>1
  <2>2. \A i \in 1 .. n : w[i] = i
    BY <1>8, <2>1
  <2>3. w[n + 1] = n + 1
    <3> SUFFICES ASSUME w[n + 1] # n + 1
                 PROVE  FALSE
      OBVIOUS
    <3>1. /\ w[n + 1] \in Kept(c) /\ w[n + 1] \in 1 .. L /\ n + 1 \in 1 .. L /\ n + 1 < w[n + 1]
      BY <1>1, <1>3, <2>1
    <3>2. n + 1 \in Kept(c)
      BY <1>3, <1>6, <3>1
    <3>3. PICK j \in 1 .. k : w[j] = n + 1
      BY <1>1, <3>2 DEF Seqs!Elements
    <3>4. CASE j <= n
      BY <2>2, <3>3, <3>4
    <3>5. CASE j = n + 1
      BY <3>3, <3>5
    <3>6. CASE j > n + 1
      <4>1. w[n + 1] < w[j]
        BY <1>1, <2>1, <3>6 DEF Increasing
      <4> QED
        BY <1>1, <3>1, <3>3, <4>1
    <3> QED
      BY <1>1, <3>4, <3>5, <3>6
  <2> QED
    BY <2>2, <2>3
<1> HIDE DEF T
<1>9. k \in T
  BY <1>1, <1>7, <1>8, Induct
<1> QED
  BY <1>1, <1>9 DEF T, w, k

Scores(c) == [n \in DOMAIN c |-> c[n].score]
KeptScores(c) == [n \in DOMAIN InOrder(c) |-> c[InOrder(c)[n]].score]

\* The average over the first so many candidates is no less than over those kept.
LEMMA SumsCompare ==
  ASSUME Parameters, NEW c \in Candidates, Descending(c),
         \A n \in 1 .. Len(c) : 50 <= c[n].score /\ c[n].score <= 7131
  PROVE  LET k == Len(InOrder(c))
             sum == Running(Scores(c))[k]
             kept == Running(KeptScores(c))[k]
         IN  /\ sum \in Nat /\ kept \in Nat /\ k \in Nat /\ kept <= sum
             /\ 50 * k <= sum /\ sum <= 7131 * k
             /\ Distinct(c) = DOMAIN c => kept = sum
<1> DEFINE w == InOrder(c)
           k == Len(w)
           s == Scores(c)
           t == KeptScores(c)
<1>1. /\ DOMAIN w = 1 .. k /\ k \in Nat /\ k <= Len(c)
      /\ \A i \in 1 .. k : w[i] \in 1 .. Len(c) /\ i <= w[i]
  BY InOrderIs
<1>2. /\ DOMAIN c = 1 .. Len(c) /\ Len(c) \in Nat /\ \A n \in 1 .. Len(c) : c[n].score \in Nat
  BY CandidatesAre
<1>3. s = [n \in 1 .. Len(c) |-> c[n].score]
  BY <1>2 DEF Scores
<1>4. t = [n \in 1 .. k |-> c[w[n]].score]
  BY <1>1 DEF KeptScores
<1> HIDE DEF w, k, s, t
<1>5. /\ s \in Seq(Nat) /\ Len(s) = Len(c) /\ \A n \in 1 .. Len(c) : s[n] = c[n].score
  BY <1>2, <1>3, SMT
<1>6. \A n \in 1 .. k : c[w[n]].score \in Nat
  BY <1>1, <1>2, SMT
<1>7. t \in Seq(Nat) /\ Len(t) = k /\ \A n \in 1 .. k : t[n] = c[w[n]].score
  BY <1>1, <1>4, <1>6, SMT
<1>8. \A i \in 1 .. k : t[i] <= s[i]
  <2> SUFFICES ASSUME NEW i \in 1 .. k
               PROVE  t[i] <= s[i]
    OBVIOUS
  <2>0. i \in 1 .. Len(c)
    BY <1>1, <1>2
  <2>4. t[i] = c[w[i]].score /\ s[i] = c[i].score
    BY <1>5, <1>7, <2>0
  <2>1. w[i] \in DOMAIN c /\ i \in DOMAIN c /\ (i < w[i] \/ i = w[i])
    BY <1>1, <1>2, SMT
  <2>2. CASE i < w[i]
    BY <2>1, <2>2, <2>4, SMT DEF Descending
  <2>3. CASE i = w[i]
    BY <1>2, <2>1, <2>3, <2>4, SMT
  <2> QED
    BY <2>1, <2>2, <2>3
<1>9. Running(t)[k] <= Running(s)[k]
  <2>1. k \in Nat /\ k <= Len(s) /\ k <= Len(t)
    BY <1>1, <1>5, <1>7
  <2>2. s \in Seq(Nat) /\ t \in Seq(Nat)
    BY <1>5, <1>7
  <2> QED
    <3>1. \A m \in Nat : m <= Len(s) /\ m <= Len(t) /\ (\A i \in 1 .. m : t[i] <= s[i])
             => Running(t)[m] <= Running(s)[m]
      BY <2>2, RunningAbove
    <3> QED
      BY <1>8, <2>1, <3>1
<1>10. 50 * k <= Running(s)[k] /\ Running(s)[k] <= 7131 * k
  <2>1. \A i \in 1 .. k : 50 <= s[i] /\ s[i] <= 7131
    <3> SUFFICES ASSUME NEW i \in 1 .. k
                 PROVE  50 <= s[i] /\ s[i] <= 7131
      OBVIOUS
    <3>1. i \in 1 .. Len(c)
      BY <1>1, <1>2
    <3>2. s[i] = c[i].score
      BY <1>5, <3>1
    <3> QED
      BY <3>1, <3>2, SMT
  <2>2. k \in Nat /\ k <= Len(s)
    BY <1>1, <1>5
  <2> QED
    BY <1>5, <2>1, <2>2, RunningBetween, SMT
<1>11. Running(s)[k] \in Nat /\ Running(t)[k] \in Nat
  <2>1. k \in 0 .. Len(s) /\ k \in 0 .. Len(t)
    BY <1>1, <1>2, <1>5, <1>7, SMT
  <2> QED
    BY <1>5, <1>7, <2>1, RunningIs
<1>12. ASSUME Distinct(c) = DOMAIN c
       PROVE  Running(t)[k] = Running(s)[k]
  <2>1. \A i \in 1 .. k : w[i] = i
    BY <1>12, KeptFirst DEF w, k
  <2>2. \A i \in 1 .. k : s[i] <= t[i]
    BY <1>1, <1>2, <1>5, <1>7, <2>1, SMTT(30)
  <2>3. Running(s)[k] <= Running(t)[k]
    <3>1. k \in Nat /\ k <= Len(s) /\ k <= Len(t)
      BY <1>1, <1>5, <1>7
    <3> QED
      BY <1>5, <1>7, <2>2, <3>1, RunningAbove
  <2> QED
    BY <1>9, <1>11, <2>3, SMT
<1> QED
  BY <1>1, <1>9, <1>10, <1>11, <1>12 DEF w, k, s, t

LEMMA ConfidenceIs ==
  ASSUME Parameters, NEW c \in Candidates, Descending(c),
         \A n \in 1 .. Len(c) : 50 <= c[n].score /\ c[n].score <= 7131
  PROVE  LET k == Len(InOrder(c))
             mean == Running(KeptScores(c))[k] \div k
         IN  /\ Confidence(c, k) \in 0 .. 100
             /\ k # 0 => 100 * Confidence(c, k) + 50 >= mean
             /\ k # 0 /\ Distinct(c) = DOMAIN c => 100 * Confidence(c, k) <= mean + 50
<1> DEFINE k == Len(InOrder(c))
           sum == Running(Scores(c))[k]
           kept == Running(KeptScores(c))[k]
           y == sum \div k
           z == kept \div k
           rounded == (y + 50) \div 100
           conf == Confidence(c, k)
<1>1. /\ sum \in Nat /\ kept \in Nat /\ k \in Nat /\ kept <= sum
      /\ 50 * k <= sum /\ sum <= 7131 * k
      /\ Distinct(c) = DOMAIN c => kept = sum
  BY SumsCompare
<1>2. conf = IF k = 0 THEN 0
             ELSE IF rounded = 0 THEN 85 ELSE IF rounded > 100 THEN 100 ELSE rounded
  BY DEF Confidence, Scores
<1> HIDE DEF k, sum, kept, conf
<1>3. CASE k = 0
  BY <1>2, <1>3, SMT DEF conf, k
<1>4. CASE k # 0
  <2>1. y \in Nat /\ 50 <= y /\ y <= 7131
    BY <1>1, <1>4, MeanBetween, SMT
  <2>2. z <= y /\ z \in Nat
    BY <1>1, <1>4, DivGrows, SMT
  <2>3. Distinct(c) = DOMAIN c => z = y
    BY <1>1
  <2> HIDE DEF y, z
  <2>4. rounded \in Nat /\ 1 <= rounded /\ rounded <= 71 /\ 100 * rounded <= y + 50 /\ y + 50 < 100 * rounded + 100
    BY <2>1, SMT
  <2> HIDE DEF rounded
  <2>5. conf = rounded
    BY <1>2, <1>4, <2>4, SMT
  <2>6. conf \in 0 .. 100 /\ 100 * conf + 50 >= z /\ (Distinct(c) = DOMAIN c => 100 * conf <= z + 50)
    BY <2>1, <2>2, <2>3, <2>4, <2>5, SMT
  <2> QED
    BY <2>6 DEF conf, z, kept, k
<1> QED
  BY <1>3, <1>4

Scored50(c) == \A n \in 1 .. Len(c) : 50 <= c[n].score /\ c[n].score <= 7131

\* What the package holds of the candidates.
Gives(p, c) ==
  LET w == InOrder(c)
  IN  /\ p.candidates = c
      /\ p.chunks \in Seq(Chunks) /\ Len(p.chunks) = Len(w) /\ DOMAIN p.chunks = 1 .. Len(w)
      /\ Len(p.citations) = Len(w) /\ DOMAIN p.citations = 1 .. Len(w)
      /\ \A n \in 1 .. Len(w) : /\ p.chunks[n] = c[w[n]].chunk
                                /\ p.citations[n].citation = w[n]
                                /\ p.citations[n].chunk = c[w[n]].chunk
      /\ p.confidence = Confidence(c, Len(w))

LEMMA PackageIs ==
  ASSUME Parameters, NEW asked \in Jobs, NEW sparse \in SUBSET ChunkIds, NEW c \in Candidates,
         Descending(c), Scored50(c)
  PROVE  LET p == Package(asked, sparse, c)
         IN  /\ p \in Packages /\ Gives(p, c)
             /\ p.scope = asked.scope /\ p.sparse = sparse /\ p.outdated = asked.outdated
<1> DEFINE p == Package(asked, sparse, c)
           w == InOrder(c)
           k == Len(w)
           given == [n \in DOMAIN w |-> c[w[n]].chunk]
           cited == [n \in DOMAIN w |-> Cite(c, w[n])]
           conf == Confidence(c, k)
<1>1. /\ DOMAIN w = 1 .. k /\ k \in Nat
      /\ \A i \in 1 .. k : w[i] \in 1 .. Len(c) /\ w[i] \in Nat
  BY InOrderIs
<1>2. \A n \in 1 .. Len(c) : c[n].chunk \in Chunks
  BY CandidatesAre
<1>3. conf \in 0 .. 100
  <2>1. \A n \in 1 .. Len(c) : 50 <= c[n].score /\ c[n].score <= 7131
    BY DEF Scored50
  <2>2. Descending(c)
    OBVIOUS
  <2> HIDE DEF p, w, given, cited
  <2>3. Confidence(c, Len(InOrder(c))) \in 0 .. 100
    <3> DEFINE j == Len(InOrder(c))
               mean == Running(KeptScores(c))[j] \div j
    <3>1. /\ Confidence(c, j) \in 0 .. 100
          /\ j # 0 => 100 * Confidence(c, j) + 50 >= mean
          /\ j # 0 /\ Distinct(c) = DOMAIN c => 100 * Confidence(c, j) <= mean + 50
      BY <2>1, <2>2, ConfidenceIs, SMT
    <3> HIDE DEF mean
    <3> QED
      BY <3>1
  <2> QED
    BY <2>3 DEF w
<1>4. p = [candidates |-> c, scope |-> asked.scope, sparse |-> sparse,
           outdated |-> asked.outdated, chunks |-> given, citations |-> cited,
           confidence |-> conf]
  BY DEF Package
<1> HIDE DEF w, k, conf
<1>5. \A n \in 1 .. k : c[w[n]].chunk \in Chunks
  BY <1>1, <1>2
<1>6. /\ given \in Seq(Chunks) /\ Len(given) = k /\ DOMAIN given = 1 .. k
      /\ \A n \in 1 .. k : given[n] = c[w[n]].chunk
  BY <1>1, <1>5
<1>7. \A n \in 1 .. k : Cite(c, w[n]) \in [citation : Nat, chunk : Chunks]
  BY <1>1, <1>5 DEF Cite
<1>8. /\ cited \in Seq([citation : Nat, chunk : Chunks]) /\ Len(cited) = k
      /\ DOMAIN cited = 1 .. k /\ \A n \in 1 .. k : cited[n] = Cite(c, w[n])
  BY <1>1, <1>7
<1>9. \A n \in 1 .. k : cited[n].citation = w[n] /\ cited[n].chunk = c[w[n]].chunk
  BY <1>8 DEF Cite
<1> HIDE DEF given, cited
<1>10. asked.scope \in Scopes /\ asked.outdated \in SUBSET ChunkIds
  BY DEF Jobs
<1>11. p \in Packages
  BY <1>3, <1>4, <1>6, <1>8, <1>10 DEF Packages
<1>12. /\ p.candidates = c /\ p.scope = asked.scope /\ p.sparse = sparse
       /\ p.outdated = asked.outdated /\ p.chunks = given /\ p.citations = cited
       /\ p.confidence = conf
  BY <1>4
<1> HIDE DEF p
<1>13. Gives(p, c)
  BY <1>6, <1>8, <1>9, <1>12 DEF Gives, w, k, conf
<1> QED
  BY <1>11, <1>12, <1>13 DEF p

\* Whose text comes twice is kept once, and the places of what is kept increase.
LEMMA KeptOnce ==
  ASSUME NEW c \in Candidates, NEW p, Gives(p, c)
  PROVE  /\ \A n \in 1 .. Len(InOrder(c)) : p.citations[n].chunk = p.chunks[n]
         /\ \A m, n \in 1 .. Len(InOrder(c)) : m < n =>
               /\ Content[p.chunks[m].text] # Content[p.chunks[n].text]
               /\ p.citations[m].citation < p.citations[n].citation
<1> DEFINE w == InOrder(c)
           k == Len(w)
<1>1. /\ DOMAIN w = 1 .. k /\ k \in Nat /\ Increasing(w)
      /\ \A i \in 1 .. k : w[i] \in 1 .. Len(c) /\ w[i] \in Kept(c) /\ w[i] \in Nat
  BY InOrderIs
<1>2. \A n \in 1 .. k : /\ p.chunks[n] = c[w[n]].chunk /\ p.citations[n].citation = w[n]
                        /\ p.citations[n].chunk = c[w[n]].chunk
  BY DEF Gives
<1> HIDE DEF w, k
<1>3. ASSUME NEW m \in 1 .. k, NEW n \in 1 .. k, m < n
      PROVE  /\ Content[p.chunks[m].text] # Content[p.chunks[n].text]
             /\ p.citations[m].citation < p.citations[n].citation
  <2>1. w[m] < w[n] /\ w[m] \in Nat /\ w[n] \in Nat /\ w[m] >= 1
    BY <1>1, <1>3 DEF Increasing
  <2>2. ~ Repeats(c, w[n])
    BY <1>1 DEF Kept, Distinct
  <2>3. w[m] \in 1 .. (w[n] - 1)
    BY <2>1
  <2>4. Content[c[w[m]].chunk.text] # Content[c[w[n]].chunk.text]
    BY <2>2, <2>3 DEF Repeats, ContentAt
  <2> QED
    BY <1>2, <2>1, <2>4
<1> QED
  BY <1>2, <1>3 DEF w, k

\* The properties' sums are those of the kept candidates.
LEMMA PackageSums ==
  ASSUME NEW c \in Candidates, NEW p, Gives(p, c)
  PROVE  /\ [n \in DOMAIN p.chunks |-> Tokens[p.chunks[n].text]]
               = [n \in DOMAIN InOrder(c) |-> Tokens[c[InOrder(c)[n]].chunk.text]]
         /\ [n \in DOMAIN p.citations |-> p.candidates[p.citations[n].citation].score]
               = KeptScores(c)
<1>1. DOMAIN InOrder(c) = 1 .. Len(InOrder(c))
  BY InOrderIs
<1> QED
  BY <1>1 DEF Gives, KeptScores

-----------------------------------------------------------------------------
\* What the dense search found may be seen, and is in the store still or known
\* to be outdated.
JobFits ==
  job # Absent =>
    /\ Len(job.dense) <= TopK
    /\ \A n \in 1 .. Len(job.dense) :
          /\ Visible(job.dense[n].chunk, job.scope)
          /\ InStore(job.dense[n].chunk) \/ job.dense[n].chunk.chunk_id \in job.outdated

PackageFits ==
  package # Absent =>
    LET c == package.candidates
    IN  /\ Gives(package, c) /\ Descending(c) /\ Scored50(c)
        /\ \A n \in DOMAIN package.chunks : Visible(package.chunks[n], package.scope)

EvidenceInv == RetrievalTypeOK /\ JobFits /\ PackageFits

LEMMA InitEvidence ==
  ASSUME Parameters
  PROVE  RetrievalInit => EvidenceInv
<1> SUFFICES ASSUME RetrievalInit
             PROVE  EvidenceInv
  OBVIOUS
<1>1. Seeded \in Seq(Chunks) /\ MaxAdds \in Nat
  BY DEF Parameters
<1>2. RetrievalTypeOK
  BY <1>1 DEF RetrievalInit, RetrievalTypeOK
<1> QED
  BY <1>2 DEF RetrievalInit, EvidenceInv, JobFits, PackageFits

LEMMA AddKeeps ==
  ASSUME Parameters, EvidenceInv, NEW c \in Chunks, add_chunk(c)
  PROVE  EvidenceInv'
<1> DEFINE same == {n \in DOMAIN chunks : chunks[n].chunk_id = c.chunk_id}
           replaced == {chunks[n].chunk_id : n \in same}
<1>1. /\ chunks \in Seq(Chunks) /\ adds \in 0 .. MaxAdds /\ MaxAdds \in Nat
      /\ job \in Jobs \cup {Absent}
  BY DEF EvidenceInv, RetrievalTypeOK, Parameters
<1>2. /\ adds < MaxAdds /\ adds' = adds + 1 /\ package' = package
      /\ chunks' = IF same = {} THEN Append(chunks, c)
                   ELSE [n \in DOMAIN chunks |-> IF n \in same THEN c ELSE chunks[n]]
      /\ job' = IF job = Absent THEN Absent ELSE [job EXCEPT !.outdated = @ \cup replaced]
  BY DEF add_chunk
<1>3. DOMAIN chunks = 1 .. Len(chunks) /\ Len(chunks) \in Nat /\ \A n \in 1 .. Len(chunks) : chunks[n] \in Chunks
  BY <1>1
<1>4. chunks' \in Seq(Chunks)
  <2>1. CASE same = {}
    BY <1>1, <1>2, <2>1
  <2>2. CASE same # {}
    <3>1. chunks' = [n \in 1 .. Len(chunks) |-> IF n \in same THEN c ELSE chunks[n]]
      BY <1>2, <1>3, <2>2
    <3> HIDE DEF same
    <3>2. \A n \in 1 .. Len(chunks) : (IF n \in same THEN c ELSE chunks[n]) \in Chunks
      BY <1>3
    <3> QED
      BY <1>3, <3>1, <3>2
  <2> QED
    BY <2>1, <2>2
<1>5. \A x : InStore(x) => InStore(x)' \/ x.chunk_id \in replaced
  <2> SUFFICES ASSUME NEW m \in DOMAIN chunks
               PROVE  (\E l \in DOMAIN chunks' : chunks'[l] = chunks[m]) \/ chunks[m].chunk_id \in replaced
    BY DEF InStore
  <2>1. CASE m \in same
    BY <2>1
  <2>2. CASE m \notin same
    <3>1. CASE same = {}
      <4>1. chunks'[m] = chunks[m] /\ m \in DOMAIN chunks'
        BY <1>1, <1>2, <1>3, <3>1
      <4> QED
        BY <4>1
    <3>2. CASE same # {}
      <4>1. chunks'[m] = chunks[m] /\ m \in DOMAIN chunks'
        BY <1>2, <2>2, <3>2
      <4> QED
        BY <4>1
    <3> QED
      BY <3>1, <3>2
  <2> QED
    BY <2>1, <2>2
<1>6. replaced \subseteq ChunkIds
  BY <1>3 DEF ChunkIds
<1> HIDE DEF same, replaced
<1>7. CASE job = Absent
  <2>1. job' = Absent
    BY <1>2, <1>7
  <2>2. RetrievalTypeOK'
    BY <1>1, <1>2, <1>4, <2>1 DEF EvidenceInv, RetrievalTypeOK
  <2> QED
    BY <1>2, <2>1, <2>2 DEF EvidenceInv, JobFits, PackageFits
<1>8. CASE job # Absent
  <2>1. job \in Jobs /\ job' = [job EXCEPT !.outdated = @ \cup replaced]
    BY <1>1, <1>2, <1>8
  <2>2. /\ job' \in Jobs /\ job'.dense = job.dense /\ job'.scope = job.scope
        /\ job'.outdated = job.outdated \cup replaced
    BY <1>6, <2>1 DEF Jobs
  <2>3. RetrievalTypeOK'
    BY <1>1, <1>2, <1>4, <2>2 DEF EvidenceInv, RetrievalTypeOK
  <2>4. JobFits'
    <3>1. /\ Len(job.dense) <= TopK
          /\ \A n \in 1 .. Len(job.dense) :
                /\ Visible(job.dense[n].chunk, job.scope)
                /\ InStore(job.dense[n].chunk) \/ job.dense[n].chunk.chunk_id \in job.outdated
      BY <1>8 DEF EvidenceInv, JobFits
    <3>2. ASSUME NEW n \in 1 .. Len(job.dense)
          PROVE  InStore(job.dense[n].chunk)' \/ job.dense[n].chunk.chunk_id \in job'.outdated
      <4> DEFINE x == job.dense[n].chunk
      <4>1. InStore(x) \/ x.chunk_id \in job.outdated
        BY <3>1, <3>2
      <4>2. InStore(x) => (\E m \in DOMAIN chunks' : chunks'[m] = x) \/ x.chunk_id \in replaced
        BY <1>5 DEF InStore
      <4>3. InStore(job.dense[n].chunk)' <=> (\E m \in DOMAIN chunks' : chunks'[m] = x)
        BY <2>2 DEF InStore
      <4> QED
        BY <2>2, <4>1, <4>2, <4>3
    <3> QED
      BY <2>2, <3>1, <3>2 DEF JobFits
  <2> QED
    BY <1>2, <2>3, <2>4 DEF EvidenceInv, PackageFits
<1> QED
  BY <1>7, <1>8

LEMMA DenseKeeps ==
  ASSUME Parameters, EvidenceInv, NEW scope \in Scopes, search_dense(scope)
  PROVE  EvidenceInv'
<1> DEFINE found == SearchDense(scope)
<1>1. chunks \in Seq(Chunks)
  BY DEF EvidenceInv, RetrievalTypeOK
<1>2. /\ found \in Candidates /\ Len(found) <= TopK
      /\ \A n \in 1 .. Len(found) : InStore(found[n].chunk) /\ Visible(found[n].chunk, scope)
  BY <1>1, SearchIs
<1>3. /\ job' = [scope |-> scope, dense |-> found, outdated |-> {}]
      /\ chunks' = chunks /\ package' = package /\ adds' = adds
  BY DEF search_dense
<1> HIDE DEF found
<1>4. job' \in Jobs /\ job'.dense = found /\ job'.scope = scope
  BY <1>2, <1>3 DEF Jobs
<1>5. RetrievalTypeOK'
  BY <1>3, <1>4 DEF EvidenceInv, RetrievalTypeOK
<1>6. JobFits'
  <2>1. \A x : InStore(x) => InStore(x)'
    BY <1>3 DEF InStore
  <2>2. ASSUME NEW n \in 1 .. Len(found)
        PROVE  InStore(job.dense[n].chunk)'
    <3>1. InStore(found[n].chunk)
      BY <1>2, <2>2
    <3>2. \E m \in DOMAIN chunks' : chunks'[m] = found[n].chunk
      BY <1>3, <3>1 DEF InStore
    <3> QED
      BY <1>4, <3>2 DEF InStore
  <2> QED
    BY <1>2, <1>4, <2>2 DEF JobFits
<1> QED
  BY <1>3, <1>5, <1>6 DEF EvidenceInv, PackageFits

\* What the request answers comes from the store as it is now, or from what the
\* dense search found and the sparse search did not.
LEMMA SparseAnswers ==
  ASSUME Parameters, EvidenceInv, search_sparse
  PROVE  \E found \in Candidates, c \in Candidates :
            /\ package' \in Packages /\ Len(c) <= RerankTopK
            /\ Gives(package', c) /\ Descending(c) /\ Scored50(c)
            /\ package'.scope = job.scope /\ package'.sparse = Ids(found)
            /\ package'.outdated = job.outdated
            /\ \A n \in 1 .. Len(found) : InStore(found[n].chunk) /\ Visible(found[n].chunk, job.scope)
            /\ \A n \in 1 .. Len(c) : FromSparse(found, c[n].chunk) \/ FromDense(job.dense, found, c[n].chunk)
<1> DEFINE found == SearchSparse(job.scope)
           fused == Fuse(job.dense, found)
           c == Rerank(fused)
<1>1. /\ chunks \in Seq(Chunks) /\ job \in Jobs /\ Len(job.dense) <= TopK
  BY DEF EvidenceInv, RetrievalTypeOK, JobFits, search_sparse
<1>2. job.dense \in Candidates
  BY <1>1 DEF Jobs
<1>3. /\ found \in Candidates /\ Len(found) <= TopK
      /\ \A n \in 1 .. Len(found) : InStore(found[n].chunk) /\ Visible(found[n].chunk, job.scope)
  BY <1>1, SearchIs
<1>4. package' = Package(job, Ids(found), c)
  BY DEF search_sparse
<1> HIDE DEF found
<1>5. /\ fused \in Candidates
      /\ \A n \in 1 .. Len(fused) :
            /\ LowShare <= fused[n].score /\ fused[n].score <= HighScore
            /\ FromSparse(found, fused[n].chunk) \/ FromDense(job.dense, found, fused[n].chunk)
  BY <1>1, <1>2, <1>3, FuseIs
<1> HIDE DEF fused
<1>6. /\ c \in Candidates /\ Len(c) <= RerankTopK /\ Descending(c)
      /\ \A n \in 1 .. Len(c) : /\ 50 <= c[n].score /\ c[n].score <= 7131
                                /\ \E m \in 1 .. Len(fused) : c[n].chunk = fused[m].chunk
  <2>1. \A n \in 1 .. Len(fused) : LowShare <= fused[n].score /\ fused[n].score <= HighScore
    BY <1>5
  <2> QED
    BY <1>5, <2>1, RerankIs
<1> HIDE DEF c
<1>7. Scored50(c)
  BY <1>6 DEF Scored50
<1>8. Ids(found) \in SUBSET ChunkIds
  <2>1. DOMAIN found = 1 .. Len(found) /\ \A n \in 1 .. Len(found) : found[n].chunk \in Chunks
    BY <1>3, CandidatesAre
  <2> QED
    BY <2>1 DEF Ids, ChunkIds
<1>9. /\ package' \in Packages /\ Gives(package', c) /\ package'.scope = job.scope
      /\ package'.sparse = Ids(found) /\ package'.outdated = job.outdated
  BY <1>1, <1>4, <1>6, <1>7, <1>8, PackageIs
<1>10. \A n \in 1 .. Len(c) : FromSparse(found, c[n].chunk) \/ FromDense(job.dense, found, c[n].chunk)
  BY <1>5, <1>6
<1> QED
  BY <1>3, <1>6, <1>7, <1>9, <1>10

LEMMA SparseKeeps ==
  ASSUME Parameters, EvidenceInv, search_sparse
  PROVE  EvidenceInv'
<1>1. PICK found \in Candidates, c \in Candidates :
        /\ package' \in Packages /\ Len(c) <= RerankTopK
        /\ Gives(package', c) /\ Descending(c) /\ Scored50(c)
        /\ package'.scope = job.scope
        /\ \A n \in 1 .. Len(found) : InStore(found[n].chunk) /\ Visible(found[n].chunk, job.scope)
        /\ \A n \in 1 .. Len(c) : FromSparse(found, c[n].chunk) \/ FromDense(job.dense, found, c[n].chunk)
  BY SparseAnswers
<1>2. job' = Absent /\ chunks' = chunks /\ adds' = adds /\ job # Absent
  BY DEF search_sparse
<1>3. package'.candidates = c
  BY <1>1 DEF Gives
<1>4. RetrievalTypeOK'
  BY <1>1, <1>2, <1>3 DEF EvidenceInv, RetrievalTypeOK
<1>5. JobFits'
  BY <1>2 DEF JobFits
<1>6. /\ DOMAIN found = 1 .. Len(found) /\ job.dense \in Candidates
      /\ DOMAIN job.dense = 1 .. Len(job.dense)
      /\ \A n \in 1 .. Len(job.dense) : Visible(job.dense[n].chunk, job.scope)
  <2>1. job \in Jobs /\ \A n \in 1 .. Len(job.dense) : Visible(job.dense[n].chunk, job.scope)
    BY <1>2 DEF EvidenceInv, RetrievalTypeOK, JobFits
  <2>2. job.dense \in Candidates
    BY <2>1 DEF Jobs
  <2> QED
    BY <2>1, <2>2, CandidatesAre
<1>7. ASSUME NEW n \in DOMAIN package'.chunks
      PROVE  Visible(package'.chunks[n], package'.scope)
  <2>1. package'.chunks[n] = c[InOrder(c)[n]].chunk /\ InOrder(c)[n] \in 1 .. Len(c)
    BY <1>1, <1>7, InOrderIs DEF Gives
  <2>2. \A x : FromSparse(found, x) \/ FromDense(job.dense, found, x) => Visible(x, job.scope)
    BY <1>1, <1>6 DEF FromSparse, FromDense
  <2> QED
    BY <1>1, <2>1, <2>2
<1>8. PackageFits'
  <2>1. PackageFits' <=> (package' # Absent =>
          LET d == package'.candidates
          IN  /\ Gives(package', d) /\ Descending(d) /\ Scored50(d)
              /\ \A n \in DOMAIN package'.chunks : Visible(package'.chunks[n], package'.scope))
    BY DEF PackageFits, Gives, Descending, Scored50, Visible
  <2> QED
    BY <1>1, <1>3, <1>7, <2>1
<1> QED
  BY <1>4, <1>5, <1>8 DEF EvidenceInv

LEMMA AlwaysEvidence ==
  ASSUME Parameters
  PROVE  RetrievalSpec => []EvidenceInv
<1>1. EvidenceInv /\ [RetrievalNext]_(retrievalVars) => EvidenceInv'
  <2> SUFFICES ASSUME EvidenceInv, [RetrievalNext]_(retrievalVars)
               PROVE  EvidenceInv'
    OBVIOUS
  <2>1. CASE RetrievalNext
    BY <2>1, AddKeeps, DenseKeeps, SparseKeeps DEF RetrievalNext
  <2>2. CASE UNCHANGED retrievalVars
    BY <2>2 DEF retrievalVars, EvidenceInv, RetrievalTypeOK, JobFits, PackageFits, InStore
  <2> QED
    BY <2>1, <2>2
<1> QED
  BY InitEvidence, <1>1, PTL DEF RetrievalSpec

\* A request gets only chunks its tenant and its workspace may see, also when
\* chunks are replaced while it runs.
THEOREM GivesOnlyVisible == RetrievalSpec => []OnlyVisible
<1>0. Parameters
  BY RetrievalAssumption
<1>1. EvidenceInv => OnlyVisible
  BY DEF EvidenceInv, PackageFits, OnlyVisible, Answered, Given
<1> QED
  BY <1>0, AlwaysEvidence, <1>1, PTL

\* What a request gets fits its budget, holds no text twice, and is cited chunk
\* by chunk under the places of the candidates.
THEOREM EvidenceIsCited == RetrievalSpec => []EvidenceFits
<1>0. Parameters
  BY RetrievalAssumption
<1>1. EvidenceInv => EvidenceFits
  <2> SUFFICES ASSUME EvidenceInv, package # Absent
               PROVE  LET given == package.chunks cited == package.citations IN
                      /\ Running([n \in DOMAIN given |-> Tokens[given[n].text]])[Len(given)] <= Budget
                      /\ Len(cited) = Len(given)
                      /\ \A m, n \in DOMAIN given : m < n =>
                             Content[given[m].text] # Content[given[n].text] /\ cited[m].citation < cited[n].citation
                      /\ \A n \in DOMAIN given : cited[n].chunk = given[n]
    BY DEF EvidenceInv, EvidenceFits, Answered
  <2> DEFINE c == package.candidates
             w == InOrder(c)
  <2>1. c \in Candidates /\ Gives(package, c)
    BY DEF EvidenceInv, RetrievalTypeOK, PackageFits, Packages
  <2> HIDE DEF c
  <2>2. /\ Len(package.chunks) = Len(w) /\ Len(package.citations) = Len(w)
        /\ DOMAIN package.chunks = 1 .. Len(w)
    BY <2>1 DEF Gives
  <2>3. Running([n \in DOMAIN w |-> Tokens[c[w[n]].chunk.text]])[Len(w)] <= Budget
    BY <1>0, <2>1, KeptFits
  <2>4. [n \in DOMAIN package.chunks |-> Tokens[package.chunks[n].text]]
          = [n \in DOMAIN w |-> Tokens[c[w[n]].chunk.text]]
    BY <2>1, PackageSums
  <2>5. /\ \A n \in 1 .. Len(w) : package.citations[n].chunk = package.chunks[n]
        /\ \A m, n \in 1 .. Len(w) : m < n =>
              /\ Content[package.chunks[m].text] # Content[package.chunks[n].text]
              /\ package.citations[m].citation < package.citations[n].citation
    BY <2>1, KeptOnce
  <2> HIDE DEF w
  <2> QED
    BY <2>2, <2>3, <2>4, <2>5
<1> QED
  BY <1>0, AlwaysEvidence, <1>1, PTL

\* The confidence is the average of the evidence, or no less where a repeated text
\* was passed over, and never the fallback for evidence that scores nothing.
THEOREM ConfidenceIsEarned == RetrievalSpec => []ConfidenceOfEvidence
<1>0. Parameters
  BY RetrievalAssumption
<1>1. EvidenceInv => ConfidenceOfEvidence
  <2> SUFFICES ASSUME EvidenceInv, package # Absent, package.chunks # <<>>
               PROVE  LET count == Len(package.citations)
                          scores == [n \in DOMAIN package.citations |->
                                       package.candidates[package.citations[n].citation].score]
                          mean == Running(scores)[count] \div count
                      IN  /\ 100 * package.confidence + 50 >= mean
                          /\ Distinct(package.candidates) = DOMAIN package.candidates =>
                                100 * package.confidence <= mean + 50
    BY DEF ConfidenceOfEvidence, Answered
  <2> DEFINE c == package.candidates
             k == Len(InOrder(c))
             mean == Running(KeptScores(c))[k] \div k
             conf == Confidence(c, k)
  <2>1. c \in Candidates /\ Gives(package, c) /\ Descending(c) /\ Scored50(c)
    BY DEF EvidenceInv, RetrievalTypeOK, PackageFits, Packages
  <2>2. k # 0
    <3>1. package.chunks \in Seq(Chunks) /\ Len(package.chunks) = k
      BY <2>1 DEF Gives
    <3> QED
      BY <3>1
  <2>3. /\ 100 * conf + 50 >= mean
        /\ Distinct(c) = DOMAIN c => 100 * conf <= mean + 50
    <3> HIDE DEF c
    <3>1. \A n \in 1 .. Len(c) : 50 <= c[n].score /\ c[n].score <= 7131
      BY <2>1 DEF Scored50
    <3> QED
      BY <1>0, <2>1, <2>2, <3>1, ConfidenceIs, SMT
  <2>4. Len(package.citations) = k /\ package.confidence = conf
    BY <2>1 DEF Gives
  <2>5. [n \in DOMAIN package.citations |->
            package.candidates[package.citations[n].citation].score] = KeptScores(c)
    BY <2>1, PackageSums
  <2> HIDE DEF k, conf
  <2> QED
    BY <2>3, <2>4, <2>5, Zenon
<1> QED
  BY <1>0, AlwaysEvidence, <1>1, PTL

\* What a request gets is in the store when the sparse search looks, but for chunks
\* replaced meanwhile by ones that search does not find.
THEOREM FindsNewest == RetrievalSpec => NewestFound
<1>0. Parameters
  BY RetrievalAssumption
<1>1. EvidenceInv /\ [RetrievalNext]_(retrievalVars) => [package' # package =>
        \A n \in DOMAIN package'.chunks : LET c == package'.chunks[n] IN
            \/ \E m \in DOMAIN chunks : chunks[m] = c
            \/ c.chunk_id \in package'.outdated \ package'.sparse]_(retrievalVars)
  <2> SUFFICES ASSUME EvidenceInv, RetrievalNext, package' # package, NEW n \in DOMAIN package'.chunks
               PROVE  \/ InStore(package'.chunks[n])
                      \/ package'.chunks[n].chunk_id \in package'.outdated \ package'.sparse
    BY DEF InStore
  <2>1. search_sparse
    BY DEF RetrievalNext, add_chunk, search_dense
  <2>2. PICK found \in Candidates, c \in Candidates :
        /\ Gives(package', c)
        /\ package'.sparse = Ids(found) /\ package'.outdated = job.outdated
        /\ \A m \in 1 .. Len(found) : InStore(found[m].chunk)
        /\ \A m \in 1 .. Len(c) : FromSparse(found, c[m].chunk) \/ FromDense(job.dense, found, c[m].chunk)
    BY <1>0, <2>1, SparseAnswers
  <2>3. /\ DOMAIN found = 1 .. Len(found) /\ DOMAIN job.dense = 1 .. Len(job.dense)
        /\ \A m \in 1 .. Len(job.dense) :
              InStore(job.dense[m].chunk) \/ job.dense[m].chunk.chunk_id \in job.outdated
    <3>1. job \in Jobs /\ \A m \in 1 .. Len(job.dense) :
              InStore(job.dense[m].chunk) \/ job.dense[m].chunk.chunk_id \in job.outdated
      BY <2>1 DEF EvidenceInv, RetrievalTypeOK, JobFits, search_sparse
    <3>2. job.dense \in Candidates
      BY <3>1 DEF Jobs
    <3> QED
      BY <3>1, <3>2, CandidatesAre
  <2>4. package'.chunks[n] = c[InOrder(c)[n]].chunk /\ InOrder(c)[n] \in 1 .. Len(c)
    BY <2>2, InOrderIs DEF Gives
  <2>5. \A x : FromSparse(found, x) \/ FromDense(job.dense, found, x) =>
           InStore(x) \/ x.chunk_id \in job.outdated \ Ids(found)
    BY <2>2, <2>3 DEF FromSparse, FromDense
  <2> QED
    BY <2>2, <2>4, <2>5
<1> QED
  BY <1>0, AlwaysEvidence, <1>1, PTL DEF RetrievalSpec, NewestFound
=============================================================================
