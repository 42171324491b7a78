--------------------------- MODULE MCQueryService ---------------------------
(***************************************************************************)
(* Values for QueryService's constants: a question on documents and tables *)
(* whose SQL the validator refuses as several statements, and whose answer *)
(* is cached, one on tables alone whose SQL it refuses for a word in it    *)
(* and that bypasses the cache, and an injection.                          *)
(***************************************************************************)
EXTENDS QueryService, TLC

Question(topic, words, statement) ==
    [injected |-> FALSE, pii |-> topic = "plain", topic |-> topic,
     words |-> words, statement |-> statement]

MCRequest(q, bypass) == [role |-> "ANALYST", query |-> q, bypass_cache |-> bypass]

MCRequests ==
    {MCRequest(Question("plain", {"sql", "rag"}, "several"), FALSE),
     MCRequest(Question("business", {"sql"}, "forbidden"), TRUE),
     MCRequest([Question("leisure", {}, "plain") EXCEPT !.injected = TRUE], FALSE)}

MCActions == {[approve |-> TRUE, modified |-> TRUE],
              [approve |-> FALSE, modified |-> FALSE]}

Interchangeable == Permutations(Threads) \cup Permutations(TicketIds)
=============================================================================
