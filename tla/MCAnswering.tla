----------------------------- MODULE MCAnswering -----------------------------
(***************************************************************************)
(* Values for Answering's constants: the default registry; the same with a *)
(* tool like that of tests/test_intent_router_planner.py, which needs no   *)
(* permission; one whose vector retriever was replaced by another that     *)
(* needs none; and contexts like those of the tests.                       *)
(***************************************************************************)
EXTENDS Answering

Weather == [type |-> "WEB_SEARCH", cost |-> 50, latency |-> 180, needs |-> {}]
OpenRetriever == [DefaultRegistry[1] EXCEPT !.needs = {}]

MCRegistries ==
    {DefaultRegistry, Append(DefaultRegistry, Weather),
     [DefaultRegistry EXCEPT ![1] = OpenRetriever]}

MCGivenContexts ==
    {[status |-> "ACTIVE", org |-> NoRole, permissions |-> {p}] :
        p \in {"workspace:read", "security:admin", "user:suspend"}}
=============================================================================
