---------------------------- MODULE WorkflowGraph ----------------------------
(***************************************************************************)
(* The LangGraph state machine of orchestration/graph.py and nodes.py: what *)
(* each node does to the OrchestrationState it is given and which node      *)
(* follows.  Node outputs (SQL rows, documents, scores, the step history)   *)
(* are data no node reads and are left out; a query is known by its intent  *)
(* and by whether its words make evaluation_node flag it.                   *)
(***************************************************************************)
EXTENDS Naturals

CONSTANTS Queries,
          IntentOf,    \* the intent router_node reads from the query
          Sensitive,   \* queries that contain "sensitive" or "override"
          TicketIds,   \* the uuids of HITL tickets
          OtherVerdict,\* a decision string that is neither of the two
          MaxRetries,  \* max_retries, 3 in the code
          None

ASSUME GraphAssumption ==
    /\ IntentOf \in [Queries -> {"STRUCTURED", "UNSTRUCTURED", "HYBRID"}]
    /\ Sensitive \subseteq Queries
    /\ MaxRetries \in Nat
    /\ None \notin TicketIds
    /\ OtherVerdict \notin {"APPROVED", "REJECTED", None}

Verdicts == {"APPROVED", "REJECTED"}

WorkflowStatusEnum ==
    {"PENDING", "INITIALIZING", "ROUTING", "EXECUTING", "EVALUATING",
     "AWAITING_APPROVAL", "RESUMING", "RETRYING", "COMPLETED", "FAILED", "REJECTED"}

\* The part of OrchestrationState that a node or the engine reads.
OrchestrationState ==
    [query : Queries,
     status : WorkflowStatusEnum,
     intent : {"STRUCTURED", "UNSTRUCTURED", "HYBRID", None},
     policy_passed : BOOLEAN,
     requires_hitl : BOOLEAN,
     hitl_ticket_id : TicketIds \cup {None},
     hitl_decision : Verdicts \cup {OtherVerdict, None},
     retry_count : 0..MaxRetries + 1,
     final_response : {"answer", "notice", None}]

ASSUME NoneAssumption ==
    None \notin OrchestrationState /\ None \notin Verdicts \cup {"answer", "notice"}

-----------------------------------------------------------------------------
init_node(s) == [s EXCEPT !.status = "INITIALIZING"]

router_node(s) == [s EXCEPT !.status = "ROUTING", !.intent = IntentOf[s.query]]

\* sql_node, rag_node and fusion_node differ only in the evidence they attach.
evidence_node(s) == [s EXCEPT !.status = "EXECUTING"]

\* A decision the operator has submitted stands; without one a sensitive query
\* is put on hold under a new ticket id.
OnHold(s) == s.hitl_decision \notin Verdicts /\ s.query \in Sensitive

evaluation_node(s, id) ==
    [s EXCEPT !.policy_passed = s.hitl_decision # "REJECTED" /\ ~OnHold(s),
              !.requires_hitl = OnHold(s),
              !.hitl_ticket_id = IF OnHold(s) THEN id ELSE @,
              !.status = IF OnHold(s) THEN "AWAITING_APPROVAL" ELSE "EVALUATING"]

hitl_gate_node(s) ==
    CASE s.hitl_decision = "APPROVED" -> [s EXCEPT !.status = "RESUMING"]
      [] s.hitl_decision = "REJECTED" ->
            [s EXCEPT !.status = "REJECTED", !.final_response = "notice"]
      [] OTHER -> [s EXCEPT !.status = "AWAITING_APPROVAL"]

retry_node(s) ==
    [s EXCEPT !.retry_count = @ + 1,
              !.status = IF s.retry_count + 1 > MaxRetries THEN "FAILED" ELSE "RETRYING"]

synthesis_node(s) == [s EXCEPT !.status = "COMPLETED", !.final_response = "answer"]

\* Mutant of fallback_node: a rejection is reported as a failure.
fallback_fails(s) == [s EXCEPT !.status = "FAILED", !.final_response = "notice"]

fallback_node(s) ==
    [s EXCEPT !.status = IF s.hitl_decision = "REJECTED" THEN "REJECTED" ELSE "FAILED",
              !.final_response = "notice"]

-----------------------------------------------------------------------------
_route_after_router(s) ==
    CASE s.intent = "STRUCTURED"   -> "sql_node"
      [] s.intent = "UNSTRUCTURED" -> "rag_node"
      [] OTHER                     -> "fusion_node"

_route_after_evaluation(s) ==
    IF s.hitl_decision = "REJECTED" \/ s.requires_hitl THEN "hitl_gate_node"
    ELSE IF s.policy_passed THEN "synthesis_node" ELSE "retry_node"

\* Mutant of _route_after_hitl: goes on unless rejected.
_route_unless_rejected(s) ==
    IF s.hitl_decision = "REJECTED" THEN "fallback_node" ELSE "synthesis_node"

_route_after_hitl(s) ==
    CASE s.hitl_decision = "APPROVED" -> "synthesis_node"
      [] s.hitl_decision = "REJECTED" -> "fallback_node"
      [] OTHER                        -> "END"

_route_after_retry(s) ==
    IF s.status = "FAILED" THEN "fallback_node" ELSE "evaluation_node"

EvidenceNodes == {"sql_node", "rag_node", "fusion_node"}

Nodes == {"init_node", "router_node", "evaluation_node", "hitl_gate_node",
          "retry_node", "synthesis_node", "fallback_node"} \cup EvidenceNodes

\* What node n makes of state s; id is the uuid drawn in evaluation_node.
Effect(n, s, id) ==
    CASE n = "init_node"       -> init_node(s)
      [] n = "router_node"     -> router_node(s)
      [] n \in EvidenceNodes   -> evidence_node(s)
      [] n = "evaluation_node" -> evaluation_node(s, id)
      [] n = "hitl_gate_node"  -> hitl_gate_node(s)
      [] n = "retry_node"      -> retry_node(s)
      [] n = "synthesis_node"  -> synthesis_node(s)
      [] n = "fallback_node"   -> fallback_node(s)

\* The edge the graph follows out of node n with the state n returned.
Edge(n, s) ==
    CASE n = "init_node"       -> "router_node"
      [] n = "router_node"     -> _route_after_router(s)
      [] n \in EvidenceNodes   -> "evaluation_node"
      [] n = "evaluation_node" -> _route_after_evaluation(s)
      [] n = "hitl_gate_node"  -> _route_after_hitl(s)
      [] n = "retry_node"      -> _route_after_retry(s)
      [] n \in {"synthesis_node", "fallback_node"} -> "END"
=============================================================================
