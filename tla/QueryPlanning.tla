---------------------------- MODULE QueryPlanning ----------------------------
(***************************************************************************)
(* The intent router: what a query asks for, the capabilities chosen for   *)
(* it and the plan made of them (router/).  A query is told by how many    *)
(* keywords of each list it matches.                                       *)
(***************************************************************************)
EXTENDS Permissions, Integers, Sequences, SequenceFilters

Strategies == {"LOW_LATENCY", "BALANCED", "MAX_ACCURACY", "COST_MINIMIZED"}

\* Signals of one query; what exceeds the bounds changes no comparison.
Signals == [blank : {FALSE}, sql : 0..2, rag : 0..2, sum : 0..1, pol : 0..1]
             \cup {[blank |-> TRUE, sql |-> 0, rag |-> 0, sum |-> 0, pol |-> 0]}

CapabilityType == {"RETRIEVAL_VECTOR", "RETRIEVAL_BM25", "TEXT_TO_SQL", "ANALYTICS_ENGINE",
                   "DOCUMENT_SUMMARIZER", "WEB_SEARCH", "HUMAN_APPROVAL"}

CONSTANTS Registries,   \* what a registry may hold when a plan is made
          Slowest       \* the largest est_latency_ms

\* Cost in 1/10000 USD, latency in ms.
CapabilityMetadata ==
    [type : CapabilityType, cost : Nat, latency : 0 .. Slowest, needs : SUBSET STRING]

\* register_capability adds one to the end, or puts it in the place of one of the
\* same id: no order and no permission is assumed of a registry.
ASSUME PlanningAssumption == Slowest \in Nat /\ Registries \subseteq Seq(CapabilityMetadata)

\* What a new registry holds, in its order.
DefaultRegistry ==
    LET Cap(type, cost, latency) ==
            [type |-> type, cost |-> cost, latency |-> latency, needs |-> {"workspace:read"}]
    IN  << Cap("RETRIEVAL_VECTOR", 5, 120), Cap("RETRIEVAL_BM25", 2, 45),
           Cap("TEXT_TO_SQL", 20, 350), Cap("ANALYTICS_ENGINE", 10, 200),
           Cap("DOCUMENT_SUMMARIZER", 15, 300), Cap("HUMAN_APPROVAL", 0, 0) >>

Capabilities == UNION {{r[i] : i \in DOMAIN r} : r \in Registries}

Classify(s) ==
    IF s.blank THEN "UNKNOWN"
    ELSE IF s.sql > 0 /\ s.rag > 0 THEN "HYBRID_ANALYTICS"
    ELSE IF s.sum > 0 THEN "SUMMARIZATION"
    ELSE IF s.pol > 0 THEN "POLICY_LOOKUP"
    ELSE IF s.sql > s.rag THEN "STRUCTURED_SQL"
    ELSE "UNSTRUCTURED_RAG"

OfType(caps, types) == Without(caps, {c \in Capabilities : c.type \notin types})

\* list_capabilities, in the order of the registry
Listed(registry, disabled) == Without(registry, disabled)

\* Mutant of Permitted: only a known caller is held to his permissions.
PermittedToKnown(listed, ctx) ==
    Without(listed, {c \in Capabilities : ctx # NoUser /\ ~(c.needs \subseteq PermissionsOf(ctx))})

\* Those the caller's permissions allow; one that needs none is for everyone.
Permitted(listed, ctx) ==
    Without(listed, {c \in Capabilities : ~(c.needs \subseteq PermissionsOf(ctx))})

FirstOf(caps) == SubSeq(caps, 1, IF caps = <<>> THEN 0 ELSE 1)

Retrievers(strategy, caps) ==
    CASE strategy = "LOW_LATENCY"  -> IF OfType(caps, {"RETRIEVAL_BM25"}) # <<>>
                                      THEN OfType(caps, {"RETRIEVAL_BM25"}) ELSE FirstOf(caps)
      [] strategy = "MAX_ACCURACY" -> OfType(caps, {"RETRIEVAL_VECTOR", "RETRIEVAL_BM25"})
      [] OTHER                     -> OfType(caps, {"RETRIEVAL_VECTOR"})

\* select_capabilities_for_intent
Selected(intent, strategy, listed, ctx) ==
    LET caps == Permitted(listed, ctx) IN
    CASE intent = "STRUCTURED_SQL"   -> OfType(caps, {"TEXT_TO_SQL", "ANALYTICS_ENGINE"})
      [] intent = "UNSTRUCTURED_RAG" -> Retrievers(strategy, caps)
      [] intent = "HYBRID_ANALYTICS" -> OfType(caps, {"TEXT_TO_SQL", "RETRIEVAL_VECTOR"})
      [] intent = "SUMMARIZATION"    -> OfType(caps, {"RETRIEVAL_VECTOR", "DOCUMENT_SUMMARIZER"})
      [] OTHER                       -> FirstOf(caps)

MaxLatency(caps) ==
    CHOOSE m \in {0} \cup {caps[i].latency : i \in DOMAIN caps} :
        \A i \in DOMAIN caps : caps[i].latency <= m
TotalLatency(caps) == Running([i \in DOMAIN caps |-> caps[i].latency])[Len(caps)]
TotalCost(caps) == Running([i \in DOMAIN caps |-> caps[i].cost])[Len(caps)]

\* A stage's number is its position.
Stages(intent, caps) ==
    IF intent = "HYBRID_ANALYTICS"
    THEN << [tasks |-> caps, parallel |-> TRUE, dependencies |-> {}] >>
    ELSE [i \in DOMAIN caps |-> [tasks |-> <<caps[i]>>, parallel |-> FALSE,
                                 dependencies |-> IF i > 1 THEN {i - 1} ELSE {}]]

\* create_execution_plan, but for the approval it asks for
PlanOf(signals, strategy, listed, ctx) ==
    LET intent == Classify(signals)
        caps == Selected(intent, strategy, listed, ctx)
    IN  [intent |-> intent, stages |-> Stages(intent, caps), cost |-> TotalCost(caps),
         latency |-> IF intent = "HYBRID_ANALYTICS" THEN MaxLatency(caps) ELSE TotalLatency(caps)]

\* The planner's rule for a human's approval.
RequiresApproval(risk, sensitive) == risk > 40 \/ sensitive
=============================================================================
