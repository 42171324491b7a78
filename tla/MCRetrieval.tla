----------------------------- MODULE MCRetrieval -----------------------------
(***************************************************************************)
(* Retrieval with four texts: one that matches the query in its title, its *)
(* content again under another title, one with a content of its own, and   *)
(* one that only the dense search finds.  A chunk may be the seeded one's  *)
(* next version, a stranger's, or global.                                  *)
(***************************************************************************)
EXTENDS Retrieval

MCTexts == {"title", "body", "twin", "other"}
MCContent == [t \in MCTexts |-> IF t = "twin" THEN "title" ELSE t]
MCDense == [t \in MCTexts |-> CASE t = "other" -> 90 [] t = "body" -> 70 [] OTHER -> 50]
MCKeywords == [t \in MCTexts |-> CASE t = "title" -> 4 [] t = "other" -> 0 [] OTHER -> 1]
MCOverlap == [t \in MCTexts |-> IF t = "other" THEN 0 ELSE 50]
MCTitleHit == [t \in MCTexts |-> t = "title"]
MCTokens == [t \in MCTexts |-> CASE t = "body" -> 3 [] t = "other" -> 1 [] OTHER -> 2]

Chunk(id, text, tenant, workspace) ==
    [chunk_id |-> id, text |-> text, tenant |-> tenant, workspace |-> workspace]

MCChunks ==
    {Chunk(id, text, tenant, "ws_main") : id \in 1..4, text \in MCTexts, tenant \in {"acme"}}
        \cup {Chunk(id, "title", tenant, workspace) :
                  id \in {1, 2}, tenant \in {"rival", "global_tenant"},
                  workspace \in {"ws_main", "ws_side"}}
MCSeeded == <<Chunk(1, "other", "acme", "ws_main"), Chunk(2, "title", "acme", "ws_main")>>
MCScopes == {[tenant |-> "acme", workspace |-> "ws_main"],
             [tenant |-> "rival", workspace |-> "ws_side"]}
=============================================================================
