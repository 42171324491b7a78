--------------------------- MODULE MCCacheManager ---------------------------
(***************************************************************************)
(* Values for CacheManager's constants.  All three requests have the same  *)
(* words: qa and qb are of two tenants whose names build_key folds to one  *)
(* key (say " Acme" and "acme"), qc of qa's tenant and of another payload. *)
(* qb is computed from a user record, the others from a document.          *)
(***************************************************************************)
EXTENDS CacheManager, TLC

CONSTANTS qa, qb, qc, k1, k2, doc, user, tenantA, tenantB

MCKeyOf == [r \in Requests |-> IF r = qc THEN k2 ELSE k1]
MCScopeOf == [r \in Requests |-> IF r = qb THEN tenantB ELSE tenantA]
MCReads == [r \in Requests |-> IF r = qb THEN user ELSE doc]
MCSimilarity == [p \in Requests \X Requests |-> 100]

Interchangeable == Permutations(Threads) \cup Permutations(CallIds)
=============================================================================
