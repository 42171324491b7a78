----------------------------- MODULE LRURecency -----------------------------
(***************************************************************************)
(* What "least recently used" means for the L1 cache, said with a history  *)
(* the cache does not keep: log lists every key ever used, last use last.  *)
(***************************************************************************)
EXTENDS LRUCache

VARIABLE log

recencyVars == <<order, entry, tagIndex, log>>

Use(k) == log' = Append(Without(log, {k}), k)

RecencyInit == Init /\ log = <<>>

\* LRUCache's operations, each with the uses it makes: a get that hits and a
\* set use their key, nothing else does.
RecencyNext ==
    \/ \E k \in Keys : GetHit(k) /\ Use(k)
    \/ \E k \in Keys, v \in Values, exp \in BOOLEAN, tags \in SUBSET Tags :
          Set(k, v, exp, tags) /\ Use(k)
    \/ /\ \/ \E k \in Keys : GetExpired(k) \/ Delete(k) \/ Lapse(k)
          \/ \E t \in Tags : DeleteByTag(t)
          \/ Clear
       /\ UNCHANGED log

RecencySpec == RecencyInit /\ [][RecencyNext]_recencyVars

-----------------------------------------------------------------------------
CachedKeys == {k \in Keys : Cached(k)}

\* A set of a new key evicts only in a full cache, only one entry, and the one
\* unused for longest, however gets, expiries and purges shuffled the order.
EvictsLeastRecent ==
    [][\A new, old \in Keys :
          /\ ~Cached(new) /\ Cached(new)'
          /\ Cached(old) /\ ~Cached(old)'
          => /\ Cardinality(CachedKeys) = Capacity
             /\ CachedKeys' = (CachedKeys \ {old}) \cup {new}
             /\ old = Without(log, {k \in Keys : ~Cached(k)})[1]]_recencyVars
=============================================================================
