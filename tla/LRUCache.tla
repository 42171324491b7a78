------------------------------ MODULE LRUCache ------------------------------
(***************************************************************************)
(* The L1 exact cache, InMemoryLRUCacheProvider of cache/core/provider.py: *)
(* an OrderedDict of entries in recency order and an index from tags to    *)
(* keys.  Every method holds the provider's lock from its first line to    *)
(* its last, so every method is one action.                                *)
(*                                                                         *)
(* The hit, miss and eviction counters only feed get_stats and are left    *)
(* out.  Wall-clock time is abstracted to Lapse: an entry with a positive  *)
(* ttl may become overdue at any moment.                                   *)
(***************************************************************************)
EXTENDS Integers, Sequences, FiniteSets, SequenceFilters

CONSTANTS Keys,     \* cache keys
          Tags,     \* invalidation tags
          Values,   \* cached results
          Capacity, \* the provider's capacity
          NoEntry   \* marks a key that is not in the OrderedDict

ASSUME CapacityAssumption == Capacity \in Nat \ {0}

Entries == [val : Values, expires : BOOLEAN, overdue : BOOLEAN, tags : SUBSET Tags]

ASSUME NoEntryAssumption == NoEntry \notin Entries

VARIABLES order,   \* the keys of the OrderedDict, least recently used first
          entry,   \* entry[k]: what the OrderedDict holds for k
          tagIndex \* _tag_to_keys; a tag with no keys is absent from the dict

lruVars == <<order, entry, tagIndex>>

Init ==
    /\ order = <<>>
    /\ entry = [k \in Keys |-> NoEntry]
    /\ tagIndex = [t \in Tags |-> {}]

-----------------------------------------------------------------------------
Cached(k) == entry[k] # NoEntry
Overdue(k) == entry[k].expires /\ entry[k].overdue
Carries(k, t) == Cached(k) /\ t \in entry[k].tags

\* _delete_key_internal, for a set of cached keys: the entry and the key's
\* place in the sets of its own tags.
EntriesWithout(S) == [k \in Keys |-> IF k \in S THEN NoEntry ELSE entry[k]]
IndexWithout(S) == [t \in Tags |-> tagIndex[t] \ {k \in S : Carries(k, t)}]

DeleteKeys(S) ==
    /\ order' = Without(order, S)
    /\ entry' = EntriesWithout(S)
    /\ tagIndex' = IndexWithout(S)

\* Mutant of GetHit: the entry keeps its place.
GetHitInPlace(k) ==
    /\ Cached(k) /\ ~Overdue(k)
    /\ UNCHANGED lruVars

\* get: a live entry moves to the most recent end, an overdue one is deleted.
GetHit(k) ==
    /\ Cached(k) /\ ~Overdue(k)
    /\ order' = Append(Without(order, {k}), k)
    /\ UNCHANGED <<entry, tagIndex>>

GetExpired(k) ==
    /\ Cached(k) /\ Overdue(k)
    /\ DeleteKeys({k})

\* The keys popitem(last=False) removes before one more key fits beside kept.
Victims(kept) == {kept[i] : i \in 1..(Len(kept) - Capacity + 1)}

\* Mutant of IndexFor: the old tag mappings go after the new ones have come.
IndexForUnindexLast(k, tags) ==
    [t \in Tags |-> (tagIndex[t] \cup (IF t \in tags THEN {k} ELSE {}))
                       \ {j \in {k} : Carries(j, t)}]

\* The index once k's old tag mappings are replaced by those of tags.
IndexFor(k, tags) ==
    [t \in Tags |-> IndexWithout({k})[t] \cup (IF t \in tags THEN {k} ELSE {})]

\* set: drop the key's old entry with its tag mappings, evict from the least
\* recent end, insert, index.  Eviction leaves the victims' tag mappings: the
\* cleanup it calls has an empty body.
Set(k, v, exp, tags) ==
    LET kept == Without(order, {k})
        out  == Victims(kept)
    IN  /\ order' = Append(Without(kept, out), k)
        /\ entry' = [EntriesWithout(out) EXCEPT ![k] =
               [val |-> v, expires |-> exp, overdue |-> FALSE, tags |-> tags]]
        /\ tagIndex' = IndexFor(k, tags)

Delete(k) == Cached(k) /\ DeleteKeys({k})

\* Mutant of Listed: overlooks entries whose ttl has passed.
ListedLive(t) == {k \in tagIndex[t] : Cached(k) /\ ~Overdue(k)}

\* delete_by_tag: every key the index lists, if still cached, then the tag.
Listed(t) == {k \in tagIndex[t] : Cached(k)}

DeleteByTag(t) ==
    /\ tagIndex[t] # {}
    /\ order' = Without(order, Listed(t))
    /\ entry' = EntriesWithout(Listed(t))
    /\ tagIndex' = [IndexWithout(Listed(t)) EXCEPT ![t] = {}]

Clear ==
    /\ order' = <<>>
    /\ entry' = [k \in Keys |-> NoEntry]
    /\ tagIndex' = [t \in Tags |-> {}]

\* The clock passes created_at + ttl of an entry that has a positive ttl.
Lapse(k) ==
    /\ Cached(k) /\ entry[k].expires /\ ~entry[k].overdue
    /\ entry' = [entry EXCEPT ![k].overdue = TRUE]
    /\ UNCHANGED <<order, tagIndex>>

Next ==
    \/ \E k \in Keys : \/ GetHit(k)
                       \/ GetExpired(k)
                       \/ Delete(k)
                       \/ Lapse(k)
    \/ \E k \in Keys, v \in Values, exp \in BOOLEAN, tags \in SUBSET Tags :
          Set(k, v, exp, tags)
    \/ \E t \in Tags : DeleteByTag(t)
    \/ Clear

Spec == Init /\ [][Next]_lruVars

-----------------------------------------------------------------------------
EntriesTyped == entry \in [Keys -> Entries \cup {NoEntry}]
IndexTyped == tagIndex \in [Tags -> SUBSET Keys]

\* The three structures have their types, and the OrderedDict lists exactly
\* the cached keys, each once, and never more than the capacity.
TypeOK ==
    /\ EntriesTyped
    /\ IndexTyped
    /\ order \in Seq(Keys)
    /\ Len(order) <= Capacity
    /\ {order[i] : i \in DOMAIN order} = {k \in Keys : Cached(k)}
    /\ \A i, j \in DOMAIN order : order[i] = order[j] => i = j

\* Whatever the history of evictions, expiries and overwrites, an entry that
\* carries a tag is listed under it: delete_by_tag cannot overlook an entry.
IndexCoversTags == \A k \in Keys, t \in Tags : Carries(k, t) => k \in tagIndex[t]

\* A purge by tag leaves no entry that carries the tag, in one step.
PurgeComplete ==
    [][\A t \in Tags : DeleteByTag(t) => \A k \in Keys : ~Carries(k, t)']_lruVars
=============================================================================
