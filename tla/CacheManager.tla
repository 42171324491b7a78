---------------------------- MODULE CacheManager ----------------------------
(***************************************************************************)
(* IntelligentCacheManager of cache/manager.py: threads in get_or_compute  *)
(* over the L1 provider (LRUCache), the L2 semantic cache and single       *)
(* flight (SingleFlight), while system events purge both tiers by tag.     *)
(*                                                                         *)
(* A request stands for the arguments of a call: tenant and workspace (its *)
(* scope), namespace and payload.  Nothing is assumed of build_key: it     *)
(* folds case, strips blanks, fills in defaults, hashes the payload and    *)
(* joins with a colon it does not escape, so requests of two tenants may   *)
(* have one key.  L2 compares tenant and workspace as they are given.      *)
(* A source stands for the document, schema or user record a result is     *)
(* computed from; its tag is the one the caller attaches.  compute_fn      *)
(* reads the source once.                                                  *)
(***************************************************************************)
EXTENDS Integers, Sequences, FiniteSets

CONSTANTS Threads, Requests, Keys, Sources, Scopes, Updaters,
          KeyOf,       \* build_key of a request
          ScopeOf,     \* tenant and workspace of a request
          QueryTexts,  \* the requests with a query text: only these use L2
          Similarity,  \* Similarity[r, s]: cosine of the query texts, percent
          Threshold,   \* similarity_threshold
          Reads,       \* the source a request is computed from
          UserSources, \* sources purged by user:permissions_changed
          L1Capacity, L2Capacity,
          MaxVersion,  \* bound: updates end when one source has had this many
          CallIds, Errors, NoEntry, NoCall, NoKey, NoError, None

ASSUME RequestAssumption ==
    /\ KeyOf \in [Requests -> Keys]
    /\ ScopeOf \in [Requests -> Scopes]
    /\ Reads \in [Requests -> Sources]
    /\ Similarity \in [Requests \X Requests -> 0..100]
    /\ QueryTexts \subseteq Requests
    /\ UserSources \subseteq Sources
    /\ Threshold \in 1..100
    /\ L2Capacity \in Nat \ {0}

VARIABLES
    order, entry, tagIndex,            \* L1, see LRUCache
    l2,                                \* _entries of the semantic cache
    calls, heap, pc, key, ref, dead,   \* single flight, see SingleFlight
    stage,   \* where each thread is in get_or_compute
    req,     \* the request of the thread's latest call
    res,     \* the result compute_fn gave the leader
    reply,   \* what the latest call returned; None while it runs or if it raised
    version, \* the version of each source, outside the cache
    event,   \* what each updater has still to purge
    late,    \* history: computations that missed the latest purge of a source
    owed     \* history: the version a call must not fall behind

l1Vars == <<order, entry, tagIndex>>
flightVars == <<calls, heap, pc, key, ref, dead>>
threadVars == <<stage, req, res, reply, owed>>
sourceVars == <<version, event, late>>

vars == <<l1Vars, l2, flightVars, threadVars, sourceVars>>

\* A result is known by the request it was computed for and the version of the
\* source it was computed from.
Answers == [for : Requests, ver : 0..MaxVersion]

L1 == INSTANCE LRUCache WITH
    Tags <- Sources, Values <- Answers, Capacity <- L1Capacity
SF == INSTANCE SingleFlight WITH Results <- Answers

ASSUME BoundsAssumption == L1Capacity \in Nat \ {0} /\ MaxVersion \in Nat

ASSUME MarkersDistinct ==
    /\ NoEntry \notin L1!Entries
    /\ NoCall \notin CallIds
    /\ NoError \notin Errors
    /\ NoKey \notin Keys
    /\ None \notin Answers \cup Requests \cup Sources

Idle == [tier |-> "none", source |-> None]

Init ==
    /\ L1!Init
    /\ SF!Init
    /\ l2 = <<>>
    /\ stage = [t \in Threads |-> "idle"]
    /\ req = [t \in Threads |-> None]
    /\ res = [t \in Threads |-> None]
    /\ reply = [t \in Threads |-> None]
    /\ version = [s \in Sources |-> 0]
    /\ event = [u \in Updaters |-> Idle]
    /\ late = [s \in Sources |-> {}]
    /\ owed = [t \in Threads |-> 0]

-----------------------------------------------------------------------------
\* A computation holds a result of source s that is older than s.
Outdated(t, s) ==
    /\ res[t] # None
    /\ Reads[res[t].for] = s
    /\ res[t].ver < version[s]

Quiet(s) == \A u \in Updaters : event[u].source # s

\* Every event of s is handled and no older result is on its way to a tier or
\* to the callers of a registered call.
Settled(s) == Quiet(s) /\ late[s] = {} /\ \A t \in Threads : ~Outdated(t, s)

\* get_or_compute, one step per visit to a lock or per external call.

KeyFor(t) == KeyOf[req[t]]

Goto(t, next) == stage' = [stage EXCEPT ![t] = next]

\* The call ends with value v.
ReplyWith(t, v) ==
    /\ reply' = [reply EXCEPT ![t] = v]
    /\ Goto(t, "idle")

GetOrCompute(t, r) ==
    /\ stage[t] = "idle"
    /\ Goto(t, "l1")
    /\ req' = [req EXCEPT ![t] = r]
    /\ reply' = [reply EXCEPT ![t] = None]
    /\ owed' = [owed EXCEPT ![t] = IF Settled(Reads[r]) THEN version[Reads[r]] ELSE 0]
    /\ UNCHANGED <<l1Vars, l2, flightVars, res, sourceVars>>

L1Hit(t) ==
    /\ stage[t] = "l1"
    /\ L1!GetHit(KeyFor(t))
    /\ ReplyWith(t, entry[KeyFor(t)].val)
    /\ UNCHANGED <<l2, flightVars, req, res, owed, sourceVars>>

L1Miss(t) ==
    /\ stage[t] = "l1"
    /\ \/ ~L1!Cached(KeyFor(t)) /\ UNCHANGED l1Vars
       \/ L1!GetExpired(KeyFor(t))
    /\ Goto(t, IF req[t] \in QueryTexts THEN "l2" ELSE "enter")
    /\ UNCHANGED <<l2, flightVars, req, res, reply, owed, sourceVars>>

\* lookup compares only entries of the tenant and workspace; the namespace is
\* no part of an entry.
SameScope(r) == {i \in DOMAIN l2 : ScopeOf[l2[i].for] = ScopeOf[r]}
Similar(r) == {i \in SameScope(r) : Similarity[<<r, l2[i].for>>] >= Threshold}

\* The most similar entry, the oldest of them on a tie.
Best(r) ==
    CHOOSE i \in Similar(r) : \A j \in Similar(r) :
        \/ Similarity[<<r, l2[i].for>>] > Similarity[<<r, l2[j].for>>]
        \/ Similarity[<<r, l2[i].for>>] = Similarity[<<r, l2[j].for>>] /\ i <= j

\* Mutant of L2Hit: promotes the hit to L1, under the caller's key.
L2HitPromoted(t) ==
    /\ stage[t] = "l2"
    /\ Similar(req[t]) # {}
    /\ L1!Set(KeyFor(t), l2[Best(req[t])], TRUE, {})
    /\ ReplyWith(t, l2[Best(req[t])])
    /\ UNCHANGED <<l2, flightVars, req, res, owed, sourceVars>>

L2Hit(t) ==
    /\ stage[t] = "l2"
    /\ Similar(req[t]) # {}
    /\ ReplyWith(t, l2[Best(req[t])])
    /\ UNCHANGED <<l1Vars, l2, flightVars, req, res, owed, sourceVars>>

L2Miss(t) ==
    /\ stage[t] = "l2"
    /\ Similar(req[t]) = {}
    /\ Goto(t, "enter")
    /\ UNCHANGED <<l1Vars, l2, flightVars, req, res, reply, owed, sourceVars>>

\* single_flight.execute(key, _guarded_compute)
Enter(t) ==
    /\ stage[t] = "enter"
    /\ \/ SF!Lead(t, KeyFor(t)) /\ Goto(t, "compute")
       \/ SF!Join(t, KeyFor(t)) /\ Goto(t, "wait")
    /\ UNCHANGED <<l1Vars, l2, req, res, reply, owed, sourceVars>>

\* compute_fn reads the source and takes its time to answer.
Compute(t) ==
    /\ stage[t] = "compute"
    /\ res' = [res EXCEPT ![t] = [for |-> req[t], ver |-> version[Reads[req[t]]]]]
    /\ Goto(t, "writeL1")
    /\ UNCHANGED <<l1Vars, l2, flightVars, req, reply, owed, sourceVars>>

ComputeFails(t) ==
    /\ stage[t] = "compute"
    /\ \/ \E e \in Errors : SF!FnRaises(t, e)
       \/ SF!FnDies(t)
    /\ Goto(t, "leave")
    /\ UNCHANGED <<l1Vars, l2, req, res, reply, owed, sourceVars>>

\* Mutant of StoreL1: does not hand the tags on.
StoreL1Untagged(t) == L1!Set(KeyFor(t), res[t], TRUE, {})

\* Every call of set passes a positive ttl and the caller's tags.
StoreL1(t) == L1!Set(KeyFor(t), res[t], TRUE, {Reads[req[t]]})

WriteL1(t) ==
    /\ stage[t] = "writeL1"
    /\ StoreL1(t)
    /\ IF req[t] \in QueryTexts
       THEN Goto(t, "writeL2") /\ UNCHANGED flightVars
       ELSE SF!FnReturns(t, res[t]) /\ Goto(t, "leave")
    /\ UNCHANGED <<l2, req, res, reply, owed, sourceVars>>

\* store appends, after dropping the oldest entry of a full list.
Stored(a) == Append(IF Len(l2) >= L2Capacity THEN Tail(l2) ELSE l2, a)

WriteL2(t) ==
    /\ stage[t] = "writeL2"
    /\ l2' = Stored(res[t])
    /\ SF!FnReturns(t, res[t])
    /\ Goto(t, "leave")
    /\ UNCHANGED <<l1Vars, req, res, reply, owed, sourceVars>>

PopCall(t) ==
    /\ SF!Pop(t)
    /\ UNCHANGED <<l1Vars, l2, threadVars, sourceVars>>

\* Leader or contender leaves execute: the result, or the exception goes on to
\* the caller of get_or_compute.
LeaveFlight(t) ==
    /\ SF!Notify(t) \/ SF!Wake(t)
    /\ ReplyWith(t, IF SF!Outcome(ref[t]).kind = "return" /\ ~dead[t]
                    THEN heap[ref[t]].result ELSE None)
    /\ res' = [res EXCEPT ![t] = None]
    /\ UNCHANGED <<l1Vars, l2, req, owed, sourceVars>>

-----------------------------------------------------------------------------
\* The owner of a source changes it and then raises the event.
Update(u, s) ==
    /\ event[u] = Idle
    /\ \A x \in Sources : version[x] < MaxVersion
    /\ version' = [version EXCEPT ![s] = @ + 1]
    /\ event' = [event EXCEPT ![u] = [tier |-> "l1", source |-> s]]
    /\ UNCHANGED <<l1Vars, l2, flightVars, threadVars, late>>

\* delete_by_tag on L1.  A user event ends here: L2 keeps the entry.
PurgeL1(u) ==
    LET s == event[u].source IN
    /\ event[u].tier = "l1"
    /\ \/ L1!DeleteByTag(s)
       \/ tagIndex[s] = {} /\ UNCHANGED l1Vars
    /\ event' = [event EXCEPT ![u] =
           IF s \in UserSources THEN Idle ELSE [tier |-> "l2", source |-> s]]
    /\ late' = [late EXCEPT ![s] =
           {t \in Threads : stage[t] = "writeL1" /\ Outdated(t, s)}]
    /\ UNCHANGED <<l2, flightVars, threadVars, version>>

\* Mutant of Remaining: the filtered list is not assigned to _entries.
RemainingAll(s) == l2

\* What invalidate_by_tag keeps of L2.
Remaining(s) == L1!Without(l2, {e \in Answers : Reads[e.for] = s})

\* invalidate_by_tag on L2
PurgeL2(u) ==
    LET s == event[u].source IN
    /\ event[u].tier = "l2"
    /\ l2' = Remaining(s)
    /\ event' = [event EXCEPT ![u] = Idle]
    /\ late' = [late EXCEPT ![s] = @ \cup
           {t \in Threads : stage[t] \in {"writeL1", "writeL2"} /\ Outdated(t, s)}]
    /\ UNCHANGED <<l1Vars, flightVars, threadVars, version>>

\* An L1 entry outlives its ttl.  Nothing of the kind happens in L2.
Lapse(k) ==
    /\ L1!Lapse(k)
    /\ UNCHANGED <<l2, flightVars, threadVars, sourceVars>>

-----------------------------------------------------------------------------
Proceed(t) ==
    \/ L1Hit(t) \/ L1Miss(t) \/ L2Hit(t) \/ L2Miss(t) \/ Enter(t)
    \/ Compute(t) \/ ComputeFails(t) \/ WriteL1(t) \/ WriteL2(t)
    \/ PopCall(t) \/ LeaveFlight(t)

Next ==
    \/ \E t \in Threads, r \in Requests : GetOrCompute(t, r)
    \/ \E t \in Threads : Proceed(t)
    \/ \E u \in Updaters, s \in Sources : Update(u, s)
    \/ \E u \in Updaters : PurgeL1(u) \/ PurgeL2(u)
    \/ \E k \in Keys : Lapse(k)

Spec == Init /\ [][Next]_vars

-----------------------------------------------------------------------------
TypeOK ==
    /\ L1!TypeOK
    /\ SF!TypeOK
    /\ l2 \in Seq(Answers) /\ Len(l2) <= L2Capacity
    /\ stage \in [Threads -> {"idle", "l1", "l2", "enter", "compute",
                              "writeL1", "writeL2", "wait", "leave"}]
    /\ req \in [Threads -> Requests \cup {None}]
    /\ res \in [Threads -> Answers \cup {None}]
    /\ reply \in [Threads -> Answers \cup {None}]
    /\ version \in [Sources -> 0..MaxVersion]
    /\ event \in [Updaters -> [tier : {"none", "l1", "l2"}, source : Sources \cup {None}]]
    /\ late \in [Sources -> SUBSET Threads]
    /\ owed \in [Threads -> 0..MaxVersion]

\* A caller is served a result of another tenant or workspace only where
\* build_key gave both requests one key, from whatever tier or shared call the
\* result comes: a result found by its meaning stays in the scope it was
\* computed for, and in the entry it was found in.  TypeOK holds beside it: both
\* tiers keep within their capacity and the L1 order lists what is cached.
ScopeIsolation ==
    /\ TypeOK
    /\ \A t \in Threads : reply[t] # None =>
          \/ ScopeOf[reply[t].for] = ScopeOf[req[t]]
          \/ KeyOf[reply[t].for] = KeyOf[req[t]]

Current(a) == a.ver = version[Reads[a.for]]
FreshL1(s) ==
    \A k \in Keys : L1!Cached(k) /\ Reads[entry[k].val.for] = s => Current(entry[k].val)
FreshL2(s) == \A i \in DOMAIN l2 : Reads[l2[i].for] = s => Current(l2[i])

\* Once the events of a source are handled, both tiers hold only results of its
\* current version, unless a computation that had read the source before the
\* event was still to store its result: that race is the only way a document or
\* schema entry can be stale (for a user record, an L1 entry).
StaleOnlyByLateWrite ==
    \A s \in Sources : Quiet(s) /\ late[s] = {} =>
        FreshL1(s) /\ (s \in UserSources \/ FreshL2(s))

\* A call that starts when nothing older is left in the system is served nothing
\* older, whichever tier, computation or shared call answers it and whatever is
\* updated, evicted or recomputed meanwhile.
RepliesKeepUp ==
    \A t \in Threads :
        reply[t] # None /\ Reads[reply[t].for] = Reads[req[t]]
                       /\ Reads[req[t]] \notin UserSources
        => reply[t].ver >= owed[t]
=============================================================================
