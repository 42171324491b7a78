------------------------- MODULE CacheManagerProofs -------------------------
(***************************************************************************)
(* The cache manager for any threads, requests, keys, sources, capacities  *)
(* and similarities: it uses both of its parts as they specify, isolates   *)
(* scopes, and serves no result older than the caller can expect.          *)
(*                                                                         *)
(* The argument has four layers, each an invariant of its own that may use *)
(* the ones below: where a thread is (Fits), what the L1 provider and      *)
(* single flight promise to whoever uses them, what the tiers and the      *)
(* calls hold (Contents), and how old that can be (Purges, Floor).         *)
(***************************************************************************)
EXTENDS CacheManager, TLAPS, SequenceTheorems, WellFoundedInduction

L1P == INSTANCE LRUCacheProofs WITH
    Tags <- Sources, Values <- Answers, Capacity <- L1Capacity, log <- <<>>
SFP == INSTANCE SingleFlightProofs WITH Results <- Answers

-----------------------------------------------------------------------------
Stages == {"idle", "l1", "l2", "enter", "compute", "writeL1", "writeL2", "wait", "leave"}
Places == {"away", "wait", "run", "pop", "notify"}

\* A thread is inside execute exactly while its call of it lasts, with the key
\* of its request, and it holds a result from Compute until it leaves.
Fits(t) ==
    /\ stage[t] \in {"idle", "l1", "l2", "enter"} <=> pc[t] = "away"
    /\ stage[t] \in {"compute", "writeL1", "writeL2"} <=> pc[t] = "run"
    /\ stage[t] = "wait" <=> pc[t] = "wait"
    /\ stage[t] # "idle" => req[t] \in Requests
    /\ pc[t] # "away" => key[t] = KeyOf[req[t]]
    /\ stage[t] \in {"writeL1", "writeL2"} => res[t] # None
    /\ stage[t] \in {"idle", "l1", "l2", "enter", "compute", "wait"} => res[t] = None
    /\ res[t] # None => res[t].for = req[t] /\ res[t].ver <= version[Reads[req[t]]]

Local ==
    /\ stage \in [Threads -> Stages]
    /\ pc \in [Threads -> Places]
    /\ key \in [Threads -> Keys \cup {NoKey}]
    /\ req \in [Threads -> Requests \cup {None}]
    /\ res \in [Threads -> Answers \cup {None}]
    /\ version \in [Sources -> 0..MaxVersion]

Placed == Local /\ \A t \in Threads : Fits(t)

\* An updater has a source in hand exactly while it has a tier to purge; only L1
\* is purged of user records.
EventFits(u) ==
    IF event[u].tier = "none" THEN event[u] = Idle
    ELSE /\ event[u].source \in Sources
         /\ event[u].tier = "l2" => event[u].source \notin UserSources

Events ==
    /\ event \in [Updaters -> [tier : {"none", "l1", "l2"}, source : Sources \cup {None}]]
    /\ \A u \in Updaters : EventFits(u)

-----------------------------------------------------------------------------
Typed ==
    /\ l2 \in Seq(Answers) /\ Len(l2) <= L2Capacity
    /\ reply \in [Threads -> Answers \cup {None}]
    /\ late \in [Sources -> SUBSET Threads]
    /\ owed \in [Threads -> 0..MaxVersion]

Known(a) == a.ver <= version[Reads[a.for]]
KnownNext(a) == a.ver <= version'[Reads[a.for]]

\* An L1 entry is what was computed for a request of its key, under its source's
\* tag.
EntriesFit ==
    \A k \in Keys : L1!Cached(k) =>
        /\ KeyOf[entry[k].val.for] = k
        /\ entry[k].tags = {Reads[entry[k].val.for]}
        /\ Known(entry[k].val)

L2Fits == \A i \in DOMAIN l2 : Known(l2[i])

\* The result of a call was computed for a request of its key, and its leader
\* holds the same one until it leaves.
ResultFits(t) ==
    LET r == heap[ref[t]].result IN
    pc[t] # "away" /\ r # None =>
        /\ KeyOf[r.for] = key[t]
        /\ pc[t] \in {"run", "pop", "notify"} => res[t] = r

ReplyFits(t) == reply[t] # None =>
    \/ ScopeOf[reply[t].for] = ScopeOf[req[t]]
    \/ KeyOf[reply[t].for] = KeyOf[req[t]]

Contents ==
    /\ Typed
    /\ EntriesFit
    /\ L2Fits
    /\ \A t \in Threads : ResultFits(t) /\ ReplyFits(t)

-----------------------------------------------------------------------------
\* Someone has still to purge L1, or any tier, of s.
DueL1(s) == \E u \in Updaters : event[u].tier = "l1" /\ event[u].source = s
Due(s) == ~Quiet(s)

\* Once s is purged, every older result on its way to a tier is known to be
\* late, and an older one in the tier has got there that way.
PurgedL1(s) ==
    DueL1(s) \/
       /\ \A t \in Threads : stage[t] = "writeL1" /\ Outdated(t, s) => t \in late[s]
       /\ late[s] # {} \/ FreshL1(s)

PurgedL2(s) ==
    Due(s) \/
       /\ \A t \in Threads :
             stage[t] \in {"writeL1", "writeL2"} /\ Outdated(t, s) => t \in late[s]
       /\ late[s] # {} \/ FreshL2(s)

Purges == \A s \in Sources : PurgedL1(s) /\ (s \in UserSources \/ PurgedL2(s))

-----------------------------------------------------------------------------
\* Answer a is no older than call t expects of the source it reads.
Serves(t, a) == Reads[a.for] = Reads[req[t]] => a.ver >= owed[t]

\* Nothing that can still answer the call is older than what it is owed: no
\* entry, no result on its way to a tier, no result of a registered call or of
\* the call it has joined.
Floor(t) ==
    /\ owed[t] <= version[Reads[req[t]]]
    /\ \A k \in Keys : L1!Cached(k) => Serves(t, entry[k].val)
    /\ \A i \in DOMAIN l2 : Serves(t, l2[i])
    /\ \A u \in Threads : res[u] # None => Serves(t, res[u])
    /\ \A k \in Keys :
          calls[k] # NoCall /\ heap[calls[k]].result # None
             => Serves(t, heap[calls[k]].result)
    /\ pc[t] # "away" /\ heap[ref[t]].result # None => Serves(t, heap[ref[t]].result)

Floors == \A t \in Threads :
    stage[t] # "idle" /\ Reads[req[t]] \notin UserSources => Floor(t)

-----------------------------------------------------------------------------
(* First layer: where a thread is.                                          *)

LEMMA GetOrComputePlaced ==
  ASSUME Placed, NEW t \in Threads, NEW r \in Requests, GetOrCompute(t, r)
  PROVE  Placed'
  BY MarkersDistinct DEF Placed, Local, Fits, GetOrCompute, Goto, Stages, Places, flightVars, sourceVars

LEMMA L1Placed ==
  ASSUME Placed, NEW t \in Threads, L1Hit(t) \/ L1Miss(t)
  PROVE  Placed'
  BY DEF Placed, Local, Fits, L1Hit, L1Miss, ReplyWith, Goto, Stages, Places, flightVars, sourceVars

LEMMA L2Placed ==
  ASSUME Placed, NEW t \in Threads, L2Hit(t) \/ L2Miss(t)
  PROVE  Placed'
  BY DEF Placed, Local, Fits, L2Hit, L2Miss, ReplyWith, Goto, Stages, Places, flightVars, sourceVars

LEMMA EnterPlaced ==
  ASSUME Placed, NEW t \in Threads, Enter(t)
  PROVE  Placed'
<1>1. KeyFor(t) \in Keys
  BY RequestAssumption DEF Placed, Fits, Enter, KeyFor
<1> QED
  BY <1>1 DEF Placed, Local, Fits, Enter, KeyFor, Goto, Stages, Places, sourceVars,
     SF!Lead, SF!Register, SF!Join

LEMMA ComputePlaced ==
  ASSUME Placed, NEW t \in Threads, Compute(t)
  PROVE  Placed'
<1>1. req[t] \in Requests /\ Reads[req[t]] \in Sources
  BY RequestAssumption DEF Placed, Fits, Compute
<1> DEFINE a == [for |-> req[t], ver |-> version[Reads[req[t]]]]
<1>2. a \in Answers /\ a.for = req[t] /\ a.ver = version[Reads[req[t]]]
  BY <1>1 DEF Answers, Placed, Local
<1>3. a # None
  BY <1>2, MarkersDistinct
<1>4. res' = [res EXCEPT ![t] = a] /\ a.ver <= version[Reads[req[t]]]
  BY <1>1, <1>2 DEF Compute, Placed, Local
<1> HIDE DEF a
<1> QED
  BY <1>2, <1>3, <1>4 DEF Placed, Local, Fits, Compute, Goto, Stages, Places, flightVars, sourceVars

LEMMA ComputeFailsPlaced ==
  ASSUME Placed, NEW t \in Threads, ComputeFails(t)
  PROVE  Placed'
<1>1. /\ pc' = [pc EXCEPT ![t] = "pop"] /\ pc[t] = "run"
      /\ key' = key
  BY DEF ComputeFails, SF!FnRaises, SF!FnDies
<1> QED
  BY <1>1 DEF Placed, Local, Fits, ComputeFails, Goto, Stages, Places, sourceVars

LEMMA WritePlaced ==
  ASSUME Placed, NEW t \in Threads, WriteL1(t) \/ WriteL2(t)
  PROVE  Placed'
  BY DEF Placed, Local, Fits, WriteL1, WriteL2, Goto, Stages, Places, flightVars, sourceVars, SF!FnReturns

LEMMA PopPlaced ==
  ASSUME Placed, NEW t \in Threads, PopCall(t)
  PROVE  Placed'
  BY DEF Placed, Local, Fits, PopCall, Stages, Places, threadVars, sourceVars, SF!Pop

LEMMA LeavePlaced ==
  ASSUME Placed, NEW t \in Threads, LeaveFlight(t)
  PROVE  Placed'
  BY DEF Placed, Local, Fits, LeaveFlight, ReplyWith, Goto, Stages, Places, sourceVars,
     SF!Notify, SF!Wake, SF!Leave

LEMMA UpdatePlaced ==
  ASSUME Placed, NEW u \in Updaters, NEW s \in Sources, Update(u, s)
  PROVE  Placed'
<1>1. /\ version' \in [Sources -> 0..MaxVersion]
      /\ \A x \in Sources : version[x] <= version'[x]
      /\ version \in [Sources -> 0..MaxVersion]
  BY BoundsAssumption DEF Placed, Local, Update
<1>2. UNCHANGED <<stage, pc, key, req, res>>
  BY DEF Update, flightVars, threadVars
<1>3. ASSUME NEW t \in Threads
      PROVE  Fits(t)'
  <2>1. Fits(t) /\ res[t] \in Answers \cup {None} /\ req[t] \in Requests \cup {None}
    BY DEF Placed, Local
  <2>2. res[t] # None => stage[t] # "idle"
    BY <2>1 DEF Fits
  <2>3. res[t] # None => Reads[req[t]] \in Sources /\ res[t].ver \in Int
    BY <2>1, <2>2, RequestAssumption DEF Fits, Answers
  <2>4. res[t] # None => res[t].ver <= version'[Reads[req[t]]]
    BY <1>1, <2>1, <2>3, BoundsAssumption DEF Fits
  <2> QED
    BY <1>2, <2>1, <2>4 DEF Fits
<1> QED
  BY <1>1, <1>2, <1>3 DEF Placed, Local

LEMMA PlacedKept == Placed /\ [Next]_vars => Placed'
<1> SUFFICES ASSUME Placed, [Next]_vars
             PROVE  Placed'
  OBVIOUS
<1>1. ASSUME NEW t \in Threads, Proceed(t)
      PROVE  Placed'
  BY <1>1, L1Placed, L2Placed, EnterPlaced, ComputePlaced, ComputeFailsPlaced,
     WritePlaced, PopPlaced, LeavePlaced DEF Proceed
<1>2. CASE \/ \E u \in Updaters : PurgeL1(u) \/ PurgeL2(u)
           \/ \E k \in Keys : Lapse(k)
           \/ UNCHANGED vars
  <2>1. UNCHANGED <<stage, pc, key, req, res, version>>
    BY <1>2 DEF PurgeL1, PurgeL2, Lapse, vars, flightVars, threadVars, sourceVars
  <2> QED
    BY <2>1 DEF Placed, Local, Fits
<1> QED
  BY <1>1, <1>2, GetOrComputePlaced, UpdatePlaced DEF Next

LEMMA InitPlaced == Init => Placed
  BY BoundsAssumption DEF Init, SF!Init, Placed, Local, Fits, Stages, Places

LEMMA AlwaysPlaced == Spec => []Placed
  BY InitPlaced, PlacedKept, PTL DEF Spec

LEMMA EventsKept == Events /\ [Next]_vars => Events'
<1> SUFFICES ASSUME Events, [Next]_vars
             PROVE  Events'
  OBVIOUS
<1> USE MarkersDistinct DEF Events, EventFits, Idle
<1>1. ASSUME NEW u \in Updaters, NEW s \in Sources, Update(u, s)
      PROVE  Events'
  BY <1>1 DEF Update
<1>2. ASSUME NEW u \in Updaters, PurgeL1(u) \/ PurgeL2(u)
      PROVE  Events'
  BY <1>2 DEF PurgeL1, PurgeL2
<1>3. CASE UNCHANGED event
  BY <1>3
<1>4. CASE ~ \E u \in Updaters : (\E s \in Sources : Update(u, s)) \/ PurgeL1(u) \/ PurgeL2(u)
  BY <1>3, <1>4 DEF Next, Proceed, GetOrCompute, L1Hit, L1Miss, L2Hit, L2Miss, Enter, Compute,
     ComputeFails, WriteL1, WriteL2, PopCall, LeaveFlight, Lapse, vars, sourceVars
<1> QED
  BY <1>1, <1>2, <1>4

LEMMA AlwaysEvents == Spec => []Events
<1>1. Init => Events
  BY DEF Init, Events, EventFits, Idle
<1> QED
  BY <1>1, EventsKept, PTL DEF Spec
-----------------------------------------------------------------------------
(* Second layer: the two parts are used as they are specified, so whatever  *)
(* holds of them holds here.                                                *)

LEMMA FlightSteps == Placed /\ [Next]_vars => [SF!Next]_(SF!flightVars)
<1> SUFFICES ASSUME Placed, Next
             PROVE  SF!Next \/ UNCHANGED flightVars
  BY DEF vars, flightVars, SF!flightVars
<1>1. ASSUME NEW t \in Threads, Enter(t)
      PROVE  SF!Next
  <2>1. KeyFor(t) \in Keys
    BY <1>1, RequestAssumption DEF Placed, Fits, Enter, KeyFor
  <2> QED
    BY <1>1, <2>1 DEF Enter, SF!Next, SF!Execute
<1>2. ASSUME NEW t \in Threads, WriteL1(t) \/ WriteL2(t)
      PROVE  SF!Next \/ UNCHANGED flightVars
  <2>1. res[t] \in Answers
    BY <1>2 DEF Placed, Local, Fits, WriteL1, WriteL2
  <2>2. SF!FnReturns(t, res[t]) \/ UNCHANGED flightVars
    BY <1>2 DEF WriteL1, WriteL2
  <2> QED
    BY <2>1, <2>2 DEF SF!Next, SF!Execute
<1>3. ASSUME NEW t \in Threads, ComputeFails(t) \/ PopCall(t) \/ LeaveFlight(t)
      PROVE  SF!Next
  BY <1>3 DEF ComputeFails, PopCall, LeaveFlight, SF!Next, SF!Execute
<1>4. ASSUME NEW t \in Threads,
             L1Hit(t) \/ L1Miss(t) \/ L2Hit(t) \/ L2Miss(t) \/ Compute(t)
      PROVE  UNCHANGED flightVars
  BY <1>4 DEF L1Hit, L1Miss, L2Hit, L2Miss, Compute
<1>5. ASSUME NEW t \in Threads, Proceed(t)
      PROVE  SF!Next \/ UNCHANGED flightVars
  BY <1>1, <1>2, <1>3, <1>4, <1>5 DEF Proceed
<1>6. CASE ~ \E t \in Threads : Proceed(t)
  BY <1>6 DEF Next, GetOrCompute, Update, PurgeL1, PurgeL2, Lapse
<1> QED
  BY <1>5, <1>6

LEMMA L1Steps == Placed /\ Events /\ [Next]_vars => [L1!Next]_(L1!lruVars)
<1> SUFFICES ASSUME Placed, Events, Next
             PROVE  L1!Next \/ UNCHANGED l1Vars
  BY DEF vars, l1Vars, L1!lruVars
<1>1. ASSUME NEW t \in Threads, L1Hit(t) \/ L1Miss(t)
      PROVE  L1!Next \/ UNCHANGED l1Vars
  <2>1. KeyFor(t) \in Keys
    BY <1>1, RequestAssumption DEF Placed, Fits, L1Hit, L1Miss, KeyFor
  <2> QED
    BY <1>1, <2>1 DEF L1Hit, L1Miss, L1!Next
<1>2. ASSUME NEW t \in Threads, WriteL1(t)
      PROVE  L1!Next
  <2>1. res[t] \in Answers /\ KeyFor(t) \in Keys /\ {Reads[req[t]]} \in SUBSET Sources
    BY <1>2, RequestAssumption DEF Placed, Local, Fits, WriteL1, KeyFor
  <2>2. L1!Set(KeyFor(t), res[t], TRUE, {Reads[req[t]]})
    BY <1>2 DEF WriteL1, StoreL1
  <2> QED
    BY <2>1, <2>2 DEF L1!Next
<1>3. ASSUME NEW t \in Threads,
             \/ L2Hit(t) \/ L2Miss(t) \/ Enter(t) \/ Compute(t) \/ ComputeFails(t)
             \/ WriteL2(t) \/ PopCall(t) \/ LeaveFlight(t)
      PROVE  UNCHANGED l1Vars
  BY <1>3 DEF L2Hit, L2Miss, Enter, Compute, ComputeFails, WriteL2, PopCall, LeaveFlight
<1>4. ASSUME NEW t \in Threads, Proceed(t)
      PROVE  L1!Next \/ UNCHANGED l1Vars
  BY <1>1, <1>2, <1>3, <1>4 DEF Proceed
<1>5. ASSUME NEW u \in Updaters, PurgeL1(u)
      PROVE  L1!Next \/ UNCHANGED l1Vars
  BY <1>5 DEF PurgeL1, L1!Next, Events, EventFits
<1>6. CASE \E k \in Keys : Lapse(k)
  BY <1>6 DEF Lapse, L1!Next
<1> QED
  BY <1>4, <1>5, <1>6 DEF Next, GetOrCompute, Update, PurgeL2

\* Whatever callers, tiers and system events do, single flight is used as
\* SingleFlight specifies, so what is proved of it holds inside the manager.
THEOREM FlightRefined == Spec => SF!Spec
<1>1. Init => SF!Init
  BY DEF Init
<1> QED
  BY <1>1, FlightSteps, AlwaysPlaced, PTL DEF Spec, SF!Spec

\* The same of the L1 provider.
THEOREM ProviderRefined == Spec => L1!Spec
<1>1. Init => L1!Init
  BY DEF Init
<1> QED
  BY <1>1, L1Steps, AlwaysPlaced, AlwaysEvents, PTL DEF Spec, L1!Spec

\* What is known of every reachable state from the first two layers.
Base ==
    /\ Placed
    /\ Events
    /\ SFP!IInv
    /\ L1!TypeOK
    /\ L1!IndexCoversTags

\* The specifications and their copies among the proofs are the same.
LEMMA FlightCopies ==
  /\ SF!Init => SFP!Init
  /\ [SF!Next]_(SF!flightVars) => [SFP!Next]_(SFP!flightVars)
<1>1. SF!Init => SFP!Init
  BY DEF SF!Init, SFP!Init, SF!NewCall, SFP!NewCall
<1>2. ASSUME NEW t \in Threads, SF!Execute(t)
      PROVE  SFP!Execute(t)
  <2>1. ASSUME NEW k \in Keys, SF!Lead(t, k)
        PROVE  SFP!Lead(t, k)
    BY <2>1 DEF SF!Lead, SF!Register, SF!Free, SF!NewCall, SFP!Lead, SFP!Register, SFP!Free, SFP!NewCall
  <2>2. ASSUME NEW k \in Keys, SF!Join(t, k)
        PROVE  SFP!Join(t, k)
    BY <2>2 DEF SF!Join, SFP!Join
  <2>3. ASSUME NEW r \in Answers, SF!FnReturns(t, r)
        PROVE  SFP!FnReturns(t, r)
    BY <2>3 DEF SF!FnReturns, SFP!FnReturns
  <2>4. ASSUME NEW e \in Errors, SF!FnRaises(t, e)
        PROVE  SFP!FnRaises(t, e)
    BY <2>4 DEF SF!FnRaises, SFP!FnRaises
  <2>5. SF!FnDies(t) => SFP!FnDies(t)
    BY DEF SF!FnDies, SFP!FnDies
  <2>6. SF!Pop(t) => SFP!Pop(t)
    BY DEF SF!Pop, SFP!Pop
  <2>7. SF!Notify(t) => SFP!Notify(t)
    BY DEF SF!Notify, SFP!Notify, SF!Leave, SFP!Leave
  <2>8. SF!Wake(t) => SFP!Wake(t)
    BY DEF SF!Wake, SFP!Wake, SF!Leave, SFP!Leave
  <2> QED
    BY <1>2, <2>1, <2>2, <2>3, <2>4, <2>5, <2>6, <2>7, <2>8 DEF SF!Execute, SFP!Execute
<1> QED
  BY <1>1, <1>2 DEF SF!Next, SFP!Next, SF!flightVars, SFP!flightVars

LEMMA L1Copies ==
  /\ L1!Init => L1P!Init
  /\ [L1!Next]_(L1!lruVars) => [L1P!Next]_(L1P!lruVars)
  /\ L1P!TypeOK => L1!TypeOK
  /\ L1P!IndexCoversTags => L1!IndexCoversTags
<1>1. L1!Init => L1P!Init
  BY DEF L1!Init, L1P!Init
<1>2. ASSUME NEW k \in Keys
      PROVE  /\ L1!GetHit(k) => L1P!GetHit(k)
             /\ L1!GetExpired(k) => L1P!GetExpired(k)
             /\ L1!Delete(k) => L1P!Delete(k)
             /\ L1!Lapse(k) => L1P!Lapse(k)
  BY DEF L1!GetHit, L1P!GetHit, L1!GetExpired, L1P!GetExpired, L1!Delete, L1P!Delete,
         L1!Lapse, L1P!Lapse, L1!Cached, L1P!Cached, L1!Overdue, L1P!Overdue,
         L1!DeleteKeys, L1P!DeleteKeys, L1!EntriesWithout, L1P!EntriesWithout,
         L1!IndexWithout, L1P!IndexWithout, L1!Carries, L1P!Carries, L1!Without, L1P!Without
<1>3. ASSUME NEW k \in Keys, NEW v \in Answers, NEW exp \in BOOLEAN, NEW tags \in SUBSET Sources,
             L1!Set(k, v, exp, tags)
      PROVE  L1P!Set(k, v, exp, tags)
  BY <1>3 DEF L1!Set, L1P!Set, L1!Victims, L1P!Victims, L1!IndexFor, L1P!IndexFor,
         L1!EntriesWithout, L1P!EntriesWithout, L1!Without, L1P!Without,
         L1!IndexWithout, L1P!IndexWithout, L1!Carries, L1P!Carries, L1!Cached, L1P!Cached
<1>4. ASSUME NEW s \in Sources, L1!DeleteByTag(s)
      PROVE  L1P!DeleteByTag(s)
  BY <1>4 DEF L1!DeleteByTag, L1P!DeleteByTag, L1!Listed, L1P!Listed, L1!Cached, L1P!Cached,
         L1!EntriesWithout, L1P!EntriesWithout, L1!Without, L1P!Without,
         L1!IndexWithout, L1P!IndexWithout, L1!Carries, L1P!Carries
<1>5. L1!Clear => L1P!Clear
  BY DEF L1!Clear, L1P!Clear
<1>6. [L1!Next]_(L1!lruVars) => [L1P!Next]_(L1P!lruVars)
  BY <1>2, <1>3, <1>4, <1>5 DEF L1!Next, L1P!Next, L1!lruVars, L1P!lruVars
<1>7. /\ L1P!TypeOK => L1!TypeOK
      /\ L1P!IndexCoversTags => L1!IndexCoversTags
  BY DEF L1P!TypeOK, L1!TypeOK, L1!EntriesTyped, L1P!EntriesTyped, L1!IndexTyped, L1P!IndexTyped,
         L1P!IndexCoversTags, L1!IndexCoversTags, L1!Carries, L1P!Carries, L1!Cached, L1P!Cached,
         L1!Entries, L1P!Entries
<1> QED
  BY <1>1, <1>6, <1>7

LEMMA AlwaysBase == Spec => []Base
<1>1. Spec => []SFP!IInv
  BY FlightRefined, FlightCopies, SFP!Invariance, MarkersDistinct, PTL DEF SF!Spec, SFP!Spec
<1>2. Spec => [](L1!TypeOK /\ L1!IndexCoversTags)
  <2>1. NoEntry \notin L1P!Entries
    BY MarkersDistinct DEF L1!Entries, L1P!Entries
  <2> QED
    BY <2>1, ProviderRefined, L1Copies, L1P!TypeCorrect, L1P!IndexCoverage, BoundsAssumption, PTL
       DEF L1!Spec, L1P!Spec
<1> QED
  BY <1>1, <1>2, AlwaysPlaced, AlwaysEvents, PTL DEF Base

-----------------------------------------------------------------------------
(* What a step can put into a tier or into a call.                          *)

\* An L1 entry was there before, or a computation has just stored it.
LEMMA L1Effect ==
  ASSUME Base, [Next]_vars, NEW k \in Keys, L1!Cached(k)'
  PROVE  \/ /\ L1!Cached(k)
            /\ entry'[k].val = entry[k].val /\ entry'[k].tags = entry[k].tags
         \/ \E t \in Threads :
              /\ WriteL1(t) /\ k = KeyFor(t)
              /\ entry'[k].val = res[t] /\ entry'[k].tags = {Reads[req[t]]}
<1> DEFINE Old == /\ L1!Cached(k)
                  /\ entry'[k].val = entry[k].val /\ entry'[k].tags = entry[k].tags
<1>0. entry \in [Keys -> L1!Entries \cup {NoEntry}]
  BY DEF Base, L1!TypeOK, L1!EntriesTyped
<1>1. UNCHANGED entry => Old
  BY DEF L1!Cached
<1>2. ASSUME NEW S, entry' = L1!EntriesWithout(S)
      PROVE  Old
  BY <1>2 DEF L1!EntriesWithout, L1!Cached
<1>3. ASSUME NEW t \in Threads, L1Hit(t) \/ L1Miss(t)
      PROVE  Old
  BY <1>1, <1>2, <1>3 DEF L1Hit, L1Miss, L1!GetHit, L1!GetExpired, L1!DeleteKeys, l1Vars
<1>4. ASSUME NEW u \in Updaters, PurgeL1(u)
      PROVE  Old
  BY <1>1, <1>2, <1>4 DEF PurgeL1, L1!DeleteByTag, l1Vars
<1>5. ASSUME NEW j \in Keys, Lapse(j)
      PROVE  Old
  BY <1>0, <1>5 DEF Lapse, L1!Lapse, L1!Cached, L1!Entries
<1>6. ASSUME NEW t \in Threads, WriteL1(t)
      PROVE  \/ Old
             \/ /\ k = KeyFor(t)
                /\ entry'[k].val = res[t] /\ entry'[k].tags = {Reads[req[t]]}
  <2> DEFINE out == L1!Victims(L1!Without(order, {KeyFor(t)}))
             new == [val |-> res[t], expires |-> TRUE, overdue |-> FALSE, tags |-> {Reads[req[t]]}]
  <2>1. entry' = [L1!EntriesWithout(out) EXCEPT ![KeyFor(t)] = new]
    BY <1>6 DEF WriteL1, StoreL1, L1!Set
  <2> HIDE DEF out
  <2> QED
    BY <2>1 DEF L1!EntriesWithout, L1!Cached
<1>7. ASSUME NEW t \in Threads, Proceed(t), ~WriteL1(t)
      PROVE  Old
  BY <1>1, <1>3, <1>7 DEF Proceed, L2Hit, L2Miss, Enter, Compute, ComputeFails, WriteL2,
     PopCall, LeaveFlight, l1Vars
<1>8. CASE ~ \E t \in Threads : Proceed(t)
  BY <1>1, <1>4, <1>5, <1>8 DEF Next, GetOrCompute, Update, PurgeL2, vars, l1Vars
<1> QED
  BY <1>6, <1>7, <1>8

\* What L1!Without returns, as proved of the L1 provider.
LEMMA RemainingIs ==
  ASSUME l2 \in Seq(Answers), NEW s
  PROVE  /\ Remaining(s) \in Seq(Answers)
         /\ Len(Remaining(s)) <= Len(l2)
         /\ \A i \in DOMAIN Remaining(s) :
               /\ \E j \in DOMAIN l2 : Remaining(s)[i] = l2[j]
               /\ Reads[Remaining(s)[i].for] # s
<1> DEFINE S == {e \in Answers : Reads[e.for] = s}
<1>1. Remaining(s) = L1P!Without(l2, S)
  BY DEF Remaining, L1!Without, L1P!Without
<1> HIDE DEF S
<1>2. /\ Remaining(s) \in Seq(Answers)
      /\ Len(Remaining(s)) <= Len(l2)
      /\ L1P!Elements(Remaining(s)) = L1P!Elements(l2) \ S
  <2>1. /\ L1P!Without(l2, S) \in Seq(Answers)
        /\ L1P!Elements(L1P!Without(l2, S)) = L1P!Elements(l2) \ S
        /\ Len(L1P!Without(l2, S)) <= Len(l2)
    BY L1P!WithoutIs, BoundsAssumption, MarkersDistinct DEF L1!Entries, L1P!Entries
  <2> QED
    BY <1>1, <2>1
<1>3. ASSUME NEW i \in DOMAIN Remaining(s)
      PROVE  /\ \E j \in DOMAIN l2 : Remaining(s)[i] = l2[j]
             /\ Reads[Remaining(s)[i].for] # s
  <2>1. Remaining(s)[i] \in L1P!Elements(l2) \ S
    BY <1>2 DEF L1P!Elements
  <2>2. Remaining(s)[i] \in Answers
    BY <1>2
  <2> QED
    BY <2>1, <2>2 DEF L1P!Elements, S
<1> QED
  BY <1>2, <1>3

\* An L2 entry was there before, or a computation has just stored it.
LEMMA L2Effect ==
  ASSUME Base, l2 \in Seq(Answers), Len(l2) <= L2Capacity, [Next]_vars
  PROVE  /\ l2' \in Seq(Answers) /\ Len(l2') <= L2Capacity
         /\ \A i \in DOMAIN l2' :
               \/ \E j \in DOMAIN l2 : l2'[i] = l2[j]
               \/ \E t \in Threads : WriteL2(t) /\ l2'[i] = res[t]
<1>1. CASE UNCHANGED l2
  BY <1>1
<1>2. ASSUME NEW t \in Threads, WriteL2(t)
      PROVE  /\ l2' \in Seq(Answers) /\ Len(l2') <= L2Capacity
             /\ \A i \in DOMAIN l2' : l2'[i] = res[t] \/ \E j \in DOMAIN l2 : l2'[i] = l2[j]
  <2> DEFINE kept == IF Len(l2) >= L2Capacity THEN Tail(l2) ELSE l2
  <2>1. res[t] \in Answers
    BY <1>2 DEF Base, Placed, Local, Fits, WriteL2
  <2>2. /\ L2Capacity \in Nat /\ L2Capacity > 0 /\ Len(l2) \in Nat
        /\ DOMAIN l2 = 1 .. Len(l2)
    BY RequestAssumption
  <2>3. /\ kept \in Seq(Answers) /\ Len(kept) < L2Capacity
        /\ \A i \in 1 .. Len(kept) : \E j \in DOMAIN l2 : kept[i] = l2[j]
    <3>1. CASE Len(l2) >= L2Capacity
      <4>1. l2 # <<>> /\ kept = Tail(l2)
        BY <2>2, <3>1
      <4>2. /\ Tail(l2) \in Seq(Answers) /\ Len(Tail(l2)) = Len(l2) - 1
            /\ \A i \in 1 .. Len(Tail(l2)) : Tail(l2)[i] = l2[i + 1]
        BY <4>1, HeadTailProperties
      <4>3. \A i \in 1 .. Len(Tail(l2)) : i + 1 \in DOMAIN l2
        BY <2>2, <4>2
      <4>4. Len(l2) - 1 < L2Capacity
        BY <2>2
      <4> HIDE DEF kept
      <4> QED
        BY <4>1, <4>2, <4>3, <4>4
    <3>2. CASE ~ (Len(l2) >= L2Capacity)
      BY <2>2, <3>2
    <3> QED
      BY <3>1, <3>2
  <2>4. l2' = Append(kept, res[t])
    BY <1>2 DEF WriteL2, Stored
  <2> HIDE DEF kept
  <2>5. /\ l2' \in Seq(Answers) /\ Len(l2') = Len(kept) + 1
        /\ \A i \in 1 .. Len(kept) : l2'[i] = kept[i]
        /\ l2'[Len(kept) + 1] = res[t]
    BY <2>1, <2>3, <2>4
  <2>6. DOMAIN l2' = 1 .. Len(kept) + 1 /\ Len(kept) \in Nat
    BY <2>3, <2>5
  <2>7. \A i \in DOMAIN l2' : i \in 1 .. Len(kept) \/ i = Len(kept) + 1
    BY <2>6
  <2> QED
    BY <2>2, <2>3, <2>5, <2>6, <2>7
<1>3. ASSUME NEW u \in Updaters, PurgeL2(u)
      PROVE  /\ l2' \in Seq(Answers) /\ Len(l2') <= L2Capacity
             /\ \A i \in DOMAIN l2' : \E j \in DOMAIN l2 : l2'[i] = l2[j]
  <2>1. l2' = Remaining(event[u].source)
    BY <1>3 DEF PurgeL2
  <2>2. /\ l2' \in Seq(Answers) /\ Len(l2') <= Len(l2)
        /\ \A i \in DOMAIN l2' : \E j \in DOMAIN l2 : l2'[i] = l2[j]
    BY <2>1, RemainingIs
  <2>3. Len(l2) \in Nat /\ Len(l2') \in Nat /\ L2Capacity \in Nat
    BY <2>2, RequestAssumption
  <2> QED
    BY <2>2, <2>3
<1>4. ASSUME NEW t \in Threads, Proceed(t), ~WriteL2(t)
      PROVE  UNCHANGED l2
  BY <1>4 DEF Proceed, L1Hit, L1Miss, L2Hit, L2Miss, Enter, Compute, ComputeFails, WriteL1,
     PopCall, LeaveFlight
<1>5. CASE ~ \E t \in Threads : Proceed(t)
  BY <1>1, <1>3, <1>5 DEF Next, GetOrCompute, Update, PurgeL1, Lapse, vars
<1> QED
  BY <1>1, <1>2, <1>4, <1>3, <1>5

\* A call's result stays, is cleared for a new call, or is what its leader has
\* just returned.
LEMMA ResultEffect ==
  ASSUME Base, [Next]_vars, NEW c \in CallIds
  PROVE  \/ heap'[c].result = heap[c].result
         \/ heap'[c].result = None
         \/ \E u \in Threads :
              /\ WriteL1(u) \/ WriteL2(u)
              /\ SF!FnReturns(u, res[u])
              /\ ref[u] = c /\ heap'[c].result = res[u]
<1> USE DEF Base, SFP!IInv, SFP!TypeOK, SFP!CallObjects, SFP!LocalsInv
<1>1. ASSUME NEW t \in Threads, Enter(t)
      PROVE  heap'[c].result = heap[c].result \/ heap'[c].result = None
  BY <1>1 DEF Enter, SF!Lead, SF!Register, SF!Join, SF!NewCall
<1>2. ASSUME NEW t \in Threads, SF!FnReturns(t, res[t])
      PROVE  \/ heap'[c].result = heap[c].result
             \/ ref[t] = c /\ heap'[c].result = res[t]
  BY <1>2 DEF SF!FnReturns
<1>3. ASSUME NEW t \in Threads, ComputeFails(t) \/ PopCall(t) \/ LeaveFlight(t)
      PROVE  heap'[c].result = heap[c].result
  BY <1>3 DEF ComputeFails, PopCall, LeaveFlight, SF!FnRaises, SF!FnDies, SF!Pop, SF!Notify, SF!Wake
<1>4. ASSUME NEW t \in Threads, WriteL1(t) \/ WriteL2(t)
      PROVE  UNCHANGED heap \/ SF!FnReturns(t, res[t])
  BY <1>4 DEF WriteL1, WriteL2, flightVars
<1>5. ASSUME NEW t \in Threads,
             L1Hit(t) \/ L1Miss(t) \/ L2Hit(t) \/ L2Miss(t) \/ Compute(t)
      PROVE  UNCHANGED heap
  BY <1>5 DEF L1Hit, L1Miss, L2Hit, L2Miss, Compute, flightVars
<1>6. CASE ~ \E t \in Threads : Proceed(t)
  BY <1>6 DEF Next, GetOrCompute, Update, PurgeL1, PurgeL2, Lapse, vars, flightVars
<1> QED
  BY <1>1, <1>2, <1>3, <1>4, <1>5, <1>6 DEF Proceed

\* A thread keeps its call and its key until it leaves, or it has just taken the
\* lead of a new call or joined the registered one.
LEMMA CallEffect ==
  ASSUME Base, [Next]_vars, NEW t \in Threads, pc'[t] # "away"
  PROVE  \/ /\ pc[t] # "away" /\ ref'[t] = ref[t] /\ key'[t] = key[t]
            /\ pc'[t] = "wait" <=> pc[t] = "wait"
         \/ heap'[ref'[t]].result = None
         \/ LET c == calls[KeyFor(t)] IN
               /\ c # NoCall /\ KeyFor(t) \in Keys
               /\ ref'[t] = c /\ key'[t] = KeyFor(t) /\ pc'[t] = "wait"
               /\ stage[t] = "enter" /\ heap' = heap
<1> USE DEF Base, SFP!IInv, SFP!TypeOK
<1> DEFINE Same == /\ pc[t] # "away" /\ ref'[t] = ref[t] /\ key'[t] = key[t]
                   /\ pc'[t] = "wait" <=> pc[t] = "wait"
<1>1. CASE Enter(t)
  <2>1. KeyFor(t) \in Keys
    BY <1>1, RequestAssumption DEF Placed, Fits, Enter, KeyFor
  <2> QED
    BY <1>1, <2>1 DEF Enter, SF!Lead, SF!Register, SF!Join, SF!NewCall
<1>2. ASSUME NEW u \in Threads, u # t, Enter(u)
      PROVE  Same
  BY <1>2 DEF Enter, SF!Lead, SF!Register, SF!Join
<1>3. ASSUME NEW u \in Threads, WriteL1(u) \/ WriteL2(u) \/ ComputeFails(u) \/ PopCall(u)
      PROVE  Same
  BY <1>3 DEF WriteL1, WriteL2, ComputeFails, PopCall, SF!FnReturns, SF!FnRaises, SF!FnDies,
     SF!Pop, flightVars
<1>4. ASSUME NEW u \in Threads, LeaveFlight(u)
      PROVE  Same
  BY <1>4 DEF LeaveFlight, SF!Notify, SF!Wake, SF!Leave
<1>5. ASSUME NEW u \in Threads,
             L1Hit(u) \/ L1Miss(u) \/ L2Hit(u) \/ L2Miss(u) \/ Compute(u)
      PROVE  Same
  BY <1>5 DEF L1Hit, L1Miss, L2Hit, L2Miss, Compute, flightVars
<1>6. CASE ~ \E u \in Threads : Proceed(u)
  BY <1>6 DEF Next, GetOrCompute, Update, PurgeL1, PurgeL2, Lapse, vars, flightVars
<1> QED
  BY <1>1, <1>2, <1>3, <1>4, <1>5, <1>6 DEF Proceed

LEMMA Least ==
  ASSUME NEW T \in SUBSET Nat, T # {}
  PROVE  \E m \in T : \A n \in T : m <= n
<1>1. PICK m \in T : \A n \in T : ~ (<<n, m>> \in OpToRel(<, Nat))
  BY NatLessThanWellFounded, WFMin
<1>2. \A n \in T : ~ n < m
  BY <1>1 DEF OpToRel
<1>3. \A n \in T : n \in Nat /\ m \in Nat
  OBVIOUS
<1>4. \A n \in T : m <= n
  BY <1>2, <1>3
<1> QED
  BY <1>4

\* lookup has a best entry whenever some entry is similar enough.
LEMMA BestIs ==
  ASSUME l2 \in Seq(Answers), NEW r \in Requests, Similar(r) # {}
  PROVE  Best(r) \in Similar(r)
<1> DEFINE I == Similar(r)
           sim == [i \in I |-> Similarity[<<r, l2[i].for>>]]
<1>1. I \in SUBSET Nat /\ I # {} /\ sim \in [I -> 0..100]
  <2>1. \A i \in I : i \in DOMAIN l2
    BY DEF Similar, SameScope
  <2>2. \A i \in DOMAIN l2 : i \in Nat /\ l2[i].for \in Requests
    <3>1. \A i \in DOMAIN l2 : i \in Nat /\ l2[i] \in Answers
      OBVIOUS
    <3>2. \A a \in Answers : a.for \in Requests
      BY DEF Answers
    <3> QED
      BY <3>1, <3>2
  <2>3. \A q \in Requests : Similarity[<<r, q>>] \in 0..100
    BY RequestAssumption
  <2> QED
    BY <2>1, <2>2, <2>3
<1>2. ASSUME NEW i \in I,
             \A j \in I : sim[i] > sim[j] \/ (sim[i] = sim[j] /\ i <= j)
      PROVE  Best(r) \in I
  BY <1>2 DEF Best
<1> HIDE DEF I, sim
<1>0. \A j \in I : j \in Nat /\ sim[j] \in Int /\ 100 - sim[j] \in Nat
  <2>1. \A j \in I : j \in Nat /\ sim[j] \in 0..100
    BY <1>1
  <2>2. \A x \in 0..100 : x \in Int /\ 100 - x \in Nat
    OBVIOUS
  <2> QED
    BY <2>1, <2>2
<1>3. PICK i \in I : \A j \in I : sim[i] >= sim[j]
  <2> DEFINE dist == {100 - sim[j] : j \in I}
  <2>1. dist \in SUBSET Nat /\ dist # {}
    BY <1>0, <1>1
  <2>2. PICK d \in dist : \A e \in dist : d <= e
    BY <2>1, Least
  <2>3. PICK i \in I : d = 100 - sim[i]
    OBVIOUS
  <2>4. \A j \in I : 100 - sim[i] <= 100 - sim[j]
    BY <2>2, <2>3
  <2> HIDE DEF dist
  <2>5. \A j \in I : sim[i] >= sim[j]
    <3> SUFFICES ASSUME NEW j \in I
                 PROVE  sim[i] >= sim[j]
      OBVIOUS
    <3>1. 100 - sim[i] <= 100 - sim[j] /\ sim[i] \in Int /\ sim[j] \in Int
      BY <1>0, <2>4
    <3> QED
      BY <3>1
  <2> QED
    BY <2>5
<1> DEFINE tied == {j \in I : sim[j] = sim[i]}
<1>4. tied \in SUBSET Nat /\ tied # {}
  BY <1>1
<1>5. PICK m \in tied : \A n \in tied : m <= n
  BY <1>4, Least
<1>6. ASSUME NEW j \in I
      PROVE  sim[m] > sim[j] \/ (sim[m] = sim[j] /\ m <= j)
  <2>1. m \in I /\ sim[m] = sim[i] /\ sim[m] >= sim[j]
    BY <1>3
  <2>2. sim[m] \in Int /\ sim[j] \in Int
    BY <1>0, <2>1
  <2>3. sim[m] = sim[j] => m <= j
    BY <1>5, <2>1
  <2>4. \A x, y \in Int : x >= y => x > y \/ x = y
    OBVIOUS
  <2> QED
    BY <2>1, <2>2, <2>3, <2>4
<1>7. m \in I
  OBVIOUS
<1>8. Best(r) \in I
  BY <1>2, <1>6, <1>7
<1> QED
  BY <1>8 DEF I

\* A call's reply stays until the next call, or it comes from a tier or from the
\* call of single flight the thread is in.
LEMMA ReplyEffect ==
  ASSUME Base, Typed, [Next]_vars, NEW t \in Threads
  PROVE  \/ reply'[t] = None
         \/ reply'[t] = reply[t] /\ req'[t] = req[t] /\ owed'[t] = owed[t]
         \/ /\ stage[t] # "idle" /\ req'[t] = req[t] /\ owed'[t] = owed[t]
            /\ \/ L1!Cached(KeyFor(t)) /\ reply'[t] = entry[KeyFor(t)].val
               \/ \E i \in Similar(req[t]) : reply'[t] = l2[i]
               \/ pc[t] # "away" /\ reply'[t] = heap[ref[t]].result
<1> USE DEF Base, Placed, Local, Typed
<1> DEFINE Same == reply'[t] = reply[t] /\ req'[t] = req[t] /\ owed'[t] = owed[t]
<1>1. ASSUME NEW u \in Threads, NEW r \in Requests, GetOrCompute(u, r)
      PROVE  reply'[t] = None \/ Same
  BY <1>1 DEF GetOrCompute
<1>2. ASSUME NEW u \in Threads, u # t, Proceed(u)
      PROVE  Same
  BY <1>2 DEF Proceed, L1Hit, L1Miss, L2Hit, L2Miss, Enter, Compute, ComputeFails, WriteL1,
     WriteL2, PopCall, LeaveFlight, ReplyWith, threadVars
<1>3. CASE L1Hit(t)
  BY <1>3 DEF L1Hit, L1!GetHit, ReplyWith
<1>4. CASE L2Hit(t)
  <2>1. req[t] \in Requests
    BY <1>4 DEF Fits, L2Hit
  <2>2. Best(req[t]) \in Similar(req[t])
    BY <1>4, <2>1, BestIs DEF L2Hit
  <2> QED
    BY <1>4, <2>2 DEF L2Hit, ReplyWith
<1>5. CASE LeaveFlight(t)
  <2>1. Fits(t) /\ pc[t] # "away"
    BY <1>5 DEF LeaveFlight, SF!Notify, SF!Wake
  <2>2. stage[t] # "idle"
    BY <2>1 DEF Fits
  <2>3. reply'[t] = heap[ref[t]].result \/ reply'[t] = None
    BY <1>5 DEF LeaveFlight, ReplyWith
  <2> QED
    BY <1>5, <2>1, <2>2, <2>3 DEF LeaveFlight
<1>6. ASSUME \/ L1Miss(t) \/ L2Miss(t) \/ Enter(t) \/ Compute(t) \/ ComputeFails(t)
             \/ WriteL1(t) \/ WriteL2(t) \/ PopCall(t)
      PROVE  Same
  BY <1>6 DEF L1Miss, L2Miss, Enter, Compute, ComputeFails, WriteL1, WriteL2, PopCall, threadVars
<1>7. ASSUME NEW u \in Updaters, PurgeL1(u) \/ PurgeL2(u) \/ \E s \in Sources : Update(u, s)
      PROVE  Same
  BY <1>7 DEF PurgeL1, PurgeL2, Update, threadVars
<1>8. (\E k \in Keys : Lapse(k)) \/ UNCHANGED vars => Same
  BY DEF Lapse, vars, threadVars
<1>9. Proceed(t) =>
        \/ L1Hit(t) \/ L2Hit(t) \/ LeaveFlight(t) \/ Same
  BY <1>6 DEF Proceed
<1> QED
  BY <1>1, <1>2, <1>3, <1>4, <1>5, <1>7, <1>8, <1>9 DEF Next

\* Versions only grow.
LEMMA VersionGrows ==
  ASSUME Base, [Next]_vars, NEW s \in Sources
  PROVE  /\ version[s] \in Nat /\ version'[s] \in Nat
         /\ version[s] <= version'[s]
<1>1. version \in [Sources -> 0..MaxVersion] /\ version[s] \in Nat
  BY BoundsAssumption DEF Base, Placed, Local
<1>2. ASSUME NEW u \in Updaters, NEW x \in Sources, Update(u, x)
      PROVE  version'[s] \in Nat /\ version[s] <= version'[s]
  BY <1>1, <1>2, BoundsAssumption DEF Update
<1>3. CASE UNCHANGED version
  BY <1>1, <1>3
<1>4. CASE ~ \E u \in Updaters, x \in Sources : Update(u, x)
  BY <1>3, <1>4 DEF Next, Proceed, GetOrCompute, L1Hit, L1Miss, L2Hit, L2Miss, Enter, Compute,
     ComputeFails, WriteL1, WriteL2, PopCall, LeaveFlight, PurgeL1, PurgeL2, Lapse, vars, sourceVars
<1> QED
  BY <1>1, <1>2, <1>4

LEMMA StillKnown ==
  ASSUME Base, [Next]_vars, NEW a \in Answers, Known(a)
  PROVE  KnownNext(a)
<1>1. Reads[a.for] \in Sources /\ a.ver \in Int
  BY RequestAssumption DEF Answers
<1> DEFINE s == Reads[a.for]
<1>2. version[s] \in Nat /\ version'[s] \in Nat /\ version[s] <= version'[s] /\ a.ver <= version[s]
  BY <1>1, VersionGrows DEF Known
<1> QED
  BY <1>1, <1>2 DEF KnownNext
-----------------------------------------------------------------------------
(* Third layer: what the tiers and the calls hold.                          *)

LEMMA TypedKept ==
  ASSUME Base, Contents, [Next]_vars
  PROVE  Typed'
<1> USE DEF Contents, Typed
<1>1. l2' \in Seq(Answers) /\ Len(l2') <= L2Capacity
  BY L2Effect
<1>2. reply' \in [Threads -> Answers \cup {None}]
  <2>1. reply' = [t \in Threads |-> reply'[t]]
    BY DEF Next, Proceed, GetOrCompute, L1Hit, L1Miss, L2Hit, L2Miss, Enter, Compute,
       ComputeFails, WriteL1, WriteL2, PopCall, LeaveFlight, ReplyWith,
       Update, PurgeL1, PurgeL2, Lapse, vars, threadVars
  <2>2. ASSUME NEW t \in Threads
        PROVE  reply'[t] \in Answers \cup {None}
    <3>1. stage[t] # "idle" => KeyFor(t) \in Keys
      BY RequestAssumption DEF Base, Placed, Fits, KeyFor
    <3>2. stage[t] # "idle" /\ L1!Cached(KeyFor(t)) => entry[KeyFor(t)].val \in Answers
      BY <3>1 DEF Base, L1!TypeOK, L1!EntriesTyped, L1!Entries, L1!Cached
    <3>3. \A i \in Similar(req[t]) : l2[i] \in Answers
      <4>1. \A i \in DOMAIN l2 : l2[i] \in Answers
        OBVIOUS
      <4> QED
        BY <4>1 DEF Similar, SameScope
    <3>4. pc[t] # "away" => heap[ref[t]].result \in Answers \cup {None}
      BY DEF Base, SFP!IInv, SFP!TypeOK, SFP!LocalsInv, SFP!CallObjects
    <3> QED
      BY <3>2, <3>3, <3>4, ReplyEffect
  <2> QED
    BY <2>1, <2>2
<1>3. late' \in [Sources -> SUBSET Threads]
  <2>1. ASSUME NEW u \in Updaters, PurgeL1(u) \/ PurgeL2(u)
        PROVE  late' \in [Sources -> SUBSET Threads]
    <3>1. event[u].source \in Sources
      BY <2>1 DEF Base, Events, EventFits, PurgeL1, PurgeL2
    <3> QED
      BY <2>1, <3>1, SMTT(30) DEF PurgeL1, PurgeL2
  <2>2. CASE ~ \E u \in Updaters : PurgeL1(u) \/ PurgeL2(u)
    BY <2>2 DEF Next, Proceed, GetOrCompute, L1Hit, L1Miss, L2Hit, L2Miss, Enter, Compute,
       ComputeFails, WriteL1, WriteL2, PopCall, LeaveFlight, Update, Lapse, vars, sourceVars
  <2> QED
    BY <2>1, <2>2
<1>4. owed' \in [Threads -> 0..MaxVersion]
  <2>1. ASSUME NEW t \in Threads, NEW r \in Requests, GetOrCompute(t, r)
        PROVE  owed' \in [Threads -> 0..MaxVersion]
    <3>1. version[Reads[r]] \in 0..MaxVersion /\ 0 \in 0..MaxVersion
      BY RequestAssumption, BoundsAssumption DEF Base, Placed, Local
    <3> QED
      BY <2>1, <3>1 DEF GetOrCompute
  <2>2. CASE ~ \E t \in Threads, r \in Requests : GetOrCompute(t, r)
    BY <2>2 DEF Next, Proceed, L1Hit, L1Miss, L2Hit, L2Miss, Enter, Compute, ComputeFails,
       WriteL1, WriteL2, PopCall, LeaveFlight, Update, PurgeL1, PurgeL2, Lapse, vars, threadVars
  <2> QED
    BY <2>1, <2>2
<1> QED
  BY <1>1, <1>2, <1>3, <1>4

\* What a leader stores or returns is of its own request and known.
LEMMA LeaderHolds ==
  ASSUME Base, NEW t \in Threads, WriteL1(t) \/ WriteL2(t)
  PROVE  /\ res[t] \in Answers /\ res[t] # None /\ req[t] \in Requests
         /\ res[t].for = req[t] /\ Known(res[t])
         /\ pc[t] = "run" /\ key[t] = KeyOf[req[t]]
  BY DEF Base, Placed, Local, Fits, WriteL1, WriteL2, Known

LEMMA EntriesKept ==
  ASSUME Base, Contents, [Next]_vars
  PROVE  EntriesFit'
<1> SUFFICES ASSUME NEW k \in Keys, L1!Cached(k)'
             PROVE  /\ KeyOf[entry'[k].val.for] = k
                    /\ entry'[k].tags = {Reads[entry'[k].val.for]}
                    /\ KnownNext(entry'[k].val)
  BY DEF EntriesFit, Known, KnownNext
<1>1. CASE /\ L1!Cached(k)
           /\ entry'[k].val = entry[k].val /\ entry'[k].tags = entry[k].tags
  <2>1. entry[k].val \in Answers
    BY <1>1 DEF Base, L1!TypeOK, L1!EntriesTyped, L1!Entries, L1!Cached
  <2>2. /\ KeyOf[entry[k].val.for] = k
        /\ entry[k].tags = {Reads[entry[k].val.for]}
        /\ Known(entry[k].val)
    BY <1>1 DEF Contents, EntriesFit
  <2>3. KnownNext(entry[k].val)
    BY <2>1, <2>2, StillKnown
  <2> QED
    BY <1>1, <2>2, <2>3
<1>2. ASSUME NEW t \in Threads, WriteL1(t), k = KeyFor(t),
             entry'[k].val = res[t], entry'[k].tags = {Reads[req[t]]}
      PROVE  /\ KeyOf[entry'[k].val.for] = k
             /\ entry'[k].tags = {Reads[entry'[k].val.for]}
             /\ KnownNext(entry'[k].val)
  <2>1. version' = version
    BY <1>2 DEF WriteL1, sourceVars
  <2> QED
    BY <1>2, <2>1, LeaderHolds DEF KeyFor, Known, KnownNext
<1> QED
  BY <1>1, <1>2, L1Effect

LEMMA L2Kept ==
  ASSUME Base, Contents, [Next]_vars
  PROVE  L2Fits'
<1> SUFFICES ASSUME NEW i \in DOMAIN l2'
             PROVE  KnownNext(l2'[i])
  BY DEF L2Fits, Known, KnownNext
<1>1. ASSUME NEW j \in DOMAIN l2
      PROVE  KnownNext(l2[j])
  <2>1. l2[j] \in Answers /\ Known(l2[j])
    BY DEF Contents, Typed, L2Fits
  <2> QED
    BY <2>1, StillKnown
<1>2. ASSUME NEW t \in Threads, WriteL2(t)
      PROVE  KnownNext(res[t])
  BY <1>2, LeaderHolds, StillKnown
<1> QED
  BY <1>1, <1>2, L2Effect DEF Contents, Typed

LEMMA ResultsKept ==
  ASSUME Base, Contents, [Next]_vars, NEW t \in Threads
  PROVE  ResultFits(t)'
<1> DEFINE r == heap'[ref'[t]].result
<1> SUFFICES ASSUME pc'[t] # "away", r # None
             PROVE  /\ KeyOf[r.for] = key'[t]
                    /\ pc'[t] \in {"run", "pop", "notify"} => res'[t] = r
  BY DEF ResultFits
<1> USE DEF Base, SFP!IInv, SFP!LocalsInv
<1>1. CASE /\ pc[t] # "away" /\ ref'[t] = ref[t] /\ key'[t] = key[t]
           /\ pc'[t] = "wait" <=> pc[t] = "wait"
  <2>1. ref[t] \in CallIds
    BY <1>1
  <2>2. pc'[t] \in {"run", "pop", "notify"} => pc[t] \in {"run", "pop", "notify"}
    BY <1>1, PlacedKept DEF Placed, Local, Places
  <2>3. CASE r = heap[ref[t]].result
    <3>1. ResultFits(t)
      BY DEF Contents
    <3>2. CASE UNCHANGED res
      BY <1>1, <2>2, <2>3, <3>1, <3>2 DEF ResultFits
    <3>3. ASSUME NEW u \in Threads, Compute(u)
          PROVE  pc[t] \in {"run", "pop", "notify"} => res'[t] = res[t]
      <4>1. res[u] = None /\ pc[u] = "run" /\ stage[u] = "compute"
        BY <3>3 DEF Placed, Fits, Compute
      <4>2. CASE u = t
        BY <1>1, <2>3, <3>1, <4>1, <4>2 DEF ResultFits
      <4>3. CASE u # t
        BY <3>3, <4>3 DEF Compute, Placed, Local
      <4> QED
        BY <4>2, <4>3
    <3>4. ASSUME NEW u \in Threads, LeaveFlight(u)
          PROVE  res'[t] = res[t]
      <4>1. pc'[u] = "away"
        BY <3>4 DEF LeaveFlight, SF!Notify, SF!Wake, SF!Leave, SFP!TypeOK
      <4> QED
        BY <3>4, <4>1 DEF LeaveFlight, Placed, Local
    <3>5. UNCHANGED res \/ \E u \in Threads : Compute(u) \/ LeaveFlight(u)
      BY DEF Next, Proceed, GetOrCompute, L1Hit, L1Miss, L2Hit, L2Miss, Enter, ComputeFails,
         WriteL1, WriteL2, PopCall, Update, PurgeL1, PurgeL2, Lapse, vars, threadVars
    <3> QED
      BY <1>1, <2>2, <2>3, <3>1, <3>2, <3>3, <3>4, <3>5 DEF ResultFits
  <2>4. ASSUME NEW u \in Threads, WriteL1(u) \/ WriteL2(u), ref[u] = ref[t], r = res[u]
        PROVE  /\ KeyOf[r.for] = key'[t]
               /\ pc'[t] \in {"run", "pop", "notify"} => res'[t] = r
    <3>1. pc[u] = "run" /\ key[u] = KeyOf[res[u].for]
      BY <2>4, LeaderHolds
    <3>2. key[u] = key[t]
      BY <1>1, <2>4, <3>1 DEF SFP!ContenderInv
    <3>3. pc[t] \in {"run", "pop", "notify"} => u = t
      BY <2>4, <3>1 DEF SFP!LeaderInv, SFP!InCharge
    <3>4. UNCHANGED res
      BY <2>4 DEF WriteL1, WriteL2
    <3> QED
      BY <1>1, <2>2, <2>4, <3>1, <3>2, <3>3, <3>4
  <2> QED
    BY <1>1, <2>1, <2>3, <2>4, ResultEffect
<1>2. ASSUME calls[KeyFor(t)] # NoCall, KeyFor(t) \in Keys,
             ref'[t] = calls[KeyFor(t)], key'[t] = KeyFor(t), pc'[t] = "wait", heap' = heap
      PROVE  KeyOf[r.for] = key'[t]
  <2>1. PICK u \in Threads : SFP!Leading(u) /\ key[u] = KeyFor(t) /\ ref[u] = calls[KeyFor(t)]
    BY <1>2 DEF SFP!RegistryInv
  <2> QED
    BY <1>2, <2>1 DEF Contents, ResultFits, SFP!Leading
<1> QED
  BY <1>1, <1>2, CallEffect

LEMMA RepliesKept ==
  ASSUME Base, Contents, [Next]_vars, NEW t \in Threads
  PROVE  ReplyFits(t)'
<1> SUFFICES ASSUME reply'[t] # None
             PROVE  \/ ScopeOf[reply'[t].for] = ScopeOf[req'[t]]
                    \/ KeyOf[reply'[t].for] = KeyOf[req'[t]]
  BY DEF ReplyFits
<1>1. CASE reply'[t] = reply[t] /\ req'[t] = req[t]
  BY <1>1 DEF Contents, ReplyFits
<1>2. stage[t] # "idle" => KeyFor(t) \in Keys
  BY RequestAssumption DEF Base, Placed, Fits, KeyFor
<1>3. CASE /\ stage[t] # "idle" /\ req'[t] = req[t]
           /\ L1!Cached(KeyFor(t)) /\ reply'[t] = entry[KeyFor(t)].val
  BY <1>2, <1>3 DEF Contents, EntriesFit, KeyFor
<1>4. ASSUME req'[t] = req[t], NEW i \in Similar(req[t]), reply'[t] = l2[i]
      PROVE  ScopeOf[reply'[t].for] = ScopeOf[req'[t]]
  BY <1>4 DEF Similar, SameScope
<1>5. CASE /\ stage[t] # "idle" /\ req'[t] = req[t]
           /\ pc[t] # "away" /\ reply'[t] = heap[ref[t]].result
  BY <1>5 DEF Contents, ResultFits, Base, Placed, Fits
<1> QED
  BY <1>1, <1>3, <1>4, <1>5, ReplyEffect DEF Contents

LEMMA ContentsKept == Base /\ Contents /\ [Next]_vars => Contents'
  BY TypedKept, EntriesKept, L2Kept, ResultsKept, RepliesKept DEF Contents

LEMMA InitContents == Init => Contents
<1> SUFFICES ASSUME Init
             PROVE  Contents
  OBVIOUS
<1>1. Typed
  BY RequestAssumption, BoundsAssumption DEF Init, Typed
<1>2. EntriesFit /\ L2Fits
  BY DEF Init, L1!Init, EntriesFit, L1!Cached, L2Fits
<1>3. \A t \in Threads : ResultFits(t) /\ ReplyFits(t)
  BY DEF Init, SF!Init, ResultFits, ReplyFits
<1> QED
  BY <1>1, <1>2, <1>3 DEF Contents

LEMMA AlwaysContents == Spec => []Contents
  BY InitContents, ContentsKept, AlwaysBase, PTL DEF Spec

\* Whatever build_key, the similarity of questions and the capacities are, a
\* caller is served a result of another tenant or workspace only from under a key
\* that is its own as well; beside it, every variable has its type, and both
\* tiers keep within their capacity.
THEOREM Isolation == Spec => []ScopeIsolation
<1>1. SFP!TypeOK => SF!TypeOK
  BY DEF SF!TypeOK, SFP!TypeOK, SF!CallObjects, SFP!CallObjects
<1>2. Base /\ Contents => TypeOK
  BY <1>1 DEF TypeOK, Base, Contents, Typed, Placed, Local, Stages, Events, SFP!IInv
<1>3. Base /\ Contents => ScopeIsolation
  BY <1>2 DEF ScopeIsolation, Contents, ReplyFits
<1> QED
  BY <1>3, AlwaysBase, AlwaysContents, PTL

-----------------------------------------------------------------------------
(* Fourth layer: how old that can be.                                       *)

\* A step is about a source, or leaves its version and its purges alone.
LEMMA SourceEffect ==
  ASSUME Base, Contents, [Next]_vars, NEW s \in Sources
  PROVE  \/ \E u \in Updaters : Update(u, s)
         \/ \E u \in Updaters : PurgeL1(u) /\ event[u].source = s
         \/ \E u \in Updaters : PurgeL2(u) /\ event[u].source = s
         \/ /\ version'[s] = version[s] /\ late'[s] = late[s]
            /\ \A u \in Updaters : event[u].source = s => event'[u] = event[u]
<1> USE DEF Base, Placed, Local, Events, Contents, Typed
<1> DEFINE Calm == /\ version'[s] = version[s] /\ late'[s] = late[s]
                   /\ \A u \in Updaters : event[u].source = s => event'[u] = event[u]
<1>1. ASSUME NEW u \in Updaters, NEW x \in Sources, Update(u, x), x # s
      PROVE  Calm
  <2>1. event[u].source # s
    BY <1>1, MarkersDistinct DEF Update, Idle
  <2> QED
    BY <1>1, <2>1 DEF Update
<1>2. ASSUME NEW u \in Updaters, PurgeL1(u) \/ PurgeL2(u), event[u].source # s
      PROVE  Calm
  BY <1>2 DEF PurgeL1, PurgeL2
<1>3. CASE ~ \E u \in Updaters : (\E x \in Sources : Update(u, x)) \/ PurgeL1(u) \/ PurgeL2(u)
  <2>1. UNCHANGED <<version, event, late>>
    BY <1>3 DEF Next, Proceed, GetOrCompute, L1Hit, L1Miss, L2Hit, L2Miss, Enter, Compute,
       ComputeFails, WriteL1, WriteL2, PopCall, LeaveFlight, Lapse, vars, sourceVars
  <2> QED
    BY <2>1
<1> QED
  BY <1>1, <1>2, <1>3

\* A result that is outdated on its way to a tier was so before the step,
\* unless the step has changed the source: compute_fn reads the latest version.
LEMMA OutdatedBefore ==
  ASSUME Base, [Next]_vars, NEW s \in Sources, NEW t \in Threads, version'[s] = version[s],
         stage'[t] \in {"writeL1", "writeL2"}, Outdated(t, s)'
  PROVE  /\ stage[t] \in {"writeL1", "writeL2"} /\ Outdated(t, s)
         /\ stage'[t] = "writeL1" => stage[t] = "writeL1"
<1> USE DEF Base, Placed, Local
<1>1. CASE UNCHANGED <<stage, res>>
  BY <1>1 DEF Outdated
<1>2. ~ Compute(t)
  <2> SUFFICES ASSUME Compute(t)
               PROVE  FALSE
    OBVIOUS
  <2>1. res'[t] = [for |-> req[t], ver |-> version[Reads[req[t]]]]
    BY DEF Compute
  <2>2. res'[t].ver = version[s] /\ version[s] \in Int
    BY <2>1 DEF Outdated
  <2> QED
    BY <2>2 DEF Outdated
<1>3. ASSUME NEW u \in Threads, u # t, Proceed(u)
      PROVE  stage'[t] = stage[t] /\ res'[t] = res[t]
  BY <1>3 DEF Proceed, L1Hit, L1Miss, L2Hit, L2Miss, Enter, Compute, ComputeFails, WriteL1,
     WriteL2, PopCall, LeaveFlight, ReplyWith, Goto, threadVars
<1>4. CASE Proceed(t)
  BY <1>2, <1>4 DEF Proceed, L1Hit, L1Miss, L2Hit, L2Miss, Enter, ComputeFails, WriteL1,
     WriteL2, PopCall, LeaveFlight, ReplyWith, Goto, threadVars, Outdated
<1>5. ASSUME NEW u \in Threads, NEW r \in Requests, GetOrCompute(u, r)
      PROVE  stage'[t] = stage[t] /\ res'[t] = res[t]
  BY <1>5 DEF GetOrCompute, Goto
<1>6. CASE ~ \E u \in Threads : Proceed(u) \/ \E r \in Requests : GetOrCompute(u, r)
  BY <1>1, <1>6 DEF Next, Update, PurgeL1, PurgeL2, Lapse, vars, threadVars
<1> QED
  BY <1>3, <1>4, <1>5, <1>6 DEF Outdated

\* A leader's result of s that is not outdated is of the current version.
LEMMA NotOutdated ==
  ASSUME Base, NEW s \in Sources, NEW t \in Threads, WriteL1(t) \/ WriteL2(t),
         Reads[res[t].for] = s, ~Outdated(t, s)
  PROVE  res[t].ver = version[s]
<1>1. res[t] \in Answers /\ res[t] # None /\ res[t].ver <= version[s]
  BY LeaderHolds DEF Known
<1>2. res[t].ver \in Int /\ version[s] \in Int
  BY <1>1 DEF Answers, Base, Placed, Local
<1> QED
  BY <1>1, <1>2 DEF Outdated

LEMMA L1PurgesKept ==
  ASSUME Base, Contents, Purges, [Next]_vars, NEW s \in Sources
  PROVE  PurgedL1(s)'
<1> USE DEF Base, Placed, Local, Events, Contents, Typed
<1>1. ASSUME NEW u \in Updaters, Update(u, s)
      PROVE  DueL1(s)'
  BY <1>1 DEF Update, DueL1
<1>2. ASSUME NEW u \in Updaters, PurgeL1(u), event[u].source = s
      PROVE  PurgedL1(s)'
  <2>1. late'[s] = {t \in Threads : stage[t] = "writeL1" /\ Outdated(t, s)}
    BY <1>2 DEF PurgeL1
  <2>2. UNCHANGED <<stage, res, version>>
    BY <1>2 DEF PurgeL1, threadVars
  <2>3. ASSUME NEW k \in Keys, L1!Cached(k)', Reads[entry'[k].val.for] = s
        PROVE  FALSE
    <3>1. L1!Cached(k) /\ entry'[k].val = entry[k].val
      BY <1>2, <2>3 DEF PurgeL1, L1!DeleteByTag, L1!EntriesWithout, L1!Cached, l1Vars
    <3>2. entry[k].tags = {s}
      BY <2>3, <3>1 DEF EntriesFit
    <3>3. k \in tagIndex[s]
      BY <3>1, <3>2 DEF L1!IndexCoversTags, L1!Carries
    <3>4. entry' = L1!EntriesWithout(L1!Listed(s))
      BY <1>2, <3>3 DEF PurgeL1, L1!DeleteByTag
    <3>5. k \in L1!Listed(s)
      BY <3>1, <3>3 DEF L1!Listed
    <3> QED
      BY <2>3, <3>4, <3>5 DEF L1!EntriesWithout, L1!Cached
  <2>4. FreshL1(s)'
    BY <2>3 DEF FreshL1
  <2> QED
    BY <2>1, <2>2, <2>4 DEF PurgedL1, Outdated
<1>3. ASSUME version'[s] = version[s], late[s] \subseteq late'[s],
             \A u \in Updaters :
                event[u].tier = "l1" /\ event[u].source = s => event'[u] = event[u]
      PROVE  PurgedL1(s)'
  <2>1. DueL1(s) => DueL1(s)'
    BY <1>3 DEF DueL1
  <2>2. CASE ~DueL1(s)
    <3>1. /\ \A t \in Threads : stage[t] = "writeL1" /\ Outdated(t, s) => t \in late[s]
          /\ late[s] # {} \/ FreshL1(s)
      BY <2>2 DEF Purges, PurgedL1
    <3>2. ASSUME NEW t \in Threads, stage'[t] = "writeL1", Outdated(t, s)'
          PROVE  t \in late'[s]
      <4>1. stage[t] = "writeL1" /\ Outdated(t, s)
        BY <1>3, <3>2, OutdatedBefore
      <4> QED
        BY <1>3, <3>1, <4>1
    <3>3. CASE late[s] = {}
      <4> SUFFICES ASSUME NEW k \in Keys, L1!Cached(k)', Reads[entry'[k].val.for] = s
                   PROVE  entry'[k].val.ver = version'[s]
        BY <3>2 DEF PurgedL1, FreshL1, Current
      <4>1. CASE L1!Cached(k) /\ entry'[k].val = entry[k].val
        BY <1>3, <3>1, <3>3, <4>1 DEF FreshL1, Current
      <4>2. ASSUME NEW t \in Threads, WriteL1(t), entry'[k].val = res[t]
            PROVE  entry'[k].val.ver = version'[s]
        <5>1. ~Outdated(t, s)
          BY <3>1, <3>3, <4>2 DEF WriteL1
        <5> QED
          BY <1>3, <4>2, <5>1, NotOutdated
      <4> QED
        BY <4>1, <4>2, L1Effect
    <3> QED
      BY <1>3, <3>2, <3>3 DEF PurgedL1
  <2> QED
    BY <2>1, <2>2 DEF PurgedL1
<1>4. ASSUME NEW u \in Updaters, PurgeL2(u), event[u].source = s
      PROVE  PurgedL1(s)'
  <2>1. version' = version /\ late[s] \subseteq late'[s]
    BY <1>4 DEF PurgeL2
  <2>2. \A x \in Updaters : event[x].tier = "l1" => event'[x] = event[x]
    BY <1>4 DEF PurgeL2
  <2> QED
    BY <1>3, <2>1, <2>2
<1> QED
  BY <1>1, <1>2, <1>3, <1>4, SourceEffect DEF PurgedL1

LEMMA L2PurgesKept ==
  ASSUME Base, Contents, Purges, [Next]_vars, NEW s \in Sources \ UserSources
  PROVE  PurgedL2(s)'
<1> USE DEF Base, Placed, Local, Events, Contents, Typed
<1>1. ASSUME NEW u \in Updaters, Update(u, s)
      PROVE  Due(s)'
  BY <1>1 DEF Update, Due, Quiet
<1>2. ASSUME NEW u \in Updaters, PurgeL1(u), event[u].source = s
      PROVE  Due(s)'
  BY <1>2 DEF PurgeL1, Due, Quiet
<1>3. ASSUME NEW u \in Updaters, PurgeL2(u), event[u].source = s
      PROVE  PurgedL2(s)'
  <2>1. late'[s] = late[s] \cup
          {t \in Threads : stage[t] \in {"writeL1", "writeL2"} /\ Outdated(t, s)}
    BY <1>3 DEF PurgeL2
  <2>2. UNCHANGED <<stage, res, version>> /\ l2' = Remaining(s)
    BY <1>3 DEF PurgeL2, threadVars
  <2>3. FreshL2(s)'
    BY <2>2, RemainingIs DEF FreshL2
  <2> QED
    BY <2>1, <2>2, <2>3 DEF PurgedL2, Outdated
<1>4. ASSUME version'[s] = version[s], late'[s] = late[s],
             \A u \in Updaters : event[u].source = s => event'[u] = event[u]
      PROVE  PurgedL2(s)'
  <2>1. Due(s) => Due(s)'
    BY <1>4 DEF Due, Quiet
  <2>2. CASE ~Due(s)
    <3>1. /\ \A t \in Threads :
                stage[t] \in {"writeL1", "writeL2"} /\ Outdated(t, s) => t \in late[s]
          /\ late[s] # {} \/ FreshL2(s)
      BY <2>2 DEF Purges, PurgedL2
    <3>2. ASSUME NEW t \in Threads, stage'[t] \in {"writeL1", "writeL2"}, Outdated(t, s)'
          PROVE  t \in late'[s]
      <4>1. stage[t] \in {"writeL1", "writeL2"} /\ Outdated(t, s)
        BY <1>4, <3>2, OutdatedBefore
      <4> QED
        BY <1>4, <3>1, <4>1
    <3>3. CASE late[s] = {}
      <4> SUFFICES ASSUME NEW i \in DOMAIN l2', Reads[l2'[i].for] = s
                   PROVE  l2'[i].ver = version'[s]
        BY <3>2 DEF PurgedL2, FreshL2, Current
      <4>1. ASSUME NEW j \in DOMAIN l2, l2'[i] = l2[j]
            PROVE  l2'[i].ver = version'[s]
        BY <1>4, <3>1, <3>3, <4>1 DEF FreshL2, Current
      <4>2. ASSUME NEW t \in Threads, WriteL2(t), l2'[i] = res[t]
            PROVE  l2'[i].ver = version'[s]
        <5>1. ~Outdated(t, s)
          BY <3>1, <3>3, <4>2 DEF WriteL2
        <5> QED
          BY <1>4, <4>2, <5>1, NotOutdated
      <4> QED
        BY <4>1, <4>2, L2Effect
    <3> QED
      BY <1>4, <3>2, <3>3 DEF PurgedL2
  <2> QED
    BY <2>1, <2>2 DEF PurgedL2
<1> QED
  BY <1>1, <1>2, <1>3, <1>4, SourceEffect DEF PurgedL2

LEMMA PurgesKept == Base /\ Contents /\ Purges /\ [Next]_vars => Purges'
  BY L1PurgesKept, L2PurgesKept DEF Purges

LEMMA AlwaysPurges == Spec => []Purges
<1>1. Init => Purges
  <2> SUFFICES ASSUME Init, NEW s \in Sources
               PROVE  PurgedL1(s) /\ PurgedL2(s)
    BY DEF Purges
  <2>1. FreshL1(s) /\ FreshL2(s)
    BY DEF Init, L1!Init, FreshL1, FreshL2, L1!Cached
  <2> QED
    BY <2>1 DEF Init, PurgedL1, PurgedL2, Outdated
<1> QED
  BY <1>1, PurgesKept, AlwaysBase, AlwaysContents, PTL DEF Spec

\* Once a source's events are handled, an entry of it can be stale only if a
\* computation that was under way at the purge has stored it, or still can.
THEOREM OnlyLateWrites == Spec => []StaleOnlyByLateWrite
<1>1. Purges => StaleOnlyByLateWrite
  BY DEF Purges, PurgedL1, PurgedL2, StaleOnlyByLateWrite, DueL1, Due, Quiet
<1> QED
  BY <1>1, AlwaysPurges, PTL

\* A registered call was registered before, or is new and has no result.
LEMMA RegistryEffect ==
  ASSUME Base, [Next]_vars, NEW k \in Keys, calls'[k] # NoCall
  PROVE  calls'[k] = calls[k] \/ heap'[calls'[k]].result = None
<1> USE DEF Base, SFP!IInv, SFP!TypeOK
<1>1. ASSUME NEW t \in Threads, Enter(t)
      PROVE  calls'[k] = calls[k] \/ heap'[calls'[k]].result = None
  BY <1>1 DEF Enter, SF!Lead, SF!Register, SF!Join, SF!NewCall
<1>2. ASSUME NEW t \in Threads, Proceed(t), ~Enter(t)
      PROVE  calls'[k] = calls[k]
  <2>1. Placed
    OBVIOUS
  <2>2. CASE PopCall(t)
    BY <2>2 DEF PopCall, SF!Pop
  <2>3. CASE ~PopCall(t)
    BY <1>2, <2>3 DEF Proceed, L1Hit, L1Miss, L2Hit, L2Miss, Compute, ComputeFails, WriteL1,
       WriteL2, LeaveFlight, SF!FnReturns, SF!FnRaises, SF!FnDies, SF!Notify, SF!Wake, flightVars
  <2> QED
    BY <2>2, <2>3
<1>3. CASE ~ \E t \in Threads : Proceed(t)
  BY <1>3 DEF Next, GetOrCompute, Update, PurgeL1, PurgeL2, Lapse, vars, flightVars
<1> QED
  BY <1>1, <1>2, <1>3

\* A call is owed what is current when nothing older is left anywhere.
LEMMA FloorStarts ==
  ASSUME Base, Contents, Purges, NEW t \in Threads, NEW r \in Requests, GetOrCompute(t, r),
         Reads[r] \notin UserSources
  PROVE  Floor(t)'
<1> USE DEF Base, Placed, Local, Contents, Typed
<1> DEFINE s == Reads[r]
<1>1. /\ req'[t] = r /\ UNCHANGED <<l1Vars, l2, flightVars, res, version>>
      /\ pc[t] = "away"
  BY DEF GetOrCompute, Fits, sourceVars
<1>2. s \in Sources /\ version[s] \in Nat
  BY RequestAssumption, BoundsAssumption
<1>3. CASE ~Settled(s)
  <2>1. owed'[t] = 0
    BY <1>3 DEF GetOrCompute
  <2>2. \A a \in Answers : a.ver >= 0
    BY BoundsAssumption DEF Answers
  <2>3. \A k \in Keys : L1!Cached(k) => entry[k].val \in Answers
    BY DEF L1!TypeOK, L1!EntriesTyped, L1!Entries, L1!Cached
  <2>4. \A c \in CallIds : heap[c].result \in Answers \cup {None}
    BY DEF SFP!IInv, SFP!TypeOK, SFP!CallObjects
  <2>5. \A k \in Keys : calls[k] \in CallIds \cup {NoCall}
    BY DEF SFP!IInv, SFP!TypeOK
  <2> QED
    BY <1>1, <1>2, <2>1, <2>2, <2>3, <2>4, <2>5 DEF Floor, Serves, L1!Cached, l1Vars, flightVars
<1>4. CASE Settled(s)
  <2>1. owed'[t] = version[s]
    BY <1>4 DEF GetOrCompute
  <2>2. FreshL1(s) /\ FreshL2(s)
    BY <1>2, <1>4 DEF Settled, Purges, PurgedL1, PurgedL2, DueL1, Due, Quiet
  <2>3. ASSUME NEW u \in Threads, res[u] # None, Reads[res[u].for] = s
        PROVE  res[u].ver >= version[s]
    <3>1. res[u].ver \in Int
      BY <2>3 DEF Answers
    <3> QED
      BY <1>2, <1>4, <2>3, <3>1 DEF Settled, Outdated
  <2>4. ASSUME NEW k \in Keys, calls[k] # NoCall, heap[calls[k]].result # None,
               Reads[heap[calls[k]].result.for] = s
        PROVE  heap[calls[k]].result.ver >= version[s]
    <3>1. PICK u \in Threads : SFP!Leading(u) /\ ref[u] = calls[k]
      BY <2>4 DEF SFP!IInv, SFP!RegistryInv
    <3>2. res[u] = heap[calls[k]].result
      BY <2>4, <3>1 DEF ResultFits, SFP!Leading
    <3> QED
      BY <2>3, <2>4, <3>2
  <2>5. \A k \in Keys : L1!Cached(k) /\ Reads[entry[k].val.for] = s => entry[k].val.ver >= version[s]
    BY <1>2, <2>2 DEF FreshL1, Current
  <2>6. \A i \in DOMAIN l2 : Reads[l2[i].for] = s => l2[i].ver >= version[s]
    BY <1>2, <2>2 DEF FreshL2, Current
  <2> QED
    BY <1>1, <1>2, <2>1, <2>3, <2>4, <2>5, <2>6 DEF Floor, Serves, L1!Cached, l1Vars, flightVars
<1> QED
  BY <1>3, <1>4

\* No step brings an older result within reach of a call under way.
LEMMA FloorStands ==
  ASSUME Base, Contents, [Next]_vars, NEW t \in Threads, Floor(t), stage[t] # "idle",
         req'[t] = req[t], owed'[t] = owed[t]
  PROVE  Floor(t)'
<1> USE DEF Base, Placed, Local, Contents, Typed
<1>1. Reads[req[t]] \in Sources /\ owed[t] \in Int
  BY RequestAssumption DEF Fits
<1>2. owed[t] <= version'[Reads[req[t]]]
  <2>1. /\ version[Reads[req[t]]] \in Int /\ version'[Reads[req[t]]] \in Int
        /\ version[Reads[req[t]]] <= version'[Reads[req[t]]]
    BY <1>1, VersionGrows
  <2> QED
    BY <1>1, <2>1 DEF Floor
<1>3. \A k \in Keys : L1!Cached(k)' => Serves(t, entry[k].val)'
  <2> SUFFICES ASSUME NEW k \in Keys, L1!Cached(k)', Reads[entry'[k].val.for] = Reads[req[t]]
               PROVE  entry'[k].val.ver >= owed[t]
    BY DEF Serves
  <2>1. CASE L1!Cached(k) /\ entry'[k].val = entry[k].val
    BY <2>1 DEF Floor, Serves
  <2>2. ASSUME NEW u \in Threads, WriteL1(u), entry'[k].val = res[u]
        PROVE  entry'[k].val.ver >= owed[t]
    BY <2>2, LeaderHolds DEF Floor, Serves
  <2> QED
    BY <2>1, <2>2, L1Effect
<1>4. \A i \in DOMAIN l2' : Serves(t, l2[i])'
  <2> SUFFICES ASSUME NEW i \in DOMAIN l2', Reads[l2'[i].for] = Reads[req[t]]
               PROVE  l2'[i].ver >= owed[t]
    BY DEF Serves
  <2>1. ASSUME NEW j \in DOMAIN l2, l2'[i] = l2[j]
        PROVE  l2'[i].ver >= owed[t]
    BY <2>1 DEF Floor, Serves
  <2>2. ASSUME NEW u \in Threads, WriteL2(u), l2'[i] = res[u]
        PROVE  l2'[i].ver >= owed[t]
    BY <2>2, LeaderHolds DEF Floor, Serves
  <2> QED
    BY <2>1, <2>2, L2Effect
<1>5. ASSUME NEW u \in Threads, res'[u] # None, Reads[res'[u].for] = Reads[req[t]]
      PROVE  res'[u].ver >= owed[t]
  <2>1. CASE res'[u] = res[u]
    BY <1>5, <2>1 DEF Floor, Serves
  <2>2. CASE Compute(u)
    <3>1. res'[u] = [for |-> req[u], ver |-> version[Reads[req[u]]]]
      BY <2>2 DEF Compute
    <3>2. version[Reads[req[t]]] >= owed[t]
      BY <1>1 DEF Floor
    <3> QED
      BY <1>5, <3>1, <3>2
  <2>3. ASSUME NEW v \in Threads, v # u, Compute(v) \/ LeaveFlight(v)
        PROVE  res'[u] = res[u]
    BY <2>3 DEF Compute, LeaveFlight
  <2>4. LeaveFlight(u) => res'[u] = None
    BY DEF LeaveFlight
  <2>5. UNCHANGED res \/ \E v \in Threads : Compute(v) \/ LeaveFlight(v)
    BY DEF Next, Proceed, GetOrCompute, L1Hit, L1Miss, L2Hit, L2Miss, Enter, ComputeFails,
       WriteL1, WriteL2, PopCall, Update, PurgeL1, PurgeL2, Lapse, vars, threadVars
  <2> QED
    BY <1>5, <2>1, <2>2, <2>3, <2>4, <2>5
<1>6. ASSUME NEW c \in CallIds, heap'[c].result # None,
             Reads[heap'[c].result.for] = Reads[req[t]],
             heap[c].result # None => Serves(t, heap[c].result)
      PROVE  heap'[c].result.ver >= owed[t]
  <2>1. CASE heap'[c].result = heap[c].result
    BY <1>6, <2>1 DEF Serves
  <2>2. ASSUME NEW u \in Threads, WriteL1(u) \/ WriteL2(u), heap'[c].result = res[u]
        PROVE  heap'[c].result.ver >= owed[t]
    BY <1>6, <2>2 DEF Floor, Serves
  <2> QED
    BY <1>6, <2>1, <2>2, ResultEffect
<1>7. ASSUME NEW k \in Keys, calls'[k] # NoCall, heap'[calls'[k]].result # None
      PROVE  Serves(t, heap[calls[k]].result)'
  <2>1. calls'[k] = calls[k] /\ calls[k] \in CallIds
    BY <1>7, RegistryEffect DEF SFP!IInv, SFP!TypeOK
  <2> QED
    BY <1>6, <1>7, <2>1 DEF Floor, Serves
<1>8. ASSUME pc'[t] # "away", heap'[ref'[t]].result # None
      PROVE  Serves(t, heap[ref[t]].result)'
  <2>1. CASE pc[t] # "away" /\ ref'[t] = ref[t]
    <3>1. ref[t] \in CallIds
      BY <2>1 DEF SFP!IInv, SFP!LocalsInv
    <3> QED
      BY <1>6, <1>8, <2>1, <3>1 DEF Floor, Serves
  <2>2. CASE /\ calls[KeyFor(t)] # NoCall /\ KeyFor(t) \in Keys
             /\ ref'[t] = calls[KeyFor(t)] /\ heap' = heap
    BY <1>8, <2>2 DEF Floor, Serves
  <2> QED
    BY <1>8, <2>1, <2>2, CallEffect
<1> QED
  BY <1>2, <1>3, <1>4, <1>5, <1>7, <1>8 DEF Floor, Serves

LEMMA FloorsKept == Base /\ Contents /\ Purges /\ Floors /\ [Next]_vars => Floors'
<1> SUFFICES ASSUME Base, Contents, Purges, Floors, [Next]_vars, NEW t \in Threads,
                    stage'[t] # "idle", Reads[req'[t]] \notin UserSources
             PROVE  Floor(t)'
  BY DEF Floors
<1> USE DEF Base, Placed, Local, Contents, Typed
<1>1. ASSUME NEW r \in Requests, GetOrCompute(t, r)
      PROVE  Floor(t)'
  BY <1>1, FloorStarts DEF GetOrCompute
<1>2. ASSUME NEW u \in Threads, NEW r \in Requests, u # t, GetOrCompute(u, r)
      PROVE  req'[t] = req[t] /\ owed'[t] = owed[t] /\ stage'[t] = stage[t]
  BY <1>2 DEF GetOrCompute, Goto
<1>3. CASE ~ \E u \in Threads, r \in Requests : GetOrCompute(u, r)
  <2>1. UNCHANGED <<req, owed>>
    BY <1>3 DEF Next, Proceed, L1Hit, L1Miss, L2Hit, L2Miss, Enter, Compute, ComputeFails,
       WriteL1, WriteL2, PopCall, LeaveFlight, Update, PurgeL1, PurgeL2, Lapse, vars, threadVars
  <2>2. ASSUME NEW u \in Threads, Proceed(u)
        PROVE  stage[t] # "idle"
    <3>1. CASE u = t
      BY <2>2, <3>1 DEF Proceed, L1Hit, L1Miss, L2Hit, L2Miss, Enter, Compute, ComputeFails,
         WriteL1, WriteL2, PopCall, LeaveFlight, SF!Pop, SF!Notify, SF!Wake, Fits
    <3>2. CASE u # t
      BY <2>2, <3>2 DEF Proceed, L1Hit, L1Miss, L2Hit, L2Miss, Enter, Compute, ComputeFails,
         WriteL1, WriteL2, PopCall, LeaveFlight, ReplyWith, Goto, threadVars
    <3> QED
      BY <3>1, <3>2
  <2>3. ASSUME ~ \E u \in Threads : Proceed(u)
        PROVE  stage[t] # "idle"
    BY <1>3, <2>3 DEF Next, Update, PurgeL1, PurgeL2, Lapse, vars, threadVars
  <2>4. stage[t] # "idle"
    BY <2>2, <2>3
  <2> QED
    BY <2>1, <2>4, FloorStands DEF Floors
<1> QED
  BY <1>1, <1>2, <1>3, FloorStands DEF Floors

LEMMA RepliesKeepUpKept ==
  Base /\ Contents /\ Floors /\ RepliesKeepUp /\ [Next]_vars => RepliesKeepUp'
<1> SUFFICES ASSUME Base, Contents, Floors, RepliesKeepUp, [Next]_vars, NEW t \in Threads,
                    reply'[t] # None, Reads[reply'[t].for] = Reads[req'[t]],
                    Reads[req'[t]] \notin UserSources
             PROVE  reply'[t].ver >= owed'[t]
  BY DEF RepliesKeepUp
<1>1. CASE reply'[t] = reply[t] /\ req'[t] = req[t] /\ owed'[t] = owed[t]
  BY <1>1 DEF RepliesKeepUp
<1>2. CASE /\ stage[t] # "idle" /\ req'[t] = req[t] /\ owed'[t] = owed[t]
           /\ \/ L1!Cached(KeyFor(t)) /\ reply'[t] = entry[KeyFor(t)].val
              \/ \E i \in Similar(req[t]) : reply'[t] = l2[i]
              \/ pc[t] # "away" /\ reply'[t] = heap[ref[t]].result
  <2>1. Floor(t)
    BY <1>2 DEF Floors
  <2>2. KeyFor(t) \in Keys
    BY <1>2, RequestAssumption DEF Base, Placed, Fits, KeyFor
  <2>3. Similar(req[t]) \subseteq DOMAIN l2
    BY DEF Similar, SameScope
  <2> QED
    BY <1>2, <2>1, <2>2, <2>3 DEF Floor, Serves
<1> QED
  BY <1>1, <1>2, ReplyEffect DEF Contents

\* A call that starts when nothing older is left is served nothing older: what
\* it is owed bounds everything that can still answer it.
THEOREM NeverFallsBehind == Spec => []RepliesKeepUp
<1>1. Init => Floors /\ RepliesKeepUp
  BY DEF Init, Floors, RepliesKeepUp
<1> QED
  BY <1>1, FloorsKept, RepliesKeepUpKept, AlwaysBase, AlwaysContents, AlwaysPurges, PTL DEF Spec
=============================================================================
