# RAGTUNE: a verification project in TLA+

RAGTUNE answers questions about an organisation's data: it caches results,
orchestrates an agent workflow with human approval, and keeps its own accounts
and sessions. This directory holds TLA+ modules for the parts of it in which
the order of events decides whether the result is right, TLC configurations
that check them on small instances, and theorems that TLAPS checks for every
value of the constants. Paths below are relative to `src/`.

Run a configuration with `tlc -workers 2 -config X.cfg M` and a proof with
`tlapm MProofs.tla`; `PROJECT.json` lists every run, its properties, the source
lines each definition stands for, and the known hazards of the code.

## 1. The system

| component | code | state | operations | hard parts |
|---|---|---|---|---|
| L1 cache provider | `cache/core/provider.py` | ordered dict of entries, tag index | get, set, delete, delete_by_tag, clear | capacity, expiry and tags at once |
| Single flight | `cache/engines/single_flight.py` | map key -> call, one event per call | execute | many threads, failing computations, waiting without a timeout |
| Cache manager | `cache/manager.py`, `cache/engines/semantic_cache.py`, `cache/engines/invalidation.py` | L1, L2 list, single flight | get_or_compute, handle_event | a computation that overlaps a purge |
| Workflow engine | `orchestration/` | checkpoints per workflow, approval tickets | execute_workflow, resume_workflow | operators that race, decisions the ticket refuses |
| Identity and sessions | `auth/services/`, `auth/storage/auth_db.py`, `auth/security/` | account rows, session rows | register, authenticate, change_password, suspend, rotate, logout | several transactions per request, whole rows written back |
| Query API and agent pipeline | `api/main.py`, `agents/`, `guardrails/`, `hitl/`, `cache/redis_client.py` | response cache, review queue | process_query, ingest, delete, resolve ticket | answers cached across changes of the documents |
| Vector store | `storage/vector_store.py` | chunk list, chunk map, vectors, tokens, counts | add_chunks, delete_document, search | parallel structures without a lock |
| Retrieval engine | `retrieval/engine.py`, `search.py`, `fusion.py`, `rerank.py`, `context.py` | chunk table | add_chunk, retrieve_evidence | a store that changes between the two searches of a request; ranks, scores and a budget |
| Input security | `input_security/`, `auth/security/rate_limiter.py` | request times per caller | eight stages, is_ip_rate_limited | sums and thresholds across stages; sliding windows, one of them without a lock |
| Authorization | `auth/domain/permissions.py`, `auth/services/authorization_service.py` | none | evaluate_permission | callers without a context |
| Verification | `verification/` | none | verify_response | four thresholds over scores that depend on one another |
| Output governance | `output_governance/` | none | govern_response | the order of its passes, and what none of them looks at |
| Router and planner | `router/` | registry of capabilities | classify, create_execution_plan | fallbacks behind a permission filter |
| Guardrail layers | `guardrails/`, `security/rbac.py` | none | run_pre_execution, run_post_execution | scores and thresholds |
| Text-to-SQL | `text2sql/` | none | generate, validate, execute | failure paths |
| Organizations | `auth/services/organization_service.py` | organizations, workspaces, their members, invitations | create, invite, accept | read, check, write over three tables in one transaction |

How they interact. The API process is a FastAPI application: its endpoints are
plain functions, so each request runs on a thread of a pool and all components
above are shared by those threads. The cache manager calls the provider, the
semantic cache and single flight, each of which has its own lock: nothing is
atomic across two of them. The workflow engine calls the checkpointer and the
approval manager, again with one lock each. An auth service makes several
repository calls and each is a transaction of its own; `accept_invitation` is one
transaction of several statements. The retrieval engine, the planner, the
verifier and the governance engine each take the request the input pipeline has
enriched; no code under `src/` chains them. Everything but the auth
database lives in memory, so a restart starts from nothing and there is no
recovery to model.

What makes each component correct:

* **L1**: the index finds every entry a tag must purge; eviction takes the least
  recently used entry; the capacity holds.
* **Single flight**: one execution per key at a time; each caller gets the
  outcome of the execution its group waited for; nobody sleeps for ever.
* **Cache manager**: a result crosses tenants only under a key that `build_key`
  gave to both; after an event nothing older than the event is served, save
  through the one race the code leaves open.
* **Workflow engine**: no answer to a flagged query without an approval; what is
  on hold can be found in the queue; a finished workflow does not run on; a
  decision is carried out.
* **Vector store**: the parallel structures describe the same rows; a search
  beside a write does not mix rows or lose any; what is reported is kept.
* **Query pipeline**: nothing the guardrails refused is cached, nor what the
  validator refused, but for two of its reasons that no layer shares;
  a cached answer outlives the documents it cites by its TTL at most; a ticket is
  decided once and never lost.
* **Identity**: a suspension ends the account's use, a new password ends the
  sessions of the old one, a refresh token is good for one rotation, no
  request lifts a lock before the end that was stored for it.
* **Organizations**: an invitation admits one user, to both of its memberships or
  to none; its status and the audit trail say what happened; nobody is a member
  who was not let in.
* **Rate limits**: no window holds more than the limit, nobody is refused without
  cause.
* **Retrieval**: evidence is what the caller may see, is as new as the store, fits
  the budget, and its confidence is that of what was kept.
* **Input stages, planner, verifier, governance**: what each one's thresholds come
  to over all inputs, and to whom and to what each one's rule does not apply.

## 2. The modules

| module | models | kind |
|---|---|---|
| `SequenceFilters` | a list without some of its elements, and the running totals of a list | operators |
| `LRUCache` | `InMemoryLRUCacheProvider` | component |
| `LRURecency` | the same with a history of uses | history, for `EvictsLeastRecent` |
| `LRUCacheProofs` | | proofs, and the lemmas on `SequenceFilters` |
| `Coalescing` | what single flight promises: a call of a key joins a group, the group gets one outcome | abstract specification |
| `SingleFlight` | `SingleFlightLock.execute`, one action per critical section | component, implements `Coalescing` |
| `SingleFlightProofs` | | proofs, the refinement of `Coalescing` among them |
| `CacheManager` | `get_or_compute` and the system events, over `INSTANCE LRUCache` and `INSTANCE SingleFlight` | composition |
| `CacheManagerProofs` | | proofs, over instances of the two proof modules |
| `WorkflowGraph` | the nodes and routes of the LangGraph state machine, as operators | operators |
| `WorkflowEngine` | execute and resume by several threads, checkpoints, tickets | component |
| `WorkflowEngineProofs` | | proofs |
| `AuthSessions` | identity and token services over the repository | component |
| `AuthSessionsProofs` | | proofs, those about `RateLimits` among them |
| `VectorStore` | `HybridVectorStore` and the search engine that fills it | component |
| `VectorStoreUse` | the same with a record of overlaps and of what the API reported | history, properties |
| `VectorStoreProofs` | | proofs |
| `Guardrails` | the nine layers and the two halves of their pipeline | operators |
| `QueryService` | `process_query` with the answer cache, the agent nodes, the review queue, ingestion and deletion, over `Guardrails` | component |
| `QueryServiceProofs` | | proofs, those about `Answering` and `Retrieval` among them |
| `Organizations` | `OrganizationService`, `accept_invitation` statement by statement | component |
| `OrganizationsProofs` | | proofs |
| `RateLimits` | the two sliding windows, with a clock | component |
| `Retrieval` | the engine of `retrieval/engine.py` over its chunk table | component |
| `Permissions` | roles, permissions, security contexts | operators |
| `InputStages` | the stages of the input pipeline on one request | operators |
| `QueryPlanning` | classifier, decision engine, planner | operators |
| `Verification` | the verifier's scores and decision matrix | operators |
| `OutputGovernance` | schema, moderation, redaction, policy | operators |
| `Answering` | a request through these five | composition |
| `MC...` | constants for TLC | model checking |

### LRUCache

`order` is the `OrderedDict`'s key order, `entry` its values (value, whether the
entry expires, whether its ttl has passed, its tags), `tagIndex` is
`_tag_to_keys`. Every method holds the provider's lock from start to end, so
every method is one action. `get` has three: a hit moves the key to the recent
end, an expired entry is deleted, a miss changes nothing (it needs no action).
Time is abstracted to `Lapse`, which may pass the ttl of any entry that has one.

Eviction pops the oldest entry and calls `_cleanup_tag_mappings`, whose body is
empty although its comment says the work is done elsewhere: an evicted key stays
in the index until its tag is purged. The model does the same, so the index may
list keys that are not cached; what a purge needs is the other direction,
`IndexCoversTags`, and the membership test in `delete_by_tag`.

### SingleFlight and Coalescing

`calls` is the map `_calls`, `heap` the `SingleFlightCall` objects, `pc`, `key`
and `ref` a thread's place in `execute`, its key and the call it holds; `dead`
marks a leader whose `fn` raised something that is no `Exception`. The two
critical sections (`Lead`/`Join` and `Pop`) are one action each; `fn`, the
notification and the waking are actions of their own, so a thread can be
preempted after it has left the map and before it has set the event. There a new
caller of the key leads a new group while the old one still sleeps, the case the
refinement is about. `Coalescing` knows no call objects or events: threads join
a group and a group ends with a result, an exception or nothing. `SingleFlight`
implements it with the group of a thread read off its call object.

### CacheManager

A request stands for the arguments of a call; `KeyOf` is `build_key`, which
folds case, blanks and field order and joins its parts by a colon it does not
escape, so two requests may have one key, also of two tenants: nothing is assumed of
it. Only the tags of a purge are taken to name one source each. `stage` is
a thread's place in `get_or_compute`: lookup in L1, lookup in L2, single flight,
computation, the write to L1, the write to L2, the end of the flight. Between
any two the thread can be preempted. A result is the request it was computed for
and the version of the source it read. `Update` changes a source outside the
cache and raises its event; `PurgeL1` and `PurgeL2` are the two halves of the
handler. A purge of a user record stops after L1, as in the code. L2 compares
tenant, workspace and similarity only, and its entries never expire.

`late` and `owed` are history variables. `late[s]` holds the computations that
had read `s` before the event and had not stored when it purged; `owed[t]` is
the version a call must be served at least.

### WorkflowGraph and WorkflowEngine

Each node of `orchestration/nodes.py` is an operator from state to state and
each routing function one from state to node. What nodes only attach (rows,
documents, scores, the step history) is left out: no node reads it. A query is
known by its intent and by whether its words make `evaluation_node` flag it.
`retry_node` and its route are there although no state leads to them.

`checkpoints` and `tickets` are the stores of the checkpointer and the approval
manager. A thread executes or resumes a workflow, one action per call to either
and per graph node. `resume_workflow` works on a copy of the latest checkpoint,
ignores what `submit_decision` answers, and saves at the end. Operators only
know a workflow id that `execute_workflow` has returned (`Known`).

### AuthSessions

Each repository call is one transaction and one action; between two calls of a
method other requests run. `job` holds the method a thread is in: the next
repository call, and the account row it read first, which `update_user` writes
back whole. A session id stands for its refresh token. The end of a
lock is stored in local time without a zone and read as UTC: `Offsets` are the
differences of the two, and `AfterFailure` adds one of them. `suspended`, `changed`,
`raced` and `contested` are history variables: what was carried out, and which
requests were in flight at that moment with a row or a session of before.

### VectorStore and VectorStoreUse

`chunks`, `dense_vectors` and `tokenized_corpus` are the three parallel lists;
a vector and a token list are represented by the chunk they were made from, so
that a wrong pairing shows. A chunk has an id (document and position) and, if its
metadata has one, a `doc_id`; two chunks with one id are two texts of a document.
`frame` is the call a thread is in with its locals. The store has no lock. The
interpreter switches threads at calls and loop ends, so a step goes from one of
those to the next: `add_chunks` takes five steps a chunk and one for the count,
`delete_document` one per row, one for the three assignments, one for the count.
A deletion goes over the list object that `self.chunks` named when it began;
`list` keeps it once another deletion has replaced it. `search` fills an empty
store with the samples first, and so writes.

`VectorStoreUse` adds what the properties speak about: whether two writes have
ever overlapped (`clashed`), which writes a search overlapped, what was indexed
when it began, and which chunks the API has reported as indexed (`claims`).

### Guardrails and QueryService

A question is known by what the layers and the router tell apart in it. A layer
is an operator from the question, the statement, the chunks or the answer to a
verdict with a score; where a score is computed from words it is the set of the
extreme results, which is enough because the pipeline compares sums.
A statement has one of six kinds (`Statements`), by what the validator and layer 6,
which have lists of their own, find in it: only the validator refuses several
statements in one or none at all.

`frame` is a thread's request with the locals of `AgentState` that anything
reads later. Each agent node is an action, and so are the parts of the cache's
`get` before and after its call of `time.time()` and of `resolve_ticket` before
and after it: membership test and `pop` follow each other without a call in
between and are one step. A query refused before execution is answered at once,
flagged and without a ticket; one flagged after it gets a ticket and is answered
all the same, for the reply does not wait for an operator. `gone` counts the
time since a document was deleted, `late` marks the documents of a cached answer
that were gone before it was stored, and `issued` keeps the tickets drawn. Redis
is left out: the cache is the in-process one. `VectorStore` is about how the
index is kept; here ingestion, deletion and search are one step each, and a
search may raise.

### Organizations

Each variable is a table of `auth_db.py`, read as a function from its key to the
column that matters (`org_members[<<o, u>>]` is a role or `None`). Creating an
organization with its owner and first workspace is one commit and one action.
`accept_invitation` reads the invitation, the membership and the workspace
membership before it writes, and other transactions commit in between, so each
statement is an action. The session flushes what it has added before its next
query: the INSERT of the membership is sent by `find_workspace_membership` if the
invitation names a workspace, else by `commit`. From then on (`Inserted`) an
INSERT of the same key by another transaction waits (`Waits`) and, once the first
has committed, violates the key and rolls the call back (`SeatTaken`,
`DeskTaken`). `log_event` is a transaction after the commit. `founder`, `maker`,
`admitted` and `contested` are history: who created what, whom an invitation let
in, and which invitations two calls had found pending at once.

### RateLimits

`velocity` is `_user_velocity` of stage 4, `ip_attempts` `_ip_attempts` of the
login limiter. The stage runs on the event loop without an `await`, so a request
is one step. The login limiter runs on the threads of the pool: taking the time,
reading the list and storing it back are three steps, and one thread may store
over what another has stored. `requests` and `logins` record who passed when.

### Retrieval

`chunks` is `_chunks` in the order of its keys. The two searches hold the lock
each for itself, so a request is two actions, `search_dense` and `search_sparse`,
and `add_chunk` may run between them; fusion, re-ranking and packaging are local
and belong to the second. A text is known by what the scorers find in it, and its
`Content` is the part without the title, by which repeats are told. Scores
are integers, fine enough that ranks fuse in the code's order and round to the
code's digits; where they tie, the order is that of the code's stable sorts.
`outdated` is history: the ids replaced while the request ran.

### Permissions to Answering

The other engines keep no state but the registry. `InputStages` tells a request by what the stages
look for in it, and by how it is written: as the patterns expect it, disguised by what stage 5 takes out,
or cut by what it leaves. It gives each stage's verdict; `Enriched` and `HandedOn` are what the pipeline
hands on and `Cleared` whether it does. `QueryPlanning` tells a query by how many
keywords of each list it matches, and plans with any registry of `Registries`, since
capabilities can be registered, replaced and switched off. `Verification` computes the scores in hundredths
from the number of claims, of ungrounded ones and of numbers the evidence lacks.
`OutputGovernance` tells a narrative by its size and by what it and its citations
hold: the prompt, the three kinds of secrets that are redacted, and two that are not.
A caller has a context that was built of a token, one made by hand (`GivenContexts`), or
none. `Answering` has one action per
engine, on any request the pipeline clears and any input of the engine, and `GoOn` for
the caller, who lets the request go or makes another call with it.

## 3. The runs

| run | instance | distinct states | properties |
|---|---|---|---|
| `LRUCache` | 3 keys, 2 tags, capacity 2 | 44 thousand | `IndexCoversTags PurgeComplete EvictsLeastRecent` |
| `SingleFlight` | 3 threads, 2 keys, fair | 246 thousand | `NoOrphanCall Coalesces EveryCallReturns` |
| `CacheManager` | 2 threads, 3 requests, 2 of them of 2 tenants under one key, a document and a user record, L1 of 1, L2 of 1 | 6.3 million | `ScopeIsolation StaleOnlyByLateWrite RepliesKeepUp` |
| `WorkflowEngine` | 2 threads, a plain and a sensitive query, valid and invalid decisions, fair | 101 thousand | `HeldUnderTicket AnswersAreApproved NeverReopened DecisionTakesEffect` |
| `AuthSessions` | 2 threads, 1 account, 2 passwords, 3 sessions, lock of 2 ticks at the first failure, local time one tick behind UTC | 3.1 million | `SuspensionHolds PasswordChangeHolds RotatesOnce LockHolds` |
| `VectorStore` | 2 threads, a sample, a document of 2 chunks, a new text of it | 3.8 million | `RowsAgree FailsOnlyByOverlap SearchesSoundly KeepsWhatItReports` |
| `QueryService` | 2 threads, 3 questions, two of them with a statement the validator refuses, a sample and a document, 2 tickets, TTL of 2 ticks | 215 thousand | `CleanIsConfident RefusedNotCached StaleAnswersEnd TicketsKept` |
| `Organizations` | 2 threads, 2 users, 1 organization, 2 workspaces, 2 invitations, fair | 616 thousand | `AdmitsOne StatusTells MembershipsAreGranted AuditIsTrue AcceptEnds` |
| `RateLimits` | 1 caller, 2 threads, limits of 2 and 1 in a window of 2, a clock of 4, 4 calls each | 1.9 million | `AtMostLimit RefusedForCause` |
| `Retrieval` | 4 texts, two with one content, 4 ids, 2 scopes, 2 seeded chunks and 3 more, top 3, budget of 5 | 267 thousand | `OnlyVisible EvidenceFits ConfidenceOfEvidence NewestFound` |
| `Answering` | every kind of request and caller, 3 registries with up to 3 capabilities off, answers of up to 5 claims and 3 numbers, every narrative | 528 thousand | `ClearedIsClean PlanHolds VerdictFitsClaims ReleasedIsClean` |
| `AuthSuspendRace` | 2 threads, 3 sessions | | `SuspendedForGood`, violated |

The type invariant of a module is checked as the first conjunct of one of its
invariants (`ScopeIsolation`, `HeldUnderTicket`, `RotatesOnce`, `RowsAgree`,
`AtMostLimit`, `EvidenceFits`, `ClearedIsClean`), or it is a theorem
(`SingleFlight`, `QueryService`, `Organizations`). The provider's is part of
`CacheManager`'s, which holds the provider as its L1.

What the passing runs show:

* `LRUCache`: however entries are overwritten under other tags, expire, are
  evicted and re-added, a purge by tag removes every entry with the tag, and
  eviction follows the order of use. It may remove more: a key that was evicted
  and stored again without the tag is still listed under it.
* `SingleFlight`: at most one thread executes `fn` for a key although leaders
  leave the map before their waiters wake; every group gets the outcome of its
  own execution; every caller returns, also when `fn` dies.
* `CacheManager`: a reply crosses tenants only to a caller whose key is the
  other's, never through L2, which compares the tenants themselves, nor from L2 into
  L1. Both tiers are fresh
  once events are handled, except for a computation that read its source before
  the event and stored after the purge; and a call that starts when nothing
  older is in the system is never served anything older.
* `WorkflowEngine`: an answer to a flagged query has an approval behind it and
  was on hold under the same ticket, whatever strings and races the operators
  produce. A workflow on hold is in the queue, and a finished one does not leave
  the finished states, unless a resume was given a string that is no verdict: the one call
  that the manager refuses and the engine carries out. Which finished state it is in
  may change: of two operators who race, one rejecting and one approving, the later
  save stands.
* `AuthSessions`: the read-modify-write of whole rows breaks suspension,
  password change, single rotation and lockout only where two requests really
  overlap, and the history variables say which overlap that is. A lock
  ends when UTC reaches the local time that was stored, here a tick early.

* `VectorStore`: while writes do not overlap, the lists, the map and the count
  stay in step at every step of a write, and whatever the API reported is kept
  until deleted, by id. A search beside an ingestion never mixes rows and misses
  nothing that was indexed before, though it may raise; beside a deletion it may
  mix rows, so the properties leave that out. Samples come back when a search
  finds the store empty.

* `QueryService`: every answer that passes all layers has an average above 0.8, so
  a low average is never the only reason for a review and no answer falls between
  the two thresholds. A refused statement is answered by a row with the reason,
  and only layer 6 keeps that answer out of the cache. It does so where the validator
  found a denied word or another beginning than SELECT or WITH, and not for several
  statements in one, or a semicolon in front, which it does not look for, or none, for which it is not asked:
  those answers are cached. A deletion
  leaves the cache alone, and what that means for replies is bounded by the TTL,
  but for requests that had already found the document. Every ticket is in
  exactly one place and is logged once.

* `Organizations`: an invitation admits one user unless two calls had it in hand at
  once, and then both come in; whoever comes in gets both memberships, whatever the
  flushes, waits and rollbacks do; PENDING means nobody came in, ACCEPTED somebody,
  EXPIRED nobody but for an acceptance that overlapped the discovery; the audit
  trail lacks only acceptances on their way to it; and a call that waits for
  another's INSERT ends.

* `RateLimits`: the limit of requests holds in every window of time, the limit of
  logins in every window of a caller whose logins were not checked at once, and
  whoever is refused has asked that often.

* `Retrieval`: a request gets what its scope may see and what the store holds at its
  second search, but for a chunk replaced meanwhile by one that search does not
  find. The evidence fits the budget and holds no content twice, also not under
  two titles. The confidence is the average of what is kept; a repeated content among
  the first candidates can only raise it.

* `Answering`: no phrase of the rules passes in a form that stage 5 makes readable,
  although stage 6 lets three of the
  eight through, because stage 8 stops what remains; one cut by a character that
  stage 5 leaves passes. So the risk of a cleared request is 0 or 40, two of the four trust
  levels are ever given, and no human is asked for the risk alone. A guarded path is
  reached by those who may take it and by everybody without a context. A plan uses what
  is switched on and permitted, on every
  route. The verifier approves with at most one ungrounded claim, regenerates for
  exactly one, never turns down what is grounded throughout, and never approves an
  answer to a sensitive question. Of a narrative that is released, API keys, social
  security numbers and e-mail addresses are shown to holders of `security:admin` only,
  who are owners if the context was built of a token. Everybody is shown the
  citations as they are and what no pattern is applied to.

What the violated one shows, with the line it disagrees with in `PROJECT.json`: a
login in progress undoes a suspension.

Bounds. `MaxVersion` (a source changes once) is enough for a result to be stale;
`CallIds` covers one call object per thread, and a call object nobody refers to
is reused. `TicketLeft` and `SessionLeft` let a method that may draw an id start
only if one is left for it, so no method ever finds the ids used up half-way.
`MaxFailures` bounds the failures of an account and `MaxClock` the ticks that
pass, as many as the stored end of a lock is ahead; with a local time ahead of UTC
the lock would outlast the clock, and with one further behind there would be none; time passes only while an account is locked, since nothing
else looks at it. Capacities of 1 and 2 make eviction frequent, and updates of the cached sources
end when one of them has had `MaxVersion`. Two threads are
what every race of a pair of requests needs; single flight gets three, for a
leader, a waiter and a newcomer. Symmetry is used for safety only.

In `QueryService` a query starts only while a ticket is left for each query under
way (`TicketsLeft`); two tickets let two operators race, two ticks are one more
than an entry needs to be stale before it ends. A run with a fourth question, on
policies alone, did not finish in the time a run has.

In `Organizations` two invitations let one user accept both or two users accept
one, each with a workspace or without; a third call would only repeat a race of
two. `MaxTime` of `RateLimits` is twice the window, so an entry leaves it and
another window opens; `MaxAsked` is one more than a window needs to refuse
more than once. In `Retrieval` three added chunks replace both seeded ones and add one;
`TopK` is less than the number of chunks, so the lists are cut. The bounds of
`Answering` are where its sums saturate: two ungrounded claims or numbers already
weigh what the caps allow or decide the verdict, further grounded claims only raise
a share, and two hits of a list decide what more hits decide. Three capabilities off leave each
route without its first choice; the registries are the default one, one with a
capability that needs no permission, and one where such a capability replaced the
vector retriever.

Fairness. `SingleFlight` assumes that a thread inside `execute` keeps running
and that `fn` ends: `fn` is the caller's own computation and the lock promises
nothing about one that hangs. `WorkflowEngine` assumes that a thread inside an
engine method keeps running. `Organizations` assumes that the database answers
every statement of a call it can answer: a waiting INSERT is answered when the
transaction it waits for has ended. Nothing obliges anyone to call a method.

`VectorStore` explores up to the first overlap of two writes (`BeforeClash`):
after it the lists may differ for good and nothing is claimed, which is why each
property names the overlap it excludes. Until then the ids bound the number of
rows.

Deadlock is checked in every run but `RateLimits`, where clock and calls are
bounded and the system stops at the bounds.

## 4. The proofs

Eight modules hold theorems that TLAPS checks for all values of the constants
the `ASSUME`s allow. Of the 40 properties of the passing runs, 37 are theorems: all but
the three liveness properties. `RateLimits` is the login limit that stands before the sessions,
`Retrieval` and `Answering` are what stands around an answer, and their proofs stand
behind those of the component they serve, in a module that extends both; so the names
of the three modules are their own (`LimitsSpec`, `RetrievalSpec`, `AnsweringSpec`).

### LRUCacheProofs: `TypeCorrect`, `IndexCoverage`, `PurgeIsComplete`, `EvictsTheOldest`

`Ordered` says that `order` lists the cached keys, each once, at most `Capacity`
of them. It is inductive once it is known what `Without` returns, a sequence
filtered by recursion: `WithoutIs`, by induction on how much of the sequence has
been filtered. The prover cannot instantiate the library's induction theorem, whose
predicate is an operator; the lemma `Induct` gets the principle, for a set of
numbers, from the minimum principle `WFMin`. `Without` is a recursive function for that reason, and
`RecursionSolved` exhibits a solution of its recursion, without which a `CHOOSE`
says nothing. `PurgeComplete` is an action property: without `IndexCoversTags`
before the step nothing follows about the keys the index does not list.

`EvictsLeastRecent` needs one conjunct more, `Remembers`: `order` is what the log
of all uses leaves of the cached keys. That each operation preserves it is the
algebra of `Without`: dropping two sets in turn drops their union
(`WithoutTwice`), and what is appended stays unless it is dropped (`WithoutAppend`).

Two recursions carry the sums and filters of the other modules, those of
`SequenceFilters`: `Without`, whose result is also counted (`WithoutCounts`), and
`Running`, the running totals (`RunningIs`, from a solution of its recursion,
`SummingSolved`). Together with `Induct` and the minimum of a set of numbers,
`LeastOf`, they are proved here and used elsewhere through an instance, `Seqs`.

### SingleFlightProofs: `TypeCorrect`, `OneExecution`, `NoOrphans`, `Implements`

The inductive invariant says that a thread that leads holds the call registered
for its key from `Lead` to `Pop`, that call objects in use are not reused, and
that an unfinished call has exactly one leader on its way to `Notify`.
`Implements` is the refinement, `Spec => Coalesces`: the initial states map to
initial states and each action to an action of `Coalescing` or a stutter.

### CacheManagerProofs: `FlightRefined`, `ProviderRefined`, `Isolation`, `OnlyLateWrites`, `NeverFallsBehind`

Four layers, each an inductive invariant that may use those below it.

1. `Placed` and `Events`: where a thread is in `get_or_compute` tells where it is in
   single flight, and the events under way are those the purges count.
2. The manager uses both of its parts as they specify (`Spec => SF!Spec`,
   `Spec => L1!Spec`): every step is a step of the part or leaves it alone. By
   instances of the two other proof modules, all their theorems hold here; `Base`
   collects what is needed of them.
3. `Contents`: an entry stands under the key of a request with the same key as its
   own, a call's result is for a request of its key, and nothing is newer than its source.
   `ScopeIsolation` follows: L1 and single flight give what has the caller's key, L2
   what has the caller's scope, and nothing goes from L2 to L1.
4. `Purges` and `Floors`. A tier holds nothing stale of a source whose event it has
   purged, but for the computations that event found under way. `Floors` follows the
   version a caller is owed through every place its result can come from: both
   tiers, the call it has joined, and the computations that could still store.

That there is a best one among the similar L2 entries is the minimum principle once
more (`Least`, `BestIs`).

### WorkflowEngineProofs: `TypeCorrect`, `Approved`, `OnHoldUnderTicket`, `StaysClosed`

`AnswersAreApproved` and `HeldUnderTicket` are statements about checkpoints at rest;
what makes them inductive is about calls under way. `Alone`: `execute_workflow` has
its workflow to itself. `OneOwner`: a ticket belongs to one workflow, in a checkpoint
or in a call's hands. `KeepsTicket`: a resume with a verdict works on a state that was put
on hold under that ticket, so the answer it saves keeps the approval. `Held`: a
workflow on hold is still being executed, or its ticket is pending, or some call has
submitted a verdict and has yet to save. What a node hands on is a lemma per node.

### AuthSessionsProofs: `TypeCorrect`, `SuspensionStands`, `PasswordStands`, `OneRotation`, `LockStands`

The history variables say which requests a suspension, a change of password or a
lock met in flight. The invariant says what the remaining ones hold in hand: `Seals`
and `ShutOut` that every row about to be written back is suspended and no login is
about to store a session; `PasswordKept` and `PasswordUsed` the same for the
password; `Lasts` that a row about to be written keeps the lock, for any `LockoutDuration` and
`Offsets`. `Once` says that a
rotation that is going to store a session has revoked the old one and is alone
with it. A row is written back whole, so all of this is about the rows in hand as
much as about the table.

### AuthSessionsProofs, rate limits: `RateLimited`, `OnlyWithCause`

For any callers, workers, limits and window. A stored list is not the history: it
has been filtered at every call, each time as of that call's clock. `Left` says that
it is what one moment has left of the whole history, and since the entries are in
the order of their times and no window begins earlier than the last one did, filtering
it again gives exactly the calls of the new window (`WithoutTwice`). So a call is let
through if and only if its window holds no more than the limit (`Judged`). No window
then holds more that passed: of the calls of a window take the last one that passed,
whose own window holds all the others. For logins this holds as long as a caller had
one in hand at a time (`LoginsFit`); when they overlap, a thread stores over what
another has stored, and what remains is `NoneInvented`: no list holds more times than
logins have happened, so whoever is refused has asked that often all the same.

### QueryServiceProofs: `TypeCorrect`, `Tickets`, `Confident`, `NoRefusedAnswer`, `StaleEnds`

`TicketsKept` counts; the invariant `QInv` says it without counting: every issued
ticket is on the queue, with a thread or in the log (`Somewhere`), never at two of
them (`PendingApart`, `HolderApart`), and once in the log (`LoggedOnce`).
`FramesFit`, what a thread holds at each place of a call, makes the types inductive.

`CleanReplies` is the invariant of the cache: a reply that is not flagged is
confident and its query was refused by nobody, but for the two kinds of statements
that layer 6 passes. Its core is a fact about
`run_post_execution`: the average is a fold over the scores of nine layers, and the
proof unfolds that fold score by score and bounds the sum, for any question,
statement and document. `StaleAnswersEnd` needs that what is indexed has not been
gone (`Present`).

### QueryServiceProofs, retrieval: `GivesOnlyVisible`, `EvidenceIsCited`, `ConfidenceIsEarned`, `FindsNewest`

For any chunks, scores, budget and any `TopK` up to 20, and any chunks added between
the two searches. `EvidenceInv` says of the dense result in hand that all of it is
visible and is in the store or noted as replaced (`JobFits`), and of a package that
its candidates are sorted, score between 50 and 7131, and its chunks and citations are
those of the kept places in their order (`PackageFits`). It rests on what each list
operation returns. `ByScore` picks the element of each place: that the places are a
permutation is counting and the pigeonhole principle (`PlaceIs`). `Fuse` hands on a
chunk as the sparse search found it, or as the dense one did where only that found it
(`FuseIs`); re-ranked scores are bounded by bounds on the rounded sums (`RerankIs`). Kept places increase and are within the budget, since the kept
ones are distinct and their tokens are at most those of the running total. The
confidence is the rounded average of as many of the first candidates as are kept, which
in a descending list is at least the average of the kept ones (`SumsCompare`), and is
never rounded to 0: that needs the lower bound of 50, and so the bound on `TopK`.

### QueryServiceProofs, answering: `HandsOnClean`, `PlansHold`, `VerdictsFit`, `ReleasesClean`

For any number of claims and numbers in an answer, any registries, any number of
capabilities switched off and any contexts made by hand.
`AnswerInv` adds to the four properties that the request in hand stays as clean as
the pipeline left it (`CleanRequest`), also after the call that received it; of the
text handed on `CleanText` says what of phrase and personal data is left in it. What the
verifier's thresholds come to follows from bounds on its rounded scores: a quotient
by an unknown number of claims, which the prover does not reason about, is bounded by
products (`DivIs` and the lemmas after it). The plan's latency is a recursive function
local to the property, so its solution is exhibited first, as with `Without`; then each
route through intents and strategies gives a chain of stages with that latency
(`ChainPlan`) or a single one (`SinglePlan`).

### VectorStoreProofs: `ListsAgree`, `NoIdleFailure`, `SoundSearches`, `ReportsHold`

All four say something of the time before two writes overlap, and the store has
no lock. So at most one thread writes (`Solo`), and the invariant follows it:
`Rows` says at each step of `add_chunks` and `delete_document` by how many rows
each list is behind, what the map has and lacks and what the count is. A write at
step n is why the lists differ, so the properties, about rest or about common
rows, are consequences. `Searches` says the same of a search in hand: which rows its
result has, given what it knew when it began and which writes it met. `Claims` says
by how much the reports are ahead of or behind the lists while a write lasts.

### OrganizationsProofs: `TypeCorrect`, `AdmitsOneUser`, `StatusIsTold`, `AuditTrail`, `MembershipsGranted`

`TInv` adds to the types that a call in hand has a row and that a row keeps what
it offers (`Offers`). `StatusInv` says what three of the properties rest on: two calls
have an invitation in hand only if it is contested (`OneHand`), one that is in
hand and not contested is still pending (`StillPending`), what is pending has let
nobody in. `SeatsInv` says that a membership a call has found stays, that founders
and makers keep theirs and that every other one is granted: memberships are never
deleted or changed, so a look-up before the commit still holds at the commit.
`AdmitsOne` fails without `OneHand`: that the status was PENDING when it was read
says nothing of the moment of the commit.

### Assumptions

Each is an `ASSUME` of the module that declares the constants, evaluated by TLC in
its run: capacities, clocks and bounds are numbers; markers such as `None`, `NoEntry`
and `Error` are none of the values they stand beside (`NoneAssumption`,
`NoEntryAssumption`, `MarkersDistinct`); every request has a key, a scope and a source
(`RequestAssumption`; nothing is assumed of requests with one key); a lock's length is a
number and the offsets are integers (`AuthAssumption`); the
samples have ids of their own, since `add_chunks` skips an id it knows
(`StoreAssumption`). `RateAssumption`: the limits are numbers and the window is not
empty. `VerificationAssumption`: `MaxLines` and `MaxNumbers` are any numbers.
`PlanningAssumption`: a registry is a list of capabilities, none slower than `Slowest`.
`AnsweringAssumption`: a context made by hand has a status, permissions and no role.
`RetrievalAssumption`: `TopK` is at most 20, where the code has 10. A chunk behind rank
20 of one search, with no word of the query in it, has a confidence that rounds to 0,
and `retrieval/context.py:74` would report 0.85 instead.

### What is model-checked only

* Liveness under fairness, out of the prover's reach: `EveryCallReturns`,
  `DecisionTakesEffect`, `AcceptEnds`.

What each model takes from outside, the verdicts of regular expressions and the scores
of texts, is a parameter or a quantified input: the theorems hold for all of them.

## 5. Plan

The components of section 1 are modelled and their safety is proved. Left are
password reset and e-mail verification, which share the transactions of a password
change and of `update_user`; a run of `RateLimits` with two callers, whose tables do not
meet (the theorem has any number); and the liveness properties, once the provers
handle fairness.

## 6. Where the documents say otherwise

Beside the violated run, and seen while modelling:

* `PROJECT_GUIDE.md:169` has a flagged query's execution held until an operator
  decides. `process_query` returns the flagged answer with the ticket's number,
  and a query refused before execution gets no ticket.
* The same line announces a ticket for a sensitive data operation. The validator
  asks for an approval of statements about salaries (`text2sql/validator.py:79`),
  and nobody reads the answer.
* `PROJECT_GUIDE.md:74` has one of many identical queries executed while the
  others wait. `cache/manager.py` does not look at the tiers again inside single
  flight: a caller that missed before the leader stored and enters after it left
  computes again. What does hold is `OneExecutionPerKey`, one at a time
  (a theorem).
* `resume_workflow` ignores what `submit_decision` answers
  (`orchestration/engine.py:116`): the ticket can say one thing and the workflow
  another. `AnswersAreApproved` says what holds all the same.
* `calculate_lockout` counts the current failure once more than
  `authenticate_user` has (`auth/security/rate_limiter.py:42`): the lock comes one
  failure before `MAX_FAILED_ATTEMPTS`.
* `add_chunks` skips ids it knows (`storage/vector_store.py:62`), so a new text of an
  indexed `doc_id` is reported as indexed and not stored.
* `accept_invitation` reads PENDING and writes ACCEPTED without holding the row: two
  calls at once both admit their user (`AdmitsOne` excepts exactly these).

Seen in the newer modules:

* The input pipeline is run by its middleware, which `api/main.py` does not
  install, and by tests. Likewise only
  tests chain retrieval, planner, verifier and governance.
* `PUBLIC_EXEMPT_PATHS` contains `/`, a prefix of every path, so stage 2 never asks
  for a token and stage 3 decides only for a context the container came with.
* `/api/v1/auth/invitations/accept` starts with the path of `PATH_PERMISSION_MAP`
  that needs `org:manage_members`.
* `hr:admin`, which the redaction asks for, is no member of `Permission`; the plan of
  a caller without a context is empty as long as only the default capabilities are
  registered, each of which needs a permission.
* `PROJECT_GUIDE.md:144` has layer 9 redact passwords, card numbers and internal
  addresses of an output. The governance engine's redaction has three kinds and a
  pattern for telephone numbers that it does not apply
  (`output_governance/redaction.py:13`), and it passes citations on as they are
  (`output_governance/engine.py:63`).
* Stage 5 takes out five hidden characters; others, such as U+2060, stay, and what
  they cut is not seen by stages 6 and 7.
* The planner and the verifier ask a human for a risk above 40, which no cleared
  request has.
* The validator refuses several statements in one and empty ones
  (`text2sql/validator.py:38`, `text2sql/validator.py:65`); layer 6 lets the first pass and is not asked
  about the second (`guardrails/pipeline.py:167`).
* The HyDE expansion is computed and no search uses it. The fallback confidence of
  0.85 is for an average that rounds to 0, which no candidate list yields.
* Of the verifier's decision matrix the last REJECT is never reached; an answer
  without claims counts as grounded; APPROVE_WITH_WARNING between 0.65 and 0.70 is
  not acceptable to `is_acceptable_quality`. WARN_AND_ALLOW is produced nowhere.

## 7. Not modelled

* Regular expressions, text scores and embeddings: the models take the verdicts
  they lead to as inputs. Password hashing and the encoding of tokens likewise.
* Citation coverage and the metadata of the verifier and the governance engine:
  they enter no decision.
* Requests without query text, for which the cache manager skips L2: fewer steps of
  the same path.
* Effects without a property: an L2 entry outlives the TTL of its L1 twin
  (`cache/engines/semantic_cache.py:97`); a computed None reads as a miss
  (`cache/manager.py:54`); a `get` takes the time before it deletes an expired entry
  and answers with status 500 if another has (`cache/redis_client.py:57`, modelled
  by `DropExpired`); the retry route of the graph is dead
  (`orchestration/graph.py:41`); two documents ingested in one second
  without an id get one name (`api/main.py:235`); ties of fused scores keep the order
  of the dense list (`retrieval/fusion.py:42`).
* Statistics, telemetry, audit rows and traces: written, never read by the
  control flow.
* `RedisCacheProvider`: nothing builds one.
* How a statement is made of the words of a question (`text2sql/generator.py`,
  `schema.py`): `QueryService` takes the statement's kind as an input.
* The document processor, the database connector and the explainability tracer: text
  splitting, I/O, append-only records.
* Frontend, deployment, scripts, demo data.
* Restarts: nothing but the auth database outlives the process, and its
  transactions are atomic.
