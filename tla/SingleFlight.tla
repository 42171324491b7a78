---------------------------- MODULE SingleFlight ----------------------------
(***************************************************************************)
(* SingleFlightLock.execute of cache/engines/single_flight.py, run by any  *)
(* number of threads.  A step is what a thread does under the lock, or     *)
(* between two points where another thread can observe it.                 *)
(*                                                                         *)
(* Call objects live on a heap.  An id is free again once no thread and no *)
(* key refers to it, as Python reclaims the object, so executions are not  *)
(* counted and nothing bounds them.                                        *)
(***************************************************************************)
CONSTANTS Threads, Keys,
          CallIds,  \* identities of SingleFlightCall objects
          Results,  \* what fn may return
          Errors,   \* the Exceptions fn may raise
          NoCall,   \* a key that is not in _calls, a thread with no call
          NoKey,    \* a thread outside execute has no argument
          NoError,  \* call.exception is None
          None      \* call.result before it is assigned

VARIABLES calls, \* _calls
          heap,  \* heap[c]: the fields of call object c
          pc,    \* where each thread is in execute
          key,   \* its argument
          ref,   \* its local variable call
          dead   \* the leader is unwinding a BaseException

flightVars == <<calls, heap, pc, key, ref, dead>>

ASSUME ConstantsDistinct ==
    /\ NoCall \notin CallIds
    /\ NoError \notin Errors
    /\ NoKey \notin Keys

CallObjects == [event : BOOLEAN, result : Results \cup {None},
                exception : Errors \cup {NoError}]
NewCall == [event |-> FALSE, result |-> None, exception |-> NoError]

TypeOK ==
    /\ calls \in [Keys -> CallIds \cup {NoCall}]
    /\ heap \in [CallIds -> CallObjects]
    /\ pc \in [Threads -> {"away", "wait", "run", "pop", "notify"}]
    /\ key \in [Threads -> Keys \cup {NoKey}]
    /\ ref \in [Threads -> CallIds \cup {NoCall}]
    /\ dead \in [Threads -> BOOLEAN]

Init ==
    /\ calls = [k \in Keys |-> NoCall]
    /\ heap = [c \in CallIds |-> NewCall]
    /\ pc = [t \in Threads |-> "away"]
    /\ key = [t \in Threads |-> NoKey]
    /\ ref = [t \in Threads |-> NoCall]
    /\ dead = [t \in Threads |-> FALSE]

-----------------------------------------------------------------------------
Free(c) ==
    /\ \A k \in Keys : calls[k] # c
    /\ \A t \in Threads : ref[t] # c

\* execute returns or raises, and its local variables are gone.
Leave(t) ==
    /\ pc' = [pc EXCEPT ![t] = "away"]
    /\ key' = [key EXCEPT ![t] = NoKey]
    /\ ref' = [ref EXCEPT ![t] = NoCall]

\* A new call object is registered for k, and t is its leader.
Register(t, k) ==
    /\ \E c \in {d \in CallIds : Free(d)} :
          /\ calls' = [calls EXCEPT ![k] = c]
          /\ heap' = [heap EXCEPT ![c] = NewCall]
          /\ ref' = [ref EXCEPT ![t] = c]
    /\ pc' = [pc EXCEPT ![t] = "run"]
    /\ key' = [key EXCEPT ![t] = k]
    /\ UNCHANGED dead

\* The first critical section, no call registered for k: become the leader.
Lead(t, k) ==
    /\ pc[t] = "away"
    /\ calls[k] = NoCall
    /\ Register(t, k)

\* The first critical section, a call registered for k: keep a reference to it.
Join(t, k) ==
    /\ pc[t] = "away"
    /\ calls[k] # NoCall
    /\ ref' = [ref EXCEPT ![t] = calls[k]]
    /\ pc' = [pc EXCEPT ![t] = "wait"]
    /\ key' = [key EXCEPT ![t] = k]
    /\ UNCHANGED <<calls, heap, dead>>

\* call.result = fn()
FnReturns(t, r) ==
    /\ pc[t] = "run"
    /\ heap' = [heap EXCEPT ![ref[t]].result = r]
    /\ pc' = [pc EXCEPT ![t] = "pop"]
    /\ UNCHANGED <<calls, key, ref, dead>>

\* fn raises an Exception, which the leader stores.
FnRaises(t, e) ==
    /\ pc[t] = "run"
    /\ heap' = [heap EXCEPT ![ref[t]].exception = e]
    /\ pc' = [pc EXCEPT ![t] = "pop"]
    /\ UNCHANGED <<calls, key, ref, dead>>

\* fn raises a BaseException, which only the finally clause sees.
FnDies(t) ==
    /\ pc[t] = "run"
    /\ dead' = [dead EXCEPT ![t] = TRUE]
    /\ pc' = [pc EXCEPT ![t] = "pop"]
    /\ UNCHANGED <<calls, heap, key, ref>>

\* Mutant of Pop: no finally clause, so only a success pops the key.
PopOnSuccess(t) ==
    /\ pc[t] = "pop"
    /\ calls' = IF heap[ref[t]].exception = NoError
                THEN [calls EXCEPT ![key[t]] = NoCall] ELSE calls
    /\ pc' = [pc EXCEPT ![t] = "notify"]
    /\ UNCHANGED <<heap, key, ref, dead>>

\* The second critical section: whatever happened, the key is free again.
Pop(t) ==
    /\ pc[t] = "pop"
    /\ calls' = [calls EXCEPT ![key[t]] = NoCall]
    /\ pc' = [pc EXCEPT ![t] = "notify"]
    /\ UNCHANGED <<heap, key, ref, dead>>

\* Mutant of Notify: forgets the event.
NotifyNobody(t) ==
    /\ pc[t] = "notify"
    /\ dead' = [dead EXCEPT ![t] = FALSE]
    /\ Leave(t)
    /\ UNCHANGED <<calls, heap>>

\* call.event.set(), then the leader leaves with its outcome.
Notify(t) ==
    /\ pc[t] = "notify"
    /\ heap' = [heap EXCEPT ![ref[t]].event = TRUE]
    /\ dead' = [dead EXCEPT ![t] = FALSE]
    /\ Leave(t)
    /\ UNCHANGED calls

\* call.event.wait() returns and the contender leaves with the call's outcome.
Wake(t) ==
    /\ pc[t] = "wait"
    /\ heap[ref[t]].event
    /\ Leave(t)
    /\ UNCHANGED <<calls, heap, dead>>

\* Mutant of Outcome: does not look at call.exception.
OutcomeIgnoresException(c) == [kind |-> "return", is |-> heap[c].result]

\* What execute's last lines return or raise, given the call object.
Outcome(c) ==
    IF heap[c].exception # NoError
    THEN [kind |-> "raise", is |-> heap[c].exception]
    ELSE [kind |-> "return", is |-> heap[c].result]

Execute(t) ==
    \/ \E k \in Keys : Lead(t, k) \/ Join(t, k)
    \/ \E r \in Results : FnReturns(t, r)
    \/ \E e \in Errors : FnRaises(t, e)
    \/ FnDies(t)
    \/ Pop(t)
    \/ Notify(t)
    \/ Wake(t)

Next == \E t \in Threads : Execute(t)

Spec == Init /\ [][Next]_flightVars

\* A thread inside execute is scheduled, and fn ends.
Proceed(t) == pc[t] # "away" /\ Execute(t)

FairSpec == Spec /\ \A t \in Threads : WF_flightVars(Proceed(t))

-----------------------------------------------------------------------------
Leading(t) == pc[t] \in {"run", "pop"}

\* fn is never in progress twice for one key, and whoever runs it is the one
\* that registered the call later callers find.
OneExecutionPerKey ==
    \A t, u \in Threads :
       Leading(t) /\ Leading(u) /\ key[t] = key[u] => t = u

\* No call is left behind: a registered call has a leader still to pop it, and
\* a contender that would sleep has a leader still to wake it, even when fn
\* raised or died.
NoOrphanCall ==
    /\ \A k \in Keys : calls[k] # NoCall =>
          \E t \in Threads : Leading(t) /\ key[t] = k /\ ref[t] = calls[k]
    /\ \A t \in Threads : pc[t] = "wait" /\ ~heap[ref[t]].event =>
          \E u \in Threads : pc[u] \in {"run", "pop", "notify"} /\ ref[u] = ref[t]

\* Every caller gets out of execute, provided that fn ends: a contender sleeps
\* without a timeout, so it depends on a leader that always sets the event.
EveryCallReturns == \A t \in Threads : pc[t] # "away" ~> pc[t] = "away"

-----------------------------------------------------------------------------
\* Coalescing's view: a group is the threads that hold the registered call, an
\* answer is fixed when the leader pops the call.
Group(k) ==
    IF calls[k] = NoCall THEN {}
    ELSE {t \in Threads : ref[t] = calls[k]}

Mark(kind) == [kind |-> kind, is |-> None]

Answer(t) ==
    IF pc[t] = "away" THEN Mark("away")
    ELSE IF calls[key[t]] = ref[t] THEN Mark("pending")
    ELSE IF dead[t] THEN Mark("killed")
    ELSE Outcome(ref[t])

Callers == INSTANCE Coalescing WITH
    group <- [k \in Keys |-> Group(k)],
    answer <- [t \in Threads |-> Answer(t)],
    Outcomes <- [kind : {"return"}, is : Results] \cup [kind : {"raise"}, is : Errors],
    Killed <- Mark("killed"),
    NoAnswer <- Mark("return"),
    Pending <- Mark("pending"),
    Away <- Mark("away")

\* Every member of a group gets the outcome of the one execution it joined,
\* also when later executions for the key are already under way.
Coalesces == Callers!Spec
=============================================================================
