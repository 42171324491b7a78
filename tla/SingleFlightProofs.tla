------------------------- MODULE SingleFlightProofs -------------------------
(***************************************************************************)
(* Single-flight coalescing for any number of threads, keys and call       *)
(* objects: one execution per key, no orphaned contender, and the          *)
(* implementation of the abstract promise of module Coalescing.            *)
(***************************************************************************)
EXTENDS SingleFlight, TLAPS

\* The leader of a call until it sets the event.
InCharge(t) == pc[t] \in {"run", "pop", "notify"}

\* A thread has a call object and a key exactly while it is inside execute.
LocalsInv ==
    \A t \in Threads : IF pc[t] = "away" THEN ref[t] = NoCall
                       ELSE ref[t] \in CallIds /\ key[t] \in Keys

\* A key is registered exactly from Lead to Pop, with its leader's call.
RegistryInv ==
    /\ \A t \in Threads : Leading(t) => calls[key[t]] = ref[t]
    /\ \A k \in Keys : calls[k] # NoCall =>
          \E t \in Threads : Leading(t) /\ key[t] = k /\ ref[t] = calls[k]

\* A call object has one leader, and its event is unset while it has one.
LeaderInv ==
    /\ \A t, u \in Threads : InCharge(t) /\ InCharge(u) /\ ref[t] = ref[u] => t = u
    /\ \A t \in Threads : InCharge(t) => ~heap[ref[t]].event

\* A call object serves one key, and a contender's call has a leader until its
\* event is set.
ContenderInv ==
    /\ \A t, u \in Threads :
          pc[t] # "away" /\ pc[u] # "away" /\ ref[t] = ref[u] => key[t] = key[u]
    /\ \A t \in Threads : pc[t] = "wait" /\ ~heap[ref[t]].event =>
          \E u \in Threads : InCharge(u) /\ ref[u] = ref[t]

IInv == TypeOK /\ LocalsInv /\ RegistryInv /\ LeaderInv /\ ContenderInv

\* What the leader has stored by the time it pops its call.
OutcomeInv ==
    \A t \in Threads :
       /\ pc[t] = "run" => heap[ref[t]] = NewCall /\ ~dead[t]
       /\ dead[t] => InCharge(t) /\ heap[ref[t]] = NewCall
       /\ pc[t] \in {"pop", "notify"} /\ ~dead[t] =>
             Outcome(ref[t]) \in [kind : {"return"}, is : Results]
                                 \cup [kind : {"raise"}, is : Errors]

-----------------------------------------------------------------------------
LEMMA LeadKeeps ==
  ASSUME IInv, NEW t \in Threads, NEW k \in Keys, Lead(t, k)
  PROVE  IInv'
<1> USE ConstantsDistinct DEF Leading, InCharge
<1>1. TypeOK'
  BY DEF IInv, TypeOK, Lead, Register, Free, NewCall, CallObjects
<1>2. LocalsInv'
  BY DEF IInv, TypeOK, LocalsInv, Lead, Register, Free, NewCall, CallObjects
<1>3. RegistryInv'
  BY DEF IInv, TypeOK, LocalsInv, RegistryInv, LeaderInv, Lead, Register, Free, NewCall, CallObjects
<1>4. LeaderInv'
  BY DEF IInv, TypeOK, LocalsInv, LeaderInv, Lead, Register, Free, NewCall, CallObjects
<1>5. ContenderInv'
  BY DEF IInv, TypeOK, LocalsInv, RegistryInv, LeaderInv, ContenderInv, Lead, Register, Free, NewCall, CallObjects
<1> QED
  BY <1>1, <1>2, <1>3, <1>4, <1>5 DEF IInv

LEMMA JoinKeeps ==
  ASSUME IInv, NEW t \in Threads, NEW k \in Keys, Join(t, k)
  PROVE  IInv'
<1> USE ConstantsDistinct DEF Leading, InCharge
<1>1. TypeOK'
  BY DEF IInv, TypeOK, Join
<1>2. LocalsInv'
  BY DEF IInv, TypeOK, LocalsInv, Join
<1>3. RegistryInv'
  BY DEF IInv, TypeOK, LocalsInv, RegistryInv, LeaderInv, Join
<1>4. LeaderInv'
  BY DEF IInv, TypeOK, LocalsInv, LeaderInv, Join
<1>5. ContenderInv'
  BY DEF IInv, TypeOK, LocalsInv, RegistryInv, LeaderInv, ContenderInv, Join
<1> QED
  BY <1>1, <1>2, <1>3, <1>4, <1>5 DEF IInv

LEMMA FnReturnsKeeps ==
  ASSUME IInv, NEW t \in Threads, NEW r \in Results, FnReturns(t, r)
  PROVE  IInv'
<1> USE ConstantsDistinct DEF Leading, InCharge
<1>1. TypeOK'
  BY DEF IInv, TypeOK, FnReturns, CallObjects
<1>2. LocalsInv'
  BY DEF IInv, TypeOK, LocalsInv, FnReturns, CallObjects
<1>3. RegistryInv'
  BY DEF IInv, TypeOK, LocalsInv, RegistryInv, LeaderInv, FnReturns, CallObjects
<1>4. LeaderInv'
  BY DEF IInv, TypeOK, LocalsInv, LeaderInv, FnReturns, CallObjects
<1>5. ContenderInv'
  BY DEF IInv, TypeOK, LocalsInv, RegistryInv, LeaderInv, ContenderInv, FnReturns, CallObjects
<1> QED
  BY <1>1, <1>2, <1>3, <1>4, <1>5 DEF IInv

LEMMA FnRaisesKeeps ==
  ASSUME IInv, NEW t \in Threads, NEW e \in Errors, FnRaises(t, e)
  PROVE  IInv'
<1> USE ConstantsDistinct DEF Leading, InCharge
<1>1. TypeOK'
  BY DEF IInv, TypeOK, FnRaises, CallObjects
<1>2. LocalsInv'
  BY DEF IInv, TypeOK, LocalsInv, FnRaises, CallObjects
<1>3. RegistryInv'
  BY DEF IInv, TypeOK, LocalsInv, RegistryInv, LeaderInv, FnRaises, CallObjects
<1>4. LeaderInv'
  BY DEF IInv, TypeOK, LocalsInv, LeaderInv, FnRaises, CallObjects
<1>5. ContenderInv'
  BY DEF IInv, TypeOK, LocalsInv, RegistryInv, LeaderInv, ContenderInv, FnRaises, CallObjects
<1> QED
  BY <1>1, <1>2, <1>3, <1>4, <1>5 DEF IInv

LEMMA FnDiesKeeps ==
  ASSUME IInv, NEW t \in Threads, FnDies(t)
  PROVE  IInv'
<1> USE ConstantsDistinct DEF Leading, InCharge
<1>1. TypeOK'
  BY DEF IInv, TypeOK, FnDies
<1>2. LocalsInv'
  BY DEF IInv, TypeOK, LocalsInv, FnDies
<1>3. RegistryInv'
  BY DEF IInv, TypeOK, LocalsInv, RegistryInv, LeaderInv, FnDies
<1>4. LeaderInv'
  BY DEF IInv, TypeOK, LocalsInv, LeaderInv, FnDies
<1>5. ContenderInv'
  BY DEF IInv, TypeOK, LocalsInv, RegistryInv, LeaderInv, ContenderInv, FnDies
<1> QED
  BY <1>1, <1>2, <1>3, <1>4, <1>5 DEF IInv

LEMMA PopKeeps ==
  ASSUME IInv, NEW t \in Threads, Pop(t)
  PROVE  IInv'
<1> USE ConstantsDistinct DEF Leading, InCharge
<1>1. TypeOK'
  BY DEF IInv, TypeOK, Pop
<1>2. LocalsInv'
  BY DEF IInv, TypeOK, LocalsInv, Pop
<1>3. RegistryInv'
  BY DEF IInv, TypeOK, LocalsInv, RegistryInv, LeaderInv, Pop
<1>4. LeaderInv'
  BY DEF IInv, TypeOK, LocalsInv, LeaderInv, Pop
<1>5. ContenderInv'
  BY DEF IInv, TypeOK, LocalsInv, RegistryInv, LeaderInv, ContenderInv, Pop
<1> QED
  BY <1>1, <1>2, <1>3, <1>4, <1>5 DEF IInv

LEMMA NotifyKeeps ==
  ASSUME IInv, NEW t \in Threads, Notify(t)
  PROVE  IInv'
<1> USE ConstantsDistinct DEF Leading, InCharge
<1>1. TypeOK'
  BY DEF IInv, TypeOK, Notify, Leave, CallObjects
<1>2. LocalsInv'
  BY DEF IInv, TypeOK, LocalsInv, Notify, Leave, CallObjects
<1>3. RegistryInv'
  BY DEF IInv, TypeOK, LocalsInv, RegistryInv, LeaderInv, Notify, Leave, CallObjects
<1>4. LeaderInv'
  BY DEF IInv, TypeOK, LocalsInv, LeaderInv, Notify, Leave, CallObjects
<1>5. ContenderInv'
  BY DEF IInv, TypeOK, LocalsInv, RegistryInv, LeaderInv, ContenderInv, Notify, Leave, CallObjects
<1> QED
  BY <1>1, <1>2, <1>3, <1>4, <1>5 DEF IInv

LEMMA WakeKeeps ==
  ASSUME IInv, NEW t \in Threads, Wake(t)
  PROVE  IInv'
<1> USE ConstantsDistinct DEF Leading, InCharge
<1>1. TypeOK'
  BY DEF IInv, TypeOK, Wake, Leave
<1>2. LocalsInv'
  BY DEF IInv, TypeOK, LocalsInv, Wake, Leave
<1>3. RegistryInv'
  BY DEF IInv, TypeOK, LocalsInv, RegistryInv, LeaderInv, Wake, Leave
<1>4. LeaderInv'
  BY DEF IInv, TypeOK, LocalsInv, LeaderInv, Wake, Leave
<1>5. ContenderInv'
  BY DEF IInv, TypeOK, LocalsInv, RegistryInv, LeaderInv, ContenderInv, Wake, Leave
<1> QED
  BY <1>1, <1>2, <1>3, <1>4, <1>5 DEF IInv

LEMMA InitEstablishes == Init => IInv /\ OutcomeInv
<1> USE ConstantsDistinct
<1> SUFFICES ASSUME Init PROVE IInv /\ OutcomeInv
  OBVIOUS
<1>1. TypeOK
  BY DEF Init, TypeOK, NewCall, CallObjects
<1>2. LocalsInv /\ RegistryInv /\ LeaderInv /\ ContenderInv /\ OutcomeInv
  BY DEF Init, LocalsInv, RegistryInv, LeaderInv, ContenderInv, OutcomeInv, Leading, InCharge
<1> QED
  BY <1>1, <1>2 DEF IInv

LEMMA NextKeeps == IInv /\ [Next]_flightVars => IInv'
<1> SUFFICES ASSUME IInv, [Next]_flightVars
             PROVE  IInv'
  OBVIOUS
<1>1. CASE UNCHANGED flightVars
  BY <1>1 DEF flightVars, IInv, TypeOK, LocalsInv, RegistryInv, LeaderInv, ContenderInv, Leading, InCharge
<1>2. ASSUME NEW t \in Threads, Execute(t)
      PROVE  IInv'
  BY <1>2, LeadKeeps, JoinKeeps, FnReturnsKeeps, FnRaisesKeeps, FnDiesKeeps, PopKeeps, NotifyKeeps, WakeKeeps
     DEF Execute
<1> QED
  BY <1>1, <1>2 DEF Next

\* What OutcomeInv says of one thread.
Stored(t) ==
    /\ pc[t] = "run" => heap[ref[t]] = NewCall /\ ~dead[t]
    /\ dead[t] => InCharge(t) /\ heap[ref[t]] = NewCall
    /\ pc[t] \in {"pop", "notify"} /\ ~dead[t] =>
          Outcome(ref[t]) \in [kind : {"return"}, is : Results]
                              \cup [kind : {"raise"}, is : Errors]

\* A step of thread t leaves the other leaders' call objects alone.
LEMMA OthersUntouched ==
  ASSUME IInv, NEW t \in Threads, Execute(t), NEW u \in Threads, u # t, Stored(u)
  PROVE  Stored(u)'
<1> USE ConstantsDistinct DEF IInv, TypeOK, LocalsInv, LeaderInv, InCharge, Leading
<1>1. pc'[u] = pc[u] /\ ref'[u] = ref[u] /\ dead'[u] = dead[u]
  BY DEF Execute, Lead, Register, Join, FnReturns, FnRaises, FnDies, Pop, Notify, Wake, Leave
<1>2. InCharge(u) => heap'[ref[u]] = heap[ref[u]]
  BY DEF Execute, Lead, Register, Free, Join, FnReturns, FnRaises, FnDies, Pop, Notify, Wake
<1>3. CASE InCharge(u)
  BY <1>1, <1>2, <1>3 DEF Stored, Outcome
<1>4. CASE ~InCharge(u)
  BY <1>1, <1>4 DEF Stored
<1> QED
  BY <1>3, <1>4

\* OutcomeInv is not part of IInv: only the refinement needs it.
LEMMA OutcomeKeeps == IInv /\ OutcomeInv /\ [Next]_flightVars => OutcomeInv'
<1> SUFFICES ASSUME IInv, OutcomeInv, [Next]_flightVars
             PROVE  OutcomeInv'
  OBVIOUS
<1>1. CASE UNCHANGED flightVars
  BY <1>1 DEF flightVars, OutcomeInv, InCharge, Outcome
<1>2. ASSUME NEW t \in Threads, Execute(t)
      PROVE  OutcomeInv'
  <2>1. \A u \in Threads : Stored(u)
    BY DEF OutcomeInv, Stored
  <2>2. \A u \in Threads \ {t} : Stored(u)'
    BY <1>2, <2>1, OthersUntouched
  <2> USE ConstantsDistinct DEF IInv, TypeOK, LocalsInv, NewCall
  <2>3. ASSUME NEW k \in Keys, Lead(t, k)
        PROVE  Stored(t)'
    BY <2>1, <2>3 DEF Lead, Register, Stored, InCharge
  <2>4. ASSUME NEW k \in Keys, Join(t, k)
        PROVE  Stored(t)'
    BY <2>1, <2>4 DEF Join, Stored, InCharge
  <2>5. ASSUME NEW r \in Results, FnReturns(t, r)
        PROVE  Stored(t)'
    <3>1. ref[t] \in CallIds /\ heap[ref[t]] = NewCall /\ ~dead[t]
      BY <2>1, <2>5 DEF FnReturns, Stored
    <3>2. /\ heap'[ref'[t]].result = r /\ heap'[ref'[t]].exception = NoError
          /\ pc'[t] = "pop" /\ ~dead'[t]
      BY <3>1, <2>5 DEF FnReturns, CallObjects
    <3>3. Outcome(ref[t])' = [kind |-> "return", is |-> r]
      BY <3>2 DEF Outcome
    <3> QED
      BY <3>2, <3>3 DEF Stored
  <2>6. ASSUME NEW e \in Errors, FnRaises(t, e)
        PROVE  Stored(t)'
    <3>1. ref[t] \in CallIds /\ heap[ref[t]] = NewCall /\ ~dead[t]
      BY <2>1, <2>6 DEF FnRaises, Stored
    <3>2. /\ heap'[ref'[t]].exception = e
          /\ pc'[t] = "pop" /\ ~dead'[t]
      BY <3>1, <2>6 DEF FnRaises, CallObjects
    <3>3. Outcome(ref[t])' = [kind |-> "raise", is |-> e]
      BY <3>2 DEF Outcome
    <3> QED
      BY <3>2, <3>3 DEF Stored
  <2>7. FnDies(t) => Stored(t)'
    BY <2>1 DEF FnDies, Stored, InCharge
  <2>8. Pop(t) => Stored(t)'
    BY <2>1 DEF Pop, Stored, InCharge, Outcome
  <2>9. Notify(t) \/ Wake(t) => Stored(t)'
    BY <2>1 DEF Notify, Wake, Leave, Stored, InCharge
  <2>10. Stored(t)'
    BY <1>2, <2>3, <2>4, <2>5, <2>6, <2>7, <2>8, <2>9 DEF Execute
  <2>11. \A u \in Threads : Stored(u)'
    BY <2>2, <2>10
  <2> QED
    BY <2>11 DEF Stored, OutcomeInv
<1> QED
  BY <1>1, <1>2 DEF Next

LEMMA Invariance == Spec => [](IInv /\ OutcomeInv)
  BY InitEstablishes, NextKeeps, OutcomeKeeps, PTL DEF Spec

\* The variables have their types.
THEOREM TypeCorrect == Spec => []TypeOK
<1>1. IInv => TypeOK
  BY DEF IInv
<1> QED
  BY <1>1, Invariance, PTL

\* At most one fn in progress per key: two leaders of one key would both hold
\* the registered call, and a call has one leader.
THEOREM OneExecution == Spec => []OneExecutionPerKey
<1>1. IInv => OneExecutionPerKey
  BY DEF IInv, OneExecutionPerKey, RegistryInv, LeaderInv, Leading, InCharge
<1> QED
  BY <1>1, Invariance, PTL

\* No registered call without a leader, no sleeping contender without one.
THEOREM NoOrphans == Spec => []NoOrphanCall
<1>1. IInv => NoOrphanCall
  BY DEF IInv, NoOrphanCall, RegistryInv, ContenderInv, InCharge
<1> QED
  BY <1>1, Invariance, PTL

-----------------------------------------------------------------------------
(* SingleFlight implements Coalescing: each step is a step of the abstract  *)
(* specification under the mapping Group, Answer, or leaves both alone.     *)

Groups == [k \in Keys |-> Group(k)]
Answers == [t \in Threads |-> Answer(t)]

\* No thread is in a call at the start, so every group is empty.
LEMMA InitImplements == Init => Callers!Init
  BY DEF Init, Callers!Init, Group, Answer

LEMMA LeadImplements ==
  ASSUME IInv, NEW t \in Threads, NEW k \in Keys, Lead(t, k)
  PROVE  Callers!Call(t, k)
<1> USE ConstantsDistinct DEF IInv, TypeOK, LocalsInv
<1>1. PICK c \in CallIds :
         /\ Free(c)
         /\ calls' = [calls EXCEPT ![k] = c]
         /\ heap' = [heap EXCEPT ![c] = NewCall]
         /\ ref' = [ref EXCEPT ![t] = c]
  BY DEF Lead, Register
<1>2. pc[t] = "away" /\ ref[t] = NoCall /\ calls[k] = NoCall
      /\ pc' = [pc EXCEPT ![t] = "run"] /\ key' = [key EXCEPT ![t] = k] /\ dead' = dead
  BY DEF Lead, Register
<1>3. Group(k) = {} /\ Group(k)' = {t}
  BY <1>1, <1>2 DEF Group, Free
<1>4. \A j \in Keys \ {k} : Group(j)' = Group(j)
  BY <1>1, <1>2 DEF Group, Free
<1>5. Answer(t) = Mark("away") /\ Answer(t)' = Mark("pending")
  BY <1>1, <1>2 DEF Answer, Mark
<1>6. \A u \in Threads \ {t} : Answer(u)' = Answer(u)
  BY <1>1, <1>2 DEF Answer, Outcome, Free
<1> QED
  BY <1>3, <1>4, <1>5, <1>6 DEF Callers!Call

LEMMA JoinImplements ==
  ASSUME IInv, NEW t \in Threads, NEW k \in Keys, Join(t, k)
  PROVE  Callers!Call(t, k)
<1> USE ConstantsDistinct DEF IInv, TypeOK, LocalsInv
<1>1. /\ pc[t] = "away" /\ ref[t] = NoCall /\ calls[k] # NoCall
      /\ ref' = [ref EXCEPT ![t] = calls[k]] /\ pc' = [pc EXCEPT ![t] = "wait"]
      /\ key' = [key EXCEPT ![t] = k] /\ UNCHANGED <<calls, heap, dead>>
  BY DEF Join
<1>2. Group(k)' = Group(k) \cup {t}
  BY <1>1 DEF Group
<1>3. \A j \in Keys \ {k} : Group(j)' = Group(j)
  <2> SUFFICES ASSUME NEW j \in Keys \ {k}, calls[j] # NoCall
               PROVE  calls[j] # calls[k]
    BY <1>1 DEF Group
  <2> QED
    BY <1>1 DEF RegistryInv, LeaderInv, Leading, InCharge
<1>4. Answer(t) = Mark("away") /\ Answer(t)' = Mark("pending")
  BY <1>1 DEF Answer, Mark
<1>5. \A u \in Threads \ {t} : Answer(u)' = Answer(u)
  BY <1>1 DEF Answer, Outcome
<1> QED
  BY <1>2, <1>3, <1>4, <1>5 DEF Callers!Call

\* fn ends: invisible, as everyone who holds the call is still pending.
LEMMA FnEndImplements ==
  ASSUME IInv, NEW t \in Threads,
         \/ \E r \in Results : FnReturns(t, r)
         \/ \E e \in Errors : FnRaises(t, e)
         \/ FnDies(t)
  PROVE  UNCHANGED <<Groups, Answers>>
<1> USE ConstantsDistinct DEF IInv, TypeOK, LocalsInv
<1>1. pc[t] = "run" /\ pc' = [pc EXCEPT ![t] = "pop"] /\ UNCHANGED <<calls, key, ref>>
  BY DEF FnReturns, FnRaises, FnDies
<1>2. \A c \in CallIds \ {ref[t]} : heap'[c] = heap[c]
  BY DEF FnReturns, FnRaises, FnDies
<1>3. \A u \in Threads \ {t} : dead'[u] = dead[u]
  BY DEF FnReturns, FnRaises, FnDies
<1>4. \A k \in Keys : Group(k)' = Group(k)
  BY <1>1 DEF Group
<1>5. ASSUME NEW u \in Threads
      PROVE  Answer(u)' = Answer(u)
  <2>1. CASE ref[u] = ref[t]
    <3>1. calls[key[u]] = ref[u] /\ pc[u] # "away"
      BY <1>1, <2>1 DEF RegistryInv, ContenderInv, Leading
    <3> QED
      BY <1>1, <3>1 DEF Answer, Mark
  <2>2. CASE ref[u] # ref[t]
    BY <1>1, <1>2, <1>3, <2>2 DEF Answer, Outcome, Mark
  <2> QED
    BY <2>1, <2>2
<1> QED
  BY <1>4, <1>5 DEF Groups, Answers

\* The pop ends the execution: from here on nobody can join the group, and
\* what the call object holds is everyone's answer.
LEMMA PopImplements ==
  ASSUME IInv, OutcomeInv, NEW t \in Threads, Pop(t)
  PROVE  Callers!Next
<1> USE ConstantsDistinct DEF IInv, TypeOK, LocalsInv
<1> DEFINE k == key[t]
<1>1. /\ pc[t] = "pop" /\ k \in Keys /\ ref[t] \in CallIds /\ calls[k] = ref[t]
      /\ calls' = [calls EXCEPT ![k] = NoCall] /\ pc' = [pc EXCEPT ![t] = "notify"]
      /\ UNCHANGED <<heap, key, ref, dead>>
  BY DEF Pop, RegistryInv, Leading
<1>2. t \in Group(k) /\ Group(k)' = {}
  BY <1>1 DEF Group
<1>3. \A j \in Keys \ {k} : Group(j)' = Group(j)
  BY <1>1 DEF Group
<1>4. \A u \in Threads : u \in Group(k) => ref[u] = ref[t] /\ key[u] = k /\ pc[u] # "away"
  BY <1>1 DEF Group, ContenderInv
<1>5. \A u \in Threads : u \notin Group(k) => Answer(u)' = Answer(u)
  BY <1>1 DEF Group, Answer, Outcome, Mark
<1>6. \A u \in Threads : u \in Group(k) =>
         Answer(u)' = IF dead[u] THEN Mark("killed") ELSE Outcome(ref[t])
  BY <1>1, <1>4 DEF Answer, Outcome
<1>7. \A u \in Group(k) \ {t} : ~dead[u]
  BY <1>1, <1>4 DEF OutcomeInv, LeaderInv, InCharge, Group
<1>8. CASE ~dead[t]
  <2>1. Outcome(ref[t]) \in [kind : {"return"}, is : Results] \cup [kind : {"raise"}, is : Errors]
    BY <1>1, <1>8 DEF OutcomeInv
  <2>2. \A u \in Threads : u \in Group(k) => Answer(u)' = Outcome(ref[t])
    BY <1>6, <1>7, <1>8
  <2>3. Callers!Finish(k, Outcome(ref[t]))
    BY <1>1, <1>2, <1>3, <1>5, <2>2 DEF Callers!Finish
  <2> QED
    BY <1>1, <2>1, <2>3 DEF Callers!Next
<1>9. CASE dead[t]
  <2>1. Outcome(ref[t]) = Mark("return")
    BY <1>9 DEF OutcomeInv, Outcome, NewCall, Mark
  <2>2. Answer(t)' = Mark("killed")
    BY <1>2, <1>6, <1>9
  <2>3. \A u \in Threads : u \in Group(k) /\ u # t => Answer(u)' = Mark("return")
    BY <1>6, <1>7, <2>1
  <2>4. Callers!Abort(k)
    BY <1>1, <1>2, <1>3, <1>5, <2>2, <2>3 DEF Callers!Abort
  <2> QED
    BY <1>1, <2>4 DEF Callers!Next
<1> QED
  BY <1>8, <1>9

\* Leader and contenders leave one by one, each with the answer fixed before.
LEMMA LeaveImplements ==
  ASSUME IInv, OutcomeInv, NEW t \in Threads, Notify(t) \/ Wake(t)
  PROVE  Callers!Return(t)
<1> USE ConstantsDistinct DEF IInv, TypeOK, LocalsInv
<1>1. /\ pc[t] \in {"notify", "wait"} /\ UNCHANGED calls
      /\ pc' = [pc EXCEPT ![t] = "away"]
      /\ key' = [key EXCEPT ![t] = NoKey]
      /\ ref' = [ref EXCEPT ![t] = NoCall]
      /\ \A u \in Threads \ {t} : dead'[u] = dead[u]
  BY DEF Notify, Wake, Leave
<1>2. \A c \in CallIds : /\ heap'[c].result = heap[c].result
                         /\ heap'[c].exception = heap[c].exception
  BY DEF Notify, Wake, CallObjects
<1>3. \A k \in Keys : calls[k] # ref[t]
  <2>1. CASE pc[t] = "notify"
    BY <2>1 DEF RegistryInv, LeaderInv, Leading, InCharge
  <2>2. CASE pc[t] = "wait"
    <3>1. heap[ref[t]].event
      BY <2>2 DEF Notify, Wake
    <3> QED
      BY <2>2, <3>1 DEF RegistryInv, LeaderInv, Leading, InCharge
  <2> QED
    BY <1>1, <2>1, <2>2
<1>4. \A k \in Keys : Group(k)' = Group(k)
  BY <1>1, <1>3 DEF Group
<1>5. Answer(t) \notin {Mark("away"), Mark("pending")}
  <2>1. calls[key[t]] # ref[t] /\ pc[t] # "away"
    BY <1>1, <1>3
  <2>2. CASE dead[t]
    BY <2>1, <2>2 DEF Answer, Mark
  <2>3. CASE ~dead[t]
    <3>1. Outcome(ref[t]).kind \in {"raise", "return"} /\ Answer(t) = Outcome(ref[t])
      BY <2>1, <2>3 DEF Answer, Outcome
    <3> QED
      BY <3>1 DEF Mark
  <2> QED
    BY <2>2, <2>3
<1>6. Answer(t)' = Mark("away")
  BY <1>1 DEF Answer
<1>7. \A u \in Threads \ {t} : Answer(u)' = Answer(u)
  BY <1>1, <1>2 DEF Answer, Outcome
<1> QED
  BY <1>4, <1>5, <1>6, <1>7 DEF Callers!Return

\* For any number of threads, keys and call objects, every caller of execute
\* gets the outcome of the one execution it joined.
THEOREM Implements == Spec => Coalesces
<1>1. IInv /\ OutcomeInv /\ [Next]_flightVars => [Callers!Next]_(Callers!vars)
  <2> SUFFICES ASSUME IInv, OutcomeInv, [Next]_flightVars
               PROVE  [Callers!Next]_(Callers!vars)
    OBVIOUS
  <2>1. ASSUME NEW t \in Threads, Execute(t)
        PROVE  Callers!Next \/ UNCHANGED <<Groups, Answers>>
    <3>1. CASE \E k \in Keys : Lead(t, k) \/ Join(t, k)
      BY <3>1, LeadImplements, JoinImplements DEF Callers!Next
    <3>2. CASE \/ \E r \in Results : FnReturns(t, r)
               \/ \E e \in Errors : FnRaises(t, e)
               \/ FnDies(t)
      BY <3>2, FnEndImplements
    <3>3. CASE Pop(t)
      BY <3>3, PopImplements
    <3>4. CASE Notify(t) \/ Wake(t)
      BY <3>4, LeaveImplements DEF Callers!Next
    <3> QED
      BY <2>1, <3>1, <3>2, <3>3, <3>4 DEF Execute
  <2>2. CASE UNCHANGED flightVars
    BY <2>2 DEF flightVars, Callers!vars, Group, Answer, Outcome
  <2>3. UNCHANGED <<Groups, Answers>> => UNCHANGED Callers!vars
    BY DEF Groups, Answers, Callers!vars
  <2> QED
    BY <2>1, <2>2, <2>3 DEF Next
<1> QED
  BY <1>1, InitImplements, Invariance, PTL DEF Spec, Coalesces, Callers!Spec
=============================================================================
