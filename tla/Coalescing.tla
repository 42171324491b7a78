----------------------------- MODULE Coalescing -----------------------------
(***************************************************************************)
(* What single-flight coalescing promises its callers, without call        *)
(* objects, events or a lock: the calls that arrive for a key while one    *)
(* execution is in progress form one group, the execution ends once, and   *)
(* its outcome is the answer of every member of the group.                 *)
(***************************************************************************)
CONSTANTS Threads, Keys,
          Outcomes,  \* what an execution that returns or raises hands over
          Killed,    \* what the executing thread gets from a BaseException
          NoAnswer,  \* the answer the others get then: call.result is None
          Pending,   \* a member of a group whose execution is in progress
          Away       \* not in a call

VARIABLES group,  \* group[k]: the callers of the execution in progress
          answer  \* answer[t]: Away, Pending, or what t's call will return

vars == <<group, answer>>

Init ==
    /\ group = [k \in Keys |-> {}]
    /\ answer = [t \in Threads |-> Away]

Call(t, k) ==
    /\ answer[t] = Away
    /\ group' = [group EXCEPT ![k] = @ \cup {t}]
    /\ answer' = [answer EXCEPT ![t] = Pending]

\* The execution for k ends, and with it the chance to join its group.
Finish(k, out) ==
    /\ group[k] # {}
    /\ answer' = [t \in Threads |-> IF t \in group[k] THEN out ELSE answer[t]]
    /\ group' = [group EXCEPT ![k] = {}]

\* A BaseException passes through the one thread that was executing.
Abort(k) ==
    \E lead \in group[k] :
       /\ answer' = [t \in Threads |->
              IF t = lead THEN Killed
              ELSE IF t \in group[k] THEN NoAnswer ELSE answer[t]]
       /\ group' = [group EXCEPT ![k] = {}]

Return(t) ==
    /\ answer[t] \notin {Away, Pending}
    /\ answer' = [answer EXCEPT ![t] = Away]
    /\ UNCHANGED group

Next ==
    \/ \E t \in Threads, k \in Keys : Call(t, k)
    \/ \E k \in Keys, out \in Outcomes : Finish(k, out)
    \/ \E k \in Keys : Abort(k)
    \/ \E t \in Threads : Return(t)

Spec == Init /\ [][Next]_vars
=============================================================================
