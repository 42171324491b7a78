--------------------------- MODULE WorkflowEngine ---------------------------
(***************************************************************************)
(* WorkflowOrchestrationEngine of orchestration/engine.py: threads execute *)
(* and resume workflows over one checkpointer and one approval manager.    *)
(* Each of these two guards its own methods with its own lock, so a thread *)
(* is preempted between any two calls, and between any two graph nodes.    *)
(***************************************************************************)
EXTENDS WorkflowGraph, Sequences, FiniteSets

CONSTANTS Threads,
          Workflows, \* workflow ids
          QueryOf,   \* the query each workflow is submitted with
          Decisions  \* what operators pass as decision

ASSUME EngineAssumption ==
    /\ QueryOf \in [Workflows -> Queries]
    /\ Decisions \subseteq Verdicts \cup {OtherVerdict}
    /\ None \notin Workflows

VARIABLES checkpoints, \* _checkpoints: the states saved for each workflow
          tickets,     \* _tickets: the status of each registered ticket
          at,          \* the engine call a thread makes next
          node,        \* the graph node the thread's invoke runs next
          state,       \* the OrchestrationState in the thread's hands
          wf,          \* its workflow_id
          decision     \* the operator's decision; None in execute_workflow

vars == <<checkpoints, tickets, at, node, state, wf, decision>>

Blank(w) == [query |-> QueryOf[w], status |-> "PENDING", intent |-> None,
             policy_passed |-> TRUE, requires_hitl |-> FALSE,
             hitl_ticket_id |-> None, hitl_decision |-> None,
             retry_count |-> 0, final_response |-> None]

Init ==
    /\ checkpoints = [w \in Workflows |-> <<>>]
    /\ tickets = [i \in TicketIds |-> None]
    /\ at = [t \in Threads |-> "idle"]
    /\ node = [t \in Threads |-> None]
    /\ state = [t \in Threads |-> None]
    /\ wf = [t \in Threads |-> None]
    /\ decision = [t \in Threads |-> None]

-----------------------------------------------------------------------------
Last(s) == s[Len(s)]
Latest(w) == Last(checkpoints[w])

\* Nobody learns a workflow_id before execute_workflow has registered its
\* ticket and returned.
Known(w) ==
    /\ checkpoints[w] # <<>>
    /\ \A t \in Threads : ~(wf[t] = w /\ decision[t] = None)


\* Ticket ids nobody has drawn.
Unused ==
    {i \in TicketIds :
        /\ tickets[i] = None
        /\ \A w \in Workflows : \A n \in DOMAIN checkpoints[w] :
              checkpoints[w][n].hitl_ticket_id # i
        /\ \A t \in Threads : state[t] # None => state[t].hitl_ticket_id # i}

\* Bound: a call that may draw a ticket id starts only if one is left for it.
TicketLeft == Cardinality(Unused) > Cardinality({t \in Threads : at[t] # "idle"})

\* save_checkpoint appends a deep copy.
save_checkpoint(w, s) == checkpoints' = [checkpoints EXCEPT ![w] = Append(@, s)]

\* The engine method of t returns.
Return(t) ==
    /\ at' = [at EXCEPT ![t] = "idle"]
    /\ state' = [state EXCEPT ![t] = None]
    /\ wf' = [wf EXCEPT ![t] = None]
    /\ decision' = [decision EXCEPT ![t] = None]

\* compiled_graph.invoke(s)
Invoke(t, s) ==
    /\ at' = [at EXCEPT ![t] = "invoke"]
    /\ node' = [node EXCEPT ![t] = "init_node"]
    /\ state' = [state EXCEPT ![t] = s]

\* execute_workflow up to invoke: a new id, and the initial checkpoint.
execute_workflow(t, w) ==
    /\ at[t] = "idle"
    /\ checkpoints[w] = <<>>
    /\ TicketLeft
    /\ save_checkpoint(w, Blank(w))
    /\ Invoke(t, Blank(w))
    /\ wf' = [wf EXCEPT ![t] = w]
    /\ UNCHANGED <<tickets, decision>>

Suspended(s) == s.status = "AWAITING_APPROVAL"

\* resume_workflow up to its status check, which reads a copy of the latest
\* checkpoint.
resume_workflow(t, w, d) ==
    /\ at[t] = "idle"
    /\ Known(w)
    /\ Suspended(Latest(w))
    /\ d \in Verdicts \/ TicketLeft
    /\ at' = [at EXCEPT ![t] = "decide"]
    /\ state' = [state EXCEPT ![t] = Latest(w)]
    /\ wf' = [wf EXCEPT ![t] = w]
    /\ decision' = [decision EXCEPT ![t] = d]
    /\ UNCHANGED <<checkpoints, tickets, node>>

\* resume_workflow returns False for a workflow that is not suspended.
Refuse(t, w) ==
    /\ at[t] = "idle"
    /\ Known(w)
    /\ ~Suspended(Latest(w))
    /\ UNCHANGED vars

\* Mutant of submit_decision: resumes under the decision only if the ticket took
\* it.
submit_decision_if_taken(t) ==
    LET i     == state[t].hitl_ticket_id
        taken == i # None /\ tickets[i] = "PENDING" /\ decision[t] \in Verdicts
    IN  /\ at[t] = "decide"
        /\ tickets' = IF taken THEN [tickets EXCEPT ![i] = decision[t]] ELSE tickets
        /\ Invoke(t, [state[t] EXCEPT
              !.hitl_decision = IF taken THEN decision[t] ELSE None,
              !.requires_hitl = FALSE])
        /\ UNCHANGED <<checkpoints, wf, decision>>

\* submit_decision resolves the ticket if it is pending and the decision valid;
\* resume_workflow goes on with the operator's decision whatever it answers.
submit_decision(t) ==
    LET i == state[t].hitl_ticket_id IN
    /\ at[t] = "decide"
    /\ tickets' = IF i # None /\ tickets[i] = "PENDING" /\ decision[t] \in Verdicts
                  THEN [tickets EXCEPT ![i] = decision[t]]
                  ELSE tickets
    /\ Invoke(t, [state[t] EXCEPT !.hitl_decision = decision[t],
                                  !.requires_hitl = FALSE])
    /\ UNCHANGED <<checkpoints, wf, decision>>

\* One node of the graph and the edge out of it.
RunNode(t) ==
    /\ at[t] = "invoke"
    /\ \E i \in IF node[t] = "evaluation_node" /\ OnHold(state[t])
               THEN Unused ELSE {None} :
          LET s == Effect(node[t], state[t], i)
              n == Edge(node[t], s)
          IN  /\ state' = [state EXCEPT ![t] = s]
              /\ node' = [node EXCEPT ![t] = IF n = "END" THEN None ELSE n]
              /\ at' = [at EXCEPT ![t] = IF n = "END" THEN "save" ELSE "invoke"]
    /\ UNCHANGED <<checkpoints, tickets, wf, decision>>

\* The checkpoint after invoke.  Only execute_workflow then looks for a ticket
\* to register.
SaveResult(t) ==
    /\ at[t] = "save"
    /\ save_checkpoint(wf[t], state[t])
    /\ IF decision[t] = None /\ state[t].requires_hitl
       THEN /\ at' = [at EXCEPT ![t] = "ticket"]
            /\ UNCHANGED <<state, wf, decision>>
       ELSE Return(t)
    /\ UNCHANGED <<tickets, node>>

\* Mutant of create_ticket: the id is not passed on, the manager draws one.
create_ticket_anew(t) ==
    /\ at[t] = "ticket"
    /\ \E i \in Unused : tickets' = [tickets EXCEPT ![i] = "PENDING"]
    /\ Return(t)
    /\ UNCHANGED <<checkpoints, node>>

create_ticket(t) ==
    /\ at[t] = "ticket"
    /\ tickets' = [tickets EXCEPT ![state[t].hitl_ticket_id] = "PENDING"]
    /\ Return(t)
    /\ UNCHANGED <<checkpoints, node>>

Proceed(t) == submit_decision(t) \/ RunNode(t) \/ SaveResult(t) \/ create_ticket(t)

Next ==
    \E t \in Threads :
       \/ \E w \in Workflows :
             \/ execute_workflow(t, w)
             \/ Refuse(t, w)
             \/ \E d \in Decisions : resume_workflow(t, w, d)
       \/ Proceed(t)

Spec == Init /\ [][Next]_vars

\* A thread inside an engine method keeps running.
FairSpec == Spec /\ \A t \in Threads : WF_vars(Proceed(t))

-----------------------------------------------------------------------------
TypeOK ==
    /\ checkpoints \in [Workflows -> Seq(OrchestrationState)]
    /\ tickets \in [TicketIds -> {"PENDING", None} \cup Verdicts]
    /\ at \in [Threads -> {"idle", "decide", "invoke", "save", "ticket"}]
    /\ node \in [Threads -> Nodes \cup {None}]
    /\ state \in [Threads -> OrchestrationState \cup {None}]
    /\ wf \in [Threads -> Workflows \cup {None}]
    /\ decision \in [Threads -> Decisions \cup {None}]

\* A saved answer to a sensitive query was put on hold first, under a ticket,
\* and carries an operator's approval: no order of calls, no decision string
\* and no race of operators releases an answer nobody approved.
AnswersAreApproved ==
    \A w \in Workflows : \A n \in DOMAIN checkpoints[w] :
        LET s == checkpoints[w][n] IN
        s.final_response = "answer" /\ s.query \in Sensitive =>
           /\ s.hitl_decision = "APPROVED"
           /\ \E m \in 1..(n - 1) :
                 /\ Suspended(checkpoints[w][m])
                 /\ checkpoints[w][m].hitl_ticket_id = s.hitl_ticket_id

Untouched(w) == \A t \in Threads : wf[t] # w

\* The latest run of w was resumed with a string that is no verdict.
Misresumed(w) == Latest(w).hitl_decision = OtherVerdict

\* A suspended workflow nobody is working on can be found in the approval queue,
\* also when operators race; a resume with a string that is no verdict is the
\* one call that suspends it under a ticket the queue has never seen.
\* TypeOK holds beside it.
HeldUnderTicket ==
    /\ TypeOK
    /\ \A w \in Workflows :
          /\ checkpoints[w] # <<>> /\ Untouched(w) /\ Suspended(Latest(w))
          /\ ~Misresumed(w)
          => tickets[Latest(w).hitl_ticket_id] = "PENDING"

Finished(w) ==
    checkpoints[w] # <<>> /\ Latest(w).status \in {"COMPLETED", "REJECTED", "FAILED"}

\* A finished workflow stays finished, whatever resumes are still under way,
\* unless one of them was given a string that is no verdict.
NeverReopened ==
    [][\A w \in Workflows : Finished(w) => Finished(w)' \/ Misresumed(w)']_vars

\* A decision recorded on a ticket is carried out: the workflow it holds gets a
\* checkpoint that finished under that decision.
DecisionTakesEffect ==
    \A i \in TicketIds, d \in Verdicts :
       tickets[i] = d ~>
          \E w \in Workflows : \E n \in DOMAIN checkpoints[w] :
             LET s == checkpoints[w][n] IN
             /\ s.hitl_ticket_id = i
             /\ s.hitl_decision = d
             /\ s.status = IF d = "APPROVED" THEN "COMPLETED" ELSE "REJECTED"
=============================================================================
