------------------------ MODULE WorkflowEngineProofs ------------------------
(***************************************************************************)
(* What the workflow engine answers, holds and finishes, for any set of    *)
(* threads, workflows, queries, ticket ids and decision strings.           *)
(***************************************************************************)
EXTENDS WorkflowEngine, TLAPS

-----------------------------------------------------------------------------
\* A state at node n of the graph.  retry_node is never entered: a policy that
\* fails without a rejection or a hold does not occur.
OnCourse(n, s) ==
    /\ n \in Nodes \ {"retry_node"}
    /\ n # "fallback_node" => s.final_response = None
    /\ n = "hitl_gate_node" =>
          \/ s.hitl_decision = "REJECTED"
          \/ OnHold(s) /\ s.requires_hitl /\ s.hitl_ticket_id \in TicketIds
    /\ n = "synthesis_node" => s.hitl_decision # "REJECTED" /\ ~OnHold(s) /\ ~s.requires_hitl
    /\ n = "fallback_node" => s.hitl_decision = "REJECTED"

\* A state the graph has returned: on hold, answered or rejected.
Settled(s) ==
    \/ /\ Suspended(s)
       /\ OnHold(s) /\ s.requires_hitl /\ s.hitl_ticket_id \in TicketIds
       /\ s.final_response = None
    \/ /\ s.status = "COMPLETED" /\ s.final_response = "answer"
       /\ s.hitl_decision # "REJECTED" /\ ~OnHold(s) /\ ~s.requires_hitl
    \/ s.status = "REJECTED" /\ s.final_response = "notice" /\ s.hitl_decision = "REJECTED"

\* A state of workflow w.
Of(s, w) == s \in OrchestrationState /\ s.query = QueryOf[w] /\ s.retry_count = 0

SavedFit ==
    \A w \in Workflows : \A n \in DOMAIN checkpoints[w] :
        LET s == checkpoints[w][n] IN Of(s, w) /\ (s = Blank(w) \/ Settled(s))

\* What thread t holds at each call of the engine.
Fits(t) ==
    /\ at[t] = "idle" => state[t] = None /\ wf[t] = None /\ decision[t] = None
    /\ at[t] # "idle" =>
          wf[t] \in Workflows /\ checkpoints[wf[t]] # <<>> /\ Of(state[t], wf[t])
    /\ at[t] = "decide" => decision[t] \in Decisions /\ Suspended(state[t]) /\ Settled(state[t])
    /\ at[t] \in {"invoke", "save", "ticket"} => state[t].hitl_decision = decision[t]
    /\ at[t] = "invoke" => OnCourse(node[t], state[t])
    /\ at[t] = "save" => Settled(state[t])
    /\ at[t] = "ticket" => decision[t] = None

ThreadsFit == \A t \in Threads : Fits(t)

TInv == TypeOK /\ SavedFit /\ ThreadsFit

\* Thread t is inside execute_workflow for w.
Executes(t, w) == wf[t] = w /\ decision[t] = None

\* execute_workflow has its workflow to itself; until it saves its result the
\* initial checkpoint is all there is, and afterwards the result is the latest.
Alone ==
    \A t \in Threads, w \in Workflows : Executes(t, w) =>
        /\ \A u \in Threads : wf[u] = w => u = t
        /\ at[t] # "ticket" => checkpoints[w] = <<Blank(w)>>
        /\ at[t] = "ticket" => Latest(w) = state[t]

\* Ticket id i is in a checkpoint of w, or in the hands of a thread at work on w.
Bears(w, i) ==
    \/ \E n \in DOMAIN checkpoints[w] : checkpoints[w][n].hitl_ticket_id = i
    \/ \E t \in Threads : wf[t] = w /\ state[t].hitl_ticket_id = i

\* No two workflows share a ticket id.
OneOwner ==
    \A v, w \in Workflows, i \in TicketIds : Bears(v, i) /\ Bears(w, i) => v = w

WasHeld(w, i, len) ==
    \E m \in 1..len :
        Suspended(checkpoints[w][m]) /\ checkpoints[w][m].hitl_ticket_id = i

\* A thread that resumes w under a verdict keeps the ticket it found there.
KeepsTicket ==
    \A t \in Threads : at[t] # "idle" /\ decision[t] \in Verdicts =>
        WasHeld(wf[t], state[t].hitl_ticket_id, Len(checkpoints[wf[t]]))

\* Some thread has submitted a verdict for w and will save what comes of it.
Deciding(w) ==
    \E t \in Threads : wf[t] = w /\ at[t] \in {"invoke", "save"} /\ decision[t] \in Verdicts

Held ==
    \A w \in Workflows :
        checkpoints[w] # <<>> /\ Suspended(Latest(w)) /\ ~Misresumed(w) =>
            \/ \E t \in Threads : Executes(t, w)
            \/ tickets[Latest(w).hitl_ticket_id] = "PENDING"
            \/ Deciding(w)

IInv == TInv /\ Alone /\ OneOwner /\ KeepsTicket /\ AnswersAreApproved /\ Held

-----------------------------------------------------------------------------
\* The graph: what a node hands on.
LEMMA Distinct ==
    /\ None # "answer" /\ None # "notice" /\ None # "APPROVED" /\ None # "REJECTED"
    /\ None \notin TicketIds /\ None \notin OrchestrationState /\ None \notin Decisions
    /\ None \notin Workflows
BY GraphAssumption, NoneAssumption, EngineAssumption DEF Verdicts

LEMMA BlankIsOf == ASSUME NEW w \in Workflows PROVE Of(Blank(w), w)
BY GraphAssumption, EngineAssumption DEF Of, Blank, OrchestrationState, WorkflowStatusEnum

LEMMA BlankOnCourse == ASSUME NEW w \in Workflows PROVE OnCourse("init_node", Blank(w))
BY DEF OnCourse, Blank, Nodes, EvidenceNodes

\* A node passes the query, the decision and the retry count on; it changes the
\* ticket only where evaluation_node puts the workflow on hold.
LEMMA NodeReturns ==
  ASSUME NEW s \in OrchestrationState, s.retry_count = 0, NEW n, OnCourse(n, s), NEW i,
         n = "evaluation_node" /\ OnHold(s) => i \in TicketIds
  PROVE  LET r == Effect(n, s, i) IN
         /\ r \in OrchestrationState
         /\ r.retry_count = 0 /\ r.query = s.query /\ r.hitl_decision = s.hitl_decision
         /\ r.hitl_ticket_id =
               IF n = "evaluation_node" /\ OnHold(s) THEN i ELSE s.hitl_ticket_id
<1>1. n \in Nodes \ {"retry_node"}
  BY DEF OnCourse
<1>2. CASE n = "init_node"
  BY <1>2 DEF Effect, init_node, EvidenceNodes, OrchestrationState, WorkflowStatusEnum
<1>3. CASE n = "router_node"
  BY <1>3, GraphAssumption DEF Effect, router_node, EvidenceNodes, OrchestrationState, WorkflowStatusEnum
<1>4. CASE n \in EvidenceNodes
  BY <1>4 DEF Effect, evidence_node, EvidenceNodes, OrchestrationState, WorkflowStatusEnum
<1>5. CASE n = "evaluation_node"
  BY <1>5 DEF Effect, evaluation_node, EvidenceNodes, OrchestrationState, WorkflowStatusEnum, OnHold
<1>6. CASE n = "hitl_gate_node"
  BY <1>6 DEF Effect, hitl_gate_node, EvidenceNodes, OrchestrationState, WorkflowStatusEnum
<1>7. CASE n = "synthesis_node"
  BY <1>7 DEF Effect, synthesis_node, EvidenceNodes, OrchestrationState, WorkflowStatusEnum
<1>8. CASE n = "fallback_node"
  BY <1>8 DEF Effect, fallback_node, EvidenceNodes, OrchestrationState, WorkflowStatusEnum
<1> QED
  BY <1>1, <1>2, <1>3, <1>4, <1>5, <1>6, <1>7, <1>8 DEF Nodes

\* The edges lead on along the course, or end in a settled state.
LEMMA NodeLeads ==
  ASSUME NEW s \in OrchestrationState, s.retry_count = 0, NEW n, OnCourse(n, s), NEW i,
         n = "evaluation_node" /\ OnHold(s) => i \in TicketIds
  PROVE  LET r == Effect(n, s, i)
             m == Edge(n, r)
         IN  IF m = "END" THEN Settled(r) ELSE OnCourse(m, r)
<1> DEFINE r == Effect(n, s, i)
           m == Edge(n, r)
<1>1. n \in Nodes \ {"retry_node"} /\ r \in OrchestrationState
  BY NodeReturns DEF OnCourse
<1>2. CASE n = "init_node"
  BY <1>2 DEF Effect, Edge, init_node, OnCourse, OrchestrationState, Nodes, EvidenceNodes
<1>3. CASE n = "router_node"
  BY <1>3 DEF Effect, Edge, router_node, _route_after_router, OnCourse, OrchestrationState,
     Nodes, EvidenceNodes
<1>4. CASE n \in EvidenceNodes
  BY <1>4 DEF Effect, Edge, evidence_node, OnCourse, OrchestrationState, Nodes, EvidenceNodes
<1>5. CASE n = "evaluation_node"
  BY <1>5 DEF Effect, Edge, evaluation_node, _route_after_evaluation, OnCourse, OnHold,
     OrchestrationState, Nodes, EvidenceNodes, Verdicts
<1>6. CASE n = "hitl_gate_node"
  BY <1>6, Distinct DEF Effect, Edge, hitl_gate_node, _route_after_hitl, OnCourse, OnHold, Settled,
     Suspended, OrchestrationState, Nodes, EvidenceNodes, Verdicts
<1>7. CASE n = "synthesis_node"
  BY <1>7 DEF Effect, Edge, synthesis_node, OnCourse, OnHold, Settled, OrchestrationState,
     Nodes, EvidenceNodes
<1>8. CASE n = "fallback_node"
  BY <1>8 DEF Effect, Edge, fallback_node, OnCourse, Settled, OrchestrationState,
     Nodes, EvidenceNodes
<1> QED
  BY <1>1, <1>2, <1>3, <1>4, <1>5, <1>6, <1>7, <1>8 DEF Nodes

-----------------------------------------------------------------------------
\* Types.  A step of thread t leaves what the others hold, and checkpoints are
\* only ever appended to.
Others(t) ==
    \A u \in Threads : u # t =>
        /\ at'[u] = at[u] /\ node'[u] = node[u] /\ state'[u] = state[u]
        /\ wf'[u] = wf[u] /\ decision'[u] = decision[u]

Grows ==
    \A w \in Workflows :
        /\ Len(checkpoints[w]) <= Len(checkpoints'[w])
        /\ \A n \in 1..Len(checkpoints[w]) : checkpoints'[w][n] = checkpoints[w][n]

LEMMA TypeInit == Init => TInv
<1> SUFFICES ASSUME Init PROVE TInv
  OBVIOUS
<1>1. TypeOK
  BY DEF Init, TypeOK
<1>2. SavedFit /\ ThreadsFit
  BY DEF Init, SavedFit, ThreadsFit, Fits
<1> QED
  BY <1>1, <1>2 DEF TInv

LEMMA Saves ==
  ASSUME TInv, NEW w \in Workflows, NEW s, save_checkpoint(w, s), Of(s, w),
         s = Blank(w) \/ Settled(s)
  PROVE  /\ checkpoints' \in [Workflows -> Seq(OrchestrationState)]
         /\ SavedFit' /\ Grows
         /\ \A v \in Workflows : v # w => checkpoints'[v] = checkpoints[v]
         /\ checkpoints'[w] = Append(checkpoints[w], s)
         /\ Len(checkpoints'[w]) = Len(checkpoints[w]) + 1
         /\ checkpoints'[w][Len(checkpoints[w]) + 1] = s
         /\ checkpoints'[w] # <<>> /\ Latest(w)' = s
<1>1. checkpoints \in [Workflows -> Seq(OrchestrationState)] /\ s \in OrchestrationState
  BY DEF TInv, TypeOK, Of
<1>2. /\ checkpoints' \in [Workflows -> Seq(OrchestrationState)]
      /\ \A v \in Workflows : v # w => checkpoints'[v] = checkpoints[v]
      /\ checkpoints'[w] = Append(checkpoints[w], s)
  BY <1>1 DEF save_checkpoint
<1>3. /\ Len(checkpoints'[w]) = Len(checkpoints[w]) + 1
      /\ checkpoints'[w][Len(checkpoints[w]) + 1] = s
      /\ \A n \in 1..Len(checkpoints[w]) : checkpoints'[w][n] = checkpoints[w][n]
  BY <1>1, <1>2
<1>4. checkpoints'[w] # <<>> /\ Latest(w)' = s
  BY <1>1, <1>2, <1>3 DEF Latest, Last
<1>5. Grows
  <2> SUFFICES ASSUME NEW v \in Workflows
               PROVE  /\ Len(checkpoints[v]) <= Len(checkpoints'[v])
                      /\ \A n \in 1..Len(checkpoints[v]) : checkpoints'[v][n] = checkpoints[v][n]
    BY DEF Grows
  <2>1. Len(checkpoints[v]) \in Nat
    BY <1>1
  <2>2. CASE v = w
    BY <1>3, <2>1, <2>2
  <2>3. CASE v # w
    BY <1>2, <2>1, <2>3
  <2> QED
    BY <2>2, <2>3
<1>6. SavedFit'
  <2> SUFFICES ASSUME NEW v \in Workflows, NEW n \in DOMAIN checkpoints'[v]
               PROVE  /\ Of(checkpoints'[v][n], v)
                      /\ checkpoints'[v][n] = Blank(v) \/ Settled(checkpoints'[v][n])
    BY DEF SavedFit
  <2>1. CASE v = w /\ n = Len(checkpoints[w]) + 1
    BY <1>3, <2>1
  <2>2. CASE ~(v = w /\ n = Len(checkpoints[w]) + 1)
    <3>1. n \in DOMAIN checkpoints[v] /\ checkpoints'[v][n] = checkpoints[v][n]
      BY <1>1, <1>2, <1>3, <2>2, SMTT(30)
    <3> QED
      BY <3>1 DEF TInv, SavedFit
  <2> QED
    BY <2>1, <2>2
<1> QED
  BY <1>2, <1>3, <1>4, <1>5, <1>6

LEMMA SameSaved ==
  ASSUME TInv, UNCHANGED checkpoints
  PROVE  /\ checkpoints' \in [Workflows -> Seq(OrchestrationState)]
         /\ SavedFit' /\ Grows
<1>1. checkpoints \in [Workflows -> Seq(OrchestrationState)]
  BY DEF TInv, TypeOK
<1>2. Grows
  BY <1>1 DEF Grows
<1>3. SavedFit'
  BY DEF TInv, SavedFit
<1> QED
  BY <1>1, <1>2, <1>3

LEMMA ThreadsStayFit ==
  ASSUME TInv, NEW t \in Threads, Others(t), Grows, Fits(t)',
         checkpoints' \in [Workflows -> Seq(OrchestrationState)]
  PROVE  ThreadsFit'
<1> SUFFICES ASSUME NEW u \in Threads, u # t PROVE Fits(u)'
  BY DEF ThreadsFit
<1>1. Fits(u) /\ checkpoints \in [Workflows -> Seq(OrchestrationState)]
  BY DEF TInv, ThreadsFit, TypeOK
<1>2. at[u] # "idle" => checkpoints'[wf[u]] # <<>>
  <2> SUFFICES ASSUME at[u] # "idle" PROVE checkpoints'[wf[u]] # <<>>
    OBVIOUS
  <2>1. wf[u] \in Workflows /\ checkpoints[wf[u]] # <<>>
    BY <1>1 DEF Fits
  <2>2. Len(checkpoints[wf[u]]) > 0 /\ Len(checkpoints'[wf[u]]) >= Len(checkpoints[wf[u]])
    BY <1>1, <2>1 DEF Grows
  <2> QED
    BY <2>1, <2>2
<1> QED
  BY <1>1, <1>2 DEF Others, Fits

LEMMA Executing ==
  ASSUME TInv, NEW t \in Threads, NEW w \in Workflows, execute_workflow(t, w)
  PROVE  /\ TInv' /\ Others(t) /\ Grows
         /\ at'[t] = "invoke" /\ wf'[t] = w /\ decision'[t] = None /\ state'[t] = Blank(w)
         /\ checkpoints'[w] = <<Blank(w)>>
         /\ \A v \in Workflows : v # w => checkpoints'[v] = checkpoints[v]
<1>1. /\ checkpoints' \in [Workflows -> Seq(OrchestrationState)] /\ SavedFit' /\ Grows
      /\ \A v \in Workflows : v # w => checkpoints'[v] = checkpoints[v]
      /\ checkpoints'[w] = Append(<<>>, Blank(w)) /\ checkpoints'[w] # <<>>
  BY Saves, BlankIsOf DEF execute_workflow
<1>2. decision[t] = None
  BY DEF TInv, ThreadsFit, Fits, execute_workflow
<1>3. Of(Blank(w), w)
  BY BlankIsOf
<1>4. TypeOK' /\ Others(t)
  BY <1>1, <1>3 DEF TInv, TypeOK, Others, execute_workflow, Invoke, Nodes, Of
<1>5. /\ at'[t] = "invoke" /\ wf'[t] = w /\ decision'[t] = None /\ state'[t] = Blank(w)
      /\ node'[t] = "init_node"
  BY <1>2 DEF TInv, TypeOK, execute_workflow, Invoke
<1>6. OnCourse(node'[t], state'[t]) /\ state'[t].hitl_decision = None
  BY <1>5, BlankOnCourse DEF Blank
<1>7. Fits(t)'
  BY <1>1, <1>3, <1>5, <1>6 DEF Fits
<1> QED
  BY <1>1, <1>4, <1>5, <1>7, ThreadsStayFit DEF TInv

LEMMA LatestIsSaved ==
  ASSUME TInv, NEW w \in Workflows, checkpoints[w] # <<>>
  PROVE  /\ Len(checkpoints[w]) \in DOMAIN checkpoints[w] /\ Len(checkpoints[w]) \in Nat
         /\ Len(checkpoints[w]) >= 1 /\ Of(Latest(w), w)
         /\ Latest(w) = Blank(w) \/ Settled(Latest(w))
<1>1. checkpoints[w] \in Seq(OrchestrationState)
  BY DEF TInv, TypeOK
<1>2. /\ Len(checkpoints[w]) \in DOMAIN checkpoints[w] /\ Len(checkpoints[w]) \in Nat
      /\ Len(checkpoints[w]) >= 1
  BY <1>1
<1> QED
  BY <1>2 DEF TInv, SavedFit, Latest, Last

LEMMA Resuming ==
  ASSUME TInv, NEW t \in Threads, NEW w \in Workflows, NEW d \in Decisions,
         resume_workflow(t, w, d)
  PROVE  /\ TInv' /\ Others(t) /\ UNCHANGED <<checkpoints, tickets>>
         /\ at'[t] = "decide" /\ wf'[t] = w /\ decision'[t] = d /\ state'[t] = Latest(w)
<1>1. /\ checkpoints' \in [Workflows -> Seq(OrchestrationState)] /\ SavedFit' /\ Grows
      /\ UNCHANGED <<checkpoints, tickets>>
  BY SameSaved DEF resume_workflow
<1>2. checkpoints[w] # <<>> /\ Of(Latest(w), w) /\ Suspended(Latest(w)) /\ Settled(Latest(w))
  BY LatestIsSaved DEF resume_workflow, Known, Blank, Suspended
<1>3. TypeOK' /\ Others(t)
  BY <1>1, <1>2 DEF TInv, TypeOK, Others, resume_workflow, Of
<1>4. at'[t] = "decide" /\ wf'[t] = w /\ decision'[t] = d /\ state'[t] = Latest(w)
  BY DEF TInv, TypeOK, resume_workflow
<1>5. Fits(t)'
  BY <1>1, <1>2, <1>4 DEF Fits
<1> QED
  BY <1>1, <1>3, <1>4, <1>5, ThreadsStayFit DEF TInv

LEMMA Submitting ==
  ASSUME TInv, NEW t \in Threads, submit_decision(t)
  PROVE  /\ TInv' /\ Others(t) /\ UNCHANGED <<checkpoints, wf, decision>>
         /\ at'[t] = "invoke" /\ decision[t] # None /\ wf[t] \in Workflows
         /\ state'[t].hitl_ticket_id = state[t].hitl_ticket_id
         /\ \A i \in TicketIds : i # state[t].hitl_ticket_id => tickets'[i] = tickets[i]
<1> DEFINE s == [state[t] EXCEPT !.hitl_decision = decision[t], !.requires_hitl = FALSE]
<1>1. /\ at[t] = "decide" /\ decision[t] \in Decisions /\ wf[t] \in Workflows
      /\ Of(state[t], wf[t]) /\ Suspended(state[t]) /\ Settled(state[t])
      /\ checkpoints[wf[t]] # <<>> /\ decision[t] # None
  BY Distinct DEF TInv, ThreadsFit, Fits, submit_decision
<1>2. /\ checkpoints' \in [Workflows -> Seq(OrchestrationState)] /\ SavedFit' /\ Grows
      /\ UNCHANGED <<checkpoints, wf, decision>>
  BY SameSaved DEF submit_decision
<1>3. Of(s, wf[t]) /\ s.hitl_decision = decision[t] /\ s.hitl_ticket_id = state[t].hitl_ticket_id
  BY <1>1, EngineAssumption DEF Of, OrchestrationState
<1>4. OnCourse("init_node", s)
  <2>1. state[t].final_response = None /\ state[t] \in OrchestrationState
    BY <1>1, Distinct DEF Settled, Suspended, Of
  <2> QED
    BY <2>1 DEF OnCourse, Nodes, EvidenceNodes, OrchestrationState
<1>5. at'[t] = "invoke" /\ node'[t] = "init_node" /\ state'[t] = s
  BY DEF TInv, TypeOK, submit_decision, Invoke
<1>6. /\ tickets' \in [TicketIds -> {"PENDING", None} \cup Verdicts]
      /\ \A i \in TicketIds : i # state[t].hitl_ticket_id => tickets'[i] = tickets[i]
  BY DEF TInv, TypeOK, submit_decision
<1>7. TypeOK' /\ Others(t)
  BY <1>2, <1>3, <1>6 DEF TInv, TypeOK, Others, submit_decision, Invoke, Nodes, Of
<1>8. Fits(t)'
  <2>1. /\ Of(state'[t], wf'[t]) /\ OnCourse(node'[t], state'[t])
        /\ state'[t].hitl_decision = decision'[t]
    BY <1>2, <1>3, <1>4, <1>5
  <2> QED
    BY <1>1, <1>2, <1>5, <2>1 DEF Fits
<1> QED
  BY <1>1, <1>2, <1>3, <1>5, <1>6, <1>7, <1>8, ThreadsStayFit DEF TInv

LEMMA Running ==
  ASSUME TInv, NEW t \in Threads, RunNode(t)
  PROVE  /\ TInv' /\ Others(t) /\ UNCHANGED <<checkpoints, tickets, wf, decision>>
         /\ at[t] = "invoke" /\ at'[t] \in {"invoke", "save"}
         /\ \/ state'[t].hitl_ticket_id = state[t].hitl_ticket_id
            \/ decision[t] \notin Verdicts /\ state'[t].hitl_ticket_id \in Unused
<1>1. /\ at[t] = "invoke" /\ wf[t] \in Workflows /\ checkpoints[wf[t]] # <<>>
      /\ Of(state[t], wf[t]) /\ state[t].hitl_decision = decision[t]
      /\ OnCourse(node[t], state[t])
  BY DEF TInv, ThreadsFit, Fits, RunNode
<1>2. /\ checkpoints' \in [Workflows -> Seq(OrchestrationState)] /\ SavedFit' /\ Grows
      /\ UNCHANGED <<checkpoints, tickets, wf, decision>>
  BY SameSaved DEF RunNode
<1>3. PICK i \in IF node[t] = "evaluation_node" /\ OnHold(state[t]) THEN Unused ELSE {None} :
        LET s == Effect(node[t], state[t], i)
            n == Edge(node[t], s)
        IN  /\ state' = [state EXCEPT ![t] = s]
            /\ node' = [node EXCEPT ![t] = IF n = "END" THEN None ELSE n]
            /\ at' = [at EXCEPT ![t] = IF n = "END" THEN "save" ELSE "invoke"]
  BY DEF RunNode
<1> DEFINE s == Effect(node[t], state[t], i)
           n == Edge(node[t], s)
<1>4. node[t] = "evaluation_node" /\ OnHold(state[t]) => i \in Unused /\ i \in TicketIds
  BY DEF Unused
<1>5. /\ s \in OrchestrationState /\ s.retry_count = 0 /\ s.query = state[t].query
      /\ s.hitl_decision = state[t].hitl_decision
      /\ s.hitl_ticket_id = IF node[t] = "evaluation_node" /\ OnHold(state[t])
                            THEN i ELSE state[t].hitl_ticket_id
  BY <1>1, <1>4, NodeReturns DEF Of
<1>6. IF n = "END" THEN Settled(s) ELSE OnCourse(n, s)
  BY <1>1, <1>4, NodeLeads DEF Of
<1>7. n # "END" => n \in Nodes
  BY <1>6 DEF OnCourse
<1> HIDE DEF s, n
<1>8. /\ state' = [state EXCEPT ![t] = s]
      /\ node' = [node EXCEPT ![t] = IF n = "END" THEN None ELSE n]
      /\ at' = [at EXCEPT ![t] = IF n = "END" THEN "save" ELSE "invoke"]
  BY <1>3 DEF s, n
<1>9. TypeOK' /\ Others(t)
  BY <1>2, <1>5, <1>7, <1>8 DEF TInv, TypeOK, Others
<1>10. /\ state'[t] = s /\ node'[t] = (IF n = "END" THEN None ELSE n)
       /\ at'[t] = IF n = "END" THEN "save" ELSE "invoke"
  BY <1>8 DEF TInv, TypeOK
<1>11. Fits(t)'
  <2>1. /\ Of(state'[t], wf'[t]) /\ state'[t].hitl_decision = decision'[t]
        /\ at'[t] = "save" => Settled(state'[t])
        /\ at'[t] = "invoke" => OnCourse(node'[t], state'[t])
    BY <1>1, <1>2, <1>5, <1>6, <1>10 DEF Of
  <2> QED
    BY <1>1, <1>2, <1>10, <2>1 DEF Fits
<1>12. \/ state'[t].hitl_ticket_id = state[t].hitl_ticket_id
       \/ decision[t] \notin Verdicts /\ state'[t].hitl_ticket_id \in Unused
  BY <1>1, <1>4, <1>5, <1>10 DEF OnHold
<1> QED
  BY <1>1, <1>2, <1>9, <1>10, <1>11, <1>12, ThreadsStayFit DEF TInv

LEMMA Returning ==
  ASSUME TInv, NEW t \in Threads, Return(t), UNCHANGED node
  PROVE  /\ Others(t) /\ Fits(t)'
         /\ at'[t] = "idle" /\ state'[t] = None /\ wf'[t] = None /\ decision'[t] = None
         /\ at' \in [Threads -> {"idle", "decide", "invoke", "save", "ticket"}]
         /\ state' \in [Threads -> OrchestrationState \cup {None}]
         /\ wf' \in [Threads -> Workflows \cup {None}]
         /\ decision' \in [Threads -> Decisions \cup {None}]
<1>1. at'[t] = "idle" /\ state'[t] = None /\ wf'[t] = None /\ decision'[t] = None
  BY DEF TInv, TypeOK, Return
<1>2. Fits(t)'
  BY <1>1 DEF Fits
<1> QED
  BY <1>1, <1>2 DEF TInv, TypeOK, Return, Others

LEMMA Saving ==
  ASSUME TInv, NEW t \in Threads, SaveResult(t)
  PROVE  /\ TInv' /\ Others(t) /\ Grows /\ UNCHANGED tickets
         /\ at[t] = "save" /\ wf[t] \in Workflows /\ Settled(state[t]) /\ Of(state[t], wf[t])
         /\ state[t].hitl_decision = decision[t]
         /\ \A v \in Workflows : v # wf[t] => checkpoints'[v] = checkpoints[v]
         /\ Len(checkpoints'[wf[t]]) = Len(checkpoints[wf[t]]) + 1
         /\ checkpoints'[wf[t]][Len(checkpoints[wf[t]]) + 1] = state[t]
         /\ Last(checkpoints'[wf[t]]) = state[t]
         /\ \/ /\ decision[t] = None /\ at'[t] = "ticket"
               /\ UNCHANGED <<state, wf, decision>>
            \/ /\ ~(decision[t] = None /\ state[t].requires_hitl)
               /\ at'[t] = "idle" /\ state'[t] = None /\ wf'[t] = None /\ decision'[t] = None
<1>1. /\ at[t] = "save" /\ wf[t] \in Workflows /\ Settled(state[t]) /\ Of(state[t], wf[t])
      /\ state[t].hitl_decision = decision[t] /\ UNCHANGED <<tickets, node>>
      /\ save_checkpoint(wf[t], state[t])
  BY DEF TInv, ThreadsFit, Fits, SaveResult
<1> DEFINE w == wf[t]
<1>2. /\ checkpoints' \in [Workflows -> Seq(OrchestrationState)] /\ SavedFit' /\ Grows
      /\ \A v \in Workflows : v # w => checkpoints'[v] = checkpoints[v]
      /\ Len(checkpoints'[w]) = Len(checkpoints[w]) + 1
      /\ checkpoints'[w][Len(checkpoints[w]) + 1] = state[t]
      /\ checkpoints'[w] # <<>>
  BY <1>1, Saves
<1>3. Last(checkpoints'[w]) = state[t]
  BY <1>2 DEF Last
<1>4. CASE decision[t] = None /\ state[t].requires_hitl
  <2>1. at' = [at EXCEPT ![t] = "ticket"] /\ UNCHANGED <<state, wf, decision>>
    BY <1>4 DEF SaveResult
  <2>2. at'[t] = "ticket" /\ TypeOK' /\ Others(t)
    BY <1>1, <1>2, <2>1 DEF TInv, TypeOK, Others
  <2>3. Fits(t)'
    BY <1>1, <1>2, <1>4, <2>1, <2>2 DEF Fits
  <2> QED
    BY <1>1, <1>2, <1>3, <1>4, <2>1, <2>2, <2>3, ThreadsStayFit DEF TInv
<1>5. CASE ~(decision[t] = None /\ state[t].requires_hitl)
  <2>1. Return(t)
    BY <1>5 DEF SaveResult
  <2>2. /\ Others(t) /\ Fits(t)' /\ TypeOK'
        /\ at'[t] = "idle" /\ state'[t] = None /\ wf'[t] = None /\ decision'[t] = None
    BY <1>1, <1>2, <2>1, Returning DEF TInv, TypeOK
  <2> QED
    BY <1>1, <1>2, <1>3, <1>5, <2>2, ThreadsStayFit DEF TInv
<1> QED
  BY <1>4, <1>5

LEMMA Ticketing ==
  ASSUME TInv, NEW t \in Threads, create_ticket(t)
  PROVE  /\ TInv' /\ Others(t) /\ UNCHANGED checkpoints
         /\ at[t] = "ticket" /\ decision[t] = None
         /\ at'[t] = "idle" /\ state'[t] = None /\ wf'[t] = None /\ decision'[t] = None
         /\ \A i \in TicketIds : tickets'[i] =
               IF i = state[t].hitl_ticket_id THEN "PENDING" ELSE tickets[i]
<1>1. /\ checkpoints' \in [Workflows -> Seq(OrchestrationState)] /\ SavedFit' /\ Grows
      /\ UNCHANGED checkpoints
  BY SameSaved DEF create_ticket
<1>2. /\ Others(t) /\ Fits(t)'
      /\ at'[t] = "idle" /\ state'[t] = None /\ wf'[t] = None /\ decision'[t] = None
      /\ at' \in [Threads -> {"idle", "decide", "invoke", "save", "ticket"}]
      /\ state' \in [Threads -> OrchestrationState \cup {None}]
      /\ wf' \in [Threads -> Workflows \cup {None}]
      /\ decision' \in [Threads -> Decisions \cup {None}]
  BY Returning DEF create_ticket
<1>3. /\ tickets' \in [TicketIds -> {"PENDING", None} \cup Verdicts]
      /\ \A i \in TicketIds : tickets'[i] =
            IF i = state[t].hitl_ticket_id THEN "PENDING" ELSE tickets[i]
  BY DEF TInv, TypeOK, create_ticket
<1>4. TypeOK'
  BY <1>1, <1>2, <1>3 DEF TInv, TypeOK, create_ticket
<1>5. at[t] = "ticket" /\ decision[t] = None
  BY DEF create_ticket, TInv, ThreadsFit, Fits
<1> QED
  BY <1>1, <1>2, <1>3, <1>4, <1>5, ThreadsStayFit DEF TInv

LEMMA Idles ==
  ASSUME TInv, UNCHANGED vars
  PROVE  TInv'
<1>1. TypeOK' /\ SavedFit' /\ Grows
  BY SameSaved DEF TInv, TypeOK, vars
<1>2. ThreadsFit'
  BY DEF vars, TInv, ThreadsFit, Fits
<1> QED
  BY <1>1, <1>2 DEF TInv

-----------------------------------------------------------------------------
\* execute_workflow has its workflow to itself.
LEMMA AtWork ==
  ASSUME TInv, NEW u \in Threads, NEW v \in Workflows, wf[u] = v
  PROVE  at[u] # "idle" /\ checkpoints[v] # <<>>
BY Distinct DEF TInv, ThreadsFit, Fits

LEMMA AloneExecuting ==
  ASSUME TInv, Alone, NEW t \in Threads, NEW w \in Workflows, execute_workflow(t, w)
  PROVE  Alone'
<1> USE Executing
<1>1. checkpoints[w] = <<>>
  BY DEF execute_workflow
<1>2. \A u \in Threads : wf[u] # w
  BY <1>1, AtWork
<1> SUFFICES ASSUME NEW u \in Threads, NEW v \in Workflows, Executes(u, v)'
             PROVE  /\ \A x \in Threads : wf'[x] = v => x = u
                    /\ at'[u] # "ticket" => checkpoints'[v] = <<Blank(v)>>
                    /\ at'[u] = "ticket" => Latest(v)' = state'[u]
  BY DEF Alone
<1>3. CASE u = t
  BY <1>2, <1>3 DEF Others, Executes
<1>4. CASE u # t
  <2>1. Executes(u, v) /\ v # w /\ checkpoints'[v] = checkpoints[v]
    BY <1>2, <1>4 DEF Others, Executes
  <2> QED
    BY <1>4, <2>1 DEF Others, Alone, Latest
<1> QED
  BY <1>3, <1>4

LEMMA AloneResuming ==
  ASSUME TInv, Alone, NEW t \in Threads, NEW w \in Workflows, NEW d \in Decisions,
         resume_workflow(t, w, d)
  PROVE  Alone'
<1> USE Resuming
<1> SUFFICES ASSUME NEW u \in Threads, NEW v \in Workflows, Executes(u, v)'
             PROVE  /\ \A x \in Threads : wf'[x] = v => x = u
                    /\ at'[u] # "ticket" => checkpoints'[v] = <<Blank(v)>>
                    /\ at'[u] = "ticket" => Latest(v)' = state'[u]
  BY DEF Alone
<1>1. u # t
  BY Distinct DEF Executes
<1>2. Executes(u, v)
  BY <1>1 DEF Executes, Others
<1>3. v # w
  BY <1>2 DEF resume_workflow, Known, Executes
<1> QED
  BY <1>1, <1>2, <1>3 DEF Alone, Others, Latest

LEMMA AloneGoingOn ==
  ASSUME TInv, Alone, NEW t \in Threads, Others(t), UNCHANGED <<checkpoints, wf, decision>>,
         decision[t] = None => at[t] # "ticket" /\ at'[t] # "ticket"
  PROVE  Alone'
BY DEF Alone, Others, Executes, Latest

LEMMA AloneSaving ==
  ASSUME TInv, Alone, NEW t \in Threads, SaveResult(t)
  PROVE  Alone'
<1> USE Saving
<1> SUFFICES ASSUME NEW u \in Threads, NEW v \in Workflows, Executes(u, v)'
             PROVE  /\ \A x \in Threads : wf'[x] = v => x = u
                    /\ at'[u] # "ticket" => checkpoints'[v] = <<Blank(v)>>
                    /\ at'[u] = "ticket" => Latest(v)' = state'[u]
  BY DEF Alone
<1>1. CASE u = t
  <2>1. at'[t] = "ticket" /\ UNCHANGED <<state, wf, decision>> /\ Executes(t, v) /\ wf[t] = v
    BY <1>1, Distinct DEF Executes
  <2> QED
    BY <1>1, <2>1 DEF Alone, Others, Latest
<1>2. CASE u # t
  <2>1. Executes(u, v)
    BY <1>2 DEF Others, Executes
  <2>2. wf[t] # v /\ checkpoints'[v] = checkpoints[v]
    BY <1>2, <2>1 DEF Alone
  <2>3. wf'[t] # v
    BY <2>2, Distinct
  <2> QED
    BY <1>2, <2>1, <2>2, <2>3 DEF Alone, Others, Latest
<1> QED
  BY <1>1, <1>2

LEMMA AloneTicketing ==
  ASSUME TInv, Alone, NEW t \in Threads, create_ticket(t)
  PROVE  Alone'
<1> USE Ticketing
<1> SUFFICES ASSUME NEW u \in Threads, NEW v \in Workflows, Executes(u, v)'
             PROVE  /\ \A x \in Threads : wf'[x] = v => x = u
                    /\ at'[u] # "ticket" => checkpoints'[v] = <<Blank(v)>>
                    /\ at'[u] = "ticket" => Latest(v)' = state'[u]
  BY DEF Alone
<1>1. u # t
  BY Distinct DEF Executes
<1>2. Executes(u, v)
  BY <1>1 DEF Executes, Others
<1>3. wf'[t] # v
  BY Distinct
<1> QED
  BY <1>1, <1>2, <1>3 DEF Alone, Others, Latest

-----------------------------------------------------------------------------
\* No two workflows share a ticket id.
LEMMA NoNewBearer ==
  ASSUME OneOwner, \A v \in Workflows, i \in TicketIds : Bears(v, i)' => Bears(v, i)
  PROVE  OneOwner'
BY DEF OneOwner

LEMMA BornBefore ==
  ASSUME TInv, NEW t \in Threads, Others(t), UNCHANGED checkpoints,
         NEW v \in Workflows, NEW i \in TicketIds, Bears(v, i)',
         ~(wf'[t] = v /\ state'[t].hitl_ticket_id = i)
  PROVE  Bears(v, i)
BY DEF Bears, Others

LEMMA OwnerExecuting ==
  ASSUME TInv, OneOwner, NEW t \in Threads, NEW w \in Workflows, execute_workflow(t, w)
  PROVE  OneOwner'
<1> USE Executing
<1> SUFFICES ASSUME NEW v \in Workflows, NEW i \in TicketIds, Bears(v, i)' PROVE Bears(v, i)
  BY NoNewBearer
<1>1. Blank(w).hitl_ticket_id # i
  BY Distinct DEF Blank
<1>2. CASE \E u \in Threads : wf'[u] = v /\ state'[u].hitl_ticket_id = i
  BY <1>1, <1>2 DEF Others, Bears
<1>3. CASE \E n \in DOMAIN checkpoints'[v] : checkpoints'[v][n].hitl_ticket_id = i
  <2>1. v # w
    <3> SUFFICES ASSUME v = w PROVE FALSE
      OBVIOUS
    <3>1. checkpoints'[v] = <<Blank(w)>>
      OBVIOUS
    <3>2. PICK n \in DOMAIN <<Blank(w)>> : <<Blank(w)>>[n].hitl_ticket_id = i
      BY <1>3, <3>1
    <3>3. <<Blank(w)>>[n] = Blank(w)
      OBVIOUS
    <3> QED
      BY <1>1, <3>2, <3>3
  <2> QED
    BY <1>3, <2>1 DEF Bears
<1> QED
  BY <1>2, <1>3 DEF Bears

LEMMA OwnerResuming ==
  ASSUME TInv, OneOwner, NEW t \in Threads, NEW w \in Workflows, NEW d \in Decisions,
         resume_workflow(t, w, d)
  PROVE  OneOwner'
<1> USE Resuming
<1> SUFFICES ASSUME NEW v \in Workflows, NEW i \in TicketIds, Bears(v, i)' PROVE Bears(v, i)
  BY NoNewBearer
<1>1. CASE wf'[t] = v /\ state'[t].hitl_ticket_id = i
  <2>1. v = w /\ Latest(w).hitl_ticket_id = i
    BY <1>1
  <2>2. checkpoints[w] # <<>>
    BY DEF resume_workflow, Known
  <2> QED
    BY <2>1, <2>2, LatestIsSaved DEF Bears, Latest, Last
<1> QED
  BY <1>1, BornBefore

LEMMA OwnerSubmitting ==
  ASSUME TInv, OneOwner, NEW t \in Threads, submit_decision(t)
  PROVE  OneOwner'
<1> USE Submitting
<1> SUFFICES ASSUME NEW v \in Workflows, NEW i \in TicketIds, Bears(v, i)' PROVE Bears(v, i)
  BY NoNewBearer
<1>1. CASE wf'[t] = v /\ state'[t].hitl_ticket_id = i
  BY <1>1 DEF Bears
<1> QED
  BY <1>1, BornBefore

LEMMA OwnerRunning ==
  ASSUME TInv, OneOwner, NEW t \in Threads, RunNode(t)
  PROVE  OneOwner'
<1> USE Running
<1> DEFINE j == state'[t].hitl_ticket_id
<1>1. CASE j = state[t].hitl_ticket_id
  <2> SUFFICES ASSUME NEW v \in Workflows, NEW i \in TicketIds, Bears(v, i)' PROVE Bears(v, i)
    BY NoNewBearer
  <2>1. CASE wf'[t] = v /\ j = i
    BY <1>1, <2>1 DEF Bears
  <2> QED
    BY <2>1, BornBefore
<1>2. CASE j \in Unused
  <2>1. \A v \in Workflows : ~Bears(v, j)
    <3> SUFFICES ASSUME NEW v \in Workflows, Bears(v, j) PROVE FALSE
      OBVIOUS
    <3>1. PICK u \in Threads : wf[u] = v /\ state[u].hitl_ticket_id = j
      BY <1>2 DEF Unused, Bears
    <3>2. state[u] # None
      BY <3>1, AtWork, Distinct DEF TInv, ThreadsFit, Fits, Of
    <3> QED
      BY <1>2, <3>1, <3>2 DEF Unused
  <2>2. \A v \in Workflows, i \in TicketIds : Bears(v, i)' => Bears(v, i) \/ (v = wf[t] /\ i = j)
    BY BornBefore
  <2> QED
    BY <2>1, <2>2 DEF OneOwner
<1> QED
  BY <1>1, <1>2

LEMMA OwnerSaving ==
  ASSUME TInv, OneOwner, NEW t \in Threads, SaveResult(t)
  PROVE  OneOwner'
<1> USE Saving
<1> SUFFICES ASSUME NEW v \in Workflows, NEW i \in TicketIds, Bears(v, i)' PROVE Bears(v, i)
  BY NoNewBearer
<1>1. CASE \E u \in Threads : wf'[u] = v /\ state'[u].hitl_ticket_id = i
  BY <1>1, Distinct DEF Others, Bears
<1>2. CASE \E n \in DOMAIN checkpoints'[v] : checkpoints'[v][n].hitl_ticket_id = i
  <2>1. PICK n \in DOMAIN checkpoints'[v] : checkpoints'[v][n].hitl_ticket_id = i
    BY <1>2
  <2>2. CASE v = wf[t] /\ n = Len(checkpoints[v]) + 1
    BY <2>1, <2>2 DEF Bears
  <2>3. CASE ~(v = wf[t] /\ n = Len(checkpoints[v]) + 1)
    <3>1. checkpoints[v] \in Seq(OrchestrationState) /\ checkpoints'[v] \in Seq(OrchestrationState)
      BY DEF TInv, TypeOK
    <3>2. n \in DOMAIN checkpoints[v] /\ checkpoints'[v][n] = checkpoints[v][n]
      BY <2>1, <2>3, <3>1 DEF Grows
    <3> QED
      BY <2>1, <3>2 DEF Bears
  <2> QED
    BY <2>2, <2>3
<1> QED
  BY <1>1, <1>2 DEF Bears

LEMMA OwnerTicketing ==
  ASSUME TInv, OneOwner, NEW t \in Threads, create_ticket(t)
  PROVE  OneOwner'
<1> USE Ticketing
<1> SUFFICES ASSUME NEW v \in Workflows, NEW i \in TicketIds, Bears(v, i)' PROVE Bears(v, i)
  BY NoNewBearer
<1> QED
  BY BornBefore, Distinct

-----------------------------------------------------------------------------
\* The ticket of a resumed workflow.
LEMMA TicketsKept ==
  ASSUME TInv, TInv', KeepsTicket, NEW t \in Threads, Others(t), Grows,
         at'[t] # "idle" /\ decision'[t] \in Verdicts =>
            WasHeld(wf[t], state[t].hitl_ticket_id, Len(checkpoints[wf[t]]))'
  PROVE  KeepsTicket'
<1> SUFFICES ASSUME NEW u \in Threads, u # t, at'[u] # "idle", decision'[u] \in Verdicts
             PROVE  WasHeld(wf[u], state[u].hitl_ticket_id, Len(checkpoints[wf[u]]))'
  BY DEF KeepsTicket
<1>1. /\ at[u] # "idle" /\ decision[u] \in Verdicts /\ wf'[u] = wf[u] /\ state'[u] = state[u]
      /\ wf[u] \in Workflows
  BY DEF Others, TInv, ThreadsFit, Fits
<1>2. WasHeld(wf[u], state[u].hitl_ticket_id, Len(checkpoints[wf[u]]))
  BY <1>1 DEF KeepsTicket
<1> DEFINE w == wf[u]
           i == state[u].hitl_ticket_id
<1>3. \E m \in 1..Len(checkpoints'[w]) :
         Suspended(checkpoints'[w][m]) /\ checkpoints'[w][m].hitl_ticket_id = i
  <2>1. PICK m \in 1..Len(checkpoints[w]) :
          Suspended(checkpoints[w][m]) /\ checkpoints[w][m].hitl_ticket_id = i
    BY <1>2 DEF WasHeld
  <2>2. checkpoints'[w][m] = checkpoints[w][m] /\ Len(checkpoints[w]) <= Len(checkpoints'[w])
    BY <1>1 DEF Grows
  <2>3. Len(checkpoints[w]) \in Nat /\ Len(checkpoints'[w]) \in Nat
    BY <1>1 DEF TInv, TypeOK
  <2>4. m \in 1..Len(checkpoints'[w])
    BY <2>2, <2>3
  <2> QED
    BY <2>1, <2>2, <2>4
<1> QED
  BY <1>1, <1>3 DEF WasHeld

LEMMA TicketKept ==
  ASSUME TInv, KeepsTicket, NEW t \in Threads,
         \/ \E w \in Workflows : execute_workflow(t, w)
         \/ \E w \in Workflows, d \in Decisions : resume_workflow(t, w, d)
         \/ Proceed(t)
  PROVE  KeepsTicket'
<1>1. ASSUME NEW w \in Workflows, execute_workflow(t, w) PROVE KeepsTicket'
  BY <1>1, Executing, TicketsKept, Distinct, NoneAssumption
<1>2. ASSUME NEW w \in Workflows, NEW d \in Decisions, resume_workflow(t, w, d)
      PROVE  KeepsTicket'
  <2>1. checkpoints[w] # <<>> /\ Suspended(Latest(w))
    BY <1>2 DEF resume_workflow, Known
  <2>2. WasHeld(w, Latest(w).hitl_ticket_id, Len(checkpoints[w]))
    <3>1. Len(checkpoints[w]) \in 1..Len(checkpoints[w])
      BY <2>1, LatestIsSaved
    <3> QED
      BY <2>1, <3>1 DEF WasHeld, Latest, Last
  <2>3. /\ TInv' /\ Others(t) /\ UNCHANGED checkpoints /\ Grows
        /\ wf'[t] = w /\ state'[t] = Latest(w)
    BY <1>2, Resuming, SameSaved
  <2>4. WasHeld(wf[t], state[t].hitl_ticket_id, Len(checkpoints[wf[t]]))'
    BY <2>2, <2>3 DEF WasHeld
  <2> QED
    BY <2>3, <2>4, TicketsKept
<1>3. ASSUME TInv', Others(t), UNCHANGED <<checkpoints, wf, decision>>, at[t] # "idle",
             state'[t].hitl_ticket_id = state[t].hitl_ticket_id \/ decision[t] \notin Verdicts
      PROVE  KeepsTicket'
  <2>1. decision'[t] \in Verdicts => WasHeld(wf[t], state[t].hitl_ticket_id, Len(checkpoints[wf[t]]))
    BY <1>3 DEF KeepsTicket
  <2>2. decision'[t] \in Verdicts => WasHeld(wf[t], state[t].hitl_ticket_id, Len(checkpoints[wf[t]]))'
    BY <1>3, <2>1 DEF WasHeld
  <2> QED
    BY <1>3, <2>2, SameSaved, TicketsKept
<1>4. CASE submit_decision(t)
  BY <1>3, <1>4, Submitting DEF submit_decision
<1>5. CASE RunNode(t)
  BY <1>3, <1>5, Running
<1>6. CASE SaveResult(t)
  BY <1>6, Saving, TicketsKept, NoneAssumption
<1>7. CASE create_ticket(t)
  BY <1>7, Ticketing, SameSaved, TicketsKept
<1> QED
  BY <1>1, <1>2, <1>4, <1>5, <1>6, <1>7 DEF Proceed

-----------------------------------------------------------------------------
\* What is released was approved.
LEMMA OldAnswers ==
  ASSUME TInv, TInv', AnswersAreApproved, Grows, NEW w \in Workflows,
         NEW n \in DOMAIN checkpoints'[w], n <= Len(checkpoints[w]),
         checkpoints'[w][n].final_response = "answer", checkpoints'[w][n].query \in Sensitive
  PROVE  /\ checkpoints'[w][n].hitl_decision = "APPROVED"
         /\ \E m \in 1..(n - 1) :
               /\ Suspended(checkpoints'[w][m])
               /\ checkpoints'[w][m].hitl_ticket_id = checkpoints'[w][n].hitl_ticket_id
<1>1. checkpoints[w] \in Seq(OrchestrationState) /\ checkpoints'[w] \in Seq(OrchestrationState)
  BY DEF TInv, TypeOK
<1>2. n \in DOMAIN checkpoints[w] /\ n \in 1..Len(checkpoints[w]) /\ n \in Nat
  BY <1>1
<1>3. checkpoints'[w][n] = checkpoints[w][n]
  BY <1>2 DEF Grows
<1>4. /\ checkpoints[w][n].hitl_decision = "APPROVED"
      /\ \E m \in 1..(n - 1) :
            /\ Suspended(checkpoints[w][m])
            /\ checkpoints[w][m].hitl_ticket_id = checkpoints[w][n].hitl_ticket_id
  BY <1>2, <1>3 DEF AnswersAreApproved
<1>5. \A m \in 1..(n - 1) : checkpoints'[w][m] = checkpoints[w][m]
  BY <1>1, <1>2 DEF Grows
<1> QED
  BY <1>3, <1>4, <1>5

LEMMA AnswersSame ==
  ASSUME TInv, TInv', AnswersAreApproved, UNCHANGED checkpoints
  PROVE  AnswersAreApproved'
BY DEF AnswersAreApproved

LEMMA AnswersExecuting ==
  ASSUME TInv, AnswersAreApproved, NEW t \in Threads, NEW w \in Workflows, execute_workflow(t, w)
  PROVE  AnswersAreApproved'
<1> USE Executing
<1> SUFFICES ASSUME NEW v \in Workflows, NEW n \in DOMAIN checkpoints'[v],
                    checkpoints'[v][n].final_response = "answer"
             PROVE  v # w
  BY DEF AnswersAreApproved
<1> SUFFICES ASSUME v = w PROVE FALSE
  OBVIOUS
<1>1. checkpoints'[v][n] = Blank(w)
  <2>1. n \in DOMAIN <<Blank(w)>>
    OBVIOUS
  <2> QED
    BY <2>1
<1> QED
  BY <1>1, Distinct DEF Blank

LEMMA AnswersSaving ==
  ASSUME TInv, KeepsTicket, AnswersAreApproved, NEW t \in Threads, SaveResult(t)
  PROVE  AnswersAreApproved'
<1> USE Saving
<1> SUFFICES ASSUME NEW v \in Workflows, NEW n \in DOMAIN checkpoints'[v],
                    checkpoints'[v][n].final_response = "answer",
                    checkpoints'[v][n].query \in Sensitive
             PROVE  /\ checkpoints'[v][n].hitl_decision = "APPROVED"
                    /\ \E m \in 1..(n - 1) :
                          /\ Suspended(checkpoints'[v][m])
                          /\ checkpoints'[v][m].hitl_ticket_id = checkpoints'[v][n].hitl_ticket_id
  BY DEF AnswersAreApproved
<1>1. checkpoints[v] \in Seq(OrchestrationState) /\ checkpoints'[v] \in Seq(OrchestrationState)
  BY DEF TInv, TypeOK
<1>2. CASE n <= Len(checkpoints[v])
  BY <1>2, OldAnswers
<1>3. CASE ~(n <= Len(checkpoints[v]))
  <2>1. v = wf[t] /\ n = Len(checkpoints[v]) + 1 /\ checkpoints'[v][n] = state[t]
    BY <1>1, <1>3
  <2>2. decision[t] = "APPROVED"
    BY <2>1, Distinct DEF Settled, OnHold, Verdicts, Suspended
  <2>3. WasHeld(v, state[t].hitl_ticket_id, Len(checkpoints[v]))
    BY <2>1, <2>2 DEF KeepsTicket, Verdicts
  <2>4. PICK m \in 1..Len(checkpoints[v]) :
          Suspended(checkpoints[v][m]) /\ checkpoints[v][m].hitl_ticket_id = state[t].hitl_ticket_id
    BY <2>3 DEF WasHeld
  <2>5. m \in 1..(n - 1) /\ checkpoints'[v][m] = checkpoints[v][m]
    BY <1>1, <2>1 DEF Grows
  <2> QED
    BY <2>1, <2>2, <2>4, <2>5
<1> QED
  BY <1>2, <1>3

-----------------------------------------------------------------------------
\* A workflow on hold is under a pending ticket, or somebody is at work on it.
HeldWell(w) ==
    checkpoints[w] # <<>> /\ Suspended(Latest(w)) /\ ~Misresumed(w) =>
        \/ \E t \in Threads : Executes(t, w)
        \/ tickets[Latest(w).hitl_ticket_id] = "PENDING"
        \/ Deciding(w)

LEMMA HeldElsewhere ==
  ASSUME Held, NEW t \in Threads, Others(t), NEW w \in Workflows, wf[t] # w,
         checkpoints'[w] = checkpoints[w],
         checkpoints[w] # <<>> /\ Suspended(Latest(w))
            /\ tickets[Latest(w).hitl_ticket_id] = "PENDING"
            => tickets'[Latest(w).hitl_ticket_id] = "PENDING"
  PROVE  HeldWell(w)'
<1>1. Latest(w)' = Latest(w) /\ Misresumed(w)' = Misresumed(w)
  BY DEF Latest, Misresumed
<1>2. \A u \in Threads : wf[u] = w => (Executes(u, w) => Executes(u, w)')
  BY DEF Executes, Others
<1>3. Deciding(w) => Deciding(w)'
  BY DEF Deciding, Others
<1>4. HeldWell(w)
  BY DEF Held, HeldWell
<1> QED
  BY <1>1, <1>2, <1>3, <1>4 DEF HeldWell, Executes

LEMMA HeldTicket ==
  ASSUME TInv, NEW w \in Workflows, checkpoints[w] # <<>>, Suspended(Latest(w))
  PROVE  /\ Settled(Latest(w)) /\ Latest(w).hitl_ticket_id \in TicketIds
         /\ Bears(w, Latest(w).hitl_ticket_id)
<1>1. Settled(Latest(w)) /\ Len(checkpoints[w]) \in DOMAIN checkpoints[w]
  BY LatestIsSaved DEF Blank, Suspended
<1> QED
  BY <1>1 DEF Settled, Suspended, Bears, Latest, Last

LEMMA HeldExecuting ==
  ASSUME TInv, Held, NEW t \in Threads, NEW w \in Workflows, execute_workflow(t, w)
  PROVE  Held'
<1> USE Executing
<1> SUFFICES ASSUME NEW v \in Workflows PROVE HeldWell(v)'
  BY DEF Held, HeldWell
<1>1. CASE v = w
  BY <1>1 DEF HeldWell, Executes
<1>2. CASE v # w
  <2>1. wf[t] # v
    BY AtWork DEF execute_workflow
  <2> QED
    BY <1>2, <2>1, HeldElsewhere DEF execute_workflow
<1> QED
  BY <1>1, <1>2

LEMMA HeldResuming ==
  ASSUME TInv, Held, NEW t \in Threads, NEW w \in Workflows, NEW d \in Decisions,
         resume_workflow(t, w, d)
  PROVE  Held'
<1> USE Resuming
<1> SUFFICES ASSUME NEW v \in Workflows PROVE HeldWell(v)'
  BY DEF Held, HeldWell
<1>1. wf[t] # v
  BY AtWork DEF resume_workflow
<1> QED
  BY <1>1, HeldElsewhere

LEMMA HeldSubmitting ==
  ASSUME TInv, OneOwner, Held, NEW t \in Threads, submit_decision(t)
  PROVE  Held'
<1> USE Submitting
<1> SUFFICES ASSUME NEW v \in Workflows, checkpoints[v] # <<>>, Suspended(Latest(v))
             PROVE HeldWell(v)'
  BY DEF Held, HeldWell, Latest
<1> DEFINE i == Latest(v).hitl_ticket_id
<1>1. i \in TicketIds /\ Bears(v, i)
  BY HeldTicket
<1>2. CASE wf[t] # v
  <2>1. i # state[t].hitl_ticket_id
    BY <1>1, <1>2 DEF OneOwner, Bears
  <2> QED
    BY <1>1, <1>2, <2>1, HeldElsewhere
<1>3. CASE wf[t] = v /\ decision[t] \in Verdicts
  BY <1>3 DEF HeldWell, Deciding
<1>4. CASE wf[t] = v /\ decision[t] \notin Verdicts
  <2>1. tickets' = tickets /\ at[t] = "decide"
    BY <1>4 DEF submit_decision
  <2>2. Deciding(v) => Deciding(v)'
    BY <2>1 DEF Deciding, Others
  <2> QED
    BY <2>1, <2>2 DEF Held, HeldWell, Latest, Misresumed, Executes
<1> QED
  BY <1>2, <1>3, <1>4

LEMMA HeldRunning ==
  ASSUME TInv, Held, NEW t \in Threads, RunNode(t)
  PROVE  Held'
<1> USE Running
<1>1. \A v \in Workflows : Deciding(v) => Deciding(v)'
  BY DEF Deciding, Others
<1> QED
  BY <1>1 DEF Held, Latest, Misresumed, Executes

LEMMA HeldSaving ==
  ASSUME TInv, Held, NEW t \in Threads, SaveResult(t)
  PROVE  Held'
<1> USE Saving
<1> SUFFICES ASSUME NEW v \in Workflows PROVE HeldWell(v)'
  BY DEF Held, HeldWell
<1>1. CASE v = wf[t]
  <2> SUFFICES ASSUME Suspended(Latest(v)'), ~Misresumed(v)' PROVE Executes(t, v)'
    BY DEF HeldWell
  <2>1. Latest(v)' = state[t]
    BY <1>1 DEF Latest
  <2>2. OnHold(state[t]) /\ state[t].requires_hitl /\ decision[t] # OtherVerdict
    BY <2>1 DEF Settled, Suspended, Misresumed
  <2>3. decision[t] = None
    BY <2>2, EngineAssumption DEF TInv, TypeOK, OnHold
  <2> QED
    BY <1>1, <2>2, <2>3 DEF Executes
<1>2. CASE v # wf[t]
  BY <1>2, HeldElsewhere
<1> QED
  BY <1>1, <1>2

LEMMA HeldTicketing ==
  ASSUME TInv, Alone, Held, NEW t \in Threads, create_ticket(t)
  PROVE  Held'
<1> USE Ticketing
<1> SUFFICES ASSUME NEW v \in Workflows, checkpoints[v] # <<>>, Suspended(Latest(v))
             PROVE HeldWell(v)'
  BY DEF Held, HeldWell, Latest
<1>1. Latest(v).hitl_ticket_id \in TicketIds
  BY HeldTicket
<1>2. CASE v = wf[t]
  <2>1. Latest(v) = state[t] /\ Latest(v)' = Latest(v)
    BY <1>2 DEF Alone, Executes, Latest
  <2> QED
    BY <1>1, <2>1 DEF HeldWell
<1>3. CASE v # wf[t]
  BY <1>1, <1>3, HeldElsewhere
<1> QED
  BY <1>2, <1>3

-----------------------------------------------------------------------------
LEMMA IInit == Init => IInv
<1> SUFFICES ASSUME Init PROVE IInv
  OBVIOUS
<1>1. \A t \in Threads, w \in Workflows : wf[t] # w
  BY Distinct DEF Init
<1>2. Alone /\ OneOwner /\ KeepsTicket /\ AnswersAreApproved /\ Held
  BY <1>1 DEF Init, Alone, OneOwner, KeepsTicket, AnswersAreApproved, Held, Executes, Bears
<1> QED
  BY <1>2, TypeInit DEF IInv

LEMMA IStep == IInv /\ [Next]_vars => IInv'
<1> SUFFICES ASSUME IInv, [Next]_vars PROVE IInv'
  OBVIOUS
<1> USE DEF IInv
<1>1. ASSUME NEW t \in Threads, NEW w \in Workflows, execute_workflow(t, w) PROVE IInv'
  BY <1>1, Executing, AloneExecuting, OwnerExecuting, TicketKept, AnswersExecuting, HeldExecuting
<1>2. ASSUME NEW t \in Threads, NEW w \in Workflows, NEW d \in Decisions, resume_workflow(t, w, d)
      PROVE  IInv'
  BY <1>2, Resuming, AloneResuming, OwnerResuming, TicketKept, AnswersSame, HeldResuming
<1>3. ASSUME NEW t \in Threads, submit_decision(t) PROVE IInv'
  <2>1. Alone'
    BY <1>3, Submitting, AloneGoingOn
  <2> QED
    BY <1>3, <2>1, Submitting, OwnerSubmitting, TicketKept, AnswersSame, HeldSubmitting DEF Proceed
<1>4. ASSUME NEW t \in Threads, RunNode(t) PROVE IInv'
  <2>1. Alone'
    BY <1>4, Running, AloneGoingOn
  <2> QED
    BY <1>4, <2>1, Running, OwnerRunning, TicketKept, AnswersSame, HeldRunning DEF Proceed
<1>5. ASSUME NEW t \in Threads, SaveResult(t) PROVE IInv'
  BY <1>5, Saving, AloneSaving, OwnerSaving, TicketKept, AnswersSaving, HeldSaving DEF Proceed
<1>6. ASSUME NEW t \in Threads, create_ticket(t) PROVE IInv'
  BY <1>6, Ticketing, AloneTicketing, OwnerTicketing, TicketKept, AnswersSame, HeldTicketing DEF Proceed
<1>7. ASSUME UNCHANGED vars PROVE IInv'
  <2>1. TInv'
    BY <1>7, Idles
  <2>2. Alone'
    BY <1>7 DEF vars, Alone, Executes, Latest
  <2>3. OneOwner'
    BY <1>7 DEF vars, OneOwner, Bears
  <2>4. KeepsTicket'
    BY <1>7 DEF vars, KeepsTicket, WasHeld
  <2>5. AnswersAreApproved' /\ Held'
    BY <1>7 DEF vars, AnswersAreApproved, Held, Latest, Misresumed, Executes, Deciding
  <2> QED
    BY <2>1, <2>2, <2>3, <2>4, <2>5
<1> QED
  BY <1>1, <1>2, <1>3, <1>4, <1>5, <1>6, <1>7 DEF Next, Proceed, Refuse

\* The typing of checkpoints, tickets and what each thread holds: in particular
\* retry_count never moves, since retry_node is unreachable.
THEOREM TypeCorrect == Spec => []TypeOK
<1>1. IInv => TypeOK
  BY DEF IInv, TInv
<1> QED
  BY <1>1, IInit, IStep, PTL DEF Spec

\* No order of calls, no decision string and no race of operators releases an
\* answer to a sensitive query that nobody approved (engine.py, graph.py).
THEOREM Approved == Spec => []AnswersAreApproved
<1>1. IInv => AnswersAreApproved
  BY DEF IInv
<1> QED
  BY <1>1, IInit, IStep, PTL DEF Spec

\* A suspended workflow nobody is working on is under a pending ticket, unless
\* a resume was given a string that is no verdict (engine.py resume_workflow).
THEOREM OnHoldUnderTicket == Spec => []HeldUnderTicket
<1>1. IInv => HeldUnderTicket
  <2> SUFFICES ASSUME IInv, NEW w \in Workflows, checkpoints[w] # <<>>, Untouched(w),
                      Suspended(Latest(w)), ~Misresumed(w)
               PROVE  tickets[Latest(w).hitl_ticket_id] = "PENDING"
    BY DEF HeldUnderTicket, IInv, TInv
  <2> QED
    BY DEF IInv, Held, Untouched, Executes, Deciding
<1> QED
  BY <1>1, IInit, IStep, PTL DEF Spec

LEMMA StaysFinished ==
  ASSUME IInv, [Next]_vars, NEW w \in Workflows, Finished(w)
  PROVE  Finished(w)' \/ Misresumed(w)'
<1> USE DEF IInv
<1>1. CASE checkpoints'[w] = checkpoints[w]
  BY <1>1 DEF Finished, Latest
<1>2. ASSUME NEW t \in Threads, NEW v \in Workflows, execute_workflow(t, v)
      PROVE  checkpoints'[w] = checkpoints[w]
  BY <1>2, Executing DEF Finished, execute_workflow
<1>3. ASSUME NEW t \in Threads, SaveResult(t), wf[t] = w
      PROVE  Finished(w)' \/ Misresumed(w)'
  <2>1. /\ Latest(w)' = state[t] /\ Settled(state[t]) /\ checkpoints'[w] # <<>>
        /\ state[t].hitl_decision = decision[t] /\ at[t] = "save"
    <3>1. Len(checkpoints'[w]) # 0
      BY <1>3, Saving DEF TInv, TypeOK
    <3> QED
      BY <1>3, <3>1, Saving DEF Latest
  <2>2. decision[t] # None
    <3> SUFFICES ASSUME decision[t] = None PROVE FALSE
      OBVIOUS
    <3>1. checkpoints[w] = <<Blank(w)>>
      BY <1>3, <2>1 DEF Alone, Executes
    <3>2. Latest(w) = Blank(w)
      BY <3>1 DEF Latest, Last
    <3> QED
      BY <3>2 DEF Finished, Blank
  <2>3. decision[t] \in Verdicts \/ decision[t] = OtherVerdict
    BY <2>2, EngineAssumption DEF TInv, TypeOK
  <2>4. CASE decision[t] \in Verdicts
    <3>1. state[t].status \in {"COMPLETED", "REJECTED"}
      BY <2>1, <2>4 DEF Settled, OnHold
    <3> QED
      BY <2>1, <3>1 DEF Finished
  <2> QED
    BY <2>1, <2>3, <2>4 DEF Misresumed
<1>4. ASSUME NEW t \in Threads, SaveResult(t), wf[t] # w
      PROVE  checkpoints'[w] = checkpoints[w]
  BY <1>4, Saving
<1> QED
  BY <1>1, <1>2, <1>3, <1>4 DEF Next, Proceed, Refuse, vars, resume_workflow, submit_decision,
     RunNode, create_ticket

\* A finished workflow stays finished, whatever resumes are still under way,
\* unless one of them was given a string that is no verdict.
THEOREM StaysClosed == Spec => NeverReopened
<1>1. IInv /\ [Next]_vars =>
        [\A w \in Workflows : Finished(w) => Finished(w)' \/ Misresumed(w)']_vars
  BY StaysFinished
<1> QED
  BY <1>1, IInit, IStep, PTL DEF Spec, NeverReopened
=============================================================================
