------------------------------ MODULE Answering ------------------------------
(***************************************************************************)
(* The engines that guard an answer, on the requests the input pipeline    *)
(* clears: the planner before it, the verifier and the governance engine   *)
(* after it.  Each is stateless and takes the enriched request; no code    *)
(* under src/ chains them, so each may be called on the current request    *)
(* in any order, with any narrative.                                       *)
(***************************************************************************)
EXTENDS InputStages, QueryPlanning, Verification, OutputGovernance, FiniteSets

CONSTANTS MaxDisabled,   \* bound: capabilities switched off at once
          GivenContexts  \* contexts made by hand: permissions without a role

ASSUME AnsweringAssumption ==
    /\ MaxDisabled \in Nat
    /\ GivenContexts \subseteq
           [status : UserStatus, org : {NoRole}, permissions : SUBSET Permission]

\* Who a request may come from; NoUser where its container has no context.
Callers == SecurityContext \cup GivenContexts \cup {NoUser}

VARIABLES request,    \* the EnrichedSecurityRequest, or NoRequest
          outcome     \* what the last call returned

answeringVars == <<request, outcome>>

NoRequest == [user |-> NoUser]
Nothing == [step |-> "none"]

AnsweringInit == request = NoRequest /\ outcome = Nothing

\* InputSecurityPipeline.process_request
Receive ==
    /\ request = NoRequest /\ outcome = Nothing
    /\ \E r \in RequestContainers, ctx \in Callers :
          IF Cleared(r, ctx)
          THEN request' = Enriched(r, ctx)
               /\ outcome' = [step |-> "cleared", path |-> r.path, text |-> HandedOn(r)]
          ELSE UNCHANGED request /\ outcome' = [step |-> "refused"]

\* QueryPlanner.create_execution_plan; capabilities may be disabled.
Plan ==
    /\ request # NoRequest /\ outcome = Nothing
    /\ \E s \in Signals, strategy \in Strategies, registry \in Registries :
       \E disabled \in SUBSET {registry[i] : i \in DOMAIN registry} :
          LET listed == Listed(registry, disabled) IN
          /\ Cardinality(disabled) <= MaxDisabled
          /\ s.blank => ~request.sensitive
          /\ outcome' = [step |-> "plan", disabled |-> disabled,
                         plan |-> PlanOf(s, strategy, listed, request.user),
                         hitl |-> RequiresApproval(request.risk, request.sensitive)]
    /\ UNCHANGED request

\* VerificationEngine.verify_response
Verify ==
    /\ request # NoRequest /\ outcome = Nothing
    /\ \E a \in Answers :
          LET hitl == RequiresHitl(request.risk, request.sensitive) IN
          outcome' = [step |-> "verdict", answer |-> a, action |-> Action(a, hitl),
                      acceptable |-> Acceptable(a, hitl)]
    /\ UNCHANGED request

\* OutputGovernanceEngine.govern_response
Govern ==
    /\ request # NoRequest /\ outcome = Nothing
    /\ \E n \in Narratives :
          outcome' = [step |-> "envelope", narrative |-> n, envelope |-> Envelope(n, request.user)]
    /\ UNCHANGED request

\* The caller looks at what a call returned, and goes on or lets go.
GoOn ==
    /\ outcome # Nothing
    /\ outcome' = Nothing
    /\ request' \in {request, NoRequest}

AnsweringNext == Receive \/ Plan \/ Verify \/ Govern \/ GoOn

AnsweringSpec == AnsweringInit /\ [][AnsweringNext]_answeringVars
-----------------------------------------------------------------------------
\* What is handed on has a risk below the threshold and a caller.
AnsweringTypeOK ==
    /\ \/ request = NoRequest
       \/ /\ request.risk \in 0..74
          /\ request.user \in Callers
          /\ request.trust \in {"HIGH", "MEDIUM", "LOW", "UNTRUSTED"}
    /\ outcome.step \in {"none", "cleared", "refused", "plan", "verdict", "envelope"}

\* A text that is handed on holds no phrase of the rules and no personal data,
\* but where these are cut by characters stage 5 leaves: neither a disguise of
\* the phrase nor a score below what stage 6 blocks lets it pass, because stage
\* 8 blocks from the lowest score there is.  A risk that is handed on is 0 or 40,
\* so no request is UNTRUSTED or MEDIUM, and "risk > 40" asks no human, neither
\* in the planner nor in the verifier.  A caller whose container has a context
\* reaches a path that needs a permission only by holding it and not being
\* suspended: with a context built of a token, none but owners reach the path
\* that suspends users.  Containers without a context reach every path.
\* AnsweringTypeOK holds beside it.
ClearedIsClean ==
    /\ AnsweringTypeOK
    /\ request # NoRequest =>
           request.risk \in {0, 40} /\ request.trust = IF request.risk = 0 THEN "HIGH" ELSE "LOW"
    /\ outcome.step = "cleared" =>
           /\ outcome.text.phrase = 0 \/ outcome.text.written = "cut"
           /\ outcome.text.pii \in {"none", "cut"}
    /\ outcome.step = "cleared" /\ request.user # NoUser /\ outcome.path # "query" =>
           /\ request.user.status # "SUSPENDED"
           /\ PATH_PERMISSION_MAP[outcome.path] \in request.user.permissions
           /\ outcome.path = "admin_users" =>
                  request.user.org = "OWNER" \/ request.user \in GivenContexts

\* Whatever was registered and switched off, a plan uses only capabilities that
\* are on and whose permissions the caller has, on every route through intents,
\* strategies and fallbacks.  Its stages can be run in order, each waiting for
\* earlier ones only, and its latency is that of its longest path: the slowest
\* task of each stage and of the stages it waits for.
PlanHolds ==
    outcome.step = "plan" =>
        LET stages == outcome.plan.stages
            done[i \in DOMAIN stages] ==
                MaxLatency(stages[i].tasks)
                  + (IF stages[i].dependencies = {} THEN 0
                     ELSE done[CHOOSE d \in stages[i].dependencies : TRUE])
        IN  /\ \A i \in DOMAIN stages : \A j \in DOMAIN stages[i].tasks :
                   /\ stages[i].tasks[j] \in Capabilities \ outcome.disabled
                   /\ stages[i].tasks[j].needs \subseteq PermissionsOf(request.user)
            /\ \A i \in DOMAIN stages : \A d \in stages[i].dependencies : d \in 1..(i - 1)
            /\ outcome.plan.latency = IF stages = <<>> THEN 0 ELSE done[Len(stages)]

\* What the verifier's thresholds come to.  It approves only with enough
\* evidence and at most one ungrounded claim, and then no number the
\* evidence lacks; it asks to regenerate only for exactly one; it never
\* turns down an answer that is grounded throughout; and the last REJECT of
\* the matrix is never reached.  An answer to a sensitive question, however
\* good, it never approves by itself.
VerdictFitsClaims ==
    outcome.step = "verdict" =>
        LET a == outcome.answer IN
        /\ outcome.action \in Approving =>
              /\ a.evidence = "enough" /\ a.ungrounded <= 1
              /\ a.ungrounded = 1 => a.numbers = 0
        /\ outcome.action = "REGENERATE" => a.ungrounded = 1 /\ a.numbers = 0
        /\ outcome.action = "REJECT" => a.ungrounded >= 1 /\ HallucinationRisk(a) >= 50
        /\ a.ungrounded = 0 /\ a.evidence = "enough" => outcome.action \in Approving \cup {"ESCALATE_HITL"}
        /\ request.sensitive =>
              /\ outcome.action \in {"ESCALATE_HITL", "TRIGGER_CRAG_RE_RETRIEVAL"}
              /\ ~outcome.acceptable

\* What may be sent out has a narrative of the right size that does not leak the
\* prompt, and goes to nobody whose context is suspended or pending.  The three
\* kinds of secrets that are redacted it shows to holders of security:admin only,
\* of all contexts built of a token to owners only.  Neither is true of its
\* citations, and kinds that are not redacted are shown to all.
ReleasedIsClean ==
    outcome.step = "envelope" /\ ResponseAllowed(outcome.envelope) =>
        LET n == outcome.narrative
            own == outcome.envelope.shows \ n.cited
        IN  /\ n.size = "fits" /\ "prompt" \notin n.holds
            /\ request.user # NoUser => request.user.status = "ACTIVE"
            /\ own \cap RedactedKinds # {} =>
                  /\ "security:admin" \in PermissionsOf(request.user)
                  /\ request.user.org = "OWNER" \/ request.user \in GivenContexts
=============================================================================
