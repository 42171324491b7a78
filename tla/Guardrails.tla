----------------------------- MODULE Guardrails -----------------------------
(***************************************************************************)
(* The nine guardrail layers and the two halves of their pipeline, as      *)
(* operators.  A layer answers with a verdict and a score; scores are in   *)
(* hundredths.  A layer that computes its score from the words is the set  *)
(* of the extreme results it has for a pass and for a failure: the         *)
(* pipeline adds scores up and compares the sum, so what holds at the      *)
(* extremes holds between them.                                            *)
(*                                                                         *)
(* Words are abstracted to what the layers and the router tell apart: a    *)
(* question is a record of Questions.                                      *)
(***************************************************************************)
EXTENDS Naturals, Sequences, FiniteSets, SequencesExt

\* A statement by what validate_sql and evaluate_sql find in it: nothing, the
\* word salary, a denied word, another beginning than SELECT or WITH, several
\* statements (or one behind a semicolon), no text.  The generator writes one
\* SELECT of names in the schema.
Statements == {"plain", "salary", "forbidden", "no_select", "several", "empty"}

Questions ==
    [injected : BOOLEAN,      \* has a denied phrase
     pii : BOOLEAN,           \* names a person's data
     topic : {"none", "plain", "business", "leisure"},
     words : SUBSET {"sql", "rag", "summary", "policy"},
     statement : Statements]  \* the SQL generated for it

Pass(s) == [passed |-> TRUE, score |-> s]
Fail(s) == [passed |-> FALSE, score |-> s]

ROLE_PERMISSIONS ==
    [ADMIN |-> {"QUERY_KNOWLEDGE", "EXECUTE_SQL", "VIEW_PII", "APPROVE_HITL",
                "INGEST_DOCUMENTS", "ADMIN_CONFIG"},
     ANALYST |-> {"QUERY_KNOWLEDGE", "EXECUTE_SQL", "APPROVE_HITL", "INGEST_DOCUMENTS"},
     AUDITOR |-> {"QUERY_KNOWLEDGE", "VIEW_PII"},
     VIEWER |-> {"QUERY_KNOWLEDGE"}]

\* A role that is not known counts as ANALYST.
get_default_user_context(role) ==
    IF role \in DOMAIN ROLE_PERMISSIONS THEN role ELSE "ANALYST"

has_permission(role, permission) == permission \in ROLE_PERMISSIONS[role]
-----------------------------------------------------------------------------
InjectionGuard(q) == IF q.injected THEN Fail(0) ELSE Pass(100)

\* Personal data is masked, not refused.
PIIMaskingGuard(q) == IF q.pii THEN Pass(90) ELSE Pass(100)

DomainBoundaryGuard(q) ==
    CASE q.topic = "none"     -> Pass(100)
      [] q.topic = "leisure"  -> Fail(20)
      [] q.topic = "business" -> Pass(95)
      [] q.topic = "plain"    -> Pass(80)

RBACIsolationGuard(role) ==
    IF has_permission(get_default_user_context(role), "QUERY_KNOWLEDGE")
    THEN Pass(100) ELSE Fail(0)

SemanticDriftGuard(q, chunks) ==
    CASE q.topic = "none"              -> {Fail(0)}
      [] q.topic # "none" /\ chunks = {} -> {Pass(85)}
      [] OTHER                         -> {Pass(50), Pass(100), Fail(0), Fail(29)}

\* Several statements are no matter to it, and of an empty one it is not asked.
SQLSafetyGuard(sql) == IF sql \in {"forbidden", "no_select"} THEN Fail(0) ELSE Pass(100)

GroundednessGuard == {Pass(65), Pass(100), Fail(0), Fail(64)}

\* The next two scan the answer, of which {} is the fixed text for no findings.
ToxicitySafetyGuard(answer) ==
    IF answer = {} THEN {Pass(100)} ELSE {Pass(100), Fail(10)}

DataLeakageGuard(answer) ==
    IF answer = {} THEN {Pass(100)} ELSE {Pass(100), Fail(0)}
-----------------------------------------------------------------------------
AllPassed(evals) == \A i \in DOMAIN evals : evals[i].passed
Total(evals) == FoldLeft(LAMBDA sum, e : sum + e.score, 0, evals)

\* The layers' average is at least p hundredths.
AverageAtLeast(evals, p) == Total(evals) >= p * Len(evals)

\* Layers 1 to 4, all of them also when one fails.
run_pre_execution(q, role) ==
    <<InjectionGuard(q), PIIMaskingGuard(q), DomainBoundaryGuard(q),
      RBACIsolationGuard(role)>>

\* Layers 5 to 9 after those of pre; sql is "none" if none was generated.
run_post_execution(pre, q, sql, chunks, answer) ==
    {pre \o <<l[1], SQLSafetyGuard(sql), l[2], l[3], l[4]>> :
        l \in SemanticDriftGuard(q, chunks)
                \X (IF chunks = {} THEN {Pass(100)} ELSE GroundednessGuard)
                \X ToxicitySafetyGuard(answer) \X DataLeakageGuard(answer)}

HITL_CONFIDENCE_THRESHOLD == 75

\* Mutant of hitl_triggered: confidence alone decides.
hitl_triggered_unsure(evals) == ~ AverageAtLeast(evals, HITL_CONFIDENCE_THRESHOLD)

hitl_triggered(evals) ==
    \/ ~ AllPassed(evals)
    \/ ~ AverageAtLeast(evals, HITL_CONFIDENCE_THRESHOLD)
=============================================================================
