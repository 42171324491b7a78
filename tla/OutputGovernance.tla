--------------------------- MODULE OutputGovernance ---------------------------
(***************************************************************************)
(* What OutputGovernanceEngine releases of a narrative and its citations.  *)
(* Both are told by what they hold: the prompt, as moderation.py knows it, *)
(* or kinds of secrets.  redaction.py masks three of these; it has a       *)
(* pattern for telephone numbers that it does not apply, and none for the  *)
(* passwords, card numbers and internal addresses that PROJECT_GUIDE.md    *)
(* names.  Citations are neither moderated nor redacted.                   *)
(***************************************************************************)
EXTENDS Permissions

RedactedKinds == {"api_key", "ssn", "email"}
SecretKinds == RedactedKinds \cup {"phone", "password"}

\* Citations are passed on whatever they hold: three things stand for all.
Narratives == [size : {"empty", "fits", "too_long"}, holds : SUBSET (SecretKinds \cup {"prompt"}),
               cited : SUBSET {"prompt", "email", "password"}]

\* validate_schema
SchemaValid(n) == n.size = "fits"

\* The Permission enum lists no "hr:admin".
SeesEverything(ctx) == "security:admin" \in PermissionsOf(ctx)
SeesEmail(ctx) == "hr:admin" \in PermissionsOf(ctx)

\* Mutant of Sanitized: stops at the first kind it finds.
SanitizedOnce(n, ctx) ==
    IF SeesEverything(ctx) THEN n.holds
    ELSE IF "api_key" \in n.holds THEN n.holds \ {"api_key"}
    ELSE IF "ssn" \in n.holds THEN n.holds \ {"ssn"}
    ELSE n.holds \ {"email"}

\* sanitize_output: what is left of the narrative.
Sanitized(n, ctx) ==
    IF SeesEverything(ctx) THEN n.holds
    ELSE n.holds \ (IF SeesEmail(ctx) THEN {"api_key", "ssn"} ELSE RedactedKinds)

\* moderate_content, on the narrative before it is redacted
Leaks(n) == "prompt" \in n.holds

\* evaluate_policy
PolicyAllows(n, ctx) == ~Leaks(n) /\ (ctx # NoUser => ctx.status = "ACTIVE")

\* govern_response; a narrative the schema refuses is replaced by the reason.
Envelope(n, ctx) ==
    IF ~SchemaValid(n)
    THEN [status |-> "FAILED", policy |-> "BLOCK", shows |-> {}]
    ELSE [status |-> IF PolicyAllows(n, ctx) THEN "SUCCESS" ELSE "BLOCKED",
          policy |-> IF PolicyAllows(n, ctx) THEN "ALLOW" ELSE "BLOCK",
          shows |-> Sanitized(n, ctx) \cup n.cited]

\* is_response_allowed
ResponseAllowed(e) == e.status = "SUCCESS" /\ e.policy \in {"ALLOW", "WARN_AND_ALLOW"}
=============================================================================
