----------------------------- MODULE InputStages -----------------------------
(***************************************************************************)
(* The verdicts of the stages of input_security/stages on one request,     *)
(* without the rate limit of stage 4, which RateLimits keeps.  A request   *)
(* is told by what the stages look for in it:                              *)
(*   path       what it asks for, and so the permission it needs;          *)
(*   body       whether it can be read;                                    *)
(*   traversal  how many of the path patterns its payload matches;         *)
(*   long       its query is over the token budget;                        *)
(*   phrase     the score of the worst injection rule its query matches;   *)
(*   sensitive  its query holds the word "sensitive";                      *)
(*   written    how phrase and word are written: "plain" as the patterns   *)
(*              expect them, "disguised" by what stage 5 takes out (its    *)
(*              five hidden characters, markup, compatibility forms of     *)
(*              letters) or "cut" by what it leaves, such as a word joiner *)
(*              (U+2060) or markup within markup;                          *)
(*   pii        how the personal data of PII_REGEX_MAP in it is written.   *)
(* A path starts with "/", which PUBLIC_EXEMPT_PATHS lists: stage 2 lets   *)
(* every request pass with the context its container came with, if any.    *)
(* The middleware's containers come with none.                             *)
(***************************************************************************)
EXTENDS Permissions

\* The scores of PROMPT_INJECTION_RULES.
RuleScores == {75, 80, 85, 90, 95}

PATH_PERMISSION_MAP ==
    [invitations |-> "org:manage_members", audit_logs |-> "audit:read",
     admin_users |-> "user:suspend", ingest_text |-> "workspace:write"]

\* Two patterns are as bad as more.
RequestContainers ==
    [path : DOMAIN PATH_PERMISSION_MAP \cup {"query"},
     body : {"readable", "malformed", "oversized"}, traversal : 0..2, long : BOOLEAN,
     phrase : {0} \cup RuleScores, sensitive : BOOLEAN,
     written : {"plain", "disguised", "cut"}, pii : {"none", "plain", "disguised", "cut"}]

\* Stage 1, payload validation.
TraversalScore(r) == 40 * r.traversal
PayloadValid(r) == r.body = "readable" /\ TraversalScore(r) < 80

\* Stage 3, the permission a path needs, of a caller who is known.
RBACPassed(r, ctx) ==
    ctx # NoUser /\ r.path \in DOMAIN PATH_PERMISSION_MAP => MayDo(ctx, PATH_PERMISSION_MAP[r.path])

\* Stage 4, the token budget.
WithinBudget(r) == ~r.long

\* Mutant of Normalized: leaves hidden characters where they are.
NormalizedNotAtAll(r) == r

\* Stage 5, normalization.
Undisguised(w) == IF w = "disguised" THEN "plain" ELSE w
Normalized(r) == [[r EXCEPT !.written = Undisguised(@)] EXCEPT !.pii = Undisguised(@)]

\* Stage 6, prompt inspection, and stage 7, anonymization: both go by patterns.
ThreatScore(r) == IF r.written = "plain" THEN r.phrase ELSE 0
PromptSafe(r) == ThreatScore(r) < 85
Anonymized(r) == [r EXCEPT !.pii = IF @ = "plain" THEN "none" ELSE @]

\* Stage 8, risk scoring.
CumulativeRisk(r) == TraversalScore(r) + ThreatScore(r)

TrustLevel(risk) ==
    CASE risk < 15 -> "HIGH"
      [] risk >= 15 /\ risk < 40 -> "MEDIUM"
      [] risk >= 40 /\ risk < 75 -> "LOW"
      [] risk >= 75 -> "UNTRUSTED"

RiskAccepted(risk) == risk < 75

\* "sensitive" in the sanitized query
IsSensitive(q) == q.sensitive /\ q.written = "plain"

\* The text the pipeline hands on, and what it says of it.
HandedOn(r) == Anonymized(Normalized(r))

Enriched(r, ctx) ==
    LET risk == CumulativeRisk(Normalized(r)) IN
    [sensitive |-> IsSensitive(HandedOn(r)), risk |-> risk, trust |-> TrustLevel(risk), user |-> ctx]

Cleared(r, ctx) ==
    /\ PayloadValid(r) /\ RBACPassed(r, ctx) /\ WithinBudget(r)
    /\ PromptSafe(Normalized(r)) /\ RiskAccepted(CumulativeRisk(Normalized(r)))
=============================================================================
