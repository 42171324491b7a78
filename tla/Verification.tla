----------------------------- MODULE Verification -----------------------------
(***************************************************************************)
(* The verdict of VerificationEngine on an answer.  Scores are in          *)
(* hundredths.  An answer is told by                                       *)
(*   lines       its claims, one a line;                                   *)
(*   ungrounded  those whose words the evidence does not share;            *)
(*   numbers     the numbers above 5 in it that the evidence lacks;        *)
(*   relevance   the score of the query's words found in it;               *)
(*   evidence    how much there is.                                        *)
(* Rounding is half up where Python's rounds half to even; no score in     *)
(* question lies on a threshold because of it.                             *)
(***************************************************************************)
EXTENDS Integers

CONSTANTS MaxLines, MaxNumbers
Bounds == MaxLines \in Nat /\ MaxNumbers \in Nat
ASSUME VerificationAssumption == Bounds

\* min(matched/words + 0.4, 1), of up to five words; 90 for none.
Relevances == {40, 60, 65, 73, 80, 90, 100}

\* Without evidence every claim counts as grounded.
Answers == {a \in [lines : 0..MaxLines, ungrounded : 0..MaxLines, numbers : 0..MaxNumbers,
                   relevance : Relevances, evidence : {"none", "short", "enough"}] :
                /\ a.ungrounded <= a.lines
                /\ a.evidence = "none" => a.ungrounded = 0}

AtMost(limit, x) == IF x < limit THEN x ELSE limit
Rounded(n, d) == (2 * n + d) \div (2 * d)

\* verify_grounding
Groundedness(a) == IF a.lines = 0 THEN 100 ELSE Rounded(100 * (a.lines - a.ungrounded), a.lines)

\* detect_hallucination_risk
HallucinationRisk(a) == AtMost(60, 25 * a.ungrounded) + AtMost(40, 30 * a.numbers)

Faithfulness(a) ==
    LET twice == 2 * Groundedness(a) - HallucinationRisk(a)
    IN  IF twice < 0 THEN 0 ELSE Rounded(twice, 2)

\* compute_metrics
QualityScore(a) ==
    Rounded(35 * Groundedness(a) + 25 * Faithfulness(a) + 20 * a.relevance
                + 20 * (100 - HallucinationRisk(a)), 100)

\* evaluate_evidence_sufficiency
CragTriggered(a) == a.evidence # "enough" \/ Groundedness(a) < 40

\* The verifier's own rule for a human's approval.
RequiresHitl(risk, sensitive) == risk > 40 \/ sensitive

\* Mutant of Action: a good score is approved before a human is asked.
ActionByScoreFirst(a, hitl) ==
    CASE CragTriggered(a)                                  -> "TRIGGER_CRAG_RE_RETRIEVAL"
      [] ~CragTriggered(a) /\ QualityScore(a) >= 80        -> "APPROVE"
      [] ~CragTriggered(a) /\ QualityScore(a) < 80 /\ hitl -> "ESCALATE_HITL"
      [] OTHER                                             -> "REJECT"

\* map_action
Action(a, hitl) ==
    IF CragTriggered(a) THEN "TRIGGER_CRAG_RE_RETRIEVAL"
    ELSE IF hitl THEN "ESCALATE_HITL"
    ELSE IF HallucinationRisk(a) >= 50 THEN "REJECT"
    ELSE IF QualityScore(a) >= 80 THEN "APPROVE"
    ELSE IF QualityScore(a) >= 65 THEN "APPROVE_WITH_WARNING"
    ELSE IF QualityScore(a) >= 50 THEN "REGENERATE"
    ELSE "REJECT"

Approving == {"APPROVE", "APPROVE_WITH_WARNING"}

\* is_acceptable_quality
Acceptable(a, hitl) == Action(a, hitl) \in Approving /\ QualityScore(a) >= 70
=============================================================================
