-------------------------- MODULE MCWorkflowEngine --------------------------
(***************************************************************************)
(* Values for WorkflowEngine's constants: a plain query and one that       *)
(* evaluation_node puts on hold, each submitted as one workflow.           *)
(***************************************************************************)
EXTENDS WorkflowEngine, TLC

CONSTANTS plain, risky

MCIntentOf == [q \in Queries |-> IF q = plain THEN "STRUCTURED" ELSE "HYBRID"]
MCSensitive == Queries \ {plain}
MCQueryOf == [w \in Workflows |-> w]

AllDecisions == Verdicts \cup {OtherVerdict}
=============================================================================
