--------------------------- MODULE MCVectorStore ---------------------------
(***************************************************************************)
(* Values for VectorStore's constants: a sample document, a document of    *)
(* two chunks, and a new text of that document.                            *)
(***************************************************************************)
EXTENDS VectorStoreUse, TLC

CONSTANTS sample, a1, a2, a1new, docA

MCIdOf == [c \in Chunks |-> IF c = a1new THEN a1 ELSE c]
MCDocOf == [c \in Chunks |-> IF c = sample THEN None ELSE docA]
MCUploads == {<<a1, a2>>, <<a1new>>}
MCSamples == <<sample>>
=============================================================================
