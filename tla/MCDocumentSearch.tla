-------------------------- MODULE MCDocumentSearch --------------------------
(* A report of two chunks and a page without text, three calls.            *)
EXTENDS DocumentSearch

CONSTANTS report, scan, c1, c2

MCChunksOf == [d \in Documents |-> IF d = report THEN {c1, c2} ELSE {}]

=============================================================================
