----------------------------- MODULE MCJobIndex -----------------------------
(* Two jobs; one may complete twice.                                       *)
EXTENDS JobIndex
CONSTANTS j1, j2
Jobs == {j1, j2}
=============================================================================
