----------------------------- MODULE MCProgress -----------------------------
(* The archives of MCUnpackWalk; two of them, one nested and one hostile,   *)
(* are watched by one browser that may connect twice.                       *)
EXTENDS Progress, MCUnpackWalk
CONSTANT b1
Browsers == {b1}
WatchedMC == {1, 6}
=============================================================================
