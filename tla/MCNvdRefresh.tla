---------------------------- MODULE MCNvdRefresh ----------------------------
(* Four CVEs, one of them out of scope.  An interval is one tick and the    *)
(* window two.                                                             *)
EXTENDS NvdRefresh
InScopeMC == {1, 2, 4}
=============================================================================
