---------------------------- MODULE MCRouterLoop ----------------------------
(* Finite instances of RouterLoop.                                         *)
EXTENDS RouterLoop

CONSTANTS c1, c2, k1, k2

TwoConsumers == {c1, c2}
TwoKeys == {k1, k2}

(* A record, a poison record, a second key, and the first key once more.   *)
FourRecords ==
  << [key |-> k1, valid |-> TRUE], [key |-> k2, valid |-> FALSE],
     [key |-> k2, valid |-> TRUE], [key |-> k1, valid |-> TRUE] >>
=============================================================================
