----------------------------- MODULE MCDlqReplay -----------------------------
(* Finite instances of DlqReplay: two workers, two dead letters of one job *)
(* that may block each other and one that stands for those the loop passes *)
(* by, skipped or raising.                                                 *)
EXTENDS DlqReplay

CONSTANTS w1, w2, d1, d2, d3, j1, j2

TwoWorkers == {w1, w2}
ThreeRecords == {d1, d2, d3}
Jobs == {j1, j2}
TwoOfOneJob == [r \in ThreeRecords |-> IF r \in {d1, d2} THEN j1 ELSE j2]
PassedRecord == {d3}
=============================================================================
