----------------------------- MODULE MCUnpackWalk -----------------------------
(* Ten archives: nested ones within the limits, and one for each way of    *)
(* being hostile.  The depth cap is scaled to 2 and the ratio to 4.        *)
EXTENDS UnpackWalk, FiniteSets, TLC

\* n |-> <<opener, size, files>>; whatever is not listed is a plain file of
\* one unit.
Containers ==
  (1 :> <<"native", 2, <<12, 11>>>>) @@      \* nested, to exactly the cap
  (12 :> <<"binwalk", 1, <<13>>>>) @@
  (2 :> <<"native", 2, <<21, 22>>>>) @@      \* ratios kept by each, not by all
  (21 :> <<"native", 3, <<23, 25>>>>) @@
  (23 :> <<"none", 4, << >>>>) @@ (25 :> <<"none", 5, << >>>>) @@
  (3 :> <<"native", 4, <<31>>>>) @@          \* one level too deep
  (31 :> <<"binwalk", 1, <<32>>>>) @@ (32 :> <<"native", 1, <<33, 34>>>>) @@
  (34 :> <<"native", 1, <<35>>>>) @@
  (4 :> <<"native", 1, <<41>>>>) @@          \* declares too much
  (41 :> <<"none", 5, << >>>>) @@
  (5 :> <<"native", 4, <<51, 52>>>>) @@      \* an entry leaves the root
  (52 :> <<"native", 1, <<53>>>>) @@
  (6 :> <<"binwalk", 4, <<61, 62>>>>) @@     \* a link leaves the root
  (7 :> <<"binwalk", 4, <<71>>>>) @@         \* binwalk writes too much output
  (8 :> <<"native", 9, <<81, 82>>>>) @@      \* binwalk unpacks a bomb
  (82 :> <<"binwalk", 1, <<83, 84, 85, 86, 87>>>>) @@
  (9 :> <<"native", 1, << >>>>) @@           \* an empty zip
  (10 :> <<"binwalk", 4, << >>>>)            \* an ELF file

NodesMC == 1..10 \cup {11, 12, 13, 21, 22, 23, 25, 31, 32, 33,
             34, 35, 41, 51, 52, 53, 61, 62, 71, 81, 82, 83, 84, 85, 86, 87}
ArchivesMC == 1..10
Field(i, default) == [n \in NodesMC |-> IF n \in DOMAIN Containers
                                          THEN Containers[n][i] ELSE default]
OpenerMC == Field(1, "none")
SizeMC == Field(2, 1)
KidsMC == Field(3, << >>)
EscapeMC == [n \in NodesMC |-> CASE n = 52 -> "zip_slip" [] n = 6 -> "symlink"
                                 [] OTHER -> "no"]
VerboseMC == {7}

Below[n \in NodesMC] ==
  <<n>> \o IF OpenerMC[n] = "none" THEN << >>
           ELSE FlattenSeq([i \in DOMAIN KidsMC[n] |-> Below[KidsMC[n][i]]])
OrderMC == [a \in ArchivesMC |-> Below[a]]
PlaceIn(n, a) == CHOOSE i \in DOMAIN Below[a] : Below[a][i] = n
Holder(n) == CHOOSE a \in ArchivesMC : n \in Range(Below[a])
AtMC == [n \in NodesMC |-> PlaceIn(n, Holder(n))]
PastMC == [n \in NodesMC |-> AtMC[n] + Len(Below[n])]
LevelMC == [n \in NodesMC |->
  Cardinality({m \in Range(Below[Holder(n)]) \ {n} : n \in Range(Below[m])})]
=============================================================================
