--------------------------- MODULE MCCalibration ---------------------------
(* Two families, a CVE that they share, and components that are found      *)
(* exactly, by a spelling of the family, by similarity, or not; one is of  *)
(* no family.  One row names a component and an update of it, which the    *)
(* lookup does not.                                                        *)
EXTENDS Calibration
Families == {"openssl", "dropbear"}
VendorsMC == [f \in Families |->
  CASE f = "openssl" -> {"openssl"} [] f = "dropbear" -> {"dropbear", "matt_johnston"}]
ProductsMC == [f \in Families |-> {f}]
R(cve, vendor, product, version, rest) ==
  [cve |-> cve, part |-> "a", vendor |-> vendor, product |-> product,
   version |-> version, rest |-> rest]
r1 == R("cve1", "openssl", "openssl", "1.0.2h", AnyRest)
r2 == R("cve2", "matt_johnston", "dropbear", "2020.81", AnyRest)
r3 == R("cve2", "openssl", "openssl", "1.0.2h", "beta1")
RowsMC == {r1, r2, r3}
C(vendor, product, version) ==
  [vendor |-> vendor, product |-> product, version |-> version]
c1 == C("openssl", "openssl", "1.0.2h")
c2 == C("dropbear", "dropbear", "2020.81")
c3 == C("", "openssl", NoVersion)
c4 == C("wolfssl", "wolfssl", "4.14")
ComponentsMC == {c1, c2, c3, c4}
SimilarityMC == [c \in ComponentsMC |-> [r \in RowsMC |->
  CASE c = c1 /\ r \in {r1, r3} -> 97 [] c = c1 /\ r = r2 -> 50
    [] c = c3 /\ r \in {r1, r2} -> 71 [] c = c3 /\ r = r3 -> 55
    [] c = c2 /\ r = r2 -> 95 [] c = c2 /\ r = r3 -> 49
    [] c = c4 /\ r = r3 -> 90
    [] OTHER -> 10]]
BaseMC == [high |-> 90, possible |-> 70, low |-> 50]
=============================================================================
