------------------------ MODULE MCFirmwarePipeline ------------------------
(* Instances of FirmwarePipeline for TLC: the two deployments.             *)
EXTENDS FirmwarePipeline, TLC

CONSTANTS b1, b2, b3, b4, triageR, unpackR, analysisR, matchR, allR

(* docker-compose.yml: one fat router, SERVICES=all. *)
FatRouters == {allR}
FatServes == [r \in FatRouters |-> Routed]

(* docker-compose.prod.yml: four routers in one consumer group. *)
SplitRouters == {triageR, unpackR, analysisR, matchR}
SplitServes ==
  [r \in SplitRouters |->
     CASE r = triageR   -> {"uploaded"}
       [] r = unpackR   -> {"triaged"}
       [] r = analysisR -> {"extracted"}
       [] r = matchR    -> {"analyzed", "matched"}]

(* docker compose --scale: two fat routers in one consumer group. *)
ScaledRouters == {allR, matchR}
ScaledServes == [r \in ScaledRouters |-> Routed]

TwoBlobs == {b1, b2}
ThreeBlobs == {b1, b2, b3}
BlobSymmetry == Permutations(Blob)
=============================================================================
