------------------------------ MODULE MCIntake ------------------------------
(* A finite instance of Intake: an image uploaded twice, or next to one    *)
(* that shares a bit of the filter, or next to one whose header overstates *)
(* its payload; older images may have left their bits.                     *)
EXTENDS Intake, TLC

CONSTANTS j1, j2, same, old, bomb, r1, r2

Jobs == {j1, j2}
Images == {same, old, bomb}
Uploaded == {(j1 :> same) @@ (j2 :> i) : i \in Images}
Sizes == (same :> 64) @@ (old :> 65) @@ (bomb :> 64)
Formats == (same :> "squashfs") @@ (old :> "elf") @@ (bomb :> "uimage")
Declared == (same :> 6400) @@ (old :> 0) @@ (bomb :> 6401)
Bits == 1..4
PositionsOf == (same :> <<1, 2>>) @@ (old :> <<2, 3>>) @@ (bomb :> <<1, 3>>)
Routers == {r1, r2}
=============================================================================
