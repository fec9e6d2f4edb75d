----------------------------- MODULE JobReport -----------------------------
(***************************************************************************)
(* What the pipeline promises about one firmware job, without saying how:  *)
(* children are found until extraction closes, each becomes ready once it  *)
(* has been matched, and then, once, an SBOM listing the components of     *)
(* every child is assembled and the job announced.                         *)
(***************************************************************************)
EXTENDS Naturals

CONSTANT Child   \* the sub-blobs a job may have

VARIABLES
  found,      \* children counted by the unpacker
  closed,     \* the unpacker has finished
  ready,      \* children whose match has been counted
  assembled,  \* the report is final
  components, \* the children whose components the SBOM lists
  announced   \* number of firmware.completed events

vars == <<found, closed, ready, assembled, components, announced>>

Init ==
  /\ found = {} /\ ready = {} /\ components = {}
  /\ closed = FALSE /\ assembled = FALSE
  /\ announced = 0

Discover(c) ==
  /\ ~closed
  /\ c \notin found
  /\ found' = found \cup {c}
  /\ UNCHANGED <<closed, ready, assembled, components, announced>>

Close ==
  /\ ~closed
  /\ closed' = TRUE
  /\ UNCHANGED <<found, ready, assembled, components, announced>>

Match(c) ==
  /\ c \in found \ ready
  /\ ready' = ready \cup {c}
  /\ UNCHANGED <<found, closed, assembled, components, announced>>

Assemble ==
  /\ closed /\ found # {} /\ ready = found
  /\ ~assembled
  /\ assembled' = TRUE
  /\ components' = found
  /\ UNCHANGED <<found, closed, ready, announced>>

Announce ==
  /\ assembled
  /\ announced = 0
  /\ announced' = 1
  /\ UNCHANGED <<found, closed, ready, assembled, components>>

Next ==
  \/ \E c \in Child : Discover(c) \/ Match(c)
  \/ Close \/ Assemble \/ Announce

Spec == Init /\ [][Next]_vars
=============================================================================
