------------------------------- MODULE Intake -------------------------------
(***************************************************************************)
(* The way in: clients upload through the gateway, and the routers triage  *)
(* what arrives on firmware.uploaded.  The two share the topic and the     *)
(* raw-uploads bucket; nothing is seen by both in one step.                *)
(***************************************************************************)
EXTENDS UploadGateway, BloomTriage

ASSUME BacklogAssumption == Job \subseteq Upload

intakeVars == <<gatewayVars, triageVars>>

IntakeInit == GatewayInit /\ TriageInit

\* firmware.uploaded: what the gateway put there before the run and in it.
OnTopic == (Upload \ Job) \cup {j \in Job : uploaded[j] > 0}

\* A router polls a record.
TakeUploaded(r, j) == j \in OnTopic /\ Take(r, j)

IntakeNext ==
  \/ GatewayNext /\ UNCHANGED triageVars
  \/ TriageNext /\ UNCHANGED gatewayVars
  \/ \E r \in Triager, j \in Upload : TakeUploaded(r, j) /\ UNCHANGED gatewayVars

IntakeSpec == IntakeInit /\ [][IntakeNext]_intakeVars

\* What router r does when it is left alone.
Work(r) ==
  /\ TriageStep(r) \/ \E j \in Upload : TakeUploaded(r, j)
  /\ UNCHANGED gatewayVars

\* The event loop serves what waits and the producer thread goes on sending;
\* a client, a fault and a death may or may not come.  A router goes on with
\* what it took, and polls again.
IntakeFair ==
  /\ WF_intakeVars(Serve /\ UNCHANGED triageVars)
  /\ WF_intakeVars((\E j \in Job : DeliverUpload(j)) /\ UNCHANGED triageVars)
  /\ \A r \in Triager : WF_intakeVars(Work(r))

IntakeFairSpec == IntakeSpec /\ IntakeFair

-----------------------------------------------------------------------------
(* Safety.                                                                 *)

\* Type correctness of both parts.
IntakeTypeOK ==
  /\ tab \in [Job -> Tab] /\ requests \in [Job -> Nat]
  /\ gw \in Call /\ cur \in Job
  /\ rows \subseteq Job /\ multipart \subseteq Job /\ parts \subseteq Job
  /\ objects \subseteq Job /\ outbox \subseteq Job /\ lost \subseteq Job
  /\ uploaded \in [Job -> Nat]
  /\ resends \in Nat /\ faults \in Nat
  /\ image \in Contents /\ bits \subseteq Bit
  /\ added \subseteq touched /\ touched \subseteq Image
  /\ triage \in [Triager -> {"idle", "inspect", "get", "set", "emit"}]
  /\ record \in [Triager -> Upload \cup {NoUpload}]
  /\ \A r \in Triager : triage[r] = "idle" <=> record[r] = NoUpload
  /\ \A r \in Triager : triage[r] \in {"get", "set"} =>
                            index[r] \in DOMAIN Positions[ImageAt(r)]
  /\ saw \in [Triager -> SUBSET Image]
  /\ verdict \in [Upload -> Verdict] /\ triageFaults \in Nat

\* The row is written first "so a crash mid-upload still leaves a trackable
\* record": whatever fails and whenever the gateway dies, nothing of a job is
\* in MinIO without a row in Postgres (create_upload).
Trackable == multipart \cup parts \cup objects \subseteq rows

\* However often a client repeats the completion and whatever fails on the
\* way, firmware.uploaded gets at most one record of a job (complete_upload).
EmitOnce ==
  \A j \in Job : uploaded[j] + (IF j \in outbox THEN 1 ELSE 0) <= 1

\* No record leaves before the completion: what is produced, and so what
\* triage is given, has its row, its part and its object (complete_upload).
EmittedIsStored ==
  \A j \in Job : (j \in outbox \/ uploaded[j] > 0) =>
                    j \in rows /\ j \in parts /\ j \in objects

\* "never causes a false negative": an image that was added before a router
\* took its record is not added again, so only uploads of the same bytes that
\* are triaged at the same time can all be admitted (add_if_absent).
NoFalseNegative ==
  \A r \in Triager : triage[r] \in {"set", "emit"} => ImageAt(r) \notin saw[r]

\* A job is called a duplicate only when every bit of its image is owed to an
\* image that passed the pre-check: an admitted one, one whose adding was cut
\* short, or an earlier attempt at the job itself.  An upload that is turned
\* down leaves no trace that could turn another one down.
DuplicateIsCovered ==
  \A j \in Upload : verdict[j] = "duplicate" =>
    /\ BitsOf(image[j]) \subseteq UNION {BitsOf(i) : i \in touched}
    /\ \A i \in touched : Precheck(i)

-----------------------------------------------------------------------------
(* Liveness.                                                               *)

\* Triage decided on the record, or raised and dead-lettered it.
Answered(j) == verdict[j] \in {"clean", "rejected", "duplicate", "failed"}

\* The two silent ends: the broker never acknowledged the record, or the
\* gateway died with it in its outbox, for the answer to the client does not
\* wait for the acknowledgement; or a router died after it had claimed it, and
\* the claim keeps every other router from handling it (runner.py).
Silenced(j) == j \in lost \/ verdict[j] = "abandoned"

\* What a client was told is submitted does not wait for ever: triage decides
\* on it or dead-letters it, unless it came to one of the two silent ends.
SubmittedIsTriaged ==
  \A j \in Job : tab[j] = "submitted" ~> (Answered(j) \/ Silenced(j))
=============================================================================
