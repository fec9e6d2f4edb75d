---------------------------- MODULE FanOutProofs ----------------------------
(***************************************************************************)
(* Theorems about the fan-out of FirmwarePipeline: what is true of every   *)
(* child that some stage may be working on, wherever its record is.        *)
(***************************************************************************)
EXTENDS FirmwarePipelineProofs, FiniteSetTheorems

(***************************************************************************)
(* How records travel.  Good is any set of records; Within(Good) says that *)
(* all that exist are in it.  Only the emits of the handlers add records,  *)
(* so Within(Good) is kept if they emit good ones.                         *)
(***************************************************************************)
Within(Good) ==
  /\ pending \subseteq Good
  /\ dlq \subseteq Good
  /\ \A r \in Router : \A o \in outbox[r] : o.msg \in Good
  /\ \A r \in Router : task[r].msg \in Good

(* Router r moves, with the record it had.                                 *)
Moves(r) ==
  /\ task'[r].msg = task[r].msg
  /\ \A q \in Router : q # r => task'[q] = task[q]

(* A step within a handler that emits nothing adds no record.              *)
LEMMA WithinQuiet ==
  ASSUME NEW Good, Within(Good), NEW r \in Router, Moves(r), UNCHANGED kafka
  PROVE  Within(Good)'
BY DEF Within, Moves, kafka

(* A step that queues one record adds that record.                         *)
LEMMA WithinEmit ==
  ASSUME TypeOK, NEW Good, Within(Good), NEW r \in Router, Moves(r),
         NEW m \in Good, NEW to, UNCHANGED <<pending, dlq>>,
         outbox' = [outbox EXCEPT ![r] = @ \cup {[to |-> to, msg |-> m]}]
  PROVE  Within(Good)'
<1>1. ASSUME NEW q \in Router, NEW o \in outbox'[q]
      PROVE  o \in outbox[q] \/ o = [to |-> to, msg |-> m]
  BY DEF TypeOK
<1>2. \A q \in Router : \A o \in outbox'[q] : o.msg \in Good
  BY <1>1 DEF Within
<1>3. QED
  BY <1>2 DEF Within, Moves

(* A Goto moves one router, to where it says.                              *)
LEMMA GotoIsMove ==
  ASSUME TypeOK, NEW r \in Router, NEW s, Goto(r, s)
  PROVE  Moves(r) /\ task'[r].at = s
BY DEF Goto, Moves, TypeOK, Task

(* The router loop and the faults carry records about and lose some.       *)
LEMMA WithinLoop ==
  ASSUME TypeOK, NEW Good, Within(Good), Idle.msg \in Good, NEW r \in Router,
         Loop(r) \/ Deliver(r) \/ Trouble(r)
  PROVE  Within(Good)'
<1>1. \A x \in {"topic", "dlq"} : Delivered(r, x) \subseteq Good
  BY DEF Within, Delivered
<1>2. CASE Poll(r) \/ Commit(r) \/ Crash(r)
  <2>1. PICK t : t.msg \in Good /\ task' = [task EXCEPT ![r] = t]
    <3>1. CASE Poll(r)
      <4>1. PICK m \in pending :
              task' = [task EXCEPT ![r] = [Idle EXCEPT !.at = "claim", !.msg = m]]
        BY <3>1 DEF Poll
      <4>2. [Idle EXCEPT !.at = "claim", !.msg = m].msg \in Good
        BY DEF Within, Idle
      <4>3. QED
        BY <4>1, <4>2
    <3>2. CASE Commit(r) \/ Crash(r)
      BY <3>2 DEF Commit, Crash
    <3>3. QED
      BY <1>2, <3>1, <3>2
  <2>2. \A q \in Router : task'[q].msg \in Good
    BY <2>1 DEF Within, TypeOK
  <2>3. /\ pending' \subseteq pending /\ dlq' = dlq
        /\ \A q \in Router : outbox'[q] \subseteq outbox[q]
    BY <1>2 DEF Poll, Commit, Crash, kafka, TypeOK
  <2>4. QED
    BY <2>2, <2>3 DEF Within
<1>3. CASE ClaimMessage(r) \/ Fail(r) \/ TripDefence(r) \/ LateRaise(r)
  <2>1. Moves(r)
    BY <1>3, GotoIsMove DEF ClaimMessage, Fail, TripDefence, LateRaise
  <2>2. QED
    BY <1>3, <2>1, WithinQuiet DEF ClaimMessage, Fail, TripDefence, LateRaise
<1>4. CASE SendDlq(r)
  <2>1. Moves(r)
    BY <1>4, GotoIsMove DEF SendDlq
  <2>2. pending' \subseteq Good /\ dlq' \subseteq Good
    BY <1>1, <1>4 DEF SendDlq, Within
  <2>3. \A q \in Router : outbox'[q] \subseteq outbox[q]
    BY <1>4 DEF SendDlq, TypeOK
  <2>4. QED
    BY <2>1, <2>2, <2>3 DEF Within, Moves
<1>5. CASE SendDlqFails(r)
  <2>1. Moves(r) /\ UNCHANGED <<pending, dlq>>
    BY <1>5, GotoIsMove DEF SendDlqFails
  <2>2. CASE UNCHANGED outbox
    BY <2>1, <2>2, WithinQuiet DEF kafka
  <2>3. CASE outbox' = [outbox EXCEPT ![r] = @ \cup {[to |-> "dlq", msg |-> task[r].msg]}]
    BY <2>1, <2>3, WithinEmit DEF Within
  <2>4. QED
    BY <1>5, <2>2, <2>3 DEF SendDlqFails
<1>6. CASE Deliver(r)
  <2>1. PICK o \in outbox[r] :
          /\ outbox' = [outbox EXCEPT ![r] = @ \ {o}]
          /\ pending' \subseteq pending \cup {o.msg}
          /\ dlq' \subseteq dlq \cup {o.msg}
    BY <1>6 DEF Deliver
  <2>2. \A q \in Router : outbox'[q] \subseteq outbox[q]
    BY <2>1 DEF TypeOK
  <2>3. QED
    BY <1>6, <2>1, <2>2 DEF Within, Deliver
<1>7. QED
  BY <1>2, <1>3, <1>4, <1>5, <1>6 DEF Loop, Trouble

(* The handlers add what they emit.                                        *)
LEMMA WithinHandlers ==
  ASSUME TypeOK, NEW Good, Within(Good), NEW r \in Router,
         \/ HandleTriage(r) \/ HandleUnpack(r) \/ HandleAnalysis(r)
         \/ HandleCveMatch(r) \/ Gate(r) \/ FinalizeJob(r),
         JobMsg("triaged") \in Good, JobMsg("completed") \in Good,
         EmitExtracted(r) => Msg("extracted", task[r].blob) \in Good,
         EmitAnalyzed(r) => Msg("analyzed", task[r].msg.blob) \in Good,
         EmitMatched(r) => Msg("matched", task[r].msg.blob) \in Good
  PROVE  Within(Good)'
<1>1. CASE EmitReject(r)
  BY <1>1, GotoIsMove, WithinEmit DEF EmitReject, Within
<1>2. CASE EmitTriaged(r)
  BY <1>2, GotoIsMove, WithinEmit DEF EmitTriaged, Emit
<1>3. CASE EmitCompleted(r)
  BY <1>3, GotoIsMove, WithinEmit DEF EmitCompleted, Emit
<1>4. CASE EmitAnalyzed(r)
  BY <1>4, GotoIsMove, WithinEmit DEF EmitAnalyzed, Emit
<1>5. CASE EmitMatched(r)
  BY <1>5, GotoIsMove, WithinEmit DEF EmitMatched, Emit
<1>6. CASE EmitExtracted(r)
  <2>1. Moves(r)
    BY <1>6 DEF EmitExtracted, Moves, TypeOK, Task
  <2>2. QED
    BY <1>6, <2>1, WithinEmit DEF EmitExtracted, Emit
<1>7. CASE PutChild(r) \/ ReadTotal(r) \/ ReadPartial(r) \/ ListFragments(r)
  <2>1. task[r] \in Task
    BY DEF TypeOK
  <2>2. CASE PutChild(r)
    BY <2>1, <2>2, WithinQuiet DEF PutChild, Moves, Task, TypeOK
  <2>3. CASE ReadTotal(r)
    BY <2>1, <2>3, WithinQuiet DEF ReadTotal, Moves, Task, TypeOK
  <2>4. CASE ReadPartial(r)
    BY <2>1, <2>4, WithinQuiet DEF ReadPartial, Moves, Task, TypeOK
  <2>5. CASE ListFragments(r)
    BY <2>1, <2>5, WithinQuiet DEF ListFragments, Moves, Task, TypeOK
  <2>6. QED
    BY <1>7, <2>2, <2>3, <2>4, <2>5
<1>8. CASE \/ Triage(r) \/ CountTotal(r) \/ SetMarker(r) \/ Analyze(r)
           \/ CountCompleted(r) \/ PutFragment(r) \/ CountMatched(r)
           \/ RecordSubBlob(r) \/ ReadMarker(r) \/ ReadMatched(r) \/ Finalize(r)
           \/ PutSbom(r) \/ PutReport(r) \/ MarkJob(r)
  <2>1. /\ \E s : Goto(r, s)
        /\ UNCHANGED kafka
    BY <1>8 DEF Triage, CountTotal, SetMarker, Analyze, CountCompleted,
                PutFragment, CountMatched, RecordSubBlob, ReadMarker, ReadMatched,
                Finalize, PutSbom, PutReport, MarkJob
  <2>2. QED
    BY <2>1, GotoIsMove, WithinQuiet
<1>9. QED
  BY <1>1, <1>2, <1>3, <1>4, <1>5, <1>6, <1>7, <1>8
     DEF HandleTriage, HandleUnpack, HandleAnalysis, HandleCveMatch, Gate, FinalizeJob

(* The replay worker adds a record that differs in its tries alone.        *)
LEMMA WithinReplay ==
  ASSUME TypeOK, NEW Good, Within(Good), Replay,
         \A m \in Good : [m EXCEPT !.try = @ + 1] \in Good
  PROVE  Within(Good)'
BY DEF Replay, Within

(* Which steps bring a router to where it has something to tell, and what  *)
(* a router's step does to the objects and the total.                      *)
LEMMA WhoTells ==
  ASSUME TypeOK, NEW r \in Router, Work(r) \/ Deliver(r) \/ Trouble(r)
  PROVE  /\ \A q \in Router : q # r => task'[q] = task[q]
         /\ \/ task' = task
            \/ PutFragment(r) \/ CountMatched(r) \/ CountTotal(r)
            \/ task'[r].at \notin {"countMatched", "emitMatched", "emitExtracted"}
         /\ objects \subseteq objects'
         /\ total' = total \/ CountTotal(r)
<1>. USE DEF TypeOK
<1>1. objects \subseteq objects'
  BY DEF Work, Loop, HandleTriage, HandleUnpack, HandleAnalysis, HandleCveMatch, Gate,
         FinalizeJob, Trouble, Poll, ClaimMessage, SendDlq, Commit, Deliver, Fail,
         SendDlqFails, TripDefence, LateRaise, Crash, Triage, EmitTriaged, EmitReject, PutChild,
         CountTotal, EmitExtracted, SetMarker, Analyze, CountCompleted, EmitAnalyzed,
         PutFragment, CountMatched, EmitMatched, RecordSubBlob, ReadTotal, ReadMarker,
         ReadMatched, ReadPartial, ListFragments, Finalize, PutSbom, PutReport,
         MarkJob, EmitCompleted, stores
<1>2. total' = total \/ CountTotal(r)
  BY DEF Work, Loop, HandleTriage, HandleUnpack, HandleAnalysis, HandleCveMatch, Gate,
         FinalizeJob, Trouble, Poll, ClaimMessage, SendDlq, Commit, Deliver, Fail,
         SendDlqFails, TripDefence, LateRaise, Crash, Triage, EmitTriaged, EmitReject, PutChild,
         EmitExtracted, SetMarker, Analyze, CountCompleted, EmitAnalyzed,
         PutFragment, CountMatched, EmitMatched, RecordSubBlob, ReadTotal, ReadMarker,
         ReadMatched, ReadPartial, ListFragments, Finalize, PutSbom, PutReport,
         MarkJob, EmitCompleted, redis
<1>3. CASE \/ \E s : /\ Goto(r, s)
                     /\ s \notin {"countMatched", "emitMatched", "emitExtracted"}
           \/ PutFragment(r) \/ CountMatched(r) \/ CountTotal(r)
  <2>1. \E s : Goto(r, s)
    BY <1>3 DEF PutFragment, CountMatched, CountTotal
  <2>2. QED
    BY <1>1, <1>2, <1>3, <2>1, GotoIsMove DEF Moves
<1>4. CASE PutChild(r) \/ EmitExtracted(r) \/ ReadTotal(r) \/ ReadPartial(r)
             \/ ListFragments(r)
  <2>1. task[r] \in Task
    OBVIOUS
  <2>2. /\ \A q \in Router : q # r => task'[q] = task[q]
        /\ task'[r].at \notin {"countMatched", "emitMatched", "emitExtracted"}
    <3>1. CASE PutChild(r)
      BY <2>1, <3>1 DEF PutChild, Task
    <3>2. CASE EmitExtracted(r)
      BY <2>1, <3>2 DEF EmitExtracted, Task
    <3>3. CASE ReadTotal(r)
      BY <2>1, <3>3 DEF ReadTotal, Task
    <3>4. CASE ReadPartial(r)
      BY <2>1, <3>4 DEF ReadPartial, Task
    <3>5. CASE ListFragments(r)
      BY <2>1, <3>5 DEF ListFragments, Task
    <3>6. QED
      BY <1>4, <3>1, <3>2, <3>3, <3>4, <3>5
  <2>3. QED
    BY <1>1, <1>2, <2>2
<1>5. CASE Poll(r) \/ Commit(r) \/ Crash(r)
  <2>1. PICK t : /\ task' = [task EXCEPT ![r] = t]
                 /\ t.at \notin {"countMatched", "emitMatched", "emitExtracted"}
    <3>1. CASE Poll(r)
      <4>1. PICK m \in pending :
              task' = [task EXCEPT ![r] = [Idle EXCEPT !.at = "claim", !.msg = m]]
        BY <3>1 DEF Poll
      <4>2. [Idle EXCEPT !.at = "claim", !.msg = m].at = "claim"
        BY DEF Idle
      <4>3. QED
        BY <4>1, <4>2
    <3>2. CASE Commit(r) \/ Crash(r)
      BY <3>2 DEF Commit, Crash, Idle
    <3>3. QED
      BY <1>5, <3>1, <3>2
  <2>2. QED
    BY <1>1, <1>2, <2>1
<1>6. CASE Deliver(r)
  BY <1>1, <1>2, <1>6 DEF Deliver
<1>7. CASE ClaimMessage(r)
  <2>1. PICK s : /\ Goto(r, s)
                 /\ s \notin {"countMatched", "emitMatched", "emitExtracted"}
    BY <1>7, TaskMessage DEF ClaimMessage, FirstStep, Routed
  <2>2. QED
    BY <1>3, <2>1
<1>8. CASE \/ SendDlq(r) \/ Fail(r) \/ SendDlqFails(r) \/ TripDefence(r) \/ LateRaise(r)
           \/ Triage(r) \/ EmitTriaged(r) \/ EmitReject(r) \/ SetMarker(r)
           \/ Analyze(r) \/ CountCompleted(r) \/ EmitAnalyzed(r) \/ EmitMatched(r)
           \/ RecordSubBlob(r) \/ ReadMarker(r) \/ ReadMatched(r) \/ Finalize(r)
           \/ PutSbom(r) \/ PutReport(r) \/ MarkJob(r) \/ EmitCompleted(r)
  <2>1. PICK s : /\ Goto(r, s)
                 /\ s \notin {"countMatched", "emitMatched", "emitExtracted"}
    BY <1>8 DEF SendDlq, Fail, SendDlqFails, TripDefence, LateRaise, Triage, EmitTriaged,
                EmitReject, SetMarker, Analyze, CountCompleted, EmitAnalyzed,
                EmitMatched, RecordSubBlob, ReadMarker, ReadMatched, Finalize,
                FinalizeOutcome, PutSbom, PutReport, MarkJob, EmitCompleted
  <2>2. QED
    BY <1>3, <2>1
<1>9. QED
  BY <1>3, <1>4, <1>5, <1>6, <1>7, <1>8
     DEF Work, Loop, HandleTriage, HandleUnpack, HandleAnalysis, HandleCveMatch, Gate,
         FinalizeJob, Trouble
-----------------------------------------------------------------------------
(***************************************************************************)
(* A matched child has its fragment.  The invariant adds the two steps of  *)
(* cve_match between the upload and the record that tells of it.           *)
(***************************************************************************)
Uploaded == {m \in Message : m.topic = "matched" => <<"fragment", m.blob>> \in objects}

FragmentInv ==
  /\ Within(Uploaded)
  /\ \A r \in Router :
       task[r].at \in {"countMatched", "emitMatched"}
         => <<"fragment", task[r].msg.blob>> \in objects

(* The invariant speaks of every record that is in flight.                 *)
LEMMA InFlightWithin ==
  ASSUME NEW Good, Within(Good), NEW m \in InFlight
  PROVE  m \in Good
BY DEF InFlight, Within

(* The job-scoped records and a replayed record are told rightly.          *)
LEMMA UploadedHolds ==
  /\ \A t \in Topic \ FanOut : JobMsg(t) \in Uploaded
  /\ \A m \in Uploaded : [m EXCEPT !.try = @ + 1] \in Uploaded
<1>1. ASSUME NEW t \in Topic \ FanOut PROVE JobMsg(t) \in Uploaded
  BY <1>1, JobMsgType DEF Uploaded, JobMsg, Msg, FanOut
<1>2. ASSUME NEW m \in Uploaded PROVE [m EXCEPT !.try = @ + 1] \in Uploaded
  BY <1>2 DEF Uploaded, Message
<1>3. QED
  BY <1>1, <1>2

(* One router's step keeps the fragments behind the records.               *)
LEMMA FragmentStep ==
  ASSUME TypeOK, FragmentInv, NEW r \in Router, Work(r) \/ Deliver(r) \/ Trouble(r)
  PROVE  FragmentInv'
<1>0. PICK now : now = Uploaded
  OBVIOUS
<1>1. now \subseteq Uploaded'
  BY <1>0, WhoTells DEF Uploaded
<1>2. Within(now)'
  <2>1. CASE Loop(r) \/ Deliver(r) \/ Trouble(r)
    <3>1. Idle.msg \in now
      BY <1>0, UploadedHolds DEF Idle, Topic, Routed, FanOut
    <3>2. QED
      BY <1>0, <2>1, <3>1, WithinLoop DEF FragmentInv
  <2>2. CASE ~(Loop(r) \/ Deliver(r) \/ Trouble(r))
    <3>1. JobMsg("triaged") \in now /\ JobMsg("completed") \in now
      BY <1>0, UploadedHolds DEF Topic, Routed, FanOut
    <3>2. EmitExtracted(r) => Msg("extracted", task[r].blob) \in now
      BY <1>0, TaskMessage, ChildMsgType DEF EmitExtracted, At, Uploaded, Msg, FanOut
    <3>3. EmitAnalyzed(r) => Msg("analyzed", task[r].msg.blob) \in now
      BY <1>0, TaskMessage, Dispatch, ChildMsgType DEF EmitAnalyzed, Uploaded, Msg, FanOut
    <3>4. EmitMatched(r) => Msg("matched", task[r].msg.blob) \in now
      BY <1>0, TaskMessage, Dispatch, ChildMsgType
         DEF EmitMatched, At, Uploaded, Msg, FanOut, FragmentInv
    <3>5. QED
      BY <1>0, <2>2, <3>1, <3>2, <3>3, <3>4, WithinHandlers DEF Work, FragmentInv
  <2>3. QED
    BY <2>1, <2>2
<1>3. Within(Uploaded)'
  BY <1>1, <1>2 DEF Within
<1>4. ASSUME NEW q \in Router, task'[q].at \in {"countMatched", "emitMatched"}
      PROVE  <<"fragment", task'[q].msg.blob>> \in objects'
  <2>1. CASE q # r \/ task' = task
    BY <1>4, <2>1, WhoTells DEF FragmentInv
  <2>2. CASE q = r /\ (PutFragment(r) \/ CountMatched(r))
    <3>1. <<"fragment", task[r].msg.blob>> \in objects'
      BY <2>2, WhoTells DEF PutFragment, CountMatched, At, FragmentInv
    <3>2. task'[r].msg = task[r].msg
      BY <2>2, GotoIsMove DEF PutFragment, CountMatched, Moves
    <3>3. QED
      BY <2>2, <3>1, <3>2
  <2>3. CASE CountTotal(r) /\ q = r
    BY <1>4, <2>3, GotoIsMove DEF CountTotal
  <2>4. QED
    BY <1>4, <2>1, <2>2, <2>3, WhoTells
<1>5. QED
  BY <1>3, <1>4 DEF FragmentInv

(* Wherever the record of a matched child is - on a topic, in a producer's *)
(* queue, in a router's hands or in firmware.dlq - its SBOM fragment is in *)
(* MinIO, through every crash, failing call and replay: cve_match puts the *)
(* fragment before it counts and tells (cve_match.py:46-60).               *)
THEOREM FragmentsUploaded == Spec => []MatchedHasFragment
<1>1. Init => FragmentInv
  BY UploadedHolds DEF Init, FragmentInv, Within, Idle, Topic, Routed, FanOut
<1>2. TypeOK /\ FragmentInv /\ [Next]_vars => FragmentInv'
  <2>1. SUFFICES ASSUME TypeOK, FragmentInv, [Next]_vars PROVE FragmentInv'
    OBVIOUS
  <2>2. CASE Replay
    <3>1. PICK now : now = Uploaded
      OBVIOUS
    <3>2. Within(now)'
      BY <2>1, <2>2, <3>1, UploadedHolds, WithinReplay DEF FragmentInv
    <3>3. UNCHANGED <<task, objects>>
      BY <2>2 DEF Replay, stores
    <3>4. now = Uploaded'
      BY <3>1, <3>3 DEF Uploaded
    <3>5. QED
      BY <2>1, <3>2, <3>3, <3>4 DEF FragmentInv
  <2>3. CASE UNCHANGED vars
    BY <2>1, <2>3 DEF vars, kafka, stores, FragmentInv, Within, Uploaded
  <2>4. QED
    BY <2>1, <2>2, <2>3, FragmentStep DEF Next
<1>3. FragmentInv => MatchedHasFragment
  BY InFlightWithin DEF FragmentInv, MatchedHasFragment, Uploaded, Message, FanOut,
     Fragmented
<1>4. QED
  BY <1>1, <1>2, <1>3, TypeCorrect, PTL DEF Spec

-----------------------------------------------------------------------------
(***************************************************************************)
(* The total covers the fan-out.  Counted is a set of children that as     *)
(* many INCRs stand for: it holds every child a record tells of and the    *)
(* child unpack has counted and is about to tell of.                       *)
(***************************************************************************)
Covered(Counted) == {m \in Message : m.topic \in FanOut => m.blob \in Counted}

Covers(Counted) ==
  /\ IsFiniteSet(Counted)
  /\ Cardinality(Counted) <= total
  /\ Within(Covered(Counted))
  /\ \A r \in Router : At(r, "emitExtracted") => task[r].blob \in Counted

TotalInv == \E Counted \in SUBSET Blob : Covers(Counted)

(* Job-scoped and replayed records need no further child.                  *)
LEMMA CoveredHolds ==
  ASSUME NEW Counted \in SUBSET Blob
  PROVE  /\ \A t \in Topic \ FanOut : JobMsg(t) \in Covered(Counted)
         /\ \A m \in Covered(Counted) : [m EXCEPT !.try = @ + 1] \in Covered(Counted)
<1>1. ASSUME NEW t \in Topic \ FanOut PROVE JobMsg(t) \in Covered(Counted)
  BY <1>1, JobMsgType DEF Covered, JobMsg, Msg
<1>2. ASSUME NEW m \in Covered(Counted)
      PROVE  [m EXCEPT !.try = @ + 1] \in Covered(Counted)
  BY <1>2 DEF Covered, Message
<1>3. QED
  BY <1>1, <1>2

(* One router's step: the INCR counts one child more, and no other step    *)
(* tells of a child that is not counted.                                   *)
LEMMA TotalStep ==
  ASSUME TypeOK, TotalInv, NEW r \in Router, Work(r) \/ Deliver(r) \/ Trouble(r)
  PROVE  TotalInv'
<1>1. PICK Counted \in SUBSET Blob : Covers(Counted)
  BY DEF TotalInv
<1>. DEFINE good == Covered(Counted)
<1>2. Within(good)'
  <2>1. CASE Loop(r) \/ Deliver(r) \/ Trouble(r)
    <3>1. Idle.msg \in good
      BY CoveredHolds DEF Idle, Topic, Routed, FanOut
    <3>2. QED
      BY <1>1, <2>1, <3>1, WithinLoop DEF Covers
  <2>2. CASE ~(Loop(r) \/ Deliver(r) \/ Trouble(r))
    <3>1. JobMsg("triaged") \in good /\ JobMsg("completed") \in good
      BY CoveredHolds DEF Topic, Routed, FanOut
    <3>2. EmitExtracted(r) => Msg("extracted", task[r].blob) \in good
      BY <1>1, ChildMsgType DEF EmitExtracted, Covers, Covered, Msg, FanOut
    <3>3. task[r].msg \in good
      BY <1>1 DEF Covers, Within
    <3>4. EmitAnalyzed(r) => Msg("analyzed", task[r].msg.blob) \in good
      BY <3>3, Dispatch, ChildMsgType DEF EmitAnalyzed, Covered, Msg, FanOut
    <3>5. EmitMatched(r) => Msg("matched", task[r].msg.blob) \in good
      BY <3>3, Dispatch, ChildMsgType DEF EmitMatched, Covered, Msg, FanOut
    <3>6. QED
      BY <1>1, <2>2, <3>1, <3>2, <3>4, <3>5, WithinHandlers DEF Work, Covers
  <2>3. QED
    BY <2>1, <2>2
<1>3. CASE CountTotal(r)
  <2>0. PICK b, More : b = task[r].blob /\ More = Counted \cup {b}
    OBVIOUS
  <2>1. b \in Blob
    BY <1>3, <2>0, TaskMessage DEF CountTotal, At
  <2>2. IsFiniteSet(More) /\ Cardinality(More) <= Cardinality(Counted) + 1
    <3>1. IsFiniteSet(Counted)
      BY <1>1 DEF Covers
    <3>2. Cardinality(Counted) \in Nat
      BY <3>1, FS_CardinalityType
    <3>3. /\ IsFiniteSet(Counted \cup {b})
          /\ \/ Cardinality(Counted \cup {b}) = Cardinality(Counted)
             \/ Cardinality(Counted \cup {b}) = Cardinality(Counted) + 1
      BY <3>1, FS_AddElement
    <3>4. QED
      BY <2>0, <3>2, <3>3
  <2>3. Cardinality(More) <= total'
    BY <1>1, <1>3, <2>2, FS_CardinalityType DEF Covers, CountTotal, TypeOK
  <2>4. Covered(Counted) \subseteq Covered(More)
    BY <2>0 DEF Covered
  <2>5. Within(Covered(More))'
    BY <1>2, <2>4 DEF Within
  <2>6. ASSUME NEW q \in Router, task'[q].at = "emitExtracted"
        PROVE  task'[q].blob \in More
    <3>1. CASE q = r
      BY <1>3, <2>0, <3>1 DEF CountTotal, Goto, TypeOK, Task
    <3>2. CASE q # r
      BY <1>1, <2>0, <2>6, <3>2, WhoTells DEF Covers, At
    <3>3. QED
      BY <3>1, <3>2
  <2>7. Covers(More)'
    BY <2>2, <2>3, <2>5, <2>6 DEF Covers, At
  <2>8. QED
    BY <2>0, <2>1, <2>7 DEF TotalInv
<1>4. CASE ~CountTotal(r)
  <2>1. total' = total
    BY <1>4, WhoTells
  <2>2. \A q \in Router : task'[q].at = "emitExtracted" => task'[q] = task[q]
    <3>1. PutFragment(r) \/ CountMatched(r) => task'[r].at # "emitExtracted"
      BY GotoIsMove DEF PutFragment, CountMatched
    <3>2. QED
      BY <1>4, <3>1, WhoTells
  <2>3. Covers(Counted)'
    BY <1>1, <1>2, <2>1, <2>2 DEF Covers, At
  <2>4. QED
    BY <2>3 DEF TotalInv
<1>5. QED
  BY <1>3, <1>4

(* At any moment total_children is at least the number of children that    *)
(* any record in flight, queued or in firmware.dlq speaks of, whatever is  *)
(* redelivered or replayed: a child is counted before it is announced      *)
(* (unpack.py:44-50).  The gate can therefore not be undercut by children  *)
(* it never heard of.                                                      *)
THEOREM FanOutCounted == Spec => []TotalCoversFanOut
<1>1. Init => TotalInv
  <2>1. SUFFICES ASSUME Init PROVE Covers({})
    BY DEF TotalInv
  <2>2. IsFiniteSet({}) /\ Cardinality({}) = 0
    BY FS_EmptySet
  <2>3. Within(Covered({}))
    BY <2>1, CoveredHolds DEF Init, Within, Idle, Topic, Routed, FanOut
  <2>4. QED
    BY <2>1, <2>2, <2>3 DEF Covers, Init, At, Idle
<1>2. TypeOK /\ TotalInv /\ [Next]_vars => TotalInv'
  <2>1. SUFFICES ASSUME TypeOK, TotalInv, [Next]_vars PROVE TotalInv'
    OBVIOUS
  <2>2. CASE Replay
    <3>1. PICK Counted \in SUBSET Blob : Covers(Counted)
      BY <2>1 DEF TotalInv
    <3>2. Within(Covered(Counted))'
      BY <2>1, <2>2, <3>1, CoveredHolds, WithinReplay DEF Covers
    <3>3. UNCHANGED <<task, total>>
      BY <2>2 DEF Replay, redis
    <3>4. Covers(Counted)'
      BY <3>1, <3>2, <3>3 DEF Covers, At
    <3>5. QED
      BY <3>4 DEF TotalInv
  <2>3. CASE UNCHANGED vars
    <3>1. PICK Counted \in SUBSET Blob : Covers(Counted)
      BY <2>1 DEF TotalInv
    <3>2. Covers(Counted)'
      BY <2>3, <3>1 DEF vars, kafka, redis, Covers, Within, At
    <3>3. QED
      BY <3>2 DEF TotalInv
  <2>4. QED
    BY <2>1, <2>2, <2>3, TotalStep DEF Next
<1>3. TypeOK /\ TotalInv => TotalCoversFanOut
  <2>1. SUFFICES ASSUME TypeOK, NEW Counted \in SUBSET Blob, Covers(Counted)
                 PROVE  TotalCoversFanOut
    BY DEF TotalInv
  <2>. DEFINE told == {m.blob : m \in {x \in InFlight : x.topic \in FanOut}}
  <2>2. told \subseteq Counted
    BY <2>1, InFlightWithin DEF Covers, Covered
  <2>3. Cardinality(told) <= Cardinality(Counted)
    BY <2>1, <2>2, FS_Subset DEF Covers
  <2>4. IsFiniteSet(told)
    BY <2>1, <2>2, FS_Subset DEF Covers
  <2>5. Cardinality(told) \in Nat /\ Cardinality(Counted) \in Nat
    BY <2>1, <2>4, FS_CardinalityType DEF Covers
  <2>6. QED
    BY <2>1, <2>3, <2>5 DEF Covers, TotalCoversFanOut, TypeOK
<1>4. QED
  BY <1>1, <1>2, <1>3, TypeCorrect, PTL DEF Spec

=============================================================================
