----------------------------- MODULE GateProofs -----------------------------
(***************************************************************************)
(* Theorems about FirmwarePipeline that rest on a record being in one      *)
(* place at a time: replays are bounded, the total is final once           *)
(* extraction is marked complete, a child is counted more than once only   *)
(* for a failed call, no child is lost on its way to its match, the gate   *)
(* opens for the whole of the firmware only, and the five stages keep the  *)
(* promise of JobReport.                                                   *)
(***************************************************************************)
EXTENDS FanOutProofs

(***************************************************************************)
(* Where a router's step leaves the records.  It polls or commits one, it  *)
(* loses or delivers what it has queued, or it goes on with the record in  *)
(* hand, with or without queueing another one.                             *)
(***************************************************************************)
GoesOn(r) ==
  /\ Moves(r)
  /\ task[r].at \notin {"idle", "commit"}
  /\ task'[r].at # "idle"
  /\ At(r, "countMatched") => task'[r].at = "emitMatched" \/ Fail(r)
  /\ At(r, "emitMatched") => task'[r].at = "commit" \/ Fail(r)
  /\ UNCHANGED <<pending, dlq>>
Inside(r) == GoesOn(r) /\ UNCHANGED outbox
Queues(r, to, m) ==
  /\ GoesOn(r)
  /\ outbox' = [outbox EXCEPT ![r] = @ \cup {[to |-> to, msg |-> m]}]

(* What each of the queueing steps queues.                                 *)
Tells(r) ==
  \/ (EmitReject(r) \/ SendDlqFails(r)) /\ Queues(r, "dlq", task[r].msg) /\ task'[r].at = "commit"
  \/ EmitTriaged(r) /\ Queues(r, "topic", JobMsg("triaged"))
  \/ EmitExtracted(r) /\ Queues(r, "topic", Msg("extracted", task[r].blob))
  \/ EmitAnalyzed(r) /\ Queues(r, "topic", Msg("analyzed", task[r].msg.blob)) /\ task'[r].at = "commit"
  \/ EmitMatched(r) /\ Queues(r, "topic", Msg("matched", task[r].msg.blob))
  \/ EmitCompleted(r) /\ Queues(r, "topic", JobMsg("completed"))

(* The steps that queue.                                                   *)
LEMMA TellingSteps ==
  ASSUME TypeOK, NEW r \in Router,
         \/ EmitReject(r) \/ EmitTriaged(r) \/ EmitExtracted(r) \/ EmitAnalyzed(r)
         \/ EmitMatched(r) \/ EmitCompleted(r)
         \/ SendDlqFails(r) /\ outbox' # outbox
  PROVE  Tells(r)
<1>1. CASE EmitExtracted(r)
  <2>1. Moves(r) /\ task'[r].at = "unpack"
    BY <1>1 DEF EmitExtracted, Moves, TypeOK, Task
  <2>2. QED
    BY <1>1, <2>1 DEF EmitExtracted, Emit, Tells, Queues, GoesOn, At
<1>2. CASE ~EmitExtracted(r)
  <2>1. Goto(r, "commit") /\ UNCHANGED <<pending, dlq>>
    BY <1>2 DEF EmitReject, EmitTriaged, EmitAnalyzed, EmitMatched, EmitCompleted, SendDlqFails
  <2>2. Moves(r) /\ task'[r].at = "commit"
    BY <2>1, GotoIsMove
  <2>3. task[r].at \notin {"idle", "commit", "countMatched"}
    BY <1>2 DEF EmitReject, EmitTriaged, EmitAnalyzed, EmitMatched, EmitCompleted,
                SendDlqFails, At
  <2>4. GoesOn(r)
    BY <2>1, <2>2, <2>3 DEF GoesOn, At
  <2>5. QED
    BY <1>2, <2>2, <2>4 DEF EmitReject, EmitTriaged, EmitAnalyzed, EmitMatched,
       EmitCompleted, SendDlqFails, Emit, Tells, Queues
<1>3. QED
  BY <1>1, <1>2

(* The steps that only go on.                                              *)
LEMMA InsideSteps ==
  ASSUME TypeOK, NEW r \in Router,
         \/ ClaimMessage(r) \/ Fail(r) \/ TripDefence(r) \/ LateRaise(r)
         \/ SendDlqFails(r) /\ UNCHANGED outbox
         \/ Triage(r) \/ PutChild(r) \/ CountTotal(r) \/ SetMarker(r)
         \/ Analyze(r) \/ CountCompleted(r) \/ PutFragment(r) \/ CountMatched(r)
         \/ Gate(r) \/ ReadPartial(r) \/ ListFragments(r) \/ Finalize(r)
         \/ PutSbom(r) \/ PutReport(r) \/ MarkJob(r)
  PROVE  Inside(r)
<1>1. CASE PutChild(r) \/ ReadTotal(r) \/ ReadPartial(r) \/ ListFragments(r)
  <2>1. task[r] \in Task
    BY DEF TypeOK
  <2>2. Moves(r) /\ task'[r].at \in {"countTotal", "commit", "readMarker", "listFragments", "finalize"}
    <3>1. CASE PutChild(r)
      BY <2>1, <3>1 DEF PutChild, Moves, Task, TypeOK
    <3>2. CASE ReadTotal(r)
      BY <2>1, <3>2 DEF ReadTotal, Moves, Task, TypeOK
    <3>3. CASE ReadPartial(r)
      BY <2>1, <3>3 DEF ReadPartial, Moves, Task, TypeOK
    <3>4. CASE ListFragments(r)
      BY <2>1, <3>4 DEF ListFragments, Moves, Task, TypeOK
    <3>5. QED
      BY <1>1, <3>1, <3>2, <3>3, <3>4
  <2>3. /\ task[r].at \in {"unpack", "readTotal", "readPartial", "listFragments"}
        /\ UNCHANGED kafka
    BY <1>1 DEF PutChild, ReadTotal, ReadPartial, ListFragments, At
  <2>4. QED
    BY <2>2, <2>3 DEF Inside, GoesOn, At, kafka
<1>2. CASE ~(PutChild(r) \/ ReadTotal(r) \/ ReadPartial(r) \/ ListFragments(r))
  <2>1. PICK s : Goto(r, s) /\ s # "idle" /\ (CountMatched(r) => s = "emitMatched")
    BY <1>2, TaskMessage
       DEF ClaimMessage, FirstStep, Routed, Fail, TripDefence, LateRaise, SendDlqFails, Triage,
           CountTotal, SetMarker, Analyze, CountCompleted, PutFragment, CountMatched,
           Gate, RecordSubBlob, ReadMarker, ReadMatched, Finalize, FinalizeOutcome,
           PutSbom, PutReport, MarkJob
  <2>2. Moves(r) /\ task'[r].at = s
    BY <2>1, GotoIsMove
  <2>3. /\ task[r].at \notin {"idle", "commit"}
        /\ At(r, "countMatched") => CountMatched(r) \/ Fail(r)
        /\ At(r, "emitMatched") => Fail(r)
        /\ UNCHANGED kafka
    BY <1>2 DEF ClaimMessage, Fail, TripDefence, LateRaise, SendDlqFails, Triage, CountTotal,
       SetMarker, Analyze, CountCompleted, PutFragment, CountMatched, Gate,
       RecordSubBlob, ReadMarker, ReadMatched, Finalize, PutSbom, PutReport, MarkJob,
       At, kafka
  <2>4. QED
    BY <2>1, <2>2, <2>3 DEF Inside, GoesOn, kafka, At
<1>3. QED
  BY <1>1, <1>2

(* These are all the steps of a router.                                    *)
LEMMA RouterStep ==
  ASSUME TypeOK, NEW r \in Router, Work(r) \/ Deliver(r) \/ Trouble(r)
  PROVE  \/ Poll(r) \/ Commit(r) \/ Crash(r) \/ Deliver(r) \/ SendDlq(r)
         \/ Tells(r) \/ Inside(r)
BY TellingSteps, InsideSteps
   DEF Work, Loop, HandleTriage, HandleUnpack, HandleAnalysis, HandleCveMatch,
       FinalizeJob, Trouble, SendDlqFails

-----------------------------------------------------------------------------
(***************************************************************************)
(* How often a record is replayed.  A dead letter has used up a claim or   *)
(* its router has met a failing call, so a record's tries never exceed the *)
(* claims on its topic and child, two at most, and the failing calls.      *)
(***************************************************************************)
KeyOf(m) == [topic |-> m.topic, blob |-> m.blob, hashed |-> FALSE]
HashOf(m) == [topic |-> m.topic, blob |-> m.blob, hashed |-> TRUE]
Taken(c) == IF c \in claims THEN 1 ELSE 0
Reasons(m) == Taken(KeyOf(m)) + Taken(HashOf(m)) + faults

Fit == {m \in Message : m.try <= Reasons(m)}
Spent == {m \in Message : m.try + 1 <= Reasons(m)}

(* A router has claimed its record, or lost a call over it.                *)
Handling(r) == task[r].at \notin {"idle", "claim", "commit"}

RetryInv ==
  /\ Within(Fit)
  /\ dlq \subseteq Spent
  /\ \A r \in Router :
       /\ \A o \in outbox[r] : o.to = "dlq" => o.msg \in Spent
       /\ Handling(r) => task[r].msg \in Spent

(* A dead letter is fit to be replayed, a fresh record is fit.             *)
LEMMA FitHolds ==
  ASSUME TypeOK
  PROVE  /\ \A m \in Spent : [m EXCEPT !.try = @ + 1] \in Fit
         /\ \A m \in Message : m.try = 0 => m \in Fit
         /\ Spent \subseteq Fit
<1>1. \A c : Taken(c) \in Nat
  BY DEF Taken
<1>2. \A m : Reasons(m) \in Nat
  BY <1>1 DEF Reasons, TypeOK
<1>3. \A m \in Message : m.try \in Nat
  BY DEF Message
<1>4. ASSUME NEW m \in Spent PROVE [m EXCEPT !.try = @ + 1] \in Fit
  <2>1. PICK n : n = [m EXCEPT !.try = @ + 1]
    OBVIOUS
  <2>2. n \in Message /\ n.topic = m.topic /\ n.blob = m.blob /\ n.try = m.try + 1
    BY <2>1 DEF Spent, Message
  <2>3. Reasons(n) = Reasons(m)
    BY <2>2 DEF Reasons, KeyOf, HashOf
  <2>4. QED
    BY <2>1, <2>2, <2>3 DEF Spent, Fit
<1>5. QED
  BY <1>2, <1>3, <1>4 DEF Spent, Fit

(* Claims and failing calls only add up.                                   *)
LEMMA ReasonsGrow ==
  ASSUME TypeOK, claims \subseteq claims', faults' \in Nat, faults <= faults'
  PROVE  /\ \A m : Reasons(m) \in Nat /\ Reasons(m)' \in Nat /\ Reasons(m) <= Reasons(m)'
         /\ Fit \subseteq Fit' /\ Spent \subseteq Spent'
<1>1. ASSUME NEW c
      PROVE  /\ Taken(c) \in Nat /\ Taken(c)' \in Nat
             /\ Taken(c) <= Taken(c)'
  BY DEF Taken
<1>2. ASSUME NEW m
      PROVE  /\ Reasons(m)' = Taken(KeyOf(m))' + Taken(HashOf(m))' + faults'
             /\ Reasons(m) \in Nat /\ Reasons(m)' \in Nat /\ Reasons(m) <= Reasons(m)'
  <2>1. PICK k, h : k = KeyOf(m) /\ h = HashOf(m)
    OBVIOUS
  <2>2. Reasons(m) = Taken(k) + Taken(h) + faults /\ Reasons(m)' = Taken(k)' + Taken(h)' + faults'
    BY <2>1 DEF Reasons, KeyOf, HashOf
  <2>3. QED
    BY <1>1, <2>1, <2>2 DEF TypeOK
<1>3. \A m : Reasons(m) \in Nat /\ Reasons(m)' \in Nat /\ Reasons(m) <= Reasons(m)'
  BY <1>2
<1>4. \A m \in Message : m.try \in Nat
  BY DEF Message
<1>5. QED
  BY <1>3, <1>4 DEF Fit, Spent

(* What a router's step does to the claims and the failing calls.          *)
LEMMA ReasonsAfter ==
  ASSUME TypeOK, NEW r \in Router, Work(r) \/ Deliver(r) \/ Trouble(r)
  PROVE  claims \subseteq claims' /\ faults' \in {faults, faults + 1}
<1>. USE DEF Work, Loop, HandleTriage, HandleUnpack, HandleAnalysis, HandleCveMatch, Gate,
         FinalizeJob, Trouble, Poll, ClaimMessage, SendDlq, Commit, Deliver, Fail,
         SendDlqFails, TripDefence, LateRaise, Crash, Triage, EmitTriaged, EmitReject, PutChild,
         CountTotal, EmitExtracted, SetMarker, Analyze, CountCompleted, EmitAnalyzed,
         PutFragment, CountMatched, EmitMatched, RecordSubBlob, ReadTotal, ReadMarker,
         ReadMatched, ReadPartial, ListFragments, Finalize, PutSbom, PutReport,
         MarkJob, EmitCompleted
<1>1. claims \subseteq claims'
  BY DEF redis
<1>2. faults' \in {faults, faults + 1}
  BY DEF budget
<1>3. QED
  BY <1>1, <1>2

(* The claim of a record, or the failure of that call, spends it.          *)
LEMMA ClaimSpends ==
  ASSUME TypeOK, RetryInv, NEW r \in Router, Handling(r)',
         ClaimMessage(r) \/ (At(r, "claim") /\ Fail(r))
  PROVE  task[r].msg \in Spent'
<1>1. PICK m : m = task[r].msg
  OBVIOUS
<1>2. m \in Message /\ m.try \in Nat /\ m.try <= Reasons(m)
  <2>1. m \in Fit
    BY <1>1 DEF RetryInv, Within
  <2>2. QED
    BY <2>1 DEF Fit, Message
<1>3. PICK k, h : k = KeyOf(m) /\ h = HashOf(m)
  OBVIOUS
<1>4. /\ Reasons(m) = Taken(k) + Taken(h) + faults
      /\ Reasons(m)' = Taken(k)' + Taken(h)' + faults'
      /\ Taken(k) \in Nat /\ Taken(h) \in Nat /\ Taken(k)' \in Nat /\ Taken(h)' \in Nat
  BY <1>3 DEF Reasons, Taken, KeyOf, HashOf
<1>5. CASE At(r, "claim") /\ Fail(r)
  <2>1. UNCHANGED claims /\ faults' = faults + 1
    BY <1>5 DEF Fail, redis
  <2>2. Taken(k)' = Taken(k) /\ Taken(h)' = Taken(h)
    BY <2>1 DEF Taken
  <2>3. Reasons(m) + 1 = Reasons(m)' /\ Reasons(m) \in Nat
    BY <1>4, <2>1, <2>2 DEF TypeOK
  <2>4. QED
    BY <1>1, <1>2, <2>3 DEF Spent
<1>6. CASE ClaimMessage(r)
  <2>1. ClaimKey(m) \in {k, h}
    <3>1. CASE m.try > 0
      <4>1. (m.try > 0) = TRUE
        BY <3>1
      <4>2. QED
        BY <1>3, <4>1 DEF ClaimKey, HashOf
    <3>2. CASE ~(m.try > 0)
      <4>1. (m.try > 0) = FALSE
        BY <3>2
      <4>2. QED
        BY <1>3, <4>1 DEF ClaimKey, KeyOf
    <3>3. QED
      BY <3>1, <3>2
  <2>2. claims' = claims \cup {ClaimKey(m)} /\ faults' = faults
    BY <1>1, <1>6 DEF ClaimMessage, budget
  <2>3. ClaimKey(m) \notin claims
    BY <1>1, <1>6, GotoIsMove DEF ClaimMessage, Handling
  <2>4. k # h
    BY <1>3 DEF KeyOf, HashOf
  <2>5. \/ Taken(k) = 0 /\ Taken(k)' = 1 /\ Taken(h)' = Taken(h)
        \/ Taken(h) = 0 /\ Taken(h)' = 1 /\ Taken(k)' = Taken(k)
    BY <2>1, <2>2, <2>3, <2>4 DEF Taken
  <2>6. Reasons(m) + 1 = Reasons(m)' /\ Reasons(m) \in Nat
    BY <1>4, <2>2, <2>5 DEF TypeOK
  <2>7. QED
    BY <1>1, <1>2, <2>6 DEF Spent
<1>7. QED
  BY <1>5, <1>6

(* One router's step lets no record be tried without a reason.             *)
LEMMA RetryStep ==
  ASSUME TypeOK, RetryInv, NEW r \in Router, Work(r) \/ Deliver(r) \/ Trouble(r)
  PROVE  RetryInv'
<1>0. PICK fit, spent : fit = Fit /\ spent = Spent
  OBVIOUS
<1>1. fit \subseteq Fit' /\ spent \subseteq Spent'
  BY <1>0, ReasonsAfter, ReasonsGrow DEF TypeOK
<1>2. Within(fit)'
  <2>1. \A t \in Topic \ FanOut : JobMsg(t) \in fit
    BY <1>0, FitHolds, JobMsgType DEF JobMsg, Msg
  <2>2. CASE Loop(r) \/ Deliver(r) \/ Trouble(r)
    <3>1. Idle.msg \in fit
      BY <2>1 DEF Idle, Topic, Routed, FanOut
    <3>2. QED
      BY <1>0, <2>2, <3>1, WithinLoop DEF RetryInv
  <2>3. CASE ~(Loop(r) \/ Deliver(r) \/ Trouble(r))
    <3>1. JobMsg("triaged") \in fit /\ JobMsg("completed") \in fit
      BY <2>1 DEF Topic, Routed, FanOut
    <3>2. EmitExtracted(r) => Msg("extracted", task[r].blob) \in fit
      BY <1>0, FitHolds, TaskMessage, ChildMsgType DEF EmitExtracted, At, Msg, FanOut
    <3>3. EmitAnalyzed(r) => Msg("analyzed", task[r].msg.blob) \in fit
      BY <1>0, FitHolds, TaskMessage, Dispatch, ChildMsgType DEF EmitAnalyzed, Msg, FanOut
    <3>4. EmitMatched(r) => Msg("matched", task[r].msg.blob) \in fit
      BY <1>0, FitHolds, TaskMessage, Dispatch, ChildMsgType DEF EmitMatched, Msg, FanOut
    <3>5. QED
      BY <1>0, <2>3, <3>1, <3>2, <3>3, <3>4, WithinHandlers DEF Work, RetryInv
  <2>4. QED
    BY <2>2, <2>3
<1>3. /\ Handling(r) => task[r].msg \in spent
      /\ \A q \in Router : \A o \in outbox[q] : o.to = "dlq" => o.msg \in spent
      /\ dlq \subseteq spent
  BY <1>0 DEF RetryInv
<1>4. /\ dlq' \subseteq spent
      /\ \A q \in Router : \A o \in outbox'[q] : o.to = "dlq" => o.msg \in spent
  <2>1. CASE Poll(r) \/ Commit(r) \/ Crash(r) \/ Inside(r)
    BY <1>3, <2>1 DEF Poll, Commit, Crash, Inside, GoesOn, kafka, TypeOK
  <2>2. CASE Deliver(r)
    BY <1>3, <2>2 DEF Deliver, TypeOK
  <2>3. CASE SendDlq(r)
    <3>1. Handling(r)
      BY <2>3 DEF SendDlq, Handling, At
    <3>2. Delivered(r, "dlq") \subseteq spent
      BY <1>3 DEF Delivered
    <3>3. QED
      BY <1>3, <2>3, <3>1, <3>2 DEF SendDlq, TypeOK
  <2>4. CASE Tells(r)
    <3>1. PICK to, m : /\ Queues(r, to, m)
                       /\ to = "topic" \/ EmitReject(r) \/ SendDlqFails(r)
                       /\ to = "topic" \/ m = task[r].msg
      BY <2>4 DEF Tells
    <3>2. to = "topic" \/ m \in spent
      BY <1>3, <3>1 DEF EmitReject, SendDlqFails, Handling, At
    <3>3. dlq' = dlq /\ outbox' = [outbox EXCEPT ![r] = @ \cup {[to |-> to, msg |-> m]}]
      BY <3>1 DEF Queues, GoesOn
    <3>4. ASSUME NEW q \in Router, NEW o \in outbox'[q], o.to = "dlq" PROVE o.msg \in spent
      <4>1. o \in outbox[q] \/ o = [to |-> to, msg |-> m]
        BY <3>3, <3>4 DEF TypeOK
      <4>2. QED
        BY <1>3, <3>2, <3>4, <4>1
    <3>5. QED
      BY <1>3, <3>3, <3>4
  <2>5. QED
    BY <2>1, <2>2, <2>3, <2>4, RouterStep
<1>5. ASSUME NEW q \in Router, Handling(q)' PROVE task'[q].msg \in Spent'
  <2>1. CASE task'[q] = task[q]
    BY <1>0, <1>1, <1>5, <2>1 DEF Handling, RetryInv
  <2>2. CASE q = r /\ GoesOn(r) /\ task' # task
    <3>1. task'[r].msg = task[r].msg /\ task[r].at \notin {"idle", "commit"}
      BY <2>2 DEF GoesOn, Moves
    <3>2. CASE task[r].at = "claim"
      <4>1. ClaimMessage(r) \/ Fail(r)
        <5>1. ~Crash(r)
          BY <1>5, <2>2 DEF Crash, Handling, Idle, TypeOK
        <5>2. QED
          BY <2>2, <3>2, <5>1, ZenonT(60)
             DEF At, Work, Loop, HandleTriage, HandleUnpack, HandleAnalysis,
           HandleCveMatch, Gate, FinalizeJob, Trouble, Poll, SendDlq, Commit, Deliver,
           SendDlqFails, TripDefence, LateRaise, Triage, EmitTriaged, EmitReject, PutChild,
           CountTotal, EmitExtracted, SetMarker, Analyze, CountCompleted, EmitAnalyzed,
           PutFragment, CountMatched, EmitMatched, RecordSubBlob, ReadTotal, ReadMarker,
           ReadMatched, ReadPartial, ListFragments, Finalize, PutSbom, PutReport,
           MarkJob, EmitCompleted
      <4>2. QED
        BY <1>5, <2>2, <3>1, <3>2, <4>1, ClaimSpends DEF At
    <3>3. CASE task[r].at # "claim"
      BY <1>1, <1>3, <2>2, <3>1, <3>3 DEF Handling
    <3>4. QED
      BY <3>2, <3>3
  <2>3. CASE q = r /\ SendDlq(r)
    BY <1>5, <2>3, GotoIsMove DEF SendDlq, Handling
  <2>4. CASE q = r /\ (Poll(r) \/ Commit(r) \/ Crash(r))
    <3>1. CASE Poll(r)
      <4>1. PICK m : task' = [task EXCEPT ![r] = [Idle EXCEPT !.at = "claim", !.msg = m]]
        BY <3>1 DEF Poll
      <4>2. [Idle EXCEPT !.at = "claim", !.msg = m].at = "claim"
        BY DEF Idle
      <4>3. QED
        BY <1>5, <2>4, <4>1, <4>2 DEF Handling, TypeOK
    <3>2. CASE Commit(r) \/ Crash(r)
      BY <1>5, <2>4, <3>2 DEF Commit, Crash, Handling, Idle, TypeOK
    <3>3. QED
      BY <2>4, <3>1, <3>2
  <2>5. QED
    BY <1>5, <2>1, <2>2, <2>3, <2>4, RouterStep, WhoTells
       DEF Tells, Queues, Inside, Deliver
<1>6. QED
  BY <1>1, <1>2, <1>4, <1>5 DEF RetryInv, Within

(* A record is replayed at most twice more often than calls have failed:   *)
(* its Kafka key and its hash are claimed once each (idempotency.py:18-28),*)
(* and only a claimed record or a failing call makes a dead letter. Nothing*)
(* is assumed of the routers, the crashes or who loses the race for it.    *)
THEOREM ReplaysAreBounded == Spec => []ReplaysBounded
<1>1. Init => RetryInv
  <2>1. SUFFICES ASSUME Init PROVE RetryInv
    OBVIOUS
  <2>2. TypeOK
    BY <2>1, InitType
  <2>3. JobMsg("uploaded") \in Fit
    BY <2>2, FitHolds, JobMsgType DEF JobMsg, Msg, Topic, Routed, FanOut
  <2>4. QED
    BY <2>1, <2>3 DEF Init, RetryInv, Within, Handling, Idle
<1>2. TypeOK /\ RetryInv /\ [Next]_vars => RetryInv'
  <2>1. SUFFICES ASSUME TypeOK, RetryInv, [Next]_vars PROVE RetryInv'
    OBVIOUS
  <2>2. CASE Replay
    <3>1. PICK fit, spent : fit = Fit /\ spent = Spent
      OBVIOUS
    <3>2. PICK m \in dlq : /\ dlq' = dlq \ {m}
                           /\ pending' = pending \cup {[m EXCEPT !.try = @ + 1]}
      BY <2>2 DEF Replay
    <3>3. m \in Spent /\ [m EXCEPT !.try = @ + 1] \in fit
      BY <2>1, <3>1, <3>2, FitHolds DEF RetryInv
    <3>4. UNCHANGED <<outbox, task, claims, faults>>
      BY <2>2 DEF Replay, redis, budget
    <3>5. Fit' = fit /\ Spent' = spent
      BY <3>1, <3>4 DEF Fit, Spent, Reasons, Taken, KeyOf, HashOf
    <3>6. QED
      BY <2>1, <3>1, <3>2, <3>3, <3>4, <3>5 DEF RetryInv, Within, Handling
  <2>3. CASE UNCHANGED vars
    <3>1. UNCHANGED <<pending, dlq, outbox, task, claims, faults>>
      BY <2>3 DEF vars, kafka, redis, budget
    <3>2. Fit' = Fit /\ Spent' = Spent
      BY <3>1 DEF Fit, Spent, Reasons, Taken, KeyOf, HashOf
    <3>3. QED
      BY <2>1, <3>1, <3>2 DEF RetryInv, Within, Handling
  <2>4. QED
    BY <2>1, <2>2, <2>3, RetryStep DEF Next
<1>3. TypeOK /\ RetryInv => ReplaysBounded
  <2>1. SUFFICES ASSUME TypeOK, RetryInv, NEW m \in InFlight PROVE m.try <= 2 + faults
    BY DEF ReplaysBounded
  <2>2. m.try <= Reasons(m) /\ m.try \in Nat
    BY <2>1, InFlightWithin DEF RetryInv, Fit, Message
  <2>3. \A c : Taken(c) \in {0, 1}
    BY DEF Taken
  <2>4. QED
    BY <2>1, <2>2, <2>3 DEF Reasons, TypeOK
<1>4. QED
  BY <1>1, <1>2, <1>3, TypeCorrect, PTL DEF Spec

-----------------------------------------------------------------------------
(***************************************************************************)
(* A record in hand is on its topic until it is committed, it is of a topic*)
(* its router serves, and nobody else has it in hand.                      *)
(***************************************************************************)
Busy(r) == task[r].at # "idle"

HeldInv ==
  /\ \A r \in Router : Busy(r) => task[r].msg \in pending /\ task[r].msg.topic \in Serves[r]
  /\ \A q, r \in Router : Busy(q) /\ Busy(r) /\ task[q].msg = task[r].msg => q = r

(* Steps that make no router busy and take no record off a topic keep it.  *)
LEMMA HeldKept ==
  ASSUME TypeOK, HeldInv, pending \subseteq pending',
         \A q \in Router : Busy(q)' => Busy(q) /\ task'[q].msg = task[q].msg
  PROVE  HeldInv'
BY DEF HeldInv

(* Every step of a router keeps it: poll takes what nobody has in hand,    *)
(* and only the holder commits (runner.py:120-205).                        *)
LEMMA HeldStep ==
  ASSUME TypeOK, HeldInv, NEW r \in Router, Work(r) \/ Deliver(r) \/ Trouble(r)
  PROVE  HeldInv'
<1>. USE DEF TypeOK
<1>1. CASE Poll(r)
  <2>1. PICK m \in pending :
          /\ m.topic \in Serves[r]
          /\ \A q \in Router : ~At(q, "idle") => task[q].msg # m
          /\ task' = [task EXCEPT ![r] = [Idle EXCEPT !.at = "claim", !.msg = m]]
    BY <1>1 DEF Poll
  <2>2. /\ task'[r].msg = m
        /\ \A q \in Router : q # r => task'[q] = task[q]
    BY <2>1 DEF Idle
  <2>3. UNCHANGED pending
    BY <1>1 DEF Poll, kafka
  <2>4. QED
    BY <2>1, <2>2, <2>3 DEF HeldInv, Busy, At
<1>2. CASE Commit(r)
  <2>1. ~Busy(r)' /\ \A q \in Router : q # r => task'[q] = task[q]
    BY <1>2 DEF Commit, Idle, Busy
  <2>2. Busy(r) /\ pending' = pending \ {task[r].msg}
    BY <1>2 DEF Commit, At, Busy
  <2>3. ASSUME NEW q \in Router, Busy(q)'
        PROVE  q # r /\ task'[q] = task[q] /\ Busy(q) /\ task[q].msg \in pending'
    BY <2>1, <2>2, <2>3 DEF HeldInv, Busy
  <2>4. QED
    BY <2>3 DEF HeldInv
<1>3. CASE Crash(r)
  BY <1>3, HeldKept DEF Crash, Idle, Busy
<1>4. CASE Deliver(r)
  BY <1>4, HeldKept DEF Deliver, Busy
<1>5. CASE SendDlq(r)
  <2>1. Moves(r) /\ Busy(r)
    BY <1>5, GotoIsMove DEF SendDlq, Busy, At
  <2>2. QED
    BY <1>5, <2>1, HeldKept DEF SendDlq, Moves, Busy
<1>6. CASE Tells(r) \/ Inside(r)
  <2>1. GoesOn(r)
    BY <1>6 DEF Tells, Inside, Queues
  <2>2. QED
    BY <2>1, HeldKept DEF GoesOn, Moves, Busy
<1>7. QED
  BY <1>1, <1>2, <1>3, <1>4, <1>5, <1>6, RouterStep

(* However routers crash, fail and restart, an uncommitted record stays on *)
(* its topic and no two routers ever work on the same one.                 *)
LEMMA HeldCorrect == Spec => []HeldInv
<1>1. Init => HeldInv
  BY DEF Init, HeldInv, Busy, Idle
<1>2. TypeOK /\ HeldInv /\ [Next]_vars => HeldInv'
  <2>1. SUFFICES ASSUME TypeOK, HeldInv, [Next]_vars PROVE HeldInv'
    OBVIOUS
  <2>2. CASE Replay
    BY <2>1, <2>2, HeldKept DEF Replay, Busy
  <2>3. CASE UNCHANGED vars
    BY <2>1, <2>3, HeldKept DEF vars, kafka, Busy
  <2>4. QED
    BY <2>1, <2>2, <2>3, HeldStep DEF Next
<1>3. QED
  BY <1>1, <1>2, TypeCorrect, PTL DEF Spec

-----------------------------------------------------------------------------
(***************************************************************************)
(* The spots where records of a kind Good can be met: on a topic, unless a *)
(* router is past the steps Done with it, in firmware.dlq, or in a queue.  *)
(* A record is handed from spot to spot and nothing copies it: that is     *)
(* what makes every count below exact.                                     *)
(***************************************************************************)
Last == {"commit"}
Latter == {"countMatched", "emitMatched", "commit"}

Over(Done, m) == \E r \in Router : task[r].at \in Done /\ task[r].msg = m
OnTopic(Good, Done) == {<<"topic", m>> : m \in {x \in pending \cap Good : ~Over(Done, x)}}
InDlq(Good) == {<<"dlq", m>> : m \in dlq \cap Good}
Queued(Good) ==
  UNION {{<<"queue", r, o>> : o \in {x \in outbox[r] : x.msg \in Good}} : r \in Router}
Spots(Good, Done) == OnTopic(Good, Done) \cup InDlq(Good) \cup Queued(Good)

Single(S) == \A x, y \in S : x = y

(* T is what becomes of S when each of its members is handed on or lost.   *)
Passed(S, T) == \E h : \A y \in T : \E x \in S : y = h[x]

(* Handing on makes nothing out of nothing and no two out of one.          *)
LEMMA PassedKeeps ==
  ASSUME NEW S, NEW T, Passed(S, T)
  PROVE  (S = {} => T = {}) /\ (Single(S) => Single(T))
BY DEF Passed, Single

(* Losing members is a way of handing on.                                  *)
LEMMA LostPasses == ASSUME NEW S, NEW T, T \subseteq S PROVE Passed(S, T)
<1>1. \A y \in T : \E x \in S : y = [z \in S |-> z][x]
  OBVIOUS
<1>2. QED
  BY <1>1 DEF Passed

(* So is replacing one member by another.                                  *)
LEMMA MovePasses ==
  ASSUME NEW S, NEW T, NEW a \in S, NEW b, \A y \in T : y = b \/ (y \in S /\ y # a)
  PROVE  Passed(S, T)
<1>. DEFINE h == [z \in S |-> IF z = a THEN b ELSE z]
<1>1. \A y \in T : \E x \in S : y = h[x]
  OBVIOUS
<1>2. QED
  BY <1>1 DEF Passed

(* What a spot after a step was before it.                                 *)
LEMMA SpotsAfter ==
  ASSUME NEW Good, NEW Done, NEW y \in Spots(Good, Done)'
  PROVE  \/ \E m \in pending' \cap Good : y = <<"topic", m>> /\ ~Over(Done, m)'
         \/ \E m \in dlq' \cap Good : y = <<"dlq", m>>
         \/ \E q \in Router : \E o \in outbox'[q] : y = <<"queue", q, o>> /\ o.msg \in Good
BY DEF Spots, OnTopic, InDlq, Queued

(* A step that goes on with the record in hand adds at most what it queues,*)
(* and, once it is over with the record, takes that off the topic.         *)
LEMMA GoesOnSpots ==
  ASSUME TypeOK, NEW Good, NEW Done \in {Last, Latter}, NEW r \in Router, GoesOn(r),
         Fail(r) => task[r].at \notin Done
  PROVE  \A y \in Spots(Good, Done)' :
           \/ /\ y \in Spots(Good, Done)
              /\ task'[r].at \in Done => y # <<"topic", task[r].msg>>
           \/ \E q \in Router : \E o \in outbox'[q] \ outbox[q] :
                y = <<"queue", q, o>> /\ o.msg \in Good
<1>1. \A m : Over(Done, m) => Over(Done, m)'
  BY DEF Over, GoesOn, Moves, Last, Latter, At
<1>2. \A m : task'[r].at \in Done /\ m = task[r].msg => Over(Done, m)'
  BY DEF Over, GoesOn, Moves
<1>3. TAKE y \in Spots(Good, Done)'
<1>4. CASE \E m \in pending' \cap Good : y = <<"topic", m>> /\ ~Over(Done, m)'
  <2>1. PICK m \in pending \cap Good : y = <<"topic", m>> /\ ~Over(Done, m)'
    BY <1>4 DEF GoesOn
  <2>2. y \in Spots(Good, Done)
    BY <1>1, <2>1 DEF Spots, OnTopic
  <2>3. task'[r].at \in Done => y # <<"topic", task[r].msg>>
    BY <1>2, <2>1
  <2>4. QED
    BY <2>2, <2>3
<1>5. CASE \E m \in dlq' \cap Good : y = <<"dlq", m>>
  BY <1>5 DEF GoesOn, Spots, InDlq
<1>6. CASE \E q \in Router : \E o \in outbox'[q] : y = <<"queue", q, o>> /\ o.msg \in Good
  <2>0. PICK q \in Router : \E o \in outbox'[q] : y = <<"queue", q, o>> /\ o.msg \in Good
    BY <1>6
  <2>1. PICK o \in outbox'[q] : y = <<"queue", q, o>> /\ o.msg \in Good
    BY <2>0
  <2>2. CASE o \in outbox[q]
    BY <2>1, <2>2 DEF Spots, Queued
  <2>3. CASE o \notin outbox[q]
    BY <2>1, <2>3
  <2>4. QED
    BY <2>2, <2>3
<1>7. QED
  BY <1>4, <1>5, <1>6, SpotsAfter

(* A router that is not past Done with its record has it in an open spot.  *)
LEMMA HeldSpot ==
  ASSUME HeldInv, NEW Good, NEW Done \in {Last, Latter}, NEW r \in Router,
         Busy(r), task[r].at \notin Done, task[r].msg \in Good
  PROVE  <<"topic", task[r].msg>> \in Spots(Good, Done)
<1>1. ~Over(Done, task[r].msg)
  BY DEF Over, HeldInv, Busy, Last, Latter
<1>2. QED
  BY <1>1 DEF HeldInv, Spots, OnTopic

(* Steps that go on hand their record on, if they queue the next one for it*)
(* as they end.                                                            *)
LEMMA QueuesPasses ==
  ASSUME TypeOK, HeldInv, NEW Good, NEW Done \in {Last, Latter}, NEW r \in Router,
         NEW to, NEW m, Queues(r, to, m),
         Fail(r) => task[r].at \notin Done,
         m \in Good => task[r].msg \in Good /\ task[r].at \notin Done /\ task'[r].at = "commit"
  PROVE  Passed(Spots(Good, Done), Spots(Good, Done)')
<1>. DEFINE new == [to |-> to, msg |-> m]
<1>1. GoesOn(r) /\ \A q \in Router : \A o \in outbox'[q] \ outbox[q] : q = r /\ o = new
  BY DEF Queues, TypeOK
<1>2. \A y \in Spots(Good, Done)' :
         \/ y \in Spots(Good, Done) /\ (task'[r].at \in Done => y # <<"topic", task[r].msg>>)
         \/ y = <<"queue", r, new>> /\ new.msg \in Good
  BY <1>1, GoesOnSpots
<1>3. CASE m \in Good
  <2>1. <<"topic", task[r].msg>> \in Spots(Good, Done)
    BY <1>1, <1>3, HeldSpot DEF GoesOn, Busy
  <2>2. task'[r].at \in Done
    BY <1>3 DEF Last, Latter
  <2>3. QED
    BY <1>2, <2>1, <2>2, MovePasses
<1>4. CASE m \notin Good
  BY <1>2, <1>4, LostPasses
<1>5. QED
  BY <1>3, <1>4

(* Steps that queue nothing hand nothing on.                               *)
LEMMA InsidePasses ==
  ASSUME TypeOK, NEW Good, NEW Done \in {Last, Latter}, NEW r \in Router, Inside(r),
         Fail(r) => task[r].at \notin Done
  PROVE  Spots(Good, Done)' \subseteq Spots(Good, Done)
BY GoesOnSpots DEF Inside

(* poll, commit and the delivery of a queued record.                       *)
LEMMA LoopPasses ==
  ASSUME TypeOK, NEW Good, NEW Done \in {Last, Latter}, NEW r \in Router,
         Poll(r) \/ Commit(r) \/ Deliver(r)
  PROVE  Passed(Spots(Good, Done), Spots(Good, Done)')
<1>. USE DEF TypeOK
<1>1. CASE Poll(r) \/ Commit(r)
  <2>1. PICK t : task' = [task EXCEPT ![r] = t] /\ t.at \notin Done
    <3>1. CASE Poll(r)
      <4>1. PICK m \in pending :
              task' = [task EXCEPT ![r] = [Idle EXCEPT !.at = "claim", !.msg = m]]
        BY <3>1 DEF Poll
      <4>2. [Idle EXCEPT !.at = "claim", !.msg = m].at = "claim"
        BY DEF Idle
      <4>3. QED
        BY <4>1, <4>2 DEF Last, Latter
    <3>2. CASE Commit(r)
      <4>1. Idle.at = "idle"
        BY DEF Idle
      <4>2. QED
        BY <3>2, <4>1 DEF Commit, Last, Latter
    <3>3. QED
      BY <1>1, <3>1, <3>2
  <2>2. \A m \in pending' : m \in pending /\ (Over(Done, m) => Over(Done, m)')
    BY <1>1, <2>1 DEF Poll, Commit, At, Over, kafka, Last, Latter
  <2>3. UNCHANGED <<outbox, dlq>>
    BY <1>1 DEF Poll, Commit, kafka
  <2>4. Spots(Good, Done)' \subseteq Spots(Good, Done)
    BY <2>2, <2>3 DEF Spots, OnTopic, InDlq, Queued
  <2>5. QED
    BY <2>4, LostPasses
<1>2. CASE Deliver(r)
  <2>1. PICK o \in outbox[r] :
          /\ outbox' = [outbox EXCEPT ![r] = @ \ {o}]
          /\ \/ o.to = "topic" /\ pending' = pending \cup {o.msg} /\ UNCHANGED dlq
             \/ o.to = "dlq" /\ dlq' = dlq \cup {o.msg} /\ UNCHANGED pending
    BY <1>2 DEF Deliver
  <2>2. \A m : Over(Done, m) => Over(Done, m)'
    BY <1>2 DEF Deliver, Over
  <2>3. ASSUME NEW y \in Spots(Good, Done)'
        PROVE  \/ y = <<o.to, o.msg>> /\ o.msg \in Good
               \/ y \in Spots(Good, Done) /\ y # <<"queue", r, o>>
    <3>1. CASE \E m \in pending' \cap Good : y = <<"topic", m>> /\ ~Over(Done, m)'
      BY <2>1, <2>2, <3>1 DEF Spots, OnTopic
    <3>2. CASE \E m \in dlq' \cap Good : y = <<"dlq", m>>
      BY <2>1, <3>2 DEF Spots, InDlq
    <3>3. CASE \E q \in Router : \E p \in outbox'[q] : y = <<"queue", q, p>> /\ p.msg \in Good
      <4>1. PICK q \in Router : \E p \in outbox'[q] : y = <<"queue", q, p>> /\ p.msg \in Good
        BY <3>3
      <4>2. PICK p \in outbox'[q] : y = <<"queue", q, p>> /\ p.msg \in Good
        BY <4>1
      <4>3. p \in outbox[q] /\ ~(q = r /\ p = o)
        BY <2>1
      <4>4. QED
        BY <4>2, <4>3 DEF Spots, Queued
    <3>4. QED
      BY <3>1, <3>2, <3>3, SpotsAfter
  <2>4. CASE o.msg \in Good
    <3>1. <<"queue", r, o>> \in Spots(Good, Done)
      BY <2>4 DEF Spots, Queued
    <3>2. QED
      BY <2>3, <3>1, MovePasses
  <2>5. CASE o.msg \notin Good
    BY <2>3, <2>5, LostPasses
  <2>6. QED
    BY <2>4, <2>5
<1>3. QED
  BY <1>1, <1>2

(* The replay worker hands a record from firmware.dlq to its topic.        *)
LEMMA ReplayPasses ==
  ASSUME TypeOK, NEW Good, NEW Done \in {Last, Latter}, Replay,
         \A m \in Message : [m EXCEPT !.try = @ + 1] \in Good => m \in Good
  PROVE  Passed(Spots(Good, Done), Spots(Good, Done)')
<1>1. PICK m \in dlq :
        /\ dlq' = dlq \ {m}
        /\ pending' = pending \cup {[m EXCEPT !.try = @ + 1]}
  BY DEF Replay
<1>2. PICK again : again = [m EXCEPT !.try = @ + 1]
  OBVIOUS
<1>3. UNCHANGED <<outbox, task>>
  BY DEF Replay
<1>4. ASSUME NEW y \in Spots(Good, Done)'
      PROVE  \/ y = <<"topic", again>> /\ again \in Good
             \/ y \in Spots(Good, Done) /\ y # <<"dlq", m>>
  <2>1. CASE \E n \in pending' \cap Good : y = <<"topic", n>> /\ ~Over(Done, n)'
    BY <1>1, <1>2, <1>3, <2>1 DEF Spots, OnTopic, Over
  <2>2. CASE \E n \in dlq' \cap Good : y = <<"dlq", n>>
    BY <1>1, <2>2 DEF Spots, InDlq
  <2>3. CASE \E q \in Router : \E o \in outbox'[q] : y = <<"queue", q, o>> /\ o.msg \in Good
    BY <1>3, <2>3 DEF Spots, Queued
  <2>4. QED
    BY <2>1, <2>2, <2>3, SpotsAfter
<1>5. CASE again \in Good
  <2>1. <<"dlq", m>> \in Spots(Good, Done)
    BY <1>2, <1>5 DEF Spots, InDlq, TypeOK
  <2>2. QED
    BY <1>4, <2>1, MovePasses
<1>6. CASE again \notin Good
  BY <1>4, <1>6, LostPasses
<1>7. QED
  BY <1>5, <1>6

(* The except branch hands the record in hand to firmware.dlq, and the     *)
(* flush hands on what the producer has queued.                            *)
LEMMA SendDlqPasses ==
  ASSUME TypeOK, HeldInv, NEW Good, NEW Done \in {Last, Latter}, NEW r \in Router, SendDlq(r)
  PROVE  Passed(Spots(Good, Done), Spots(Good, Done)')
<1>. DEFINE m == task[r].msg
            S == Spots(Good, Done)
            own == {<<"queue", r, o>> : o \in outbox[r]}
            h == [x \in S |-> IF x = <<"topic", m>> THEN <<"dlq", m>>
                              ELSE IF x \in own THEN <<x[3].to, x[3].msg>> ELSE x]
<1>1. /\ dlq' = dlq \cup Delivered(r, "dlq") \cup {m}
      /\ pending' = pending \cup Delivered(r, "topic")
      /\ outbox' = [outbox EXCEPT ![r] = {}]
  BY DEF SendDlq
<1>2. Moves(r) /\ task'[r].at = "commit" /\ At(r, "dlq")
  BY GotoIsMove DEF SendDlq
<1>3. \A n : Over(Done, n) => Over(Done, n)'
  BY <1>2 DEF Over, Moves, Last, Latter, At
<1>4. \A n : n = m => Over(Done, n)'
  BY <1>2 DEF Over, Moves, Last, Latter
<1>5. ASSUME NEW o \in outbox[r], o.msg \in Good
      PROVE  /\ <<"queue", r, o>> \in S
             /\ h[<<"queue", r, o>>] = <<o.to, o.msg>>
  <2>1. <<"queue", r, o>> \in S
    BY <1>5 DEF Spots, Queued
  <2>2. <<"queue", r, o>> \in own /\ <<"queue", r, o>> # <<"topic", m>>
    OBVIOUS
  <2>3. <<"queue", r, o>>[3] = o
    OBVIOUS
  <2>4. QED
    BY <2>1, <2>2, <2>3
<1>6. ASSUME NEW x \in S, x # <<"topic", m>>, x \notin own PROVE h[x] = x
  BY <1>6
<1>7. ASSUME NEW y \in Spots(Good, Done)' PROVE \E x \in S : y = h[x]
  <2>1. ASSUME NEW n \in pending' \cap Good, y = <<"topic", n>>, ~Over(Done, n)'
        PROVE  \E x \in S : y = h[x]
    <3>1. CASE n \in pending
      <4>1. <<"topic", n>> \in S /\ n # m
        BY <1>3, <1>4, <2>1, <3>1 DEF Spots, OnTopic
      <4>2. <<"topic", n>> # <<"topic", m>> /\ <<"topic", n>> \notin own
        BY <4>1
      <4>3. QED
        BY <1>6, <2>1, <4>1, <4>2
    <3>2. CASE n \in Delivered(r, "topic")
      <4>1. PICK o \in outbox[r] : o.to = "topic" /\ o.msg = n
        BY <3>2 DEF Delivered
      <4>2. QED
        BY <1>5, <2>1, <4>1
    <3>3. QED
      BY <1>1, <3>1, <3>2
  <2>2. ASSUME NEW n \in dlq' \cap Good, y = <<"dlq", n>>
        PROVE  \E x \in S : y = h[x]
    <3>1. CASE n \in dlq
      <4>1. <<"dlq", n>> \in S
        BY <2>2, <3>1 DEF Spots, InDlq
      <4>2. <<"dlq", n>> # <<"topic", m>> /\ <<"dlq", n>> \notin own
        OBVIOUS
      <4>3. QED
        BY <1>6, <2>2, <4>1, <4>2
    <3>2. CASE n \in Delivered(r, "dlq")
      <4>1. PICK o \in outbox[r] : o.to = "dlq" /\ o.msg = n
        BY <3>2 DEF Delivered
      <4>2. QED
        BY <1>5, <2>2, <4>1
    <3>3. CASE n = m
      <4>1. <<"topic", m>> \in S
        BY <1>2, <2>2, <3>3, HeldSpot DEF Busy, At, Last, Latter
      <4>2. h[<<"topic", m>>] = <<"dlq", m>>
        BY <4>1
      <4>3. QED
        BY <2>2, <3>3, <4>1, <4>2
    <3>4. QED
      BY <1>1, <3>1, <3>2, <3>3
  <2>3. ASSUME NEW q \in Router, NEW o \in outbox'[q], y = <<"queue", q, o>>, o.msg \in Good
        PROVE  \E x \in S : y = h[x]
    <3>1. q # r /\ o \in outbox[q]
      BY <1>1 DEF TypeOK
    <3>2. <<"queue", q, o>> \in S
      BY <2>3, <3>1 DEF Spots, Queued
    <3>3. <<"queue", q, o>> # <<"topic", m>> /\ <<"queue", q, o>> \notin own
      BY <3>1
    <3>4. QED
      BY <1>6, <2>3, <3>2, <3>3
  <2>4. QED
    BY <2>1, <2>2, <2>3, SpotsAfter
<1>8. QED
  BY <1>7 DEF Passed

(* No step of a router but those that tell of something new does anything  *)
(* with records of a kind but hand them on, as long as nothing crashes.    *)
LEMMA StepPasses ==
  ASSUME TypeOK, HeldInv, NEW Good, NEW Done \in {Last, Latter}, NEW r \in Router,
         Work(r) \/ Deliver(r) \/ Trouble(r),
         ~Crash(r), Fail(r) => task[r].at \notin Done,
         EmitTriaged(r) => JobMsg("triaged") \notin Good,
         EmitExtracted(r) => Msg("extracted", task[r].blob) \notin Good,
         EmitMatched(r) => Msg("matched", task[r].msg.blob) \notin Good,
         EmitCompleted(r) => JobMsg("completed") \notin Good,
         EmitAnalyzed(r) /\ Msg("analyzed", task[r].msg.blob) \in Good => task[r].msg \in Good
  PROVE  Passed(Spots(Good, Done), Spots(Good, Done)')
<1>1. CASE Inside(r)
  BY <1>1, InsidePasses, LostPasses
<1>2. CASE Tells(r)
  <2>1. CASE (EmitReject(r) \/ SendDlqFails(r)) /\ Queues(r, "dlq", task[r].msg) /\ task'[r].at = "commit"
    <3>1. task[r].at \notin Done
      BY <2>1 DEF EmitReject, SendDlqFails, At, Last, Latter
    <3>2. QED
      BY <2>1, <3>1, QueuesPasses
  <2>2. CASE EmitTriaged(r) /\ Queues(r, "topic", JobMsg("triaged"))
    BY <2>2, QueuesPasses
  <2>3. CASE EmitExtracted(r) /\ Queues(r, "topic", Msg("extracted", task[r].blob))
    BY <2>3, QueuesPasses
  <2>4. CASE EmitAnalyzed(r) /\ Queues(r, "topic", Msg("analyzed", task[r].msg.blob)) /\ task'[r].at = "commit"
    <3>1. task[r].at \notin Done
      BY <2>4 DEF EmitAnalyzed, At, Last, Latter
    <3>2. QED
      BY <2>4, <3>1, QueuesPasses
  <2>5. CASE EmitMatched(r) /\ Queues(r, "topic", Msg("matched", task[r].msg.blob))
    BY <2>5, QueuesPasses
  <2>6. CASE EmitCompleted(r) /\ Queues(r, "topic", JobMsg("completed"))
    BY <2>6, QueuesPasses
  <2>7. QED
    BY <1>2, <2>1, <2>2, <2>3, <2>4, <2>5, <2>6 DEF Tells
<1>3. QED
  BY <1>1, <1>2, RouterStep, LoopPasses, SendDlqPasses

(* Which steps bring a router to where.                                    *)
LEMMA Arrivals ==
  ASSUME TypeOK, NEW r \in Router, Work(r) \/ Deliver(r) \/ Trouble(r)
  PROVE  /\ \A q \in Router : q # r => task'[q] = task[q]
         /\ \/ task' = task
            \/ /\ task'[r].at = "emitTriaged" => Triage(r)
               /\ task'[r].at = "countTotal" => PutChild(r)
               /\ task'[r].at = "emitExtracted" => CountTotal(r)
               /\ task'[r].at = "countMatched" => PutFragment(r)
               /\ task'[r].at = "readMarker" => ReadTotal(r)
               /\ task'[r].at = "readMatched" => ReadMarker(r)
               /\ task'[r].at = "readPartial" => ReadMatched(r)
               /\ task'[r].at = "listFragments" => ReadPartial(r)
               /\ task'[r].at = "finalize" => ListFragments(r)
<1>. USE DEF TypeOK
<1>. DEFINE Told == {"emitTriaged", "countTotal", "emitExtracted", "countMatched", "readMarker",
                     "readMatched", "readPartial", "listFragments", "finalize"}
<1>1. \A q \in Router : q # r => task'[q] = task[q]
  BY WhoTells
<1>2. CASE Deliver(r)
  BY <1>1, <1>2 DEF Deliver
<1>3. CASE Poll(r) \/ Commit(r) \/ Crash(r)
  <2>1. task'[r].at \in {"idle", "claim"}
    <3>1. [Idle EXCEPT !.at = "claim"].at = "claim" /\ Idle.at = "idle"
      BY DEF Idle
    <3>2. CASE Poll(r)
      <4>1. PICK m \in pending :
              task' = [task EXCEPT ![r] = [Idle EXCEPT !.at = "claim", !.msg = m]]
        BY <3>2 DEF Poll
      <4>2. [Idle EXCEPT !.at = "claim", !.msg = m].at = "claim"
        BY DEF Idle
      <4>3. QED
        BY <4>1, <4>2
    <3>3. QED
      BY <1>3, <3>1, <3>2 DEF Commit, Crash
  <2>2. QED
    BY <1>1, <2>1
<1>4. CASE PutChild(r) \/ EmitExtracted(r) \/ ReadTotal(r) \/ ReadPartial(r) \/ ListFragments(r)
  <2>1. task[r] \in Task
    OBVIOUS
  <2>2. CASE PutChild(r)
    <3>1. task'[r].at = "countTotal"
      BY <2>1, <2>2 DEF PutChild, Task
    <3>2. QED
      BY <1>1, <2>2, <3>1
  <2>3. CASE EmitExtracted(r)
    <3>1. task'[r].at = "unpack"
      BY <2>1, <2>3 DEF EmitExtracted, Task
    <3>2. QED
      BY <1>1, <3>1
  <2>4. CASE ReadTotal(r)
    <3>1. task'[r].at \in {"commit", "readMarker"}
      BY <2>1, <2>4 DEF ReadTotal, Task
    <3>2. QED
      BY <1>1, <2>4, <3>1
  <2>5. CASE ReadPartial(r)
    <3>1. task'[r].at = "listFragments"
      BY <2>1, <2>5 DEF ReadPartial, Task
    <3>2. QED
      BY <1>1, <2>5, <3>1
  <2>6. CASE ListFragments(r)
    <3>1. task'[r].at = "finalize"
      BY <2>1, <2>6 DEF ListFragments, Task
    <3>2. QED
      BY <1>1, <2>6, <3>1
  <2>7. QED
    BY <1>4, <2>2, <2>3, <2>4, <2>5, <2>6
<1>5. CASE ClaimMessage(r)
  <2>1. PICK s : Goto(r, s) /\ s \notin Told
    BY <1>5, TaskMessage DEF ClaimMessage, FirstStep, Routed
  <2>2. QED
    BY <1>1, <2>1, GotoIsMove
<1>6. CASE \/ Triage(r) \/ CountTotal(r) \/ PutFragment(r) \/ ReadMarker(r) \/ ReadMatched(r)
  <2>1. PICK s : /\ Goto(r, s)
                 /\ \/ s \notin Told
                    \/ s = "emitTriaged" /\ Triage(r)
                    \/ s = "emitExtracted" /\ CountTotal(r)
                    \/ s = "countMatched" /\ PutFragment(r)
                    \/ s = "readMatched" /\ ReadMarker(r)
                    \/ s = "readPartial" /\ ReadMatched(r)
    BY <1>6 DEF Triage, CountTotal, PutFragment, ReadMarker, ReadMatched
  <2>2. task'[r].at = s
    BY <2>1, GotoIsMove
  <2>3. QED
    BY <1>1, <2>1, <2>2
<1>7. CASE \/ SendDlq(r) \/ Fail(r) \/ SendDlqFails(r) \/ TripDefence(r) \/ LateRaise(r)
           \/ EmitTriaged(r) \/ EmitReject(r) \/ SetMarker(r)
           \/ Analyze(r) \/ CountCompleted(r) \/ EmitAnalyzed(r)
           \/ CountMatched(r) \/ EmitMatched(r) \/ RecordSubBlob(r) \/ Finalize(r)
           \/ PutSbom(r) \/ PutReport(r) \/ MarkJob(r) \/ EmitCompleted(r)
  <2>1. PICK s : Goto(r, s) /\ s \notin Told
    BY <1>7 DEF SendDlq, Fail, SendDlqFails, TripDefence, LateRaise, EmitTriaged, EmitReject, SetMarker,
                Analyze, CountCompleted, EmitAnalyzed, CountMatched, EmitMatched,
                RecordSubBlob, Finalize, FinalizeOutcome, PutSbom, PutReport, MarkJob,
                EmitCompleted
  <2>2. QED
    BY <1>1, <2>1, GotoIsMove
<1>8. QED
  BY <1>2, <1>3, <1>4, <1>5, <1>6, <1>7
     DEF Work, Loop, HandleTriage, HandleUnpack, HandleAnalysis, HandleCveMatch, Gate,
         FinalizeJob, Trouble

(* Which steps change what.                                                *)
LEMMA Effects ==
  ASSUME TypeOK, NEW r \in Router, Work(r) \/ Deliver(r) \/ Trouble(r)
  PROVE  /\ seen' = seen \/ Triage(r)
         /\ marker' = marker \/ SetMarker(r) \/ LateRaise(r)
         /\ matched' = matched \/ CountMatched(r)
         /\ \/ objects' = objects \/ PutChild(r) \/ PutFragment(r)
            \/ PutSbom(r) \/ PutReport(r) \/ LateRaise(r)
         /\ report' = report \/ RecordSubBlob(r) \/ Finalize(r)
         /\ announced' = announced \/ EmitCompleted(r)
<1>. USE DEF Work, Loop, HandleTriage, HandleUnpack, HandleAnalysis, HandleCveMatch, Gate,
         FinalizeJob, Trouble, Poll, ClaimMessage, SendDlq, Commit, Deliver, Fail,
         SendDlqFails, TripDefence, LateRaise, Crash, EmitTriaged, EmitReject, CountTotal,
         EmitExtracted, Analyze, CountCompleted, EmitAnalyzed, EmitMatched, ReadTotal,
         ReadMarker, ReadMatched, ReadPartial, ListFragments, MarkJob, redis, stores
<1>1. seen' = seen \/ Triage(r)
  BY DEF PutChild, SetMarker, PutFragment, CountMatched, RecordSubBlob, Finalize, PutSbom,
         PutReport, EmitCompleted
<1>2. marker' = marker \/ SetMarker(r) \/ LateRaise(r)
  BY DEF Triage, PutChild, PutFragment, CountMatched, RecordSubBlob, Finalize, PutSbom,
         PutReport, EmitCompleted
<1>3. matched' = matched \/ CountMatched(r)
  BY DEF Triage, PutChild, SetMarker, PutFragment, RecordSubBlob, Finalize, PutSbom,
         PutReport, EmitCompleted
<1>4. \/ objects' = objects \/ PutChild(r) \/ PutFragment(r)
      \/ PutSbom(r) \/ PutReport(r) \/ LateRaise(r)
  BY DEF Triage, SetMarker, CountMatched, RecordSubBlob, Finalize, EmitCompleted
<1>5. report' = report \/ RecordSubBlob(r) \/ Finalize(r)
  BY DEF Triage, PutChild, SetMarker, PutFragment, CountMatched, PutSbom, PutReport,
         EmitCompleted
<1>6. announced' = announced \/ EmitCompleted(r)
  BY DEF Triage, PutChild, SetMarker, PutFragment, CountMatched, RecordSubBlob, Finalize,
         PutSbom, PutReport
<1>7. QED
  BY <1>1, <1>2, <1>3, <1>4, <1>5, <1>6

(* No step forgets a failing call or a crash, and those that fail or crash *)
(* count it.                                                               *)
Calm == faults = 0 /\ crashes = 0

LEMMA Budget ==
  ASSUME TypeOK, [Next]_vars
  PROVE  /\ crashes' = 0 => crashes = 0 /\ \A r \in Router : ~Crash(r)
         /\ Calm' => Calm /\ \A r \in Router : ~Crash(r) /\ ~Fail(r) /\ ~TripDefence(r) /\ ~LateRaise(r)
<1>. USE DEF Calm, TypeOK
<1>1. crashes' \in {crashes, crashes + 1} /\ faults' \in {faults, faults + 1}
  <2>1. CASE UNCHANGED vars
    BY <2>1 DEF vars, budget
  <2>2. CASE Replay
    BY <2>2 DEF Replay, budget
  <2>3. ASSUME NEW r \in Router, Work(r) \/ Deliver(r) \/ Trouble(r)
        PROVE  crashes' \in {crashes, crashes + 1} /\ faults' \in {faults, faults + 1}
    BY <2>3 DEF Work, Loop, HandleTriage, HandleUnpack, HandleAnalysis, HandleCveMatch, Gate,
         FinalizeJob, Trouble, Poll, ClaimMessage, SendDlq, Commit, Deliver, Fail,
         SendDlqFails, TripDefence, LateRaise, Crash, Triage, EmitTriaged, EmitReject, PutChild,
         CountTotal, EmitExtracted, SetMarker, Analyze, CountCompleted, EmitAnalyzed,
         PutFragment, CountMatched, EmitMatched, RecordSubBlob, ReadTotal, ReadMarker,
         ReadMatched, ReadPartial, ListFragments, Finalize, PutSbom, PutReport,
         MarkJob, EmitCompleted, budget
  <2>4. QED
    BY <2>1, <2>2, <2>3 DEF Next
<1>2. /\ \A r \in Router : Crash(r) => crashes' = crashes + 1
      /\ \A r \in Router : Fail(r) \/ TripDefence(r) \/ LateRaise(r) => faults' = faults + 1
  BY DEF Crash, Fail, TripDefence, LateRaise
<1>3. QED
  BY <1>1, <1>2

-----------------------------------------------------------------------------
(***************************************************************************)
(* The firmware is unpacked once.  A record of firmware.triaged is in one  *)
(* spot at most, and there is none before triage has accepted the image or *)
(* after unpack has marked it complete.                                    *)
(***************************************************************************)
TriagedRecord == {m \in Message : m.topic = "triaged"}
Accepted == Spots(TriagedRecord, Last)
Telling == {r \in Router : At(r, "emitTriaged")}

MarkerInv ==
  /\ Single(Accepted) /\ Single(Telling)
  /\ Accepted = {} \/ Telling = {}
  /\ Accepted # {} \/ Telling # {} => seen /\ ~marker
  /\ marker => seen

(* The router at work on a record of firmware.triaged is at its one spot.  *)
LEMMA UnpackSpot ==
  ASSUME TypeOK, HeldInv, MarkerInv, NEW r \in Router,
         At(r, "unpack") \/ At(r, "countTotal") \/ At(r, "emitExtracted")
  PROVE  /\ <<"topic", task[r].msg>> \in Accepted
         /\ Telling = {} /\ seen /\ ~marker
<1>1. task[r].msg \in TriagedRecord
  BY Dispatch, TaskMessage DEF TriagedRecord
<1>2. Busy(r) /\ task[r].at \notin Last
  BY DEF At, Busy, Last
<1>3. QED
  BY <1>1, <1>2, HeldSpot DEF Accepted, MarkerInv

(* While nothing fails or crashes, every step of a router keeps it.        *)
LEMMA MarkerStep ==
  ASSUME TypeOK, HeldInv, MarkerInv, NEW r \in Router,
         Work(r) \/ Deliver(r) \/ Trouble(r), ~Crash(r), ~LateRaise(r)
  PROVE  MarkerInv'
<1>. USE DEF TypeOK
<1>0. Fail(r) => task[r].at \notin Last
  BY DEF Fail, Last
<1>1. ~EmitTriaged(r) => Passed(Accepted, Accepted')
  <2>2. /\ Msg("extracted", task[r].blob) \notin TriagedRecord
        /\ Msg("matched", task[r].msg.blob) \notin TriagedRecord
        /\ Msg("analyzed", task[r].msg.blob) \notin TriagedRecord
        /\ JobMsg("completed") \notin TriagedRecord
    BY DEF TriagedRecord, JobMsg, Msg
  <2>3. QED
    BY <1>0, <2>2, StepPasses DEF Accepted
<1>2. seen => seen'
  BY Effects DEF Triage
<1>3. CASE Triage(r)
  <2>1. ~EmitTriaged(r) /\ marker' = marker /\ (~suspicious => seen')
    BY <1>3 DEF Triage, EmitTriaged, At
  <2>2. PICK s \in {"emitTriaged", "reject"} :
          Goto(r, s) /\ (s = "emitTriaged" => ~seen /\ seen')
    BY <1>3 DEF Triage
  <2>3. task'[r].at = s /\ \A q \in Router : q # r => task'[q] = task[q]
    BY <2>2, GotoIsMove DEF Moves
  <2>4. CASE s = "emitTriaged"
    <3>1. Accepted = {} /\ Telling = {} /\ ~marker /\ seen'
      BY <2>2, <2>4 DEF MarkerInv
    <3>2. Accepted' = {}
      BY <1>1, <2>1, <3>1, PassedKeeps
    <3>3. Telling' \subseteq {r}
      BY <2>3, <3>1 DEF Telling, At
    <3>4. QED
      BY <2>1, <3>1, <3>2, <3>3 DEF MarkerInv, Single
  <2>5. CASE s = "reject"
    <3>1. Telling' \subseteq Telling
      BY <2>3, <2>5 DEF Telling, At
    <3>2. QED
      BY <1>1, <1>2, <2>1, <3>1, PassedKeeps DEF MarkerInv, Single
  <2>6. QED
    BY <2>4, <2>5
<1>4. CASE EmitTriaged(r)
  <2>1. r \in Telling /\ Accepted = {} /\ seen /\ ~marker
    BY <1>4 DEF EmitTriaged, Telling, MarkerInv
  <2>2. task'[r].at = "commit" /\ \A q \in Router : q # r => task'[q] = task[q]
    BY <1>4, GotoIsMove DEF EmitTriaged, Moves
  <2>3. Telling' = {}
    BY <2>1, <2>2 DEF Telling, MarkerInv, Single, At
  <2>4. Queues(r, "topic", JobMsg("triaged"))
    BY <1>4, TellingSteps DEF Tells, EmitReject, EmitTriaged, EmitExtracted, EmitAnalyzed,
       EmitMatched, EmitCompleted, SendDlqFails, At
  <2>5. \A q \in Router : \A o \in outbox'[q] \ outbox[q] :
          q = r /\ o = [to |-> "topic", msg |-> JobMsg("triaged")]
    BY <2>4 DEF Queues
  <2>7. \A y \in Accepted' : y = <<"queue", r, [to |-> "topic", msg |-> JobMsg("triaged")]>>
    BY <1>0, <2>1, <2>4, <2>5, GoesOnSpots DEF Accepted, Queues
  <2>8. UNCHANGED <<seen, marker>>
    BY <1>4 DEF EmitTriaged, redis
  <2>9. QED
    BY <2>1, <2>3, <2>7, <2>8 DEF MarkerInv, Single
<1>5. CASE SetMarker(r)
  <2>1. <<"topic", task[r].msg>> \in Accepted /\ Telling = {} /\ seen
    BY <1>5, UnpackSpot DEF SetMarker
  <2>2. Inside(r) /\ task'[r].at = "commit"
    BY <1>5, InsideSteps, GotoIsMove DEF SetMarker
  <2>3. Accepted' \subseteq Accepted \ {<<"topic", task[r].msg>>}
    BY <1>0, <2>2, GoesOnSpots DEF Accepted, Inside, Last
  <2>4. Accepted' = {}
    BY <2>1, <2>3 DEF MarkerInv, Single
  <2>5. Telling' = {}
    BY <1>5, <2>1, Arrivals DEF Telling, At, SetMarker, Triage
  <2>6. seen' = seen
    BY <1>5 DEF SetMarker
  <2>7. QED
    BY <2>1, <2>4, <2>5, <2>6 DEF MarkerInv, Single
<1>6. CASE ~Triage(r) /\ ~EmitTriaged(r) /\ ~SetMarker(r)
  <2>1. Telling' \subseteq Telling
    BY <1>6, Arrivals DEF Telling, At
  <2>2. UNCHANGED <<seen, marker>>
    BY <1>6, Effects
  <2>3. QED
    BY <1>1, <1>6, <2>1, <2>2, PassedKeeps DEF MarkerInv, Single
<1>7. QED
  BY <1>3, <1>4, <1>5, <1>6

(* The replay of a dead letter keeps it.                                   *)
LEMMA MarkerReplay ==
  ASSUME TypeOK, MarkerInv, Replay
  PROVE  MarkerInv'
<1>1. \A m \in Message : [m EXCEPT !.try = @ + 1] \in TriagedRecord => m \in TriagedRecord
  BY DEF TriagedRecord, Message
<1>2. Passed(Accepted, Accepted')
  BY <1>1, ReplayPasses DEF Accepted
<1>3. UNCHANGED <<task, seen, marker>>
  BY DEF Replay, redis
<1>4. Telling' = Telling
  BY <1>3 DEF Telling, At
<1>5. QED
  BY <1>2, <1>3, <1>4, PassedKeeps DEF MarkerInv

(* Before the first failing call or crash: triage accepts the image once,  *)
(* one record tells of it, and none is left when extraction_complete is set*)
(* (triage.py, unpack.py:33-60).                                           *)
LEMMA AcceptedOnce == Spec => [](Calm => MarkerInv)
<1>. DEFINE Inv == Calm => MarkerInv
<1>1. Init => Inv
  <2>1. SUFFICES ASSUME Init PROVE MarkerInv
    OBVIOUS
  <2>2. Accepted = {}
    BY <2>1 DEF Init, Accepted, Spots, OnTopic, InDlq, Queued, TriagedRecord, JobMsg, Msg
  <2>3. Telling = {}
    BY <2>1 DEF Init, Telling, At, Idle
  <2>4. QED
    BY <2>1, <2>2, <2>3 DEF Init, MarkerInv, Single
<1>2. TypeOK /\ HeldInv /\ Inv /\ [Next]_vars => Inv'
  <2>1. SUFFICES ASSUME TypeOK, HeldInv, Inv, [Next]_vars, Calm' PROVE MarkerInv'
    OBVIOUS
  <2>2. MarkerInv /\ \A r \in Router : ~Crash(r) /\ ~LateRaise(r)
    BY <2>1, Budget
  <2>3. CASE UNCHANGED vars
    BY <2>2, <2>3 DEF vars, kafka, redis, MarkerInv, Accepted, Spots, OnTopic, InDlq, Queued,
       Over, Telling, At
  <2>4. QED
    BY <2>1, <2>2, <2>3, MarkerStep, MarkerReplay DEF Next
<1>3. QED
  BY <1>1, <1>2, TypeCorrect, HeldCorrect, PTL DEF Spec

-----------------------------------------------------------------------------
(***************************************************************************)
(* total_children is final.  While no call has failed, the one record of   *)
(* firmware.triaged is never dead-lettered, so there is one claim for it;  *)
(* a death after the claim leaves the record on the topic, and whoever     *)
(* polls it next goes straight to the commit.                              *)
(***************************************************************************)
UnpackKey == ClaimKey(JobMsg("triaged"))
Unpacking(r) == At(r, "unpack") \/ At(r, "countTotal") \/ At(r, "emitExtracted")

(* Every dead letter, produced, queued or about to be, is in the set Good. *)
Letters(Good) ==
  /\ dlq \subseteq Good
  /\ \A r \in Router :
       /\ \A o \in outbox[r] : o.to = "dlq" => o.msg \in Good
       /\ At(r, "dlq") \/ At(r, "reject") => task[r].msg \in Good

Untried == {m \in Message : m.topic = "triaged" => m.try = 0}
Elsewhere == {m \in Message : m.topic # "triaged"}

OneUnpacks ==
  /\ \A q, r \in Router : Unpacking(q) /\ Unpacking(r) => q = r
  /\ \A r \in Router : Unpacking(r) => ~marker

OnceInv ==
  /\ OneUnpacks
  /\ marker \/ (\E r \in Router : Unpacking(r)) => UnpackKey \in claims
  /\ Within(Untried)
  /\ Letters(Elsewhere)

(* Which steps bring a router to a dead letter, to unpack or to its match, *)
(* and which one claims.                                                   *)
LEMMA ArrivalsToo ==
  ASSUME TypeOK, NEW r \in Router, Work(r) \/ Deliver(r) \/ Trouble(r)
  PROVE  /\ claims' = claims \/ ClaimMessage(r)
         /\ \/ task' = task
            \/ /\ task'[r].at \in {"dlq", "reject"} =>
                    \/ Triage(r) \/ Analyze(r) \/ Finalize(r)
                    \/ Fail(r) \/ TripDefence(r) \/ LateRaise(r)
               /\ task'[r].at = "unpack" => ClaimMessage(r) \/ EmitExtracted(r)
               /\ task'[r].at = "putFragment" => ClaimMessage(r)
<1>. USE DEF TypeOK
<1>. DEFINE Told == {"dlq", "reject", "unpack", "putFragment"}
<1>1. claims' = claims \/ ClaimMessage(r)
  BY DEF Work, Loop, HandleTriage, HandleUnpack, HandleAnalysis, HandleCveMatch, Gate,
         FinalizeJob, Trouble, Poll, SendDlq, Commit, Deliver, Fail, SendDlqFails,
         TripDefence, LateRaise, Crash, Triage, EmitTriaged, EmitReject, PutChild,
         CountTotal, EmitExtracted, SetMarker, Analyze, CountCompleted, EmitAnalyzed,
         PutFragment, CountMatched, EmitMatched, RecordSubBlob, ReadTotal, ReadMarker,
         ReadMatched, ReadPartial, ListFragments, Finalize, PutSbom, PutReport,
         MarkJob, EmitCompleted, redis
<1>2. CASE Deliver(r)
  BY <1>1, <1>2 DEF Deliver
<1>3. CASE Poll(r) \/ Commit(r) \/ Crash(r)
  <2>1. PICK t : task' = [task EXCEPT ![r] = t] /\ t.at \in {"idle", "claim"}
    <3>1. CASE Poll(r)
      <4>1. PICK m \in pending :
              task' = [task EXCEPT ![r] = [Idle EXCEPT !.at = "claim", !.msg = m]]
        BY <3>1 DEF Poll
      <4>2. [Idle EXCEPT !.at = "claim", !.msg = m].at = "claim"
        BY DEF Idle
      <4>3. QED
        BY <4>1, <4>2
    <3>2. CASE Commit(r) \/ Crash(r)
      BY <3>2 DEF Commit, Crash, Idle
    <3>3. QED
      BY <1>3, <3>1, <3>2
  <2>2. QED
    BY <1>1, <2>1
<1>4. CASE PutChild(r) \/ ReadTotal(r) \/ ReadPartial(r) \/ ListFragments(r)
  <2>1. task[r] \in Task
    OBVIOUS
  <2>2. task'[r].at \notin Told
    <3>1. CASE PutChild(r)
      BY <2>1, <3>1 DEF PutChild, Task
    <3>2. CASE ReadTotal(r)
      BY <2>1, <3>2 DEF ReadTotal, Task
    <3>3. CASE ReadPartial(r)
      BY <2>1, <3>3 DEF ReadPartial, Task
    <3>4. CASE ListFragments(r)
      BY <2>1, <3>4 DEF ListFragments, Task
    <3>5. QED
      BY <1>4, <3>1, <3>2, <3>3, <3>4
  <2>3. QED
    BY <1>1, <2>2
<1>5. CASE EmitExtracted(r)
  <2>1. task'[r].at = "unpack"
    BY <1>5 DEF EmitExtracted, Task
  <2>2. QED
    BY <1>1, <1>5, <2>1
<1>6. CASE ClaimMessage(r)
  <2>1. PICK s : Goto(r, s) /\ s \notin {"dlq", "reject"}
    BY <1>6, TaskMessage DEF ClaimMessage, FirstStep, Routed
  <2>2. QED
    BY <1>1, <1>6, <2>1, GotoIsMove
<1>7. CASE \/ Triage(r) \/ Analyze(r) \/ Finalize(r)
           \/ Fail(r) \/ TripDefence(r) \/ LateRaise(r)
  <2>1. PICK s : Goto(r, s) /\ s \notin {"unpack", "putFragment"}
    BY <1>7 DEF Triage, Analyze, Finalize, FinalizeOutcome, Fail, TripDefence, LateRaise
  <2>2. QED
    BY <1>1, <1>7, <2>1, GotoIsMove
<1>8. CASE \/ SendDlq(r) \/ SendDlqFails(r) \/ EmitTriaged(r) \/ EmitReject(r)
           \/ CountTotal(r) \/ SetMarker(r) \/ CountCompleted(r) \/ EmitAnalyzed(r)
           \/ PutFragment(r) \/ CountMatched(r) \/ EmitMatched(r) \/ RecordSubBlob(r)
           \/ ReadMarker(r) \/ ReadMatched(r) \/ PutSbom(r) \/ PutReport(r)
           \/ MarkJob(r) \/ EmitCompleted(r)
  <2>1. PICK s : Goto(r, s) /\ s \notin Told
    BY <1>8 DEF SendDlq, SendDlqFails, EmitTriaged, EmitReject, CountTotal, SetMarker,
                CountCompleted, EmitAnalyzed, PutFragment, CountMatched, EmitMatched,
                RecordSubBlob, ReadMarker, ReadMatched, PutSbom, PutReport, MarkJob,
                EmitCompleted
  <2>2. QED
    BY <1>1, <2>1, GotoIsMove
<1>9. QED
  BY <1>2, <1>3, <1>4, <1>5, <1>6, <1>7, <1>8
     DEF Work, Loop, HandleTriage, HandleUnpack, HandleAnalysis, HandleCveMatch, Gate,
         FinalizeJob, Trouble

(* The dead letters are those of the records that triage rejects, analysis *)
(* or the store refuse, or over which a call fails.                        *)
LEMMA LettersStep ==
  ASSUME TypeOK, NEW Good, Letters(Good), NEW r \in Router,
         Work(r) \/ Deliver(r) \/ Trouble(r),
         (\/ Triage(r) \/ Analyze(r) \/ Finalize(r)
          \/ Fail(r) \/ TripDefence(r) \/ LateRaise(r)) => task[r].msg \in Good
  PROVE  Letters(Good)'
<1>1. /\ dlq' \subseteq Good
      /\ \A q \in Router : \A o \in outbox'[q] : o.to = "dlq" => o.msg \in Good
  <2>1. CASE Poll(r) \/ Commit(r) \/ Crash(r) \/ Inside(r)
    BY <2>1 DEF Letters, Poll, Commit, Crash, Inside, GoesOn, kafka, TypeOK
  <2>2. CASE Deliver(r)
    BY <2>2 DEF Letters, Deliver, TypeOK
  <2>3. CASE SendDlq(r)
    <3>1. task[r].msg \in Good
      BY <2>3 DEF Letters, SendDlq
    <3>2. Delivered(r, "dlq") \subseteq Good
      BY DEF Letters, Delivered
    <3>3. QED
      BY <2>3, <3>1, <3>2 DEF Letters, SendDlq, TypeOK
  <2>4. CASE Tells(r)
    <3>1. PICK to, m :
            /\ Queues(r, to, m)
            /\ to = "topic" \/ (m = task[r].msg /\ (EmitReject(r) \/ SendDlqFails(r)))
      BY <2>4 DEF Tells
    <3>2. to = "topic" \/ m \in Good
      BY <3>1 DEF Letters, EmitReject, SendDlqFails
    <3>3. dlq' = dlq /\ outbox' = [outbox EXCEPT ![r] = @ \cup {[to |-> to, msg |-> m]}]
      BY <3>1 DEF Queues, GoesOn
    <3>4. ASSUME NEW q \in Router, NEW o \in outbox'[q], o.to = "dlq"
          PROVE  o.msg \in Good
      <4>1. o \in outbox[q] \/ o = [to |-> to, msg |-> m]
        BY <3>3, <3>4 DEF TypeOK
      <4>2. QED
        BY <3>2, <3>4, <4>1 DEF Letters
    <3>5. QED
      BY <3>3, <3>4 DEF Letters
  <2>5. QED
    BY <2>1, <2>2, <2>3, <2>4, RouterStep
<1>2. ASSUME NEW q \in Router, At(q, "dlq")' \/ At(q, "reject")'
      PROVE  task'[q].msg \in Good
  <2>1. CASE task'[q] = task[q]
    BY <1>2, <2>1 DEF Letters, At
  <2>2. CASE q = r /\ task' # task
    <3>1. \/ Triage(r) \/ Analyze(r) \/ Finalize(r)
          \/ Fail(r) \/ TripDefence(r) \/ LateRaise(r)
      BY <1>2, <2>2, ArrivalsToo DEF At
    <3>2. task'[r].msg = task[r].msg
      BY <3>1, GotoIsMove
         DEF Triage, Analyze, Finalize, Fail, TripDefence, LateRaise, Moves
    <3>3. QED
      BY <2>2, <3>1, <3>2
  <2>3. QED
    BY <2>1, <2>2, Arrivals
<1>3. QED
  BY <1>1, <1>2 DEF Letters

(* The claim that leads to unpack is the first of its key.                 *)
LEMMA FirstUnpack ==
  ASSUME TypeOK, OnceInv, NEW r \in Router, ClaimMessage(r), task'[r].at = "unpack"
  PROVE  UnpackKey \notin claims /\ claims' = claims \cup {UnpackKey}
<1>1. PICK m : m = task[r].msg
  OBVIOUS
<1>2. /\ claims' = claims \cup {ClaimKey(m)}
      /\ ClaimKey(m) \notin claims /\ FirstStep(m.topic) = "unpack"
  BY <1>1, GotoIsMove DEF ClaimMessage
<1>3. m \in Message /\ m.topic \in Routed /\ m \in Untried
  BY <1>1, TaskMessage DEF OnceInv, Within
<1>4. m.topic = "triaged"
  BY <1>2, <1>3 DEF FirstStep, Routed
<1>5. m.try = 0 /\ m.blob = NoBlob
  BY <1>3, <1>4 DEF Untried, Message, FanOut
<1>6. PICK n : n = JobMsg("triaged")
  OBVIOUS
<1>7. n.topic = m.topic /\ n.blob = m.blob /\ n.try = m.try
  BY <1>4, <1>5, <1>6 DEF JobMsg, Msg
<1>8. ClaimKey(n) = ClaimKey(m)
  BY <1>7 DEF ClaimKey
<1>9. QED
  BY <1>2, <1>6, <1>8 DEF UnpackKey

(* Every step of a router in which no call fails keeps it, a death too.    *)
LEMMA OnceStep ==
  ASSUME TypeOK, OnceInv, NEW r \in Router, Work(r) \/ Deliver(r) \/ Trouble(r),
         ~Fail(r), ~TripDefence(r), ~LateRaise(r)
  PROVE  OnceInv'
<1>1. Within(Untried)'
  <2>1. /\ \A t \in Topic \ FanOut : JobMsg(t) \in Untried
        /\ \A t \in FanOut, b \in Blob : Msg(t, b) \in Untried
    BY JobMsgType, ChildMsgType DEF Untried, JobMsg, Msg
  <2>2. Within(Untried) /\ Idle.msg \in Untried
    BY <2>1 DEF OnceInv, Idle, Topic, Routed, FanOut
  <2>3. CASE Loop(r) \/ Deliver(r) \/ Trouble(r)
    BY <2>2, <2>3, WithinLoop
  <2>4. CASE ~(Loop(r) \/ Deliver(r) \/ Trouble(r))
    <3>1. JobMsg("triaged") \in Untried /\ JobMsg("completed") \in Untried
      BY <2>1 DEF Topic, Routed, FanOut
    <3>2. EmitExtracted(r) => Msg("extracted", task[r].blob) \in Untried
      BY <2>1, TaskMessage DEF EmitExtracted, At, FanOut
    <3>3. /\ EmitAnalyzed(r) => Msg("analyzed", task[r].msg.blob) \in Untried
          /\ EmitMatched(r) => Msg("matched", task[r].msg.blob) \in Untried
      BY <2>1, TaskMessage, Dispatch DEF EmitAnalyzed, EmitMatched, FanOut
    <3>4. QED
      BY <2>2, <2>4, <3>1, <3>2, <3>3, WithinHandlers DEF Work
  <2>5. QED
    BY <2>3, <2>4
<1>2. Letters(Elsewhere)'
  <2>1. Triage(r) \/ Analyze(r) \/ Finalize(r) => task[r].msg \in Elsewhere
    BY Dispatch, TaskMessage DEF Triage, Analyze, Finalize, Elsewhere
  <2>2. QED
    BY <2>1, LettersStep DEF OnceInv
<1>4. ASSUME NEW q \in Router, Unpacking(q)'
      PROVE  /\ q # r => Unpacking(q)
             /\ q = r => Unpacking(r) \/ (ClaimMessage(r) /\ task'[r].at = "unpack")
  <2>1. q # r => task'[q] = task[q]
    BY Arrivals
  <2>2. CASE task' = task
    BY <1>4, <2>2 DEF Unpacking, At
  <2>3. CASE task' # task /\ q = r
    <3>1. PutChild(r) \/ CountTotal(r) \/ EmitExtracted(r) => Unpacking(r)
      BY DEF PutChild, CountTotal, EmitExtracted, Unpacking
    <3>2. QED
      BY <1>4, <2>3, <3>1, Arrivals, ArrivalsToo DEF Unpacking, At
  <2>4. QED
    BY <1>4, <2>1, <2>2, <2>3 DEF Unpacking, At
<1>5. marker' = marker \/ SetMarker(r)
  BY Effects
<1>6. claims \subseteq claims'
  BY ReasonsAfter
<1>7. CASE ClaimMessage(r) /\ task'[r].at = "unpack"
  <2>1. UnpackKey \notin claims /\ UnpackKey \in claims'
    BY <1>7, FirstUnpack
  <2>2. ~marker /\ \A q \in Router : ~Unpacking(q)
    BY <2>1 DEF OnceInv
  <2>3. marker' = marker
    BY <1>7 DEF ClaimMessage
  <2>4. QED
    BY <1>1, <1>2, <1>4, <2>1, <2>2, <2>3 DEF OnceInv, OneUnpacks
<1>8. CASE ~(ClaimMessage(r) /\ task'[r].at = "unpack")
  <2>1. \A q \in Router : Unpacking(q)' => Unpacking(q)
    BY <1>4, <1>8
  <2>2. CASE SetMarker(r)
    <3>1. Unpacking(r) /\ ~Unpacking(r)'
      BY <2>2, GotoIsMove DEF SetMarker, Unpacking, At
    <3>2. UnpackKey \in claims'
      BY <1>6, <3>1 DEF OnceInv
    <3>3. \A q \in Router : ~Unpacking(q)'
      BY <2>1, <3>1 DEF OnceInv, OneUnpacks
    <3>4. QED
      BY <1>1, <1>2, <3>2, <3>3 DEF OnceInv, OneUnpacks
  <2>3. CASE marker' = marker
    BY <1>1, <1>2, <1>6, <2>1, <2>3 DEF OnceInv, OneUnpacks
  <2>4. QED
    BY <1>5, <2>2, <2>3
<1>9. QED
  BY <1>7, <1>8

(* No step forgets a failing call, and those that fail count it.           *)
LEMMA Unfailing ==
  ASSUME TypeOK, [Next]_vars, faults' = 0
  PROVE  faults = 0 /\ \A r \in Router : ~Fail(r) /\ ~TripDefence(r) /\ ~LateRaise(r)
<1>1. faults' \in {faults, faults + 1}
  <2>1. CASE Replay \/ UNCHANGED vars
    BY <2>1 DEF Replay, vars, budget
  <2>2. QED
    BY <2>1, ReasonsAfter DEF Next
<1>2. \A r \in Router : Fail(r) \/ TripDefence(r) \/ LateRaise(r) => faults' = faults + 1
  BY DEF Fail, TripDefence, LateRaise
<1>3. QED
  BY <1>1, <1>2 DEF TypeOK

(* As long as no call has failed, wherever processes die and whatever is   *)
(* redelivered: no two routers ever unpack the image, and none does once   *)
(* extraction_complete is set (idempotency.py:18-28, unpack.py:33-60).     *)
THEOREM UnpackedOnce == Spec => [](faults = 0 => OneUnpacks)
<1>. DEFINE Inv == faults = 0 => OnceInv
<1>1. Init => Inv
  <2>1. SUFFICES ASSUME Init PROVE OnceInv
    OBVIOUS
  <2>2. Within(Untried)
    BY <2>1, JobMsgType DEF Init, Within, Untried, Idle, JobMsg, Msg, Topic, Routed, FanOut
  <2>3. QED
    BY <2>1, <2>2 DEF Init, OnceInv, Letters, OneUnpacks, Unpacking, At, Idle
<1>2. TypeOK /\ Inv /\ [Next]_vars => Inv'
  <2>1. SUFFICES ASSUME TypeOK, Inv, [Next]_vars, faults' = 0 PROVE OnceInv'
    OBVIOUS
  <2>2. OnceInv /\ \A r \in Router : ~Fail(r) /\ ~TripDefence(r) /\ ~LateRaise(r)
    BY <2>1, Unfailing
  <2>3. CASE Replay
    <3>1. PICK m \in dlq : /\ dlq' = dlq \ {m}
                           /\ pending' = pending \cup {[m EXCEPT !.try = @ + 1]}
      BY <2>3 DEF Replay
    <3>2. m \in Elsewhere /\ [m EXCEPT !.try = @ + 1] \in Untried
      BY <2>2, <3>1 DEF OnceInv, Letters, Elsewhere, Untried, Message
    <3>3. UNCHANGED <<outbox, task, claims, marker>>
      BY <2>3 DEF Replay, redis
    <3>4. Within(Untried)'
      BY <2>2, <3>1, <3>2, <3>3 DEF OnceInv, Within
    <3>5. QED
      BY <2>2, <3>1, <3>3, <3>4 DEF OnceInv, Letters, OneUnpacks, Unpacking, At
  <2>4. CASE UNCHANGED vars
    BY <2>2, <2>4 DEF vars, kafka, redis, OnceInv, Letters, OneUnpacks, Unpacking, At, Within
  <2>5. QED
    BY <2>1, <2>2, <2>3, <2>4, OnceStep DEF Next
<1>3. Inv => (faults = 0 => OneUnpacks)
  BY DEF OnceInv
<1>4. QED
  BY <1>1, <1>2, <1>3, TypeCorrect, PTL DEF Spec

(* As long as no call has failed, once extraction_complete is set it stays *)
(* set and total_children is final, whichever processes die: whoever counts*)
(* a child is the one router that unpacks (unpack.py:33-60).               *)
THEOREM TotalIsFinal == Spec => TotalFinalOnceMarked
<1>. DEFINE Final == marker /\ faults = 0 => marker' /\ total' = total
<1>1. TypeOK /\ (faults = 0 => OneUnpacks) /\ [Next]_vars => [Final]_vars
  <2>1. SUFFICES ASSUME TypeOK, OneUnpacks, Next, marker PROVE marker' /\ total' = total
    OBVIOUS
  <2>2. CASE Replay
    BY <2>1, <2>2 DEF Replay, redis
  <2>3. ASSUME NEW r \in Router, Work(r) \/ Deliver(r) \/ Trouble(r)
        PROVE  marker' /\ total' = total
    <3>1. ~CountTotal(r) /\ ~Unpacking(r)
      BY <2>1 DEF CountTotal, OneUnpacks, Unpacking
    <3>2. total' = total
      BY <2>1, <2>3, <3>1, WhoTells
    <3>3. marker' = marker \/ SetMarker(r) \/ LateRaise(r)
      BY <2>1, <2>3, Effects
    <3>4. SetMarker(r) \/ LateRaise(r) => marker' \/ marker' = marker
      BY DEF SetMarker, LateRaise
    <3>5. QED
      BY <2>1, <3>2, <3>3, <3>4
  <2>4. QED
    BY <2>1, <2>2, <2>3 DEF Next
<1>2. QED
  BY <1>1, TypeCorrect, UnpackedOnce, PTL DEF Spec, TotalFinalOnceMarked

-----------------------------------------------------------------------------
(***************************************************************************)
(* A child is worked on once.  Until its fragment is uploaded, the record  *)
(* that tells of it is in one spot, or unpack is about to queue it.        *)
(***************************************************************************)
PieceRecord(b) == {m \in Message : m.topic \in {"extracted", "analyzed"} /\ m.blob = b}
Piece(b) == Spots(PieceRecord(b), Latter)
Naming(b) == {r \in Router : task[r].at \in {"countTotal", "emitExtracted"} /\ task[r].blob = b}

PieceInv(b) ==
  /\ Single(Piece(b)) /\ Single(Naming(b))
  /\ Piece(b) = {} \/ Naming(b) = {}
  /\ Piece(b) # {} \/ Naming(b) # {} => b \in Unpacked \ Fragmented

(* Which steps take a router on from its INCR, without a crash or a        *)
(* failing call.                                                           *)
LEMMA Departures ==
  ASSUME TypeOK, NEW r \in Router, Work(r) \/ Deliver(r) \/ Trouble(r), ~Crash(r), ~Fail(r), ~LateRaise(r)
  PROVE  /\ At(r, "countTotal") => task' = task \/ CountTotal(r)
         /\ At(r, "emitExtracted") => task' = task \/ EmitExtracted(r)
         /\ At(r, "countMatched") => task' = task \/ CountMatched(r)
BY DEF Work, Loop, HandleTriage, HandleUnpack, HandleAnalysis, HandleCveMatch, Gate,
       FinalizeJob, Trouble, Poll, ClaimMessage, SendDlq, Commit, Deliver, SendDlqFails,
       TripDefence, LateRaise, Triage, EmitTriaged, EmitReject, PutChild, CountTotal, EmitExtracted,
       SetMarker, Analyze, CountCompleted, EmitAnalyzed, PutFragment, CountMatched,
       EmitMatched, RecordSubBlob, ReadTotal, ReadMarker, ReadMatched, ReadPartial,
       ListFragments, Finalize, PutSbom, PutReport, MarkJob, EmitCompleted, At

(* What the steps do to the children that have been put and those that     *)
(* have a fragment.                                                        *)
LEMMA ChildrenAfter ==
  ASSUME TypeOK, NEW r \in Router, Work(r) \/ Deliver(r) \/ Trouble(r)
  PROVE  \/ /\ ~PutFragment(r) /\ ~PutChild(r)
            /\ Unpacked' = Unpacked /\ Fragmented' = Fragmented
         \/ /\ PutFragment(r) /\ task[r].msg.blob \in Blob
            /\ Unpacked' = Unpacked
            /\ Fragmented' = Fragmented \cup {task[r].msg.blob}
         \/ \E b \in Blob \ Unpacked :
              /\ PutChild(r) /\ task'[r].blob = b /\ task'[r].at = "countTotal"
              /\ Unpacked' = Unpacked \cup {b} /\ Fragmented' = Fragmented
<1>1. CASE objects' = objects /\ ~PutFragment(r) /\ ~PutChild(r)
  BY <1>1 DEF Unpacked, Fragmented
<1>2. CASE PutSbom(r) \/ PutReport(r) \/ (LateRaise(r) /\ objects' # objects)
  <2>0. ~PutFragment(r) /\ ~PutChild(r)
    BY <1>2 DEF PutSbom, PutReport, LateRaise, PutFragment, PutChild, At
  <2>1. PICK x \in {<<"sbom">>, <<"report">>} : objects' = objects \cup {x}
    BY <1>2 DEF PutSbom, PutReport, LateRaise
  <2>2. \A b \in Blob : x # <<"child", b>> /\ x # <<"fragment", b>>
    OBVIOUS
  <2>3. QED
    BY <2>0, <2>1, <2>2 DEF Unpacked, Fragmented
<1>3. CASE PutFragment(r)
  <2>1. task[r].msg.blob \in Blob
    BY <1>3, TaskMessage, Dispatch DEF PutFragment, FanOut
  <2>2. objects' = objects \cup {<<"fragment", task[r].msg.blob>>}
    BY <1>3 DEF PutFragment
  <2>3. \A b \in Blob : /\ <<"child", b>> # <<"fragment", task[r].msg.blob>>
                       /\ <<"fragment", b>> = <<"fragment", task[r].msg.blob>>
                            <=> b = task[r].msg.blob
    OBVIOUS
  <2>4. QED
    BY <1>3, <2>1, <2>2, <2>3 DEF Unpacked, Fragmented
<1>4. CASE PutChild(r)
  <2>1. PICK b \in Blob :
          /\ <<"child", b>> \notin objects
          /\ objects' = objects \cup {<<"child", b>>}
          /\ task' = [task EXCEPT ![r].at = "countTotal", ![r].blob = b]
    BY <1>4 DEF PutChild
  <2>2. \A c \in Blob : /\ <<"fragment", c>> # <<"child", b>>
                       /\ <<"child", c>> = <<"child", b>> <=> c = b
    OBVIOUS
  <2>3. b \notin Unpacked /\ Unpacked' = Unpacked \cup {b} /\ Fragmented' = Fragmented
    BY <2>1, <2>2 DEF Unpacked, Fragmented
  <2>4. task'[r].blob = b /\ task'[r].at = "countTotal"
    BY <2>1 DEF TypeOK, Task
  <2>5. QED
    BY <1>4, <2>3, <2>4
<1>5. QED
  BY <1>1, <1>2, <1>3, <1>4, Effects

(* The router at work on a child's piece is at its one spot.               *)
LEMMA PieceSpot ==
  ASSUME TypeOK, HeldInv, NEW r \in Router,
         task[r].msg.topic \in {"extracted", "analyzed"}, Busy(r), task[r].at \notin Latter
  PROVE  <<"topic", task[r].msg>> \in Piece(task[r].msg.blob)
<1>1. task[r].msg \in PieceRecord(task[r].msg.blob)
  BY TaskMessage DEF PieceRecord
<1>2. QED
  BY <1>1, HeldSpot DEF Piece

(* Who unpack is about to tell of: only PutChild takes up another child.   *)
LEMMA NamingAfter ==
  ASSUME TypeOK, NEW r \in Router, Work(r) \/ Deliver(r) \/ Trouble(r), NEW b \in Blob
  PROVE  \/ Naming(b)' \subseteq Naming(b)
         \/ PutChild(r) /\ task'[r].blob = b /\ Naming(b)' \subseteq Naming(b) \cup {r}
<1>1. \A q \in Router : q # r => task'[q] = task[q]
  BY Arrivals
<1>2. CASE PutChild(r)
  BY <1>1, <1>2 DEF Naming
<1>3. CASE CountTotal(r)
  <2>1. task'[r].blob = task[r].blob /\ At(r, "countTotal")
    BY <1>3 DEF CountTotal, Goto, TypeOK, Task
  <2>2. QED
    BY <1>1, <2>1 DEF Naming, At
<1>4. CASE ~PutChild(r) /\ ~CountTotal(r)
  BY <1>1, <1>4, Arrivals DEF Naming
<1>5. QED
  BY <1>2, <1>3, <1>4

(* While nothing fails or crashes, every step of a router keeps what is    *)
(* said of a child.                                                        *)
LEMMA PieceStep ==
  ASSUME TypeOK, HeldInv, NEW r \in Router, Work(r) \/ Deliver(r) \/ Trouble(r),
         ~Crash(r), ~Fail(r), ~LateRaise(r), Fragmented \subseteq Unpacked,
         NEW b \in Blob, PieceInv(b)
  PROVE  PieceInv(b)'
<1>1. (EmitExtracted(r) /\ task[r].blob = b) \/ Passed(Piece(b), Piece(b)')
  <2>1. /\ Msg("matched", task[r].msg.blob) \notin PieceRecord(b)
        /\ JobMsg("triaged") \notin PieceRecord(b)
        /\ JobMsg("completed") \notin PieceRecord(b)
    BY DEF PieceRecord, JobMsg, Msg
  <2>2. EmitExtracted(r) /\ task[r].blob # b => Msg("extracted", task[r].blob) \notin PieceRecord(b)
    BY DEF PieceRecord, Msg
  <2>3. EmitAnalyzed(r) /\ Msg("analyzed", task[r].msg.blob) \in PieceRecord(b)
          => task[r].msg \in PieceRecord(b)
    BY Dispatch, TaskMessage DEF EmitAnalyzed, PieceRecord, Msg
  <2>4. QED
    BY <2>1, <2>2, <2>3, StepPasses DEF Piece
<1>2. CASE EmitExtracted(r) /\ task[r].blob = b
  <2>1. r \in Naming(b) /\ Piece(b) = {} /\ b \in Unpacked \ Fragmented
    BY <1>2 DEF EmitExtracted, Naming, PieceInv, At
  <2>2. task'[r].at = "unpack" /\ \A q \in Router : q # r => task'[q] = task[q]
    BY <1>2 DEF EmitExtracted, TypeOK, Task
  <2>3. Naming(b)' = {}
    BY <2>1, <2>2 DEF Naming, PieceInv, Single
  <2>4. Queues(r, "topic", Msg("extracted", b))
    BY <1>2, TellingSteps DEF Tells, EmitReject, EmitTriaged, EmitExtracted, EmitAnalyzed,
       EmitMatched, EmitCompleted, SendDlqFails, At
  <2>5. \A q \in Router : \A o \in outbox'[q] \ outbox[q] :
          q = r /\ o = [to |-> "topic", msg |-> Msg("extracted", b)]
    BY <2>4 DEF Queues, TypeOK
  <2>6. \A y \in Piece(b)' : y = <<"queue", r, [to |-> "topic", msg |-> Msg("extracted", b)]>>
    BY <2>1, <2>4, <2>5, GoesOnSpots DEF Piece, Queues
  <2>7. b \in Unpacked' \ Fragmented'
    BY <1>2, <2>1, ChildrenAfter DEF EmitExtracted, PutFragment, At
  <2>8. QED
    BY <2>3, <2>6, <2>7 DEF PieceInv, Single
<1>3. CASE PutFragment(r) /\ task[r].msg.blob = b
  <2>1. <<"topic", task[r].msg>> \in Piece(b)
    BY <1>3, PieceSpot, Dispatch DEF PutFragment, Busy, At, Latter
  <2>2. Inside(r) /\ task'[r].at \in Latter
    BY <1>3, InsideSteps, GotoIsMove DEF PutFragment, Latter
  <2>3. Piece(b)' \subseteq Piece(b) \ {<<"topic", task[r].msg>>}
    BY <2>2, GoesOnSpots DEF Piece, Inside
  <2>4. Piece(b)' = {}
    BY <2>1, <2>3 DEF PieceInv, Single
  <2>5. Naming(b)' = {}
    <3>1. ~PutChild(r)
      BY <1>3 DEF PutFragment, PutChild, At
    <3>2. Naming(b) = {}
      BY <2>1 DEF PieceInv
    <3>3. QED
      BY <3>1, <3>2, NamingAfter
  <2>6. QED
    BY <2>4, <2>5 DEF PieceInv, Single
<1>4. CASE PutChild(r) /\ task'[r].blob = b
  <2>1. b \notin Unpacked /\ b \in Unpacked' /\ Fragmented' = Fragmented
    BY <1>4, ChildrenAfter DEF PutChild, PutFragment, At, Unpacked
  <2>2. Piece(b) = {} /\ Naming(b) = {}
    BY <2>1 DEF PieceInv
  <2>3. Piece(b)' = {}
    BY <1>1, <1>4, <2>2, PassedKeeps DEF PutChild, EmitExtracted, At
  <2>4. Naming(b)' \subseteq {r}
    BY <2>2, NamingAfter
  <2>5. QED
    BY <2>1, <2>3, <2>4 DEF PieceInv, Single
<1>5. CASE /\ ~(EmitExtracted(r) /\ task[r].blob = b)
           /\ ~(PutFragment(r) /\ task[r].msg.blob = b)
           /\ ~(PutChild(r) /\ task'[r].blob = b)
  <2>1. Naming(b)' \subseteq Naming(b)
    BY <1>5, NamingAfter
  <2>2. Passed(Piece(b), Piece(b)')
    BY <1>1, <1>5
  <2>3. b \in Unpacked \ Fragmented => b \in Unpacked' \ Fragmented'
    BY <1>5, ChildrenAfter
  <2>4. QED
    BY <2>1, <2>2, <2>3, PassedKeeps DEF PieceInv, Single
<1>6. QED
  BY <1>2, <1>3, <1>4, <1>5

-----------------------------------------------------------------------------
(***************************************************************************)
(* The counters count children: total those unpack has told of or is about *)
(* to, matched those whose fragment is up and whose INCR has been done.    *)
(***************************************************************************)
Matching(r) == At(r, "countMatched")

CountersInv ==
  /\ \A b \in Blob : PieceInv(b)
  /\ Fragmented \subseteq Unpacked
  /\ IsFiniteSet(Unpacked)
  /\ \A r \in Router : Matching(r) => task[r].msg.blob \in Fragmented
  /\ \A q, r \in Router : Matching(q) /\ Matching(r) /\ task[q].msg.blob = task[r].msg.blob => q = r
  /\ total = Cardinality(Found)
  /\ matched = Cardinality(Ready)

(* The routers between a put and its INCR, after a step.                   *)
LEMMA CountingAfter ==
  ASSUME TypeOK, NEW r \in Router, Work(r) \/ Deliver(r) \/ Trouble(r), ~Crash(r), ~Fail(r), ~LateRaise(r),
         NEW q \in Router
  PROVE  /\ q # r => task'[q] = task[q]
         /\ ~PutChild(r) /\ ~CountTotal(r) =>
              /\ At(q, "countTotal")' <=> At(q, "countTotal")
              /\ At(q, "countTotal") => task'[q] = task[q]
         /\ ~PutFragment(r) /\ ~CountMatched(r) =>
              /\ Matching(q)' <=> Matching(q)
              /\ Matching(q) => task'[q] = task[q]
<1>1. q # r => task'[q] = task[q]
  BY Arrivals
<1>2. CASE task' = task
  BY <1>2 DEF At, Matching
<1>3. CASE task' # task
  BY <1>1, <1>3, Arrivals, Departures DEF At, Matching
<1>4. QED
  BY <1>2, <1>3

(* The INCR of total_children finds one child more, nothing else does.     *)
LEMMA FoundAfter ==
  ASSUME TypeOK, CountersInv, NEW r \in Router, Work(r) \/ Deliver(r) \/ Trouble(r),
         ~Crash(r), ~Fail(r), ~LateRaise(r)
  PROVE  \/ ~CountTotal(r) /\ Found' = Found
         \/ /\ CountTotal(r) /\ task[r].blob \in Unpacked \ Found
            /\ Found' = Found \cup {task[r].blob}
<1>1. CASE PutChild(r)
  <2>1. PICK b \in Blob \ Unpacked :
          task'[r].blob = b /\ task'[r].at = "countTotal" /\ Unpacked' = Unpacked \cup {b}
    BY <1>1, ChildrenAfter DEF PutChild, PutFragment, At, Unpacked
  <2>2. ~At(r, "countTotal") /\ ~CountTotal(r)
    BY <1>1 DEF PutChild, CountTotal, At
  <2>3. \A q \in Router : q # r => task'[q] = task[q]
    BY CountingAfter
  <2>4. QED
    BY <2>1, <2>2, <2>3 DEF Found, At
<1>2. CASE CountTotal(r)
  <2>1. PICK b \in Blob : b = task[r].blob
    BY <1>2, TaskMessage DEF CountTotal, At
  <2>2. r \in Naming(b) /\ At(r, "countTotal")
    BY <1>2, <2>1 DEF Naming, CountTotal, At
  <2>3. \A q \in Router : q \in Naming(b) => q = r
    BY <2>2 DEF CountersInv, PieceInv, Single
  <2>4. b \in Unpacked
    BY <2>2 DEF CountersInv, PieceInv
  <2>5. task'[r].at # "countTotal" /\ \A q \in Router : q # r => task'[q] = task[q]
    BY <1>2, GotoIsMove DEF CountTotal, Moves
  <2>6. Unpacked' = Unpacked
    BY <1>2 DEF CountTotal, stores, Unpacked
  <2>7. \A q \in Router : At(q, "countTotal") /\ task[q].blob = b => q = r
    BY <2>3 DEF Naming, At
  <2>8. b \notin Found
    BY <2>1, <2>2 DEF Found
  <2>9. Found' = Found \cup {b}
    <3>1. ASSUME NEW c \in Found' PROVE c \in Found \cup {b}
      <4>1. c \in Unpacked /\ \A q \in Router : task'[q].at = "countTotal" => task'[q].blob # c
        BY <2>6 DEF Found, At
      <4>2. \A q \in Router : task[q].at = "countTotal" => q = r \/ task[q].blob # c
        BY <2>5, <4>1
      <4>3. QED
        BY <2>1, <4>1, <4>2 DEF Found, At
    <3>2. ASSUME NEW c \in Found \cup {b} PROVE c \in Found'
      <4>1. c \in Unpacked /\ \A q \in Router : task[q].at = "countTotal" => q = r \/ task[q].blob # c
        BY <2>4, <2>7 DEF Found, At
      <4>2. \A q \in Router : task'[q].at = "countTotal" => task'[q].blob # c
        BY <2>5, <4>1
      <4>3. QED
        BY <2>6, <4>1, <4>2 DEF Found, At
    <3>3. QED
      BY <3>1, <3>2
  <2>10. QED
    BY <1>2, <2>1, <2>4, <2>8, <2>9
<1>3. CASE ~PutChild(r) /\ ~CountTotal(r)
  <2>1. Unpacked' = Unpacked
    BY <1>3, ChildrenAfter
  <2>2. \A q \in Router : task[q].at = "countTotal" \/ task'[q].at = "countTotal" => task'[q] = task[q]
    BY <1>3, CountingAfter DEF At
  <2>3. \A c : c \in Found <=> /\ c \in Unpacked
                        /\ \A q \in Router : task[q].at = "countTotal" => task[q].blob # c
    BY DEF Found, At
  <2>4. \A c : c \in Found' <=> /\ c \in Unpacked'
                         /\ \A q \in Router : task'[q].at = "countTotal" => task'[q].blob # c
    BY DEF Found, At
  <2>5. \A c : c \in Found' <=> c \in Found
    BY <2>1, <2>2, <2>3, <2>4
  <2>6. QED
    BY <1>3, <2>5
<1>4. QED
  BY <1>1, <1>2, <1>3

(* The INCR of matched_children makes one child more ready.                *)
LEMMA ReadyAfter ==
  ASSUME TypeOK, HeldInv, CountersInv, NEW r \in Router, Work(r) \/ Deliver(r) \/ Trouble(r),
         ~Crash(r), ~Fail(r), ~LateRaise(r)
  PROVE  \/ ~CountMatched(r) /\ Ready' = Ready
         \/ /\ CountMatched(r) /\ task[r].msg.blob \in Fragmented \ Ready
            /\ Ready' = Ready \cup {task[r].msg.blob}
<1>1. CASE PutFragment(r)
  <2>1. task[r].msg.blob \notin Fragmented
    <3>1. <<"topic", task[r].msg>> \in Piece(task[r].msg.blob)
      BY <1>1, PieceSpot, Dispatch DEF PutFragment, Busy, At, Latter
    <3>2. task[r].msg.blob \in Blob
      BY <1>1, TaskMessage, Dispatch DEF PutFragment, FanOut
    <3>3. QED
      BY <3>1, <3>2 DEF CountersInv, PieceInv
  <2>2. task'[r].at = "countMatched" /\ task'[r].msg = task[r].msg
    BY <1>1, GotoIsMove DEF PutFragment, Moves
  <2>3. ~Matching(r) /\ ~CountMatched(r)
    BY <1>1 DEF PutFragment, CountMatched, Matching, At
  <2>4. Fragmented' = Fragmented \cup {task[r].msg.blob}
    BY <1>1, ChildrenAfter DEF PutFragment, PutChild, At
  <2>5. \A q \in Router : q # r => task'[q] = task[q]
    BY CountingAfter
  <2>6. QED
    BY <2>1, <2>2, <2>3, <2>4, <2>5 DEF Ready, Matching, At
<1>2. CASE CountMatched(r)
  <2>1. Matching(r) /\ Fragmented' = Fragmented
    BY <1>2 DEF CountMatched, Matching, stores, Fragmented
  <2>2. task'[r].at # "countMatched" /\ \A q \in Router : q # r => task'[q] = task[q]
    BY <1>2, GotoIsMove DEF CountMatched, Moves
  <2>3. task[r].msg.blob \in Fragmented
    BY <2>1 DEF CountersInv
  <2>4. \A q \in Router : Matching(q) /\ task[q].msg.blob = task[r].msg.blob => q = r
    BY <2>1 DEF CountersInv
  <2>5. task[r].msg.blob \notin Ready
    BY <2>1 DEF Ready, Matching
  <2>6. Ready' = Ready \cup {task[r].msg.blob}
    <3>1. ASSUME NEW c \in Ready' PROVE c \in Ready \cup {task[r].msg.blob}
      <4>1. c \in Fragmented /\ \A q \in Router : task'[q].at = "countMatched" => task'[q].msg.blob # c
        BY <2>1 DEF Ready, At
      <4>2. \A q \in Router : task[q].at = "countMatched" => q = r \/ task[q].msg.blob # c
        BY <2>2, <4>1
      <4>3. QED
        BY <4>1, <4>2 DEF Ready, At
    <3>2. ASSUME NEW c \in Ready \cup {task[r].msg.blob} PROVE c \in Ready'
      <4>1. c \in Fragmented /\ \A q \in Router : task[q].at = "countMatched" => q = r \/ task[q].msg.blob # c
        BY <2>3, <2>4 DEF Ready, Matching, At
      <4>2. \A q \in Router : task'[q].at = "countMatched" => task'[q].msg.blob # c
        BY <2>2, <4>1
      <4>3. QED
        BY <2>1, <4>1, <4>2 DEF Ready, At
    <3>3. QED
      BY <3>1, <3>2
  <2>7. QED
    BY <1>2, <2>3, <2>5, <2>6
<1>3. CASE ~PutFragment(r) /\ ~CountMatched(r)
  <2>1. Fragmented' = Fragmented
    BY <1>3, ChildrenAfter
  <2>2. \A q \in Router : task[q].at = "countMatched" \/ task'[q].at = "countMatched" => task'[q] = task[q]
    BY <1>3, CountingAfter DEF Matching, At
  <2>3. \A c : c \in Ready <=> /\ c \in Fragmented
                        /\ \A q \in Router : task[q].at = "countMatched" => task[q].msg.blob # c
    BY DEF Ready, At
  <2>4. \A c : c \in Ready' <=> /\ c \in Fragmented'
                         /\ \A q \in Router : task'[q].at = "countMatched" => task'[q].msg.blob # c
    BY DEF Ready, At
  <2>5. \A c : c \in Ready' <=> c \in Ready
    BY <2>1, <2>2, <2>3, <2>4
  <2>6. QED
    BY <1>3, <2>5
<1>4. QED
  BY <1>1, <1>2, <1>3

(* Found and Ready are finite with the children that have been put.        *)
LEMMA FiniteChildren ==
  ASSUME CountersInv
  PROVE  /\ Found \subseteq Unpacked /\ Ready \subseteq Fragmented
         /\ IsFiniteSet(Found) /\ IsFiniteSet(Ready) /\ IsFiniteSet(Fragmented)
         /\ Cardinality(Found) \in Nat /\ Cardinality(Ready) \in Nat
<1>1. Found \subseteq Unpacked /\ Ready \subseteq Fragmented /\ Fragmented \subseteq Unpacked
  BY DEF Found, Ready, CountersInv
<1>2. IsFiniteSet(Unpacked)
  BY DEF CountersInv
<1>3. IsFiniteSet(Found) /\ IsFiniteSet(Ready) /\ IsFiniteSet(Fragmented)
  BY <1>1, <1>2, FS_Subset
<1>4. QED
  BY <1>1, <1>3, FS_CardinalityType

(* While nothing fails or crashes, every step of a router keeps the counts.*)
LEMMA CountersStep ==
  ASSUME TypeOK, HeldInv, CountersInv, NEW r \in Router, Work(r) \/ Deliver(r) \/ Trouble(r),
         ~Crash(r), ~Fail(r), ~LateRaise(r)
  PROVE  CountersInv'
<1>1. Fragmented \subseteq Unpacked /\ IsFiniteSet(Unpacked)
  BY DEF CountersInv
<1>2. \A b \in Blob : PieceInv(b)'
  BY <1>1, PieceStep DEF CountersInv
<1>3. PutFragment(r) => /\ task[r].msg.blob \in Unpacked \ Fragmented
                        /\ task'[r].msg = task[r].msg
  <2>1. SUFFICES ASSUME PutFragment(r)
                 PROVE  /\ task[r].msg.blob \in Unpacked \ Fragmented
                        /\ task'[r].msg = task[r].msg
    OBVIOUS
  <2>2. <<"topic", task[r].msg>> \in Piece(task[r].msg.blob) /\ task[r].msg.blob \in Blob
    BY <2>1, PieceSpot, Dispatch, TaskMessage DEF PutFragment, Busy, At, Latter, FanOut
  <2>3. task'[r].msg = task[r].msg
    BY <2>1, GotoIsMove DEF PutFragment, Moves
  <2>4. QED
    BY <2>2, <2>3 DEF CountersInv, PieceInv
<1>4. (Fragmented \subseteq Unpacked)' /\ Fragmented \subseteq Fragmented'
  BY <1>1, <1>3, ChildrenAfter
<1>5. IsFiniteSet(Unpacked)'
  BY <1>1, ChildrenAfter, FS_AddElement
<1>6. ASSUME NEW q \in Router
      PROVE  \/ ~Matching(q)'
             \/ Matching(q) /\ task'[q] = task[q]
             \/ q = r /\ PutFragment(r) /\ Fragmented' = Fragmented \cup {task[r].msg.blob}
  BY CountingAfter, Arrivals, ChildrenAfter DEF Matching, At, PutFragment, PutChild
<1>7. \A q \in Router : Matching(q)' => task'[q].msg.blob \in Fragmented'
  BY <1>3, <1>4, <1>6 DEF CountersInv
<1>8. ASSUME NEW p \in Router, NEW q \in Router, Matching(p)', Matching(q)',
             task'[p].msg.blob = task'[q].msg.blob
      PROVE  p = q
  <2>1. CASE Matching(p) /\ task'[p] = task[p] /\ Matching(q) /\ task'[q] = task[q]
    BY <1>8, <2>1 DEF CountersInv
  <2>2. CASE p = r /\ PutFragment(r) /\ Matching(q) /\ task'[q] = task[q]
    BY <1>3, <1>8, <2>2 DEF CountersInv
  <2>3. CASE q = r /\ PutFragment(r) /\ Matching(p) /\ task'[p] = task[p]
    BY <1>3, <1>8, <2>3 DEF CountersInv
  <2>4. QED
    BY <1>6, <1>8, <2>1, <2>2, <2>3
<1>9. total' = Cardinality(Found')
  <2>1. CASE CountTotal(r)
    <3>1. total' = total + 1 /\ total = Cardinality(Found)
      BY <2>1 DEF CountTotal, CountersInv
    <3>2. task[r].blob \notin Found /\ Found' = Found \cup {task[r].blob}
      BY <2>1, FoundAfter
    <3>3. Cardinality(Found \cup {task[r].blob}) = Cardinality(Found) + 1
      BY <3>2, FiniteChildren, FS_AddElement
    <3>4. QED
      BY <3>1, <3>2, <3>3
  <2>2. CASE ~CountTotal(r)
    BY <2>2, FoundAfter, WhoTells DEF CountersInv
  <2>3. QED
    BY <2>1, <2>2
<1>10. matched' = Cardinality(Ready')
  <2>1. CASE CountMatched(r)
    <3>1. matched' = matched + 1 /\ matched = Cardinality(Ready)
      BY <2>1 DEF CountMatched, CountersInv
    <3>2. task[r].msg.blob \notin Ready /\ Ready' = Ready \cup {task[r].msg.blob}
      BY <2>1, ReadyAfter
    <3>3. Cardinality(Ready \cup {task[r].msg.blob}) = Cardinality(Ready) + 1
      BY <3>2, FiniteChildren, FS_AddElement
    <3>4. QED
      BY <3>1, <3>2, <3>3
  <2>2. CASE ~CountMatched(r)
    BY <2>2, ReadyAfter, Effects DEF CountersInv
  <2>3. QED
    BY <2>1, <2>2
<1>11. QED
  BY <1>2, <1>4, <1>5, <1>7, <1>8, <1>9, <1>10 DEF CountersInv

(* The replay of a dead letter keeps them.                                 *)
LEMMA CountersReplay ==
  ASSUME TypeOK, CountersInv, Replay
  PROVE  CountersInv'
<1>1. UNCHANGED <<task, objects, total, matched>>
  BY DEF Replay, redis, stores
<1>2. Unpacked' = Unpacked /\ Fragmented' = Fragmented
  BY <1>1 DEF Unpacked, Fragmented
<1>3. ASSUME NEW b \in Blob PROVE PieceInv(b)'
  <2>1. \A m \in Message : [m EXCEPT !.try = @ + 1] \in PieceRecord(b) => m \in PieceRecord(b)
    BY DEF PieceRecord, Message
  <2>2. Passed(Piece(b), Piece(b)')
    BY <2>1, ReplayPasses DEF Piece
  <2>3. Naming(b)' = Naming(b)
    BY <1>1 DEF Naming
  <2>4. QED
    BY <1>2, <2>2, <2>3, PassedKeeps DEF CountersInv, PieceInv
<1>4. Found' = Found /\ Ready' = Ready
  BY <1>1, <1>2 DEF Found, Ready, At
<1>5. QED
  BY <1>1, <1>2, <1>3, <1>4 DEF CountersInv, Matching, At

(* While no call has failed and no process has crashed, for any number of  *)
(* routers in any topology: no two records of a child are ever on their    *)
(* way to its match, and both counters are exact (unpack.py:44-50,         *)
(* cve_match.py:46-60).                                                    *)
THEOREM CountersExact == Spec => [](Calm => CountersInv)
<1>. DEFINE Inv == Calm => CountersInv
<1>1. Init => Inv
  <2>1. SUFFICES ASSUME Init PROVE CountersInv
    OBVIOUS
  <2>2. Unpacked = {} /\ Fragmented = {}
    BY <2>1 DEF Init, Unpacked, Fragmented
  <2>3. Found = {} /\ Ready = {}
    BY <2>2 DEF Found, Ready
  <2>4. IsFiniteSet({}) /\ Cardinality({}) = 0
    BY FS_EmptySet
  <2>5. ASSUME NEW b \in Blob PROVE PieceInv(b)
    <3>1. Piece(b) = {}
      BY <2>1 DEF Init, Piece, Spots, OnTopic, InDlq, Queued, PieceRecord, JobMsg, Msg
    <3>2. Naming(b) = {}
      BY <2>1 DEF Init, Naming, Idle
    <3>3. QED
      BY <3>1, <3>2 DEF PieceInv, Single
  <2>6. \A r \in Router : ~Matching(r)
    BY <2>1 DEF Init, Matching, At, Idle
  <2>7. total = 0 /\ matched = 0
    BY <2>1 DEF Init
  <2>8. QED
    BY <2>2, <2>3, <2>4, <2>5, <2>6, <2>7 DEF CountersInv
<1>2. TypeOK /\ HeldInv /\ Inv /\ [Next]_vars => Inv'
  <2>1. SUFFICES ASSUME TypeOK, HeldInv, Inv, [Next]_vars, Calm' PROVE CountersInv'
    OBVIOUS
  <2>2. CountersInv /\ \A r \in Router : ~Crash(r) /\ ~Fail(r) /\ ~LateRaise(r)
    BY <2>1, Budget
  <2>3. CASE UNCHANGED vars
    <3>1. UNCHANGED <<pending, outbox, dlq, task, total, matched, objects>>
      BY <2>3 DEF vars, kafka, redis, stores
    <3>2. ASSUME NEW b \in Blob PROVE PieceInv(b)'
      <4>1. Piece(b)' = Piece(b)
        BY <3>1 DEF Piece, Spots, OnTopic, InDlq, Queued, Over
      <4>2. Naming(b)' = Naming(b) /\ Unpacked' = Unpacked /\ Fragmented' = Fragmented
        BY <3>1 DEF Naming, Unpacked, Fragmented
      <4>3. QED
        BY <2>2, <4>1, <4>2 DEF CountersInv, PieceInv
    <3>3. Unpacked' = Unpacked /\ Fragmented' = Fragmented /\ Found' = Found /\ Ready' = Ready
      BY <3>1 DEF Unpacked, Fragmented, Found, Ready, At
    <3>4. QED
      BY <2>2, <3>1, <3>2, <3>3 DEF CountersInv, Matching, At
  <2>4. QED
    BY <2>1, <2>2, <2>3, CountersStep, CountersReplay DEF Next
<1>3. QED
  BY <1>1, <1>2, TypeCorrect, HeldCorrect, PTL DEF Spec

-----------------------------------------------------------------------------
(***************************************************************************)
(* The counters count the children, whatever fails, crashes and is         *)
(* replayed.  total_children lags the children by those put and not yet    *)
(* counted.  An INCR of matched_children needs a claim: the one under the  *)
(* Kafka key is made once for a child, the one under the hash only for a   *)
(* replayed record, and what is replayed has been dead-lettered by a       *)
(* failing call.                                                           *)
(***************************************************************************)
ChildrenInv ==
  /\ IsFiniteSet(Unpacked)
  /\ \A r \in Router : At(r, "countTotal") => task[r].blob \in Unpacked
  /\ \A q, r \in Router :
       At(q, "countTotal") /\ At(r, "countTotal") /\ task[q].blob = task[r].blob => q = r
  /\ total <= Cardinality(Found)

(* Every step of a router keeps total_children behind the children.        *)
LEMMA ChildrenStep ==
  ASSUME TypeOK, ChildrenInv, NEW r \in Router, Work(r) \/ Deliver(r) \/ Trouble(r)
  PROVE  ChildrenInv'
<1>1. \A q \in Router : q # r => task'[q] = task[q]
  BY Arrivals
<1>2. IsFiniteSet(Unpacked)' /\ Unpacked \subseteq Unpacked'
  BY ChildrenAfter, FS_AddElement DEF ChildrenInv
<1>3. CASE PutChild(r)
  <2>1. PICK b \in Blob \ Unpacked :
          task'[r].blob = b /\ task'[r].at = "countTotal" /\ Unpacked' = Unpacked \cup {b}
    BY <1>3, ChildrenAfter DEF PutChild, PutFragment, At, Unpacked
  <2>2. \A q \in Router : At(q, "countTotal")' =>
          \/ q = r /\ task'[q].blob = b
          \/ q # r /\ At(q, "countTotal") /\ task'[q] = task[q]
    BY <1>1, <2>1 DEF At
  <2>3. Found \subseteq Found'
    BY <2>1, <2>2 DEF Found
  <2>4. Found' \subseteq Unpacked' /\ Found \subseteq Unpacked
    BY DEF Found
  <2>5. IsFiniteSet(Found') /\ Cardinality(Found) <= Cardinality(Found')
    BY <1>2, <2>3, <2>4, FS_Subset
  <2>6. Cardinality(Found) \in Nat /\ Cardinality(Found') \in Nat
    BY <2>3, <2>5, FS_Subset, FS_CardinalityType
  <2>7. total' = total /\ total \in Nat
    BY <1>3 DEF PutChild, redis, TypeOK
  <2>8. (total <= Cardinality(Found))'
    BY <2>5, <2>6, <2>7 DEF ChildrenInv
  <2>9. /\ \A q \in Router : At(q, "countTotal")' => task'[q].blob \in Unpacked'
        /\ \A q, p \in Router :
             At(q, "countTotal")' /\ At(p, "countTotal")' /\ task'[q].blob = task'[p].blob => q = p
    BY <2>1, <2>2 DEF ChildrenInv
  <2>10. QED
    BY <1>2, <2>8, <2>9 DEF ChildrenInv
<1>4. CASE ~PutChild(r)
  <2>1. Unpacked' = Unpacked
    BY <1>4, ChildrenAfter
  <2>2. \A q \in Router : At(q, "countTotal")' => At(q, "countTotal") /\ task'[q] = task[q]
    BY <1>1, <1>4, Arrivals DEF At
  <2>3. Found \subseteq Found' /\ Found' \subseteq Unpacked /\ Found \subseteq Unpacked
    BY <2>1, <2>2 DEF Found
  <2>4. /\ IsFiniteSet(Found) /\ IsFiniteSet(Found')
        /\ Cardinality(Found) \in Nat /\ Cardinality(Found') \in Nat
        /\ Cardinality(Found) <= Cardinality(Found')
    <3>1. IsFiniteSet(Found') /\ IsFiniteSet(Found)
      BY <2>3, FS_Subset DEF ChildrenInv
    <3>2. QED
      BY <2>3, <3>1, FS_Subset, FS_CardinalityType
  <2>5. (total <= Cardinality(Found))'
    <3>1. CASE CountTotal(r)
      <4>1. PICK b : b = task[r].blob
        OBVIOUS
      <4>2. At(r, "countTotal") /\ ~At(r, "countTotal")' /\ total' = total + 1
        BY <3>1, GotoIsMove DEF CountTotal, At
      <4>3. b \in Unpacked /\ b \notin Found
        BY <4>1, <4>2 DEF ChildrenInv, Found
      <4>4. \A q \in Router : At(q, "countTotal")' => q # r /\ task'[q].blob # b
        BY <2>2, <4>1, <4>2 DEF ChildrenInv
      <4>5. b \in Found'
        BY <2>1, <4>3, <4>4 DEF Found
      <4>6. Found \cup {b} \subseteq Found'
        BY <2>3, <4>5
      <4>7. Cardinality(Found \cup {b}) = Cardinality(Found) + 1
        BY <2>4, <4>3, FS_AddElement
      <4>8. Cardinality(Found \cup {b}) <= Cardinality(Found')
        BY <2>4, <4>6, FS_Subset
      <4>9. QED
        BY <2>4, <4>2, <4>7, <4>8 DEF ChildrenInv, TypeOK
    <3>2. CASE ~CountTotal(r)
      <4>1. total' = total /\ total \in Nat
        BY <3>2, WhoTells DEF TypeOK
      <4>2. QED
        BY <2>4, <4>1 DEF ChildrenInv
    <3>3. QED
      BY <3>1, <3>2
  <2>6. QED
    BY <1>2, <2>1, <2>2, <2>5 DEF ChildrenInv
<1>5. QED
  BY <1>3, <1>4

(* D holds every child one of whose records of firmware.analyzed has been  *)
(* dead-lettered: no other is ever replayed, or claimed under its hash.    *)
ReplayedIn(D) == {m \in Message : m.topic = "analyzed" /\ m.try > 0 => m.blob \in D}
LetteredIn(D) == {m \in Message : m.topic = "analyzed" => m.blob \in D}

Lettered(D) ==
  /\ Within(ReplayedIn(D))
  /\ Letters(LetteredIn(D))
  /\ \A c \in claims : c.topic = "analyzed" /\ c.hashed = TRUE => c.blob \in D

(* More children may only be in a larger set.                              *)
LEMMA LetteredGrows ==
  ASSUME NEW D, NEW E, D \subseteq E, Lettered(D)
  PROVE  Lettered(E)
<1>1. ReplayedIn(D) \subseteq ReplayedIn(E) /\ LetteredIn(D) \subseteq LetteredIn(E)
  BY DEF ReplayedIn, LetteredIn
<1>2. QED
  BY <1>1 DEF Lettered, Letters, Within

(* A step keeps D if a record over which a call fails is of a child in it. *)
LEMMA LetteredStep ==
  ASSUME TypeOK, NEW D, Lettered(D), NEW r \in Router,
         Work(r) \/ Deliver(r) \/ Trouble(r),
         Fail(r) \/ TripDefence(r) \/ LateRaise(r) => task[r].msg.blob \in D
  PROVE  Lettered(D)'
<1>. DEFINE Good == ReplayedIn(D)
<1>1. Within(Good)'
  <2>1. /\ \A t \in Topic \ FanOut : JobMsg(t) \in Good
        /\ \A t \in FanOut, b \in Blob : Msg(t, b) \in Good
    BY JobMsgType, ChildMsgType DEF ReplayedIn, JobMsg, Msg
  <2>2. Within(Good) /\ Idle.msg \in Good
    BY <2>1 DEF Lettered, Idle, Topic, Routed, FanOut
  <2>3. JobMsg("triaged") \in Good /\ JobMsg("completed") \in Good
    BY <2>1 DEF Topic, Routed, FanOut
  <2>4. EmitExtracted(r) => Msg("extracted", task[r].blob) \in Good
    BY <2>1, TaskMessage DEF EmitExtracted, At, FanOut
  <2>5. /\ EmitAnalyzed(r) => Msg("analyzed", task[r].msg.blob) \in Good
        /\ EmitMatched(r) => Msg("matched", task[r].msg.blob) \in Good
    BY <2>1, TaskMessage, Dispatch DEF EmitAnalyzed, EmitMatched, FanOut
  <2>. HIDE DEF Good
  <2>6. CASE Loop(r) \/ Deliver(r) \/ Trouble(r)
    BY <2>2, <2>6, WithinLoop
  <2>7. CASE ~(Loop(r) \/ Deliver(r) \/ Trouble(r))
    BY <2>2, <2>3, <2>4, <2>5, <2>7, WithinHandlers DEF Work
  <2>8. QED
    BY <2>6, <2>7
<1>2. Letters(LetteredIn(D))'
  <2>1. Triage(r) \/ Analyze(r) \/ Finalize(r) => task[r].msg.topic # "analyzed"
    BY Dispatch DEF Triage, Analyze, Finalize
  <2>2. (\/ Triage(r) \/ Analyze(r) \/ Finalize(r)
         \/ Fail(r) \/ TripDefence(r) \/ LateRaise(r)) => task[r].msg \in LetteredIn(D)
    BY <2>1, TaskMessage DEF LetteredIn
  <2>3. QED
    BY <2>2, LettersStep DEF Lettered
<1>3. ASSUME NEW c \in claims', c.topic = "analyzed", c.hashed = TRUE PROVE c.blob \in D
  <2>1. CASE c \in claims
    BY <1>3, <2>1 DEF Lettered
  <2>2. CASE c \notin claims
    <3>1. PICK m : m = task[r].msg
      OBVIOUS
    <3>2. c = ClaimKey(m)
      BY <2>2, <3>1, ArrivalsToo DEF ClaimMessage
    <3>3. m.topic = "analyzed" /\ c.blob = m.blob /\ (m.try > 0) = TRUE
      BY <1>3, <3>2 DEF ClaimKey
    <3>4. m \in ReplayedIn(D)
      BY <3>1 DEF Lettered, Within
    <3>5. QED
      BY <3>3, <3>4 DEF ReplayedIn
  <2>3. QED
    BY <2>1, <2>2
<1>4. QED
  BY <1>1, <1>2, <1>3 DEF Lettered

(* A router between its claim and its INCR holds a claim of its own; the   *)
(* others are spent, and there is one for each INCR.                       *)
Holding(r) == At(r, "putFragment") \/ At(r, "countMatched")
Held(r) == ClaimKey(task[r].msg)
CountedClaims ==
  {c \in claims : /\ c.topic = "analyzed" /\ c.blob \in Fragmented
                  /\ \A r \in Router : Holding(r) => Held(r) # c}

AtMost(S, n) == IsFiniteSet(S) /\ Cardinality(S) <= n

MatchedInv ==
  /\ IsFiniteSet(claims) /\ IsFiniteSet(Fragmented)
  /\ \A r \in Router : Holding(r) => Held(r) \in claims
  /\ \A q, r \in Router : Holding(q) /\ Holding(r) /\ Held(q) = Held(r) => q = r
  /\ \A r \in Router : At(r, "countMatched") => task[r].msg.blob \in Fragmented
  /\ matched <= Cardinality(CountedClaims)
  /\ \E D : AtMost(D, faults) /\ Lettered(D)

(* Who holds a claim after a step has held it before, or has just made it. *)
LEMMA HoldingAfter ==
  ASSUME TypeOK, MatchedInv, NEW r \in Router, Work(r) \/ Deliver(r) \/ Trouble(r),
         NEW q \in Router, Holding(q)'
  PROVE  \/ Holding(q) /\ Held(q)' = Held(q)
         \/ q = r /\ ClaimMessage(r) /\ Held(r)' \notin claims /\ Held(r)' \in claims'
<1>1. CASE task'[q] = task[q]
  BY <1>1 DEF Holding, Held, At
<1>2. CASE task' # task /\ q = r /\ task'[r].at = "countMatched"
  <2>1. PutFragment(r)
    BY <1>2, Arrivals
  <2>2. Holding(r) /\ task'[r].msg = task[r].msg
    BY <2>1, GotoIsMove DEF PutFragment, Moves, Holding
  <2>3. QED
    BY <1>2, <2>2 DEF Held, ClaimKey
<1>3. CASE task' # task /\ q = r /\ task'[r].at = "putFragment"
  <2>1. ClaimMessage(r)
    BY <1>3, ArrivalsToo
  <2>2. /\ task'[r].msg = task[r].msg /\ claims' = claims \cup {ClaimKey(task[r].msg)}
        /\ ClaimKey(task[r].msg) \notin claims
    BY <1>3, <2>1, GotoIsMove DEF ClaimMessage, Moves
  <2>3. QED
    BY <1>3, <2>1, <2>2 DEF Held, ClaimKey
<1>4. QED
  BY <1>1, <1>2, <1>3, Arrivals DEF Holding, At

(* Every step of a router keeps matched_children behind the spent claims.  *)
LEMMA MatchedStep ==
  ASSUME TypeOK, MatchedInv, NEW r \in Router, Work(r) \/ Deliver(r) \/ Trouble(r)
  PROVE  MatchedInv'
<1>1. claims \subseteq claims' /\ Fragmented \subseteq Fragmented'
  BY ReasonsAfter, ChildrenAfter
<1>2. IsFiniteSet(claims)' /\ IsFiniteSet(Fragmented)'
  <2>1. claims' = claims \/ claims' = claims \cup {ClaimKey(task[r].msg)}
    BY ArrivalsToo DEF ClaimMessage
  <2>2. Fragmented' = Fragmented \/ Fragmented' = Fragmented \cup {task[r].msg.blob}
    BY ChildrenAfter
  <2>3. /\ IsFiniteSet(claims) /\ IsFiniteSet(claims \cup {ClaimKey(task[r].msg)})
        /\ IsFiniteSet(Fragmented) /\ IsFiniteSet(Fragmented \cup {task[r].msg.blob})
    BY FS_AddElement DEF MatchedInv
  <2>4. QED
    BY <2>1, <2>2, <2>3
<1>3. \A q \in Router : Holding(q)' => Held(q)' \in claims'
  BY <1>1, HoldingAfter DEF MatchedInv
<1>4. \A p, q \in Router : Holding(p)' /\ Holding(q)' /\ Held(p)' = Held(q)' => p = q
  BY HoldingAfter DEF MatchedInv
<1>5. ASSUME NEW q \in Router, At(q, "countMatched")' PROVE task'[q].msg.blob \in Fragmented'
  <2>1. CASE task'[q] = task[q]
    BY <1>1, <1>5, <2>1 DEF MatchedInv, At
  <2>2. CASE q = r /\ task' # task
    <3>1. PutFragment(r)
      BY <1>5, <2>2, Arrivals DEF At
    <3>2. task'[r].msg = task[r].msg
      BY <3>1, GotoIsMove DEF PutFragment, Moves
    <3>3. Fragmented' = Fragmented \cup {task[r].msg.blob}
      BY <3>1, ChildrenAfter DEF PutFragment, PutChild, At
    <3>4. QED
      BY <2>2, <3>2, <3>3
  <2>3. QED
    BY <2>1, <2>2, Arrivals
<1>6. CountedClaims \subseteq CountedClaims'
  <2>1. ASSUME NEW c \in CountedClaims, NEW q \in Router, Holding(q)' PROVE Held(q)' # c
    BY <2>1, HoldingAfter DEF CountedClaims
  <2>2. QED
    BY <1>1, <2>1 DEF CountedClaims
<1>7. /\ IsFiniteSet(CountedClaims) /\ IsFiniteSet(CountedClaims')
      /\ Cardinality(CountedClaims) \in Nat /\ Cardinality(CountedClaims') \in Nat
      /\ Cardinality(CountedClaims) <= Cardinality(CountedClaims')
  <2>1. CountedClaims \subseteq claims /\ CountedClaims' \subseteq claims'
    BY DEF CountedClaims
  <2>2. IsFiniteSet(CountedClaims) /\ IsFiniteSet(CountedClaims')
    BY <1>2, <2>1, FS_Subset DEF MatchedInv
  <2>3. QED
    BY <1>6, <2>2, FS_Subset, FS_CardinalityType
<1>8. (matched <= Cardinality(CountedClaims))'
  <2>1. CASE CountMatched(r)
    <3>1. PICK c : c = Held(r)
      OBVIOUS
    <3>2. /\ At(r, "countMatched") /\ Holding(r) /\ matched' = matched + 1
          /\ task'[r].at = "emitMatched"
      BY <2>1, GotoIsMove DEF CountMatched, Holding
    <3>3. task[r].msg.topic = "analyzed"
      BY <3>2, Dispatch
    <3>4. c \in claims /\ c.topic = "analyzed" /\ c.blob \in Fragmented
      BY <3>1, <3>2, <3>3 DEF MatchedInv, Held, ClaimKey
    <3>5. c \notin CountedClaims
      BY <3>1, <3>2 DEF CountedClaims
    <3>6. ASSUME NEW q \in Router, Holding(q)' PROVE Held(q)' # c
      <4>1. q # r
        BY <3>2, <3>6 DEF Holding, At
      <4>2. Holding(q) /\ Held(q)' = Held(q)
        BY <3>6, <4>1, HoldingAfter
      <4>3. QED
        BY <3>1, <3>2, <4>1, <4>2 DEF MatchedInv
    <3>7. c \in CountedClaims'
      BY <1>1, <3>4, <3>6 DEF CountedClaims
    <3>8. CountedClaims \cup {c} \subseteq CountedClaims'
      BY <1>6, <3>7
    <3>9. Cardinality(CountedClaims \cup {c}) = Cardinality(CountedClaims) + 1
      BY <1>7, <3>5, FS_AddElement
    <3>10. Cardinality(CountedClaims \cup {c}) <= Cardinality(CountedClaims')
      BY <1>7, <3>8, FS_Subset
    <3>11. QED
      BY <1>7, <3>2, <3>9, <3>10 DEF MatchedInv, TypeOK
  <2>2. CASE ~CountMatched(r)
    <3>1. matched' = matched /\ matched \in Nat
      BY <2>2, Effects DEF TypeOK
    <3>2. QED
      BY <1>7, <3>1 DEF MatchedInv
  <2>3. QED
    BY <2>1, <2>2
<1>9. \E D : AtMost(D, faults') /\ Lettered(D)'
  <2>1. PICK D : AtMost(D, faults) /\ Lettered(D)
    BY DEF MatchedInv
  <2>2. Cardinality(D) \in Nat /\ faults \in Nat
    BY <2>1, FS_CardinalityType DEF AtMost, TypeOK
  <2>3. CASE Fail(r) \/ TripDefence(r) \/ LateRaise(r)
    <3>1. PICK E : E = D \cup {task[r].msg.blob}
      OBVIOUS
    <3>2. faults' = faults + 1
      BY <2>3 DEF Fail, TripDefence, LateRaise
    <3>3. AtMost(E, faults')
      BY <2>1, <2>2, <3>1, <3>2, FS_AddElement DEF AtMost
    <3>4. Lettered(E) /\ task[r].msg.blob \in E
      BY <2>1, <3>1, LetteredGrows
    <3>5. QED
      BY <3>3, <3>4, LetteredStep
  <2>4. CASE ~(Fail(r) \/ TripDefence(r) \/ LateRaise(r))
    <3>1. AtMost(D, faults')
      BY <2>1, <2>2, ReasonsAfter DEF AtMost
    <3>2. QED
      BY <2>1, <2>4, <3>1, LetteredStep
  <2>5. QED
    BY <2>3, <2>4
<1>10. QED
  BY <1>2, <1>3, <1>4, <1>5, <1>8, <1>9 DEF MatchedInv

(* There are at most as many spent claims as children with a fragment, and *)
(* children whose record has been dead-lettered.                           *)
LEMMA ClaimsBounded ==
  ASSUME TypeOK, MatchedInv
  PROVE  matched <= Cardinality(Fragmented) + faults
<1>. DEFINE Plain == {c \in CountedClaims : c.hashed = FALSE}
            Hashed == {c \in CountedClaims : c.hashed = TRUE}
<1>1. PICK D : AtMost(D, faults) /\ Lettered(D)
  BY DEF MatchedInv
<1>2. \A c \in CountedClaims :
        /\ c = [topic |-> "analyzed", blob |-> c.blob, hashed |-> c.hashed]
        /\ c.hashed = TRUE \/ c.hashed = FALSE
        /\ c.blob \in Fragmented
  BY DEF CountedClaims, TypeOK, Claim
<1>3. IsFiniteSet(Plain) /\ Cardinality(Plain) <= Cardinality(Fragmented)
  <2>1. /\ \A c \in Plain : c.blob \in Fragmented
        /\ \A c, d \in Plain : c.blob = d.blob => c = d
    BY <1>2
  <2>. HIDE DEF Plain
  <2>2. [c \in Plain |-> c.blob] \in Injection(Plain, Fragmented)
    BY <2>1 DEF Injection, IsInjective
  <2>3. QED
    BY <2>2, FS_Injection DEF MatchedInv
<1>4. IsFiniteSet(Hashed) /\ Cardinality(Hashed) <= Cardinality(D)
  <2>1. \A c \in Hashed : c.blob \in D
    BY <1>1 DEF Lettered, CountedClaims
  <2>2. \A c, d \in Hashed : c.blob = d.blob => c = d
    BY <1>2
  <2>. HIDE DEF Hashed
  <2>3. [c \in Hashed |-> c.blob] \in Injection(Hashed, D)
    BY <2>1, <2>2 DEF Injection, IsInjective
  <2>4. QED
    BY <1>1, <2>3, FS_Injection DEF AtMost
<1>5. CountedClaims = Plain \cup Hashed /\ Plain \cap Hashed = {}
  BY <1>2
<1>. HIDE DEF Plain, Hashed
<1>6. Cardinality(CountedClaims) = Cardinality(Plain) + Cardinality(Hashed)
  <2>1. Cardinality({}) = 0
    BY FS_EmptySet
  <2>2. Cardinality(Plain) \in Nat /\ Cardinality(Hashed) \in Nat
    BY <1>3, <1>4, FS_CardinalityType
  <2>3. Cardinality(Plain \cup Hashed)
          = Cardinality(Plain) + Cardinality(Hashed) - Cardinality(Plain \cap Hashed)
    BY <1>3, <1>4, FS_Union
  <2>4. Cardinality(Plain \cap Hashed) = 0
    BY <1>5, <2>1, Zenon
  <2>5. Cardinality(CountedClaims) = Cardinality(Plain \cup Hashed)
    BY <1>5, Zenon
  <2>6. ASSUME NEW p, NEW h, NEW u, NEW c, p \in Nat, h \in Nat, c = 0, u = p + h - c
        PROVE  u = p + h
    BY <2>6
  <2>7. Cardinality(Plain \cup Hashed) = Cardinality(Plain) + Cardinality(Hashed)
    BY <2>2, <2>3, <2>4, <2>6, Zenon
  <2>8. QED
    BY <2>5, <2>7, Zenon
<1>7. /\ Cardinality(Plain) \in Nat /\ Cardinality(Hashed) \in Nat
      /\ Cardinality(D) \in Nat /\ Cardinality(Fragmented) \in Nat
  BY <1>1, <1>3, <1>4, FS_CardinalityType DEF AtMost, MatchedInv
<1>8. QED
  BY <1>1, <1>3, <1>4, <1>6, <1>7 DEF MatchedInv, AtMost, TypeOK

(* Whatever fails, crashes, is redelivered and is replayed, in any topology*)
(* and with either report store: total_children never exceeds the children *)
(* put, and matched_children exceeds the children with a fragment by one   *)
(* for each failing call at most (idempotency.py:4-28).                    *)
THEOREM CountersBounded == Spec => []CountersCountChildren
<1>1. Init => ChildrenInv /\ MatchedInv
  <2>1. SUFFICES ASSUME Init PROVE ChildrenInv /\ MatchedInv
    OBVIOUS
  <2>2. IsFiniteSet({}) /\ Cardinality({}) = 0
    BY FS_EmptySet
  <2>3. Unpacked = {} /\ Fragmented = {} /\ Found = {} /\ CountedClaims = {}
    BY <2>1 DEF Init, Unpacked, Fragmented, Found, CountedClaims
  <2>4. \A r \in Router : ~At(r, "countTotal") /\ ~At(r, "countMatched") /\ ~Holding(r)
    BY <2>1 DEF Init, At, Holding, Idle
  <2>5. Lettered({})
    BY <2>1, JobMsgType
       DEF Init, Lettered, Letters, Within, ReplayedIn, At, Idle, JobMsg, Msg, Topic,
           Routed, FanOut
  <2>6. total = 0 /\ matched = 0 /\ faults = 0 /\ claims = {}
    BY <2>1 DEF Init
  <2>7. ChildrenInv
    BY <2>2, <2>3, <2>4, <2>6 DEF ChildrenInv
  <2>8. MatchedInv
    BY <2>2, <2>3, <2>4, <2>5, <2>6 DEF MatchedInv, AtMost
  <2>9. QED
    BY <2>7, <2>8
<1>2. TypeOK /\ ChildrenInv /\ MatchedInv /\ [Next]_vars => ChildrenInv' /\ MatchedInv'
  <2>1. SUFFICES ASSUME TypeOK, ChildrenInv, MatchedInv, [Next]_vars
                 PROVE  ChildrenInv' /\ MatchedInv'
    OBVIOUS
  <2>2. CASE Replay \/ UNCHANGED vars
    <3>1. UNCHANGED <<task, claims, objects, total, matched, faults>>
      BY <2>2 DEF Replay, vars, redis, stores, budget
    <3>2. /\ Unpacked' = Unpacked /\ Fragmented' = Fragmented
          /\ Found' = Found /\ CountedClaims' = CountedClaims
      BY <3>1 DEF Unpacked, Fragmented, Found, CountedClaims, At, Holding, Held
    <3>3. ASSUME NEW D, Lettered(D) PROVE Lettered(D)'
      <4>1. CASE Replay
        <5>1. PICK m \in dlq : /\ dlq' = dlq \ {m}
                               /\ pending' = pending \cup {[m EXCEPT !.try = @ + 1]}
          BY <4>1 DEF Replay
        <5>2. m \in LetteredIn(D)
          BY <3>3 DEF Lettered, Letters
        <5>3. [m EXCEPT !.try = @ + 1] \in ReplayedIn(D)
          BY <5>2 DEF LetteredIn, ReplayedIn, Message
        <5>4. UNCHANGED outbox
          BY <4>1 DEF Replay
        <5>5. QED
          BY <3>1, <3>3, <5>1, <5>3, <5>4 DEF Lettered, Letters, Within, At
      <4>2. CASE UNCHANGED vars
        BY <3>3, <4>2 DEF vars, kafka, redis, Lettered, Letters, Within, At
      <4>3. QED
        BY <2>2, <4>1, <4>2
    <3>4. ChildrenInv'
      BY <2>1, <3>1, <3>2 DEF ChildrenInv, At
    <3>5. MatchedInv'
      BY <2>1, <3>1, <3>2, <3>3 DEF MatchedInv, Holding, Held, At
    <3>6. QED
      BY <3>4, <3>5
  <2>3. QED
    BY <2>1, <2>2, ChildrenStep, MatchedStep DEF Next
<1>3. TypeOK /\ ChildrenInv /\ MatchedInv => CountersCountChildren
  <2>1. SUFFICES ASSUME TypeOK, ChildrenInv, MatchedInv PROVE CountersCountChildren
    OBVIOUS
  <2>2. Found \subseteq Unpacked
    BY DEF Found
  <2>3. IsFiniteSet(Found) /\ Cardinality(Found) <= Cardinality(Unpacked)
    BY <2>1, <2>2, FS_Subset DEF ChildrenInv
  <2>4. Cardinality(Found) \in Nat /\ Cardinality(Unpacked) \in Nat
    BY <2>1, <2>3, FS_CardinalityType DEF ChildrenInv
  <2>5. total <= Cardinality(Unpacked)
    BY <2>1, <2>3, <2>4 DEF ChildrenInv, TypeOK
  <2>6. QED
    BY <2>1, <2>5, ClaimsBounded DEF CountersCountChildren
<1>4. QED
  BY <1>1, <1>2, <1>3, TypeCorrect, PTL DEF Spec

-----------------------------------------------------------------------------
(***************************************************************************)
(* The gate opens for the whole of the firmware.  completion_ready reads   *)
(* the total before the marker; where one router both unpacks and          *)
(* aggregates (docker-compose.yml), the total it has read cannot be out of *)
(* date, and once the gate has opened nothing is left to unpack or match.  *)
(***************************************************************************)
OneUnpacksAndAggregates ==
  \E r \in Router : \A q \in Router : Serves[q] \cap {"triaged", "matched"} # {} => q = r

Everyone == marker /\ Unpacked # {} /\ Ready = Unpacked

PastGate(r) == At(r, "readPartial") \/ At(r, "listFragments") \/ At(r, "finalize")

GateInv ==
  /\ \A r \in Router :
       /\ At(r, "readMarker") \/ At(r, "readMatched") => task[r].tot = total /\ total # 0
       /\ At(r, "readMatched") => marker
       /\ PastGate(r) => Everyone
       /\ At(r, "finalize") => task[r].comps = Unpacked
  /\ report.status = "COMPLETE" => Everyone /\ report.comps = Unpacked

(* Children that are ready have been counted.                              *)
LEMMA ReadyIsFound ==
  ASSUME CountersInv
  PROVE  Ready \subseteq Found
<1>1. ASSUME NEW b \in Ready PROVE b \in Found
  <2>1. b \in Blob /\ b \in Fragmented /\ b \in Unpacked
    BY DEF Ready, Fragmented, CountersInv
  <2>2. Naming(b) = {}
    BY <2>1 DEF CountersInv, PieceInv
  <2>3. \A q \in Router : At(q, "countTotal") => task[q].blob # b
    BY <2>2 DEF Naming, At
  <2>4. QED
    BY <2>1, <2>3 DEF Found
<1>2. QED
  BY <1>1

(* While the one router aggregates, nobody unpacks.                        *)
LEMMA NobodyUnpacks ==
  ASSUME TypeOK, HeldInv, OneUnpacksAndAggregates, NEW r \in Router,
         At(r, "readTotal") \/ At(r, "readMarker") \/ At(r, "readMatched"),
         NEW q \in Router
  PROVE  ~At(q, "countTotal")
<1>1. SUFFICES ASSUME At(q, "countTotal") PROVE FALSE
  OBVIOUS
<1>2. task[q].msg.topic = "triaged" /\ task[r].msg.topic = "matched"
  BY <1>1, Dispatch
<1>3. "triaged" \in Serves[q] /\ "matched" \in Serves[r]
  BY <1>1, <1>2 DEF HeldInv, Busy, At
<1>4. q = r
  BY <1>3 DEF OneUnpacksAndAggregates
<1>5. QED
  BY <1>2, <1>4

(* Once every child is ready, that does not change.                        *)
LEMMA EveryoneStays ==
  ASSUME TypeOK, HeldInv, MarkerInv, CountersInv, Everyone, NEW r \in Router,
         Work(r) \/ Deliver(r) \/ Trouble(r), ~Crash(r), ~Fail(r), ~LateRaise(r)
  PROVE  Everyone' /\ Unpacked' = Unpacked /\ Fragmented = Unpacked
<1>1. Fragmented = Unpacked
  BY FiniteChildren DEF Everyone, CountersInv
<1>2. ~PutChild(r)
  BY UnpackSpot DEF Everyone, PutChild
<1>3. Unpacked' = Unpacked
  BY <1>2, ChildrenAfter
<1>4. Ready' = Ready
  <2>1. CountMatched(r) => task[r].msg.blob \in Fragmented \ Ready
    BY ReadyAfter
  <2>2. QED
    BY <1>1, <2>1, ReadyAfter DEF Everyone
<1>5. marker'
  BY Effects DEF Everyone, SetMarker
<1>6. QED
  BY <1>1, <1>3, <1>4, <1>5 DEF Everyone

(* A gate that finds as many matches as children finds every child ready.  *)
LEMMA GateOpens ==
  ASSUME TypeOK, HeldInv, CountersInv, GateInv, OneUnpacksAndAggregates, NEW r \in Router,
         ReadMatched(r), matched >= task[r].tot
  PROVE  Everyone
<1>1. task[r].tot = total /\ total # 0 /\ marker
  BY DEF ReadMatched, GateInv
<1>2. Found = Unpacked
  BY NobodyUnpacks DEF ReadMatched, Found
<1>3. Ready = Found
  <2>1. Ready \subseteq Found /\ IsFiniteSet(Found)
    BY ReadyIsFound, FiniteChildren
  <2>2. Cardinality(Ready) <= Cardinality(Found)
    BY <2>1, FS_Subset
  <2>3. Cardinality(Ready) = Cardinality(Found)
    BY <1>1, <2>2, FiniteChildren DEF CountersInv
  <2>4. QED
    BY <2>1, <2>3, FS_Subset
<1>4. Unpacked # {}
  BY <1>1, <1>2, FS_EmptySet DEF CountersInv
<1>5. QED
  BY <1>1, <1>2, <1>3, <1>4 DEF Everyone

(* While nothing fails or crashes, every step of a router keeps it.        *)
LEMMA GateStep ==
  ASSUME TypeOK, HeldInv, MarkerInv, CountersInv, GateInv, OneUnpacksAndAggregates,
         NEW r \in Router, Work(r) \/ Deliver(r) \/ Trouble(r), ~Crash(r), ~Fail(r), ~LateRaise(r)
  PROVE  GateInv'
<1>1. Everyone => Everyone' /\ Unpacked' = Unpacked /\ Fragmented = Unpacked
  BY EveryoneStays
<1>2. task[r] \in Task /\ \A q \in Router : q # r => task'[q] = task[q]
  BY Arrivals DEF TypeOK
<1>3. ASSUME NEW q \in Router, At(q, "readTotal") \/ At(q, "readMarker") \/ At(q, "readMatched")
      PROVE  total' = total
  BY <1>3, NobodyUnpacks, WhoTells DEF CountTotal
<1>4. ASSUME NEW q \in Router
      PROVE  (/\ At(q, "readMarker") \/ At(q, "readMatched") => task[q].tot = total /\ total # 0
              /\ At(q, "readMatched") => marker
              /\ PastGate(q) => Everyone
              /\ At(q, "finalize") => task[q].comps = Unpacked)'
  <2>1. CASE task'[q] = task[q]
    <3>1. marker => marker'
      BY Effects DEF SetMarker
    <3>2. PastGate(q) => Everyone
      BY DEF GateInv
    <3>3. At(q, "finalize") => Everyone /\ task[q].comps = Unpacked
      BY DEF GateInv, PastGate
    <3>4. At(q, "readMarker") \/ At(q, "readMatched") => task[q].tot = total /\ total # 0 /\ total' = total
      BY <1>3 DEF GateInv
    <3>5. At(q, "readMatched") => marker
      BY DEF GateInv
    <3>6. QED
      BY <1>1, <2>1, <3>1, <3>2, <3>3, <3>4, <3>5 DEF PastGate, At
  <2>2. CASE q = r /\ ReadTotal(r)
    <3>1. task'[r].tot = total /\ task'[r].at = IF total = 0 THEN "commit" ELSE "readMarker"
      BY <1>2, <2>2 DEF ReadTotal, TypeOK, Task
    <3>2. total' = total
      BY <2>2 DEF ReadTotal, redis
    <3>3. QED
      BY <2>2, <3>1, <3>2 DEF PastGate, At
  <2>3. CASE q = r /\ ReadMarker(r)
    <3>1. PICK s : Goto(r, s) /\ s \in {"readMatched", "commit"} /\ (s = "readMatched" => marker)
      BY <2>3 DEF ReadMarker
    <3>2. task'[r].at = s /\ task'[r].tot = task[r].tot
      BY <1>2, <3>1 DEF Goto, TypeOK, Task
    <3>3. task[r].tot = total /\ total # 0
      BY <2>3 DEF ReadMarker, GateInv
    <3>4. UNCHANGED <<total, marker>>
      BY <2>3 DEF ReadMarker, redis
    <3>5. QED
      BY <2>3, <3>1, <3>2, <3>3, <3>4 DEF PastGate, At
  <2>4. CASE q = r /\ ReadMatched(r)
    <3>1. PICK s : Goto(r, s) /\ s \in {"readPartial", "commit"}
                   /\ (s = "readPartial" => matched >= task[r].tot)
      BY <2>4 DEF ReadMatched
    <3>2. task'[r].at = s
      BY <3>1, GotoIsMove
    <3>3. s = "readPartial" => Everyone
      BY <2>4, <3>1, GateOpens
    <3>4. QED
      BY <1>1, <2>4, <3>1, <3>2, <3>3 DEF PastGate, At
  <2>5. CASE q = r /\ ReadPartial(r)
    <3>1. task'[r].at = "listFragments"
      BY <1>2, <2>5 DEF ReadPartial, TypeOK, Task
    <3>2. Everyone
      BY <2>5 DEF ReadPartial, GateInv, PastGate
    <3>3. QED
      BY <1>1, <2>5, <3>1, <3>2 DEF PastGate, At
  <2>6. CASE q = r /\ ListFragments(r)
    <3>1. task'[r].at = "finalize" /\ task'[r].comps = Fragmented
      BY <1>2, <2>6 DEF ListFragments, TypeOK, Task, Fragmented
    <3>2. Everyone
      BY <2>6 DEF ListFragments, GateInv, PastGate
    <3>3. QED
      BY <1>1, <2>6, <3>1, <3>2 DEF PastGate, At
  <2>7. CASE /\ q = r /\ task' # task
             /\ ~ReadTotal(r) /\ ~ReadMarker(r) /\ ~ReadMatched(r) /\ ~ReadPartial(r)
             /\ ~ListFragments(r)
    <3>1. task'[r].at \notin {"readMarker", "readMatched", "readPartial", "listFragments", "finalize"}
      BY <2>7, Arrivals
    <3>2. QED
      BY <2>7, <3>1 DEF PastGate, At
  <2>8. QED
    BY <1>2, <2>1, <2>2, <2>3, <2>4, <2>5, <2>6, <2>7
<1>5. (report.status = "COMPLETE" => Everyone /\ report.comps = Unpacked)'
  <2>1. CASE report' = report
    BY <1>1, <2>1 DEF GateInv
  <2>2. CASE RecordSubBlob(r)
    <3>1. report'.comps = report.comps /\ (report'.status = "COMPLETE" => report.status = "COMPLETE")
      BY <2>2 DEF RecordSubBlob, TypeOK, Report
    <3>2. QED
      BY <1>1, <3>1 DEF GateInv
  <2>3. CASE Finalize(r)
    <3>1. Everyone /\ task[r].comps = Unpacked
      BY <2>3 DEF Finalize, GateInv, PastGate
    <3>2. report' = report \/ report'.comps = task[r].comps
      BY <2>3 DEF Finalize, TypeOK, Report
    <3>3. QED
      BY <1>1, <2>1, <3>1, <3>2
  <2>4. QED
    BY <2>1, <2>2, <2>3, Effects
<1>6. QED
  BY <1>4, <1>5 DEF GateInv

(* The gate invariant in every state before the first failure or crash.    *)
THEOREM GateCorrect ==
  ASSUME OneUnpacksAndAggregates
  PROVE  Spec => [](Calm => GateInv)
<1>. DEFINE Inv == Calm => GateInv
<1>1. Init => Inv
  BY DEF Init, GateInv, At, PastGate, Idle
<1>2. TypeOK /\ HeldInv /\ (Calm => MarkerInv) /\ (Calm => CountersInv)
        /\ Inv /\ [Next]_vars => Inv'
  <2>1. SUFFICES ASSUME TypeOK, HeldInv, Calm => MarkerInv, Calm => CountersInv,
                        Inv, [Next]_vars, Calm'
                 PROVE  GateInv'
    OBVIOUS
  <2>2. /\ MarkerInv /\ CountersInv /\ GateInv
        /\ \A r \in Router : ~Crash(r) /\ ~Fail(r) /\ ~LateRaise(r)
    BY <2>1, Budget DEF Calm
  <2>3. CASE UNCHANGED <<task, total, marker, objects, report>>
    <3>1. Unpacked' = Unpacked /\ Ready' = Ready
      BY <2>3 DEF Unpacked, Ready, Fragmented, At
    <3>2. QED
      BY <2>2, <2>3, <3>1 DEF GateInv, Everyone, PastGate, At
  <2>4. Replay \/ UNCHANGED vars => UNCHANGED <<task, total, marker, objects, report>>
    BY DEF Replay, vars, redis, stores
  <2>5. QED
    BY <2>1, <2>2, <2>3, <2>4, GateStep DEF Next
<1>3. QED
  BY <1>1, <1>2, TypeCorrect, HeldCorrect, AcceptedOnce, CountersExact, PTL DEF Spec

(* Where one router unpacks and aggregates, whoever analyses and matches:  *)
(* as long as no call has failed and no process has crashed, a final report*)
(* means that extraction is over, that every child of the firmware has been*)
(* matched, and that the SBOM lists the components of every one of them    *)
(* (aggregator.py:6-7 and 119).                                            *)
THEOREM GateIsSound ==
  ASSUME OneUnpacksAndAggregates
  PROVE  Spec => [](Calm => GateSound)
<1>1. (Calm => CountersInv) /\ (Calm => GateInv) => (Calm => GateSound)
  <2>1. SUFFICES ASSUME CountersInv, GateInv, report.status = "COMPLETE"
                 PROVE  /\ marker /\ Cardinality(Fragmented) = total
                        /\ Unpacked = Fragmented /\ report.comps = Unpacked
    BY DEF GateSound
  <2>2. marker /\ Ready = Unpacked /\ report.comps = Unpacked
    BY <2>1 DEF GateInv, Everyone
  <2>3. Found = Unpacked /\ Fragmented = Unpacked
    BY <2>1, <2>2, FiniteChildren, ReadyIsFound DEF CountersInv
  <2>4. QED
    BY <2>1, <2>2, <2>3 DEF CountersInv
<1>2. QED
  BY <1>1, CountersExact, GateCorrect, PTL

-----------------------------------------------------------------------------
(***************************************************************************)
(* The promise.  Every step of the pipeline is a step of JobReport or none.*)
(***************************************************************************)
(* A step that leaves all JobReport speaks of alone.                       *)
LEMMA PromiseStutter ==
  ASSUME Found' = Found, Ready' = Ready, marker' = marker,
         report'.status = "COMPLETE" <=> report.status = "COMPLETE",
         report'.comps = report.comps, announced' = announced
  PROVE  UNCHANGED Promise!vars
BY DEF Promise!vars

(* Counting a child discovers it, the marker closes the job, counting a    *)
(* match makes a child ready, the winner of finalize assembles the report  *)
(* and announces it; nothing else shows.                                   *)
LEMMA PromiseStep ==
  ASSUME TypeOK, HeldInv, CompletionInv, MarkerInv, CountersInv, GateInv,
         NEW r \in Router, Work(r) \/ Deliver(r) \/ Trouble(r), ~Crash(r), ~Fail(r), ~LateRaise(r)
  PROVE  [Promise!Next]_(Promise!vars)
<1>. USE DEF Promise!Next, Promise!vars
<1>1. CASE CountTotal(r)
  <2>1. task[r].blob \in Unpacked \ Found /\ Found' = Found \cup {task[r].blob} /\ ~marker
    BY <1>1, FoundAfter, UnpackSpot DEF CountTotal
  <2>2. Ready' = Ready
    BY <1>1, ReadyAfter DEF CountTotal, CountMatched, At
  <2>3. UNCHANGED <<marker, report, announced>>
    BY <1>1 DEF CountTotal, stores
  <2>4. Promise!Discover(task[r].blob)
    BY <2>1, <2>2, <2>3 DEF Promise!Discover
  <2>5. QED
    BY <2>1, <2>4 DEF Unpacked
<1>2. CASE CountMatched(r)
  <2>1. task[r].msg.blob \in Fragmented \ Ready /\ Ready' = Ready \cup {task[r].msg.blob}
    BY <1>2, ReadyAfter
  <2>2. Found' = Found
    BY <1>2, FoundAfter DEF CountTotal, CountMatched, At
  <2>3. UNCHANGED <<marker, report, announced>>
    BY <1>2 DEF CountMatched, stores
  <2>4. task[r].msg.blob \in Found
    <3>1. task[r].msg.blob \in Blob /\ task[r].msg.blob \in Unpacked
      BY <2>1 DEF Fragmented, CountersInv
    <3>2. Naming(task[r].msg.blob) = {}
      BY <2>1, <3>1 DEF CountersInv, PieceInv
    <3>3. QED
      BY <3>1, <3>2 DEF Found, Naming, At
  <2>5. Promise!Match(task[r].msg.blob)
    BY <2>1, <2>2, <2>3, <2>4 DEF Promise!Match
  <2>6. QED
    BY <2>1, <2>5 DEF Fragmented
<1>. DEFINE quiet == ~CountTotal(r) /\ ~CountMatched(r)
<1>3. quiet => Found' = Found /\ Ready' = Ready
  BY FoundAfter, ReadyAfter
<1>4. CASE SetMarker(r)
  <2>1. quiet /\ ~marker /\ marker' /\ UNCHANGED <<report, announced>>
    BY <1>4, UnpackSpot DEF SetMarker, CountTotal, CountMatched, At, stores
  <2>2. Promise!Close
    BY <1>3, <2>1 DEF Promise!Close, MarkerInv
  <2>3. QED
    BY <2>2
<1>5. CASE Finalize(r)
  <2>1. quiet /\ UNCHANGED <<marker, announced>>
    BY <1>5 DEF Finalize, CountTotal, CountMatched, At, redis
  <2>2. CASE report' = report
    BY <1>3, <2>1, <2>2, PromiseStutter
  <2>3. CASE report' # report
    <3>1. FinalizeOutcome(report.status) = "won"
      BY <1>5, <2>3 DEF Finalize
    <3>2. report.status # "COMPLETE" /\ report'.status = "COMPLETE" /\ report'.comps = task[r].comps
      BY <1>5, <3>1 DEF Finalize, FinalizeOutcome, TypeOK, Report
    <3>3. Everyone /\ task[r].comps = Unpacked
      BY <1>5 DEF Finalize, GateInv, PastGate
    <3>4. Found = Unpacked /\ Ready = Found
      BY <3>3, FiniteChildren, ReadyIsFound DEF Everyone
    <3>5. Promise!Assemble
      BY <1>3, <2>1, <3>2, <3>3, <3>4 DEF Promise!Assemble, Everyone
    <3>6. QED
      BY <3>5
  <2>4. QED
    BY <2>2, <2>3
<1>6. CASE EmitCompleted(r)
  <2>1. quiet /\ UNCHANGED <<marker, report>> /\ announced' = announced + 1
    BY <1>6 DEF EmitCompleted, CountTotal, CountMatched, At, redis, stores
  <2>2. announced = 0 /\ report.status = "COMPLETE"
    BY <1>6 DEF EmitCompleted, CompletionInv, WinnerFirst, Winning, WinnerSteps, At
  <2>3. Promise!Announce
    BY <1>3, <2>1, <2>2 DEF Promise!Announce
  <2>4. QED
    BY <2>3
<1>7. CASE quiet /\ ~SetMarker(r) /\ ~Finalize(r) /\ ~EmitCompleted(r)
  <2>1. UNCHANGED <<marker, announced>>
    BY <1>7, Effects
  <2>2. report' = report \/ RecordSubBlob(r)
    BY <1>7, Effects
  <2>3. /\ report'.status = "COMPLETE" <=> report.status = "COMPLETE"
        /\ report'.comps = report.comps
    BY <2>2 DEF RecordSubBlob, TypeOK, Report
  <2>4. QED
    BY <1>3, <1>7, <2>1, <2>3, PromiseStutter
<1>8. QED
  BY <1>1, <1>2, <1>4, <1>5, <1>6, <1>7

(* Where the bounds allow no failure and no crash there is none.           *)
LEMMA AlwaysCalm ==
  ASSUME MaxFaults = 0, MaxCrashes = 0
  PROVE  Spec => []Calm
<1>1. Init => Calm
  BY DEF Init, Calm
<1>2. Calm /\ [Next]_vars => Calm'
  <2>1. SUFFICES ASSUME Calm, [Next]_vars PROVE Calm'
    OBVIOUS
  <2>2. CASE UNCHANGED budget
    BY <2>1, <2>2 DEF Calm, budget
  <2>3. ASSUME NEW r \in Router, Work(r) \/ Deliver(r) \/ Trouble(r)
        PROVE  UNCHANGED budget
    <3>1. ~(faults < MaxFaults) /\ ~(crashes < MaxCrashes)
      BY <2>1 DEF Calm
    <3>2. QED
      BY <2>3, <3>1, ZenonT(60)
         DEF Work, Loop, HandleTriage, HandleUnpack, HandleAnalysis, HandleCveMatch, Gate,
         FinalizeJob, Trouble, Poll, ClaimMessage, SendDlq, Commit, Deliver, Fail,
         SendDlqFails, TripDefence, LateRaise, Crash, Triage, EmitTriaged, EmitReject, PutChild,
         CountTotal, EmitExtracted, SetMarker, Analyze, CountCompleted, EmitAnalyzed,
         PutFragment, CountMatched, EmitMatched, RecordSubBlob, ReadTotal, ReadMarker,
         ReadMatched, ReadPartial, ListFragments, Finalize, PutSbom, PutReport,
         MarkJob, EmitCompleted, budget
  <2>4. QED
    BY <2>1, <2>2, <2>3 DEF Next, Replay, vars, budget
<1>3. QED
  BY <1>1, <1>2, PTL DEF Spec

(* Where one router unpacks and aggregates, and while nothing fails or     *)
(* crashes, the pipeline implements JobReport: children are found, each is *)
(* matched, and one report of all of them is assembled and announced, in   *)
(* that order (unpack.py:44-60, cve_match.py:46-60, aggregator.py:101-164).*)
THEOREM StagesKeepPromise ==
  ASSUME OneUnpacksAndAggregates, MaxFaults = 0, MaxCrashes = 0
  PROVE  Spec => ImplementsJobReport
<1>1. Init => Promise!Init
  BY DEF Init, Promise!Init, Found, Ready, Unpacked, Fragmented, At
<1>2. TypeOK /\ HeldInv /\ CompletionInv /\ (Calm => MarkerInv)
        /\ (Calm => CountersInv) /\ (Calm => GateInv) /\ Calm /\ Calm' /\ [Next]_vars
      => [Promise!Next]_(Promise!vars)
  <2>1. SUFFICES ASSUME TypeOK, HeldInv, CompletionInv, MarkerInv, CountersInv, GateInv,
                        Calm', [Next]_vars
                 PROVE  [Promise!Next]_(Promise!vars)
    BY DEF Calm
  <2>2. \A r \in Router : ~Crash(r) /\ ~Fail(r) /\ ~LateRaise(r)
    BY <2>1, Budget
  <2>3. CASE UNCHANGED <<task, marker, objects, report, announced>>
    <3>1. Found' = Found /\ Ready' = Ready
      BY <2>3 DEF Found, Ready, Unpacked, Fragmented, At
    <3>2. QED
      BY <2>3, <3>1, PromiseStutter
  <2>4. Replay \/ UNCHANGED vars => UNCHANGED <<task, marker, objects, report, announced>>
    BY DEF Replay, vars, redis, stores
  <2>5. QED
    BY <2>1, <2>2, <2>3, <2>4, PromiseStep DEF Next
<1>3. Spec => []Calm
  BY AlwaysCalm
<1>4. QED
  BY <1>1, <1>2, <1>3, TypeCorrect, HeldCorrect, CompletionCorrect, AcceptedOnce,
     CountersExact, GateCorrect, PTL DEF Spec, ImplementsJobReport, Promise!Spec

-----------------------------------------------------------------------------
(***************************************************************************)
(* No child is lost on the way.  Its record is told of, waits unclaimed,   *)
(* is claimed by the one router that then does the stage's work, and the   *)
(* next record is queued before that router commits: at every moment one   *)
(* of these is true of a child that is not ready yet.                      *)
(***************************************************************************)
Waiting(m) ==
  /\ ClaimKey(m) \notin claims
  /\ m \in pending \/ \E r \in Router : [to |-> "topic", msg |-> m] \in outbox[r]
Doing(S, b) == \E r \in Router : task[r].at \in S /\ task[r].msg.blob = b
Unclaimed(T, b) == \A t \in T : ClaimKey(Msg(t, b)) \notin claims

Analysing == {"analyze", "countCompleted", "emitAnalyzed"}
Fragmenting == {"putFragment", "countMatched"}
Aggregating == {"record", "readTotal", "readMarker", "readMatched", "readPartial",
                "listFragments", "finalize"}

(* On the way to its match, and from its match to the report.              *)
Named(b) == Naming(b) # {} /\ Unclaimed(FanOut, b)
Extracted(b) ==
  (Waiting(Msg("extracted", b)) \/ Doing(Analysing, b)) /\ Unclaimed({"analyzed", "matched"}, b)
Analyzed(b) ==
  (Waiting(Msg("analyzed", b)) \/ Doing(Fragmenting, b)) /\ Unclaimed({"matched"}, b)
Early(b) == Named(b) \/ Extracted(b) \/ Analyzed(b)
Late(b) ==
  \/ Doing({"emitMatched"}, b) /\ Unclaimed({"matched"}, b)
  \/ Waiting(Msg("matched", b)) \/ Doing(Aggregating, b)

(* A record of firmware.matched is of a child that is ready.               *)
Arrived == {m \in Message : m.topic = "matched" => m.blob \in Ready}
ClaimsHeld ==
  \A r \in Router : task[r].at \notin {"idle", "claim"} => ClaimKey(task[r].msg) \in claims

TravelInv ==
  /\ ClaimsHeld
  /\ Within(Arrived)
  /\ \A r \in Router : At(r, "emitMatched") => task[r].msg.blob \in Ready
  /\ \A b \in Blob \ Unpacked : Unclaimed(FanOut, b)
  /\ \A b \in Unpacked \ Ready : Early(b)

(* Which steps take a router on, without a crash or a failing call.        *)
LEMMA Onward ==
  ASSUME TypeOK, NEW r \in Router, Work(r) \/ Deliver(r) \/ Trouble(r),
         ~Crash(r), ~Fail(r), ~TripDefence(r), ~LateRaise(r)
  PROVE  \/ task' = task
         \/ /\ At(r, "claim") => ClaimMessage(r)
            /\ At(r, "commit") => Commit(r)
            /\ At(r, "unpack") => PutChild(r) \/ SetMarker(r)
            /\ At(r, "analyze") => Analyze(r)
            /\ At(r, "countCompleted") => CountCompleted(r)
            /\ At(r, "emitAnalyzed") => EmitAnalyzed(r)
            /\ At(r, "putFragment") => PutFragment(r)
            /\ At(r, "emitMatched") => EmitMatched(r)
BY DEF Work, Loop, HandleTriage, HandleUnpack, HandleAnalysis, HandleCveMatch, Gate,
       FinalizeJob, Trouble, Poll, ClaimMessage, SendDlq, Commit, Deliver, SendDlqFails,
       Triage, EmitTriaged, EmitReject, PutChild, CountTotal, EmitExtracted,
       SetMarker, Analyze, CountCompleted, EmitAnalyzed, PutFragment, CountMatched,
       EmitMatched, RecordSubBlob, ReadTotal, ReadMarker, ReadMatched, ReadPartial,
       ListFragments, Finalize, PutSbom, PutReport, MarkJob, EmitCompleted, At

LEMMA OnwardGate ==
  ASSUME TypeOK, NEW r \in Router, Work(r) \/ Deliver(r) \/ Trouble(r),
         ~Crash(r), ~Fail(r), ~TripDefence(r), ~LateRaise(r)
  PROVE  \/ task' = task
         \/ /\ At(r, "record") => RecordSubBlob(r)
            /\ At(r, "readTotal") => ReadTotal(r)
            /\ At(r, "readMarker") => ReadMarker(r)
            /\ At(r, "readMatched") => ReadMatched(r)
            /\ At(r, "readPartial") => ReadPartial(r)
            /\ At(r, "listFragments") => ListFragments(r)
            /\ At(r, "finalize") => Finalize(r)
BY DEF Work, Loop, HandleTriage, HandleUnpack, HandleAnalysis, HandleCveMatch, Gate,
       FinalizeJob, Trouble, Poll, ClaimMessage, SendDlq, Commit, Deliver, SendDlqFails,
       Triage, EmitTriaged, EmitReject, PutChild, CountTotal, EmitExtracted,
       SetMarker, Analyze, CountCompleted, EmitAnalyzed, PutFragment, CountMatched,
       EmitMatched, RecordSubBlob, ReadTotal, ReadMarker, ReadMatched, ReadPartial,
       ListFragments, Finalize, PutSbom, PutReport, MarkJob, EmitCompleted, At

(* Only claim_message claims.                                              *)
LEMMA ClaimsAfter ==
  ASSUME NEW r \in Router, Work(r) \/ Deliver(r) \/ Trouble(r)
  PROVE  claims' = claims \/ ClaimMessage(r)
BY DEF Work, Loop, HandleTriage, HandleUnpack, HandleAnalysis, HandleCveMatch, Gate,
       FinalizeJob, Trouble, Poll, SendDlq, Commit, Deliver, Fail, SendDlqFails,
       TripDefence, LateRaise, Crash, Triage, EmitTriaged, EmitReject, PutChild, CountTotal,
       EmitExtracted, SetMarker, Analyze, CountCompleted, EmitAnalyzed, PutFragment,
       CountMatched, EmitMatched, RecordSubBlob, ReadTotal, ReadMarker, ReadMatched,
       ReadPartial, ListFragments, Finalize, PutSbom, PutReport, MarkJob,
       EmitCompleted, redis

(* A record that becomes claimed is in hand of the router that claims it,  *)
(* and that router starts on its handler.                                  *)
LEMMA ClaimTaken ==
  ASSUME TypeOK, NEW r \in Router, Work(r) \/ Deliver(r) \/ Trouble(r),
         NEW m \in Message, m.try = 0, ClaimKey(m) \notin claims, ClaimKey(m) \in claims'
  PROVE  /\ At(r, "claim") /\ task[r].msg = m
         /\ task'[r].at = FirstStep(m.topic) /\ task'[r].msg = m
<1>1. ClaimMessage(r)
  BY ClaimsAfter
<1>2. ClaimKey(m) = ClaimKey(task[r].msg)
  BY <1>1 DEF ClaimMessage
<1>3. task[r].msg \in Message
  BY TaskMessage
<1>4. task[r].msg.topic = m.topic /\ task[r].msg.blob = m.blob /\ ~(task[r].msg.try > 0)
  <2>1. (m.try > 0) = FALSE
    OBVIOUS
  <2>2. (task[r].msg.try > 0) = (m.try > 0)
    BY <1>2 DEF ClaimKey
  <2>3. QED
    BY <1>2, <2>1, <2>2 DEF ClaimKey
<1>5. task[r].msg = m
  BY <1>3, <1>4 DEF Message
<1>6. Goto(r, FirstStep(m.topic)) /\ At(r, "claim")
  BY <1>1, <1>2, <1>5 DEF ClaimMessage
<1>7. QED
  BY <1>5, <1>6, GotoIsMove DEF Moves

(* A record waits until a router claims it: a crash apart, only its holder *)
(* takes it off its topic, and a queue hands all it holds to the topics.   *)
LEMMA StaysWaiting ==
  ASSUME TypeOK, ClaimsHeld, NEW r \in Router, Work(r) \/ Deliver(r) \/ Trouble(r), ~Crash(r),
         NEW m \in Message, m.try = 0, Waiting(m), ClaimKey(m) \notin claims'
  PROVE  Waiting(m)'
<1>. DEFINE item == [to |-> "topic", msg |-> m]
<1>1. ASSUME m \in pending PROVE m \in pending'
  <2>1. CASE Commit(r)
    <3>1. task[r].msg # m
      BY <2>1 DEF Commit, At, ClaimsHeld, Waiting
    <3>2. QED
      BY <1>1, <2>1, <3>1 DEF Commit
  <2>2. CASE ~Commit(r)
    BY <1>1, <2>2, RouterStep DEF Poll, Deliver, SendDlq, Tells, Queues, Inside, GoesOn, kafka
  <2>3. QED
    BY <2>1, <2>2
<1>2. ASSUME NEW q \in Router, item \in outbox[q]
      PROVE  m \in pending' \/ item \in outbox'[q]
  <2>1. CASE Poll(r) \/ Commit(r) \/ Inside(r)
    BY <1>2, <2>1 DEF Poll, Commit, Inside, kafka
  <2>2. CASE Tells(r)
    BY <1>2, <2>2 DEF Tells, Queues, TypeOK
  <2>3. CASE SendDlq(r)
    BY <1>2, <2>3 DEF SendDlq, Delivered, TypeOK
  <2>4. CASE Deliver(r)
    BY <1>2, <2>4 DEF Deliver, TypeOK
  <2>5. QED
    BY <2>1, <2>2, <2>3, <2>4, RouterStep
<1>3. QED
  BY <1>1, <1>2 DEF Waiting

(* What a router queues waits from then on, if it has not been claimed.    *)
LEMMA StartsWaiting ==
  ASSUME TypeOK, NEW r \in Router, NEW m, ClaimKey(m) \notin claims, UNCHANGED claims, Emit(r, m)
  PROVE  Waiting(m)'
<1>1. [to |-> "topic", msg |-> m] \in outbox'[r]
  BY DEF Emit, TypeOK
<1>2. QED
  BY <1>1 DEF Waiting

(* A waiting record of a child that has no fragment is its piece.          *)
LEMMA WaitingSpot ==
  ASSUME TypeOK, ClaimsHeld, NEW b \in Blob, NEW t \in {"extracted", "analyzed"},
         Waiting(Msg(t, b))
  PROVE  \/ <<"topic", Msg(t, b)>> \in Piece(b)
         \/ \E q \in Router : <<"queue", q, [to |-> "topic", msg |-> Msg(t, b)]>> \in Piece(b)
<1>1. Msg(t, b) \in PieceRecord(b)
  BY ChildMsgType DEF PieceRecord, Msg, FanOut
<1>2. ~Over(Latter, Msg(t, b))
  BY DEF Over, Latter, ClaimsHeld, Waiting
<1>3. QED
  BY <1>1, <1>2 DEF Waiting, Piece, Spots, OnTopic, Queued

(* Two routers never have one child's pieces in hand, and none while one   *)
(* is waiting elsewhere.                                                   *)
LEMMA OnePiece ==
  ASSUME TypeOK, HeldInv, ClaimsHeld, CountersInv, NEW r \in Router, At(r, "claim"),
         NEW b \in Blob, task[r].msg.blob = b, task[r].msg.topic \in {"extracted", "analyzed"}
  PROVE  /\ b \in Unpacked \ Fragmented /\ Naming(b) = {}
         /\ \A t \in {"extracted", "analyzed"} : Waiting(Msg(t, b)) => task[r].msg.topic = t
         /\ ~Doing(Analysing, b)
<1>1. <<"topic", task[r].msg>> \in Piece(b)
  BY PieceSpot DEF Busy, At, Latter
<1>2. Single(Piece(b)) /\ b \in Unpacked \ Fragmented /\ Naming(b) = {}
  BY <1>1 DEF CountersInv, PieceInv
<1>3. ASSUME NEW t \in {"extracted", "analyzed"}, Waiting(Msg(t, b)) PROVE task[r].msg.topic = t
  <2>1. \A q, x : <<"queue", q, x>> # <<"topic", task[r].msg>>
    OBVIOUS
  <2>2. <<"topic", Msg(t, b)>> \in Piece(b)
    BY <1>1, <1>2, <1>3, <2>1, WaitingSpot DEF Single
  <2>3. <<"topic", Msg(t, b)>> = <<"topic", task[r].msg>>
    BY <1>1, <1>2, <2>2 DEF Single
  <2>4. QED
    BY <2>3 DEF Msg
<1>4. ASSUME NEW q \in Router, task[q].at \in Analysing, task[q].msg.blob = b PROVE FALSE
  <2>1. task[q].msg.topic = "extracted" /\ Busy(q) /\ task[q].at \notin Latter
    BY <1>4, Dispatch DEF Analysing, At, Busy, Latter
  <2>2. <<"topic", task[q].msg>> \in Piece(b)
    BY <1>4, <2>1, PieceSpot
  <2>3. task[q].msg = task[r].msg
    BY <1>1, <1>2, <2>2 DEF Single
  <2>4. q = r
    BY <2>1, <2>3 DEF HeldInv, Busy, At
  <2>5. QED
    BY <1>4, <2>4 DEF At, Analysing
<1>5. QED
  BY <1>2, <1>3, <1>4 DEF Doing

(* Which records of a child that is not ready a step may claim.            *)
LEMMA EarlyClaim ==
  ASSUME TypeOK, HeldInv, CountersInv, TravelInv, NEW r \in Router,
         Work(r) \/ Deliver(r) \/ Trouble(r), NEW b \in Blob \ Ready, NEW t \in FanOut,
         ClaimKey(Msg(t, b)) \notin claims, ClaimKey(Msg(t, b)) \in claims'
  PROVE  /\ t # "matched" /\ b \in Unpacked \ Fragmented /\ Naming(b) = {} /\ ~Doing(Analysing, b)
         /\ \A s \in {"extracted", "analyzed"} : Waiting(Msg(s, b)) => s = t
         /\ task'[r].at = FirstStep(t) /\ task'[r].msg.blob = b
<1>1. /\ At(r, "claim") /\ task[r].msg = Msg(t, b)
      /\ task'[r].at = FirstStep(t) /\ task'[r].msg = Msg(t, b)
  BY ClaimTaken, ChildMsgType DEF Msg
<1>2. task[r].msg.blob = b /\ task[r].msg.topic = t /\ task'[r].msg.blob = b
  BY <1>1 DEF Msg
<1>3. t # "matched"
  <2>1. task[r].msg \in Arrived
    BY DEF TravelInv, Within
  <2>2. QED
    BY <1>2, <2>1 DEF Arrived
<1>4. QED
  BY <1>1, <1>2, <1>3, OnePiece DEF TravelInv, FanOut

(* A router that does the work of a set of steps goes on doing it, unless  *)
(* it is the one that moves.                                               *)
LEMMA GoesOnDoing ==
  ASSUME TypeOK, NEW r \in Router, Work(r) \/ Deliver(r) \/ Trouble(r), NEW S, NEW b, Doing(S, b)
  PROVE  Doing(S, b)' \/ (task[r].at \in S /\ task[r].msg.blob = b /\ task' # task)
BY WhoTells DEF Doing

(* A child that unpack is about to tell of.                                *)
LEMMA NamedStep ==
  ASSUME TypeOK, HeldInv, CountersInv, TravelInv, NEW r \in Router,
         Work(r) \/ Deliver(r) \/ Trouble(r), ~Crash(r), ~Fail(r), ~TripDefence(r), ~LateRaise(r),
         NEW b \in Blob \ Ready, Named(b)
  PROVE  Early(b)'
<1>1. Unclaimed(FanOut, b)'
  BY EarlyClaim DEF Named, Unclaimed
<1>2. PICK q \in Router : task[q].at \in {"countTotal", "emitExtracted"} /\ task[q].blob = b
  BY DEF Named, Naming
<1>3. CASE q # r \/ task' = task
  <2>1. task'[q] = task[q]
    BY <1>3, WhoTells
  <2>2. q \in Naming(b)'
    BY <1>2, <2>1 DEF Naming
  <2>3. QED
    BY <1>1, <2>2 DEF Early, Named
<1>4. CASE CountTotal(r) /\ q = r
  <2>1. task'[r].at = "emitExtracted" /\ task'[r].blob = task[r].blob
    BY <1>4 DEF CountTotal, Goto, TypeOK, Task
  <2>2. r \in Naming(b)'
    BY <1>2, <1>4, <2>1 DEF Naming
  <2>3. QED
    BY <1>1, <2>2 DEF Early, Named
<1>5. CASE EmitExtracted(r) /\ q = r
  <2>1. UNCHANGED claims /\ Emit(r, Msg("extracted", b))
    BY <1>2, <1>5 DEF EmitExtracted, redis
  <2>2. ClaimKey(Msg("extracted", b)) \notin claims
    BY DEF Named, Unclaimed, FanOut
  <2>3. Waiting(Msg("extracted", b))'
    BY <2>1, <2>2, StartsWaiting
  <2>4. Unclaimed({"analyzed", "matched"}, b)'
    BY <1>1 DEF Unclaimed, FanOut
  <2>5. QED
    BY <2>3, <2>4 DEF Early, Extracted
<1>6. QED
  BY <1>2, <1>3, <1>4, <1>5, Departures DEF At

(* A child that is to be analysed or is being analysed.                    *)
LEMMA ExtractedStep ==
  ASSUME TypeOK, HeldInv, CountersInv, TravelInv, NEW r \in Router,
         Work(r) \/ Deliver(r) \/ Trouble(r), ~Crash(r), ~Fail(r), ~TripDefence(r), ~LateRaise(r),
         NEW b \in Unpacked \ Ready, Extracted(b)
  PROVE  Early(b)'
<1>0. b \in Blob \ Ready
  BY DEF Unpacked
<1>1. Unclaimed({"analyzed", "matched"}, b)'
  BY <1>0, EarlyClaim DEF Extracted, Unclaimed, FanOut
<1>2. Waiting(Msg("extracted", b))' \/ Doing(Analysing, b)' => Early(b)'
  BY <1>1 DEF Early, Extracted
<1>3. CASE Waiting(Msg("extracted", b))
  <2>1. CASE ClaimKey(Msg("extracted", b)) \in claims'
    <3>1. task'[r].at = FirstStep("extracted") /\ task'[r].msg.blob = b
      BY <1>0, <1>3, <2>1, EarlyClaim DEF Waiting, FanOut
    <3>2. Doing(Analysing, b)'
      BY <3>1 DEF FirstStep, Doing, Analysing
    <3>3. QED
      BY <1>2, <3>2
  <2>2. CASE ClaimKey(Msg("extracted", b)) \notin claims'
    <3>1. Msg("extracted", b) \in Message /\ Msg("extracted", b).try = 0
      BY <1>0, ChildMsgType DEF Msg, FanOut
    <3>2. Waiting(Msg("extracted", b))'
      BY <1>3, <2>2, <3>1, StaysWaiting DEF TravelInv
    <3>3. QED
      BY <1>2, <3>2
  <2>3. QED
    BY <2>1, <2>2
<1>4. CASE task[r].at \in Analysing /\ task[r].msg.blob = b /\ task' # task
  <2>1. CASE EmitAnalyzed(r)
    <3>1. UNCHANGED claims /\ Emit(r, Msg("analyzed", b))
      BY <1>4, <2>1 DEF EmitAnalyzed, redis
    <3>2. ClaimKey(Msg("analyzed", b)) \notin claims
      BY DEF Extracted, Unclaimed
    <3>3. Waiting(Msg("analyzed", b))' /\ Unclaimed({"matched"}, b)'
      BY <1>1, <3>1, <3>2, StartsWaiting DEF Unclaimed
    <3>4. QED
      BY <3>3 DEF Early, Analyzed
  <2>2. CASE Analyze(r) \/ CountCompleted(r)
    <3>1. PICK s \in Analysing : Goto(r, s)
      BY <1>4, <2>2 DEF Analyze, CountCompleted, Unpacked, Analysing
    <3>2. task'[r].at \in Analysing /\ task'[r].msg.blob = b
      BY <1>4, <3>1, GotoIsMove DEF Moves
    <3>3. QED
      BY <1>2, <3>2 DEF Doing
  <2>3. QED
    BY <1>4, <2>1, <2>2, Onward DEF Analysing, At
<1>5. QED
  BY <1>2, <1>3, <1>4, GoesOnDoing DEF Extracted

(* A child whose fragment is to be put or is being put.                    *)
LEMMA AnalyzedStep ==
  ASSUME TypeOK, HeldInv, CountersInv, TravelInv, NEW r \in Router,
         Work(r) \/ Deliver(r) \/ Trouble(r), ~Crash(r), ~Fail(r), ~TripDefence(r), ~LateRaise(r),
         NEW b \in Unpacked \ Ready, Analyzed(b)
  PROVE  Early(b)' \/ (Late(b)' /\ b \in Ready')
<1>0. b \in Blob \ Ready
  BY DEF Unpacked
<1>1. Unclaimed({"matched"}, b)'
  BY <1>0, EarlyClaim DEF Analyzed, Unclaimed, FanOut
<1>2. Waiting(Msg("analyzed", b))' \/ Doing(Fragmenting, b)' => Early(b)'
  BY <1>1 DEF Early, Analyzed
<1>3. CASE Waiting(Msg("analyzed", b))
  <2>1. CASE ClaimKey(Msg("analyzed", b)) \in claims'
    <3>1. task'[r].at = FirstStep("analyzed") /\ task'[r].msg.blob = b
      BY <1>0, <1>3, <2>1, EarlyClaim DEF Waiting, FanOut
    <3>2. Doing(Fragmenting, b)'
      BY <3>1 DEF FirstStep, Doing, Fragmenting
    <3>3. QED
      BY <1>2, <3>2
  <2>2. CASE ClaimKey(Msg("analyzed", b)) \notin claims'
    <3>1. Msg("analyzed", b) \in Message /\ Msg("analyzed", b).try = 0
      BY <1>0, ChildMsgType DEF Msg, FanOut
    <3>2. Waiting(Msg("analyzed", b))'
      BY <1>3, <2>2, <3>1, StaysWaiting DEF TravelInv
    <3>3. QED
      BY <1>2, <3>2
  <2>3. QED
    BY <2>1, <2>2
<1>4. CASE task[r].at \in Fragmenting /\ task[r].msg.blob = b /\ task' # task
  <2>1. CASE PutFragment(r)
    <3>1. task'[r].at = "countMatched" /\ task'[r].msg.blob = b
      BY <1>4, <2>1, GotoIsMove DEF PutFragment, Moves
    <3>2. QED
      BY <1>2, <3>1 DEF Doing, Fragmenting
  <2>2. CASE CountMatched(r)
    <3>1. task'[r].at = "emitMatched" /\ task'[r].msg.blob = b
      BY <1>4, <2>2, GotoIsMove DEF CountMatched, Moves
    <3>2. Late(b)'
      BY <1>1, <3>1 DEF Late, Doing
    <3>3. b \in Ready'
      BY <1>4, <2>2, ReadyAfter DEF TravelInv
    <3>4. QED
      BY <3>2, <3>3
  <2>3. QED
    BY <1>4, <2>1, <2>2, Onward, Departures DEF Fragmenting, At
<1>5. QED
  BY <1>2, <1>3, <1>4, GoesOnDoing DEF Analyzed

(* What the gate does not turn away goes on to the next of its steps.      *)
LEMMA AggregatingStep ==
  ASSUME TypeOK, NEW r \in Router, Work(r) \/ Deliver(r) \/ Trouble(r),
         ~Crash(r), ~Fail(r), ~TripDefence(r), ~LateRaise(r), task[r].at \in Aggregating
  PROVE  /\ task'[r].msg = task[r].msg
         /\ \/ task'[r].at \in Aggregating
            \/ ReadTotal(r) /\ total = 0
            \/ ReadMarker(r) /\ ~marker
            \/ ReadMatched(r) /\ ~(matched >= task[r].tot)
            \/ Finalize(r)
<1>1. CASE task' = task
  BY <1>1
<1>2. CASE RecordSubBlob(r) \/ ReadMarker(r) \/ ReadMatched(r) \/ Finalize(r)
  <2>1. PICK s : /\ Goto(r, s)
                 /\ \/ s \in Aggregating
                    \/ ReadMarker(r) /\ ~marker
                    \/ ReadMatched(r) /\ ~(matched >= task[r].tot)
                    \/ Finalize(r)
    BY <1>2 DEF RecordSubBlob, ReadMarker, ReadMatched, Finalize, Aggregating
  <2>2. QED
    BY <2>1, GotoIsMove DEF Moves
<1>3. CASE ReadTotal(r)
  BY <1>3 DEF ReadTotal, Aggregating, TypeOK, Task
<1>4. CASE ReadPartial(r)
  BY <1>4 DEF ReadPartial, Aggregating, TypeOK, Task
<1>5. CASE ListFragments(r)
  BY <1>5 DEF ListFragments, Aggregating, TypeOK, Task
<1>6. QED
  BY <1>1, <1>2, <1>3, <1>4, <1>5, OnwardGate DEF Aggregating, At

(* A child that has been matched stays on its way to the report until its  *)
(* router is through with the gate.                                        *)
LEMMA LateStep ==
  ASSUME TypeOK, TravelInv, NEW r \in Router,
         Work(r) \/ Deliver(r) \/ Trouble(r), ~Crash(r), ~Fail(r), ~TripDefence(r), ~LateRaise(r),
         NEW b \in Blob, Late(b)
  PROVE  \/ Late(b)'
         \/ task[r].at \in Aggregating /\ task'[r].at \notin Aggregating
<1>1. CASE ClaimKey(Msg("matched", b)) \notin claims /\ ClaimKey(Msg("matched", b)) \in claims'
  <2>1. Msg("matched", b) \in Message /\ Msg("matched", b).try = 0
    BY ChildMsgType DEF Msg, FanOut
  <2>2. task'[r].at = FirstStep("matched") /\ task'[r].msg.blob = b
    BY <1>1, <2>1, ClaimTaken DEF Msg
  <2>3. Doing(Aggregating, b)'
    BY <2>2 DEF Doing, FirstStep, Aggregating
  <2>4. QED
    BY <2>3 DEF Late
<1>2. CASE ClaimKey(Msg("matched", b)) \in claims \/ ClaimKey(Msg("matched", b)) \notin claims'
  <2>1. CASE Doing({"emitMatched"}, b) /\ Unclaimed({"matched"}, b)
    <3>1. Unclaimed({"matched"}, b)'
      BY <1>2, <2>1 DEF Unclaimed
    <3>2. CASE Doing({"emitMatched"}, b)'
      BY <3>1, <3>2 DEF Late
    <3>3. CASE At(r, "emitMatched") /\ task[r].msg.blob = b /\ task' # task
      <4>1. EmitMatched(r)
        BY <3>3, Onward
      <4>2. UNCHANGED claims /\ Emit(r, Msg("matched", b))
        BY <3>3, <4>1 DEF EmitMatched, redis
      <4>3. Waiting(Msg("matched", b))'
        BY <2>1, <4>2, StartsWaiting DEF Unclaimed
      <4>4. QED
        BY <4>3 DEF Late
    <3>4. QED
      BY <2>1, <3>2, <3>3, GoesOnDoing DEF At
  <2>2. CASE Waiting(Msg("matched", b))
    <3>1. Msg("matched", b) \in Message /\ Msg("matched", b).try = 0
      BY ChildMsgType DEF Msg, FanOut
    <3>2. ClaimKey(Msg("matched", b)) \notin claims'
      BY <1>2, <2>2 DEF Waiting
    <3>3. Waiting(Msg("matched", b))'
      BY <2>2, <3>1, <3>2, StaysWaiting DEF TravelInv
    <3>4. QED
      BY <3>3 DEF Late
  <2>3. CASE Doing(Aggregating, b)
    <3>1. CASE Doing(Aggregating, b)'
      BY <3>1 DEF Late
    <3>2. CASE task[r].at \in Aggregating /\ task[r].msg.blob = b
      <4>1. task'[r].msg = task[r].msg
        BY <3>2, AggregatingStep
      <4>2. task'[r].at \in Aggregating => Doing(Aggregating, b)'
        BY <3>2, <4>1 DEF Doing
      <4>3. QED
        BY <3>2, <4>2 DEF Late
    <3>3. QED
      BY <2>3, <3>1, <3>2, GoesOnDoing
  <2>4. QED
    BY <2>1, <2>2, <2>3 DEF Late
<1>3. QED
  BY <1>1, <1>2

(* A record of firmware.matched is queued for a child that is ready, and   *)
(* no child ceases to be.                                                  *)
LEMMA ArrivedStep ==
  ASSUME TypeOK, HeldInv, CountersInv, TravelInv, NEW r \in Router,
         Work(r) \/ Deliver(r) \/ Trouble(r), ~Crash(r), ~Fail(r), ~LateRaise(r)
  PROVE  Within(Arrived)'
<1>0. PICK now : now = Arrived
  OBVIOUS
<1>1. now \subseteq Arrived'
  BY <1>0, ReadyAfter DEF Arrived
<1>2. \A t \in Topic \ FanOut : JobMsg(t) \in now
  BY <1>0, JobMsgType DEF Arrived, JobMsg, Msg, FanOut
<1>3. CASE Loop(r) \/ Deliver(r) \/ Trouble(r)
  <2>1. Idle.msg \in now
    BY <1>2 DEF Idle, Topic, Routed, FanOut
  <2>2. Within(now)'
    BY <1>0, <1>3, <2>1, WithinLoop DEF TravelInv
  <2>3. QED
    BY <1>1, <2>2 DEF Within
<1>4. CASE ~(Loop(r) \/ Deliver(r) \/ Trouble(r))
  <2>1. JobMsg("triaged") \in now /\ JobMsg("completed") \in now
    BY <1>2 DEF Topic, Routed, FanOut
  <2>2. EmitExtracted(r) => Msg("extracted", task[r].blob) \in now
    BY <1>0, TaskMessage, ChildMsgType DEF EmitExtracted, At, Arrived, Msg, FanOut
  <2>3. EmitAnalyzed(r) => Msg("analyzed", task[r].msg.blob) \in now
    BY <1>0, TaskMessage, Dispatch, ChildMsgType DEF EmitAnalyzed, Arrived, Msg, FanOut
  <2>4. EmitMatched(r) => Msg("matched", task[r].msg.blob) \in now
    BY <1>0, TaskMessage, Dispatch, ChildMsgType
       DEF EmitMatched, Arrived, Msg, FanOut, TravelInv
  <2>5. Within(now)'
    BY <1>0, <1>4, <2>1, <2>2, <2>3, <2>4, WithinHandlers DEF Work, TravelInv
  <2>6. QED
    BY <1>1, <2>5 DEF Within
<1>5. QED
  BY <1>3, <1>4

(* A router past its claim holds it: claims are never given back.          *)
LEMMA ClaimsHeldStep ==
  ASSUME TypeOK, ClaimsHeld, NEW r \in Router, Work(r) \/ Deliver(r) \/ Trouble(r),
         ~Crash(r), ~Fail(r), ~TripDefence(r), ~LateRaise(r)
  PROVE  ClaimsHeld'
<1>1. claims \subseteq claims' /\ \A q \in Router : q # r => task'[q] = task[q]
  BY ReasonsAfter, WhoTells
<1>2. CASE ClaimMessage(r)
  <2>1. task'[r].msg = task[r].msg /\ ClaimKey(task[r].msg) \in claims'
    BY <1>2, GotoIsMove DEF ClaimMessage, Moves
  <2>2. QED
    BY <1>1, <2>1 DEF ClaimsHeld
<1>3. CASE ~ClaimMessage(r)
  <2>1. \/ task'[r] = task[r] \/ task'[r].at \in {"idle", "claim"}
        \/ task'[r].msg = task[r].msg /\ task[r].at \notin {"idle", "claim"}
    <3>1. CASE Poll(r)
      <4>1. PICK m \in pending :
              task' = [task EXCEPT ![r] = [Idle EXCEPT !.at = "claim", !.msg = m]]
        BY <3>1 DEF Poll
      <4>2. [Idle EXCEPT !.at = "claim", !.msg = m].at = "claim"
        BY DEF Idle
      <4>3. QED
        BY <4>1, <4>2 DEF TypeOK
    <3>2. CASE Commit(r)
      BY <3>2 DEF Commit, Idle, TypeOK
    <3>3. CASE Deliver(r)
      BY <3>3 DEF Deliver
    <3>4. CASE SendDlq(r)
      BY <3>4, GotoIsMove DEF SendDlq, Moves, At
    <3>5. CASE Tells(r) \/ Inside(r)
      <4>1. Moves(r) /\ task[r].at # "idle"
        BY <3>5 DEF Tells, Queues, Inside, GoesOn
      <4>2. At(r, "claim") => task' = task
        BY <1>3, Onward
      <4>3. QED
        BY <4>1, <4>2 DEF Moves, At
    <3>6. QED
      BY <3>1, <3>2, <3>3, <3>4, <3>5, RouterStep
  <2>2. QED
    BY <1>1, <2>1 DEF ClaimsHeld
<1>4. QED
  BY <1>2, <1>3

(* While nothing fails or crashes, every step of a router keeps it.        *)
LEMMA TravelStep ==
  ASSUME TypeOK, HeldInv, CountersInv, TravelInv, NEW r \in Router,
         Work(r) \/ Deliver(r) \/ Trouble(r), ~Crash(r), ~Fail(r), ~TripDefence(r), ~LateRaise(r)
  PROVE  /\ TravelInv'
         /\ \A b \in Unpacked \ Ready : Early(b)' \/ (Late(b)' /\ b \in Ready')
<1>1. ASSUME NEW b \in Unpacked \ Ready PROVE Early(b)' \/ (Late(b)' /\ b \in Ready')
  <2>1. b \in Blob \ Ready /\ Early(b)
    BY DEF Unpacked, TravelInv
  <2>2. QED
    BY <2>1, NamedStep, ExtractedStep, AnalyzedStep DEF Early
<1>3. ASSUME NEW b \in Blob \ Unpacked PROVE Unclaimed(FanOut, b)'
  <2>1. Unclaimed(FanOut, b) /\ b \in Blob \ Ready
    BY <1>3, FiniteChildren DEF TravelInv, CountersInv
  <2>2. QED
    BY <1>3, <2>1, EarlyClaim DEF Unclaimed
<1>4. ASSUME NEW b \in Unpacked' \ Ready' PROVE Early(b)'
  <2>1. CASE b \in Unpacked
    BY <1>1, <1>4, <2>1, ReadyAfter
  <2>2. CASE b \notin Unpacked
    <3>1. task'[r].blob = b /\ task'[r].at = "countTotal" /\ b \in Blob
      BY <1>4, <2>2, ChildrenAfter
    <3>2. r \in Naming(b)'
      BY <3>1 DEF Naming
    <3>3. QED
      BY <1>3, <2>2, <3>1, <3>2 DEF Early, Named
  <2>3. QED
    BY <2>1, <2>2
<1>5. \A b \in Blob \ Unpacked' : Unclaimed(FanOut, b)'
  BY <1>3, ChildrenAfter
<1>6. ASSUME NEW q \in Router, At(q, "emitMatched")' PROVE task'[q].msg.blob \in Ready'
  <2>1. CASE task'[q] = task[q]
    BY <1>6, <2>1, ReadyAfter DEF TravelInv, At
  <2>2. CASE CountMatched(r) /\ q = r
    BY <2>2, GotoIsMove, ReadyAfter DEF CountMatched, Moves
  <2>3. CASE q = r /\ task' # task /\ ~CountMatched(r)
    <3>1. ~PutFragment(r) /\ ~CountTotal(r)
      BY <1>6, <2>3, GotoIsMove DEF PutFragment, CountTotal, At
    <3>2. QED
      BY <1>6, <2>3, <3>1, WhoTells DEF At
  <2>4. QED
    BY <2>1, <2>2, <2>3, WhoTells
<1>7. QED
  BY <1>1, <1>4, <1>5, <1>6, ArrivedStep, ClaimsHeldStep DEF TravelInv

(* So does a step that only adds records to the topics.                    *)
LEMMA TravelRests ==
  ASSUME pending \subseteq pending', UNCHANGED <<outbox, task, claims, objects>>
  PROVE  /\ Ready' = Ready /\ Unpacked' = Unpacked
         /\ \A b : Early(b) => Early(b)'
         /\ \A b : Late(b) => Late(b)'
<1>1. Ready' = Ready /\ Unpacked' = Unpacked
  BY DEF Ready, Fragmented, Unpacked, At
<1>2. \A m : Waiting(m) => Waiting(m)'
  BY DEF Waiting
<1>3. \A S, b : Doing(S, b) => Doing(S, b)'
  BY DEF Doing
<1>4. \A T, b : Unclaimed(T, b) => Unclaimed(T, b)'
  BY DEF Unclaimed
<1>5. \A b : Naming(b)' = Naming(b)
  BY DEF Naming
<1>6. QED
  BY <1>1, <1>2, <1>3, <1>4, <1>5 DEF Early, Late, Named, Extracted, Analyzed

(* What waits is in flight.                                                *)
LEMMA WaitingInFlight == ASSUME NEW m, Waiting(m) PROVE m \in InFlight
<1>1. CASE m \in pending
  BY <1>1 DEF InFlight
<1>2. ASSUME NEW r \in Router, [to |-> "topic", msg |-> m] \in outbox[r] PROVE m \in InFlight
  <2>1. PICK o \in outbox[r] : o.msg = m
    BY <1>2
  <2>2. QED
    BY <2>1 DEF InFlight
<1>3. QED
  BY <1>1, <1>2 DEF Waiting

(* In every state before the first failure or crash.                       *)
LEMMA TravelCorrect == Spec => [](Calm => TravelInv)
<1>. DEFINE Inv == Calm => TravelInv
<1>1. Init => Inv
  <2>1. SUFFICES ASSUME Init PROVE TravelInv
    OBVIOUS
  <2>2. Unpacked = {} /\ ClaimsHeld
    BY <2>1 DEF Init, Unpacked, ClaimsHeld, Idle
  <2>3. Within(Arrived)
    BY <2>1, JobMsgType DEF Init, Within, Arrived, Idle, JobMsg, Msg, Topic, Routed, FanOut
  <2>4. QED
    BY <2>1, <2>2, <2>3 DEF Init, TravelInv, At, Idle, Unclaimed
<1>2. TypeOK /\ HeldInv /\ (Calm => CountersInv) /\ Inv /\ [Next]_vars => Inv'
  <2>1. SUFFICES ASSUME TypeOK, HeldInv, Calm => CountersInv, Inv, [Next]_vars, Calm'
                 PROVE  TravelInv'
    OBVIOUS
  <2>2. CountersInv /\ TravelInv /\ \A r \in Router : ~Crash(r) /\ ~Fail(r) /\ ~TripDefence(r) /\ ~LateRaise(r)
    BY <2>1, Budget
  <2>3. CASE Replay \/ UNCHANGED vars
    <3>1. pending \subseteq pending' /\ UNCHANGED <<outbox, task, claims, objects>>
      BY <2>3 DEF Replay, vars, kafka, redis, stores
    <3>2. /\ Ready' = Ready /\ Unpacked' = Unpacked /\ \A b : Early(b) => Early(b)'
          /\ \A b : Unclaimed(FanOut, b) => Unclaimed(FanOut, b)'
      BY <3>1, TravelRests DEF Unclaimed
    <3>3. PICK now : now = Arrived
      OBVIOUS
    <3>4. Arrived' = now
      BY <3>2, <3>3 DEF Arrived
    <3>5. Within(now)'
      <4>1. CASE Replay
        <5>1. \A m \in now : [m EXCEPT !.try = @ + 1] \in now
          BY <3>3 DEF Arrived, Message
        <5>2. QED
          BY <2>1, <2>2, <3>3, <4>1, <5>1, WithinReplay DEF TravelInv
      <4>2. CASE UNCHANGED vars
        BY <2>2, <3>3, <4>2 DEF vars, kafka, Within, TravelInv
      <4>3. QED
        BY <2>3, <4>1, <4>2
    <3>6. ClaimsHeld'
      BY <2>2, <3>1 DEF TravelInv, ClaimsHeld
    <3>7. QED
      BY <2>2, <3>1, <3>2, <3>4, <3>5, <3>6 DEF TravelInv, At
  <2>4. QED
    BY <2>1, <2>2, <2>3, TravelStep DEF Next
<1>3. QED
  BY <1>1, <1>2, TypeCorrect, HeldCorrect, CountersExact, PTL DEF Spec

(* In any topology and with either report store, as long as no call has    *)
(* failed and no process has crashed: no claim, no commit and no replay    *)
(* loses the last trace of a child that is not matched yet                 *)
(* (unpack.py:47-49, analysis.py:53-60, idempotency.py:18-28).             *)
THEOREM ChildrenTravel == Spec => [](Calm => EveryChildTravels)
<1>1. TypeOK /\ (Calm => CountersInv) /\ (Calm => TravelInv) => (Calm => EveryChildTravels)
  <2>1. SUFFICES ASSUME TypeOK, CountersInv, TravelInv, NEW b \in Unpacked \ Fragmented
                 PROVE  \/ \E r \in Router : task[r].at \in {"countTotal", "emitExtracted"} /\ task[r].blob = b
                        \/ \E m \in InFlight : m.topic \in {"extracted", "analyzed"} /\ m.blob = b
    BY DEF EveryChildTravels
  <2>2. Early(b)
    BY <2>1, FiniteChildren DEF TravelInv
  <2>3. CASE Named(b)
    BY <2>3 DEF Named, Naming
  <2>4. ASSUME NEW t \in {"extracted", "analyzed"}, Waiting(Msg(t, b))
        PROVE  \E m \in InFlight : m.topic \in {"extracted", "analyzed"} /\ m.blob = b
    BY <2>4, WaitingInFlight DEF Msg
  <2>5. ASSUME Doing(Analysing, b) \/ Doing(Fragmenting, b)
        PROVE  \E m \in InFlight : m.topic \in {"extracted", "analyzed"} /\ m.blob = b
    <3>1. PICK r \in Router : task[r].at \in Analysing \cup Fragmenting /\ task[r].msg.blob = b
      BY <2>5 DEF Doing
    <3>2. task[r].msg.topic \in {"extracted", "analyzed"} /\ task[r].msg \in InFlight
      BY <2>1, <3>1, Dispatch DEF Analysing, Fragmenting, At, InFlight
    <3>3. QED
      BY <3>1, <3>2
  <2>6. QED
    BY <2>2, <2>3, <2>4, <2>5 DEF Early, Extracted, Analyzed
<1>2. QED
  BY <1>1, TypeCorrect, CountersExact, TravelCorrect, PTL

=============================================================================
