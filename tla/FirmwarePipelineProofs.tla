----------------------- MODULE FirmwarePipelineProofs -----------------------
(***************************************************************************)
(* Theorems about FirmwarePipeline for every set of routers, every         *)
(* assignment of topics to them, every number of leaves, either report     *)
(* store, and any number of failing calls, crashes and replays.            *)
(***************************************************************************)
EXTENDS FirmwarePipeline, TLAPS

-----------------------------------------------------------------------------
(* Typing.  The moves of a task keep it a task.                            *)

(* Moving a task to a step of its record's handler keeps it a task.        *)
LEMMA GotoType ==
  ASSUME NEW r \in Router, NEW s,
         task \in [Router -> Task], Goto(r, s),
         s \in LoopStep \cup StepsOf(task[r].msg.topic),
         s \in {"countTotal", "emitExtracted"} => task[r].blob \in Blob
  PROVE  task' \in [Router -> Task]
<1>1. task[r] \in Task
  OBVIOUS
<1>2. [task[r] EXCEPT !.at = s] \in Task
  BY <1>1 DEF Task
<1>3. QED
  BY <1>2 DEF Goto

(* A task of the unpack handler stays a task when it takes up a leaf.      *)
LEMMA LeafType ==
  ASSUME NEW t \in Task, NEW b \in Blob, t.msg.topic = "triaged"
  PROVE  [t EXCEPT !.at = "countTotal", !.blob = b] \in Task
<1>1. "countTotal" \in StepsOf("triaged")
  BY DEF StepsOf
<1>2. "triaged" \in Routed
  BY DEF Routed
<1>3. "countTotal" \in LoopStep \cup UNION {StepsOf(tp) : tp \in Routed}
  BY <1>1, <1>2
<1>4. QED
  BY <1>1, <1>3 DEF Task

(* An idle router's task is a task.                                        *)
LEMMA IdleType == Idle \in Task
BY DEF Idle, Task, LoopStep, JobMsg, Msg, Message, Topic, Routed, FanOut

(* The job-scoped records are records.                                     *)
LEMMA JobMsgType == ASSUME NEW t \in Topic \ FanOut PROVE JobMsg(t) \in Message
BY DEF JobMsg, Msg, Message

(* The child-scoped records are records.                                   *)
LEMMA ChildMsgType ==
  ASSUME NEW t \in FanOut, NEW b \in Blob
  PROVE  Msg(t, b) \in Message
BY DEF Msg, Message

(* emit keeps the producer queues well-typed.                              *)
LEMMA EmitType ==
  ASSUME NEW r \in Router, NEW m \in Message,
         outbox \in [Router -> SUBSET Outgoing], Emit(r, m)
  PROVE  outbox' \in [Router -> SUBSET Outgoing]
BY DEF Emit, Outgoing

(* What TypeOK says of the task of one router.                             *)
LEMMA TaskMessage ==
  ASSUME TypeOK, NEW r \in Router
  PROVE  /\ task[r] \in Task
         /\ task[r].msg \in Message
         /\ task[r].msg.topic \in Routed
         /\ task[r].blob \in Blob \cup {NoBlob}
         /\ task[r].msg.topic \in FanOut => task[r].msg.blob \in Blob
         /\ task[r].at \in LoopStep \cup StepsOf(task[r].msg.topic)
         /\ task[r].at \in {"countTotal", "emitExtracted"} => task[r].blob \in Blob
BY DEF TypeOK, Task, Message

(* A handler's steps are taken only for a record of the handler's topic.   *)
LEMMA Dispatch ==
  ASSUME TypeOK, NEW r \in Router
  PROVE  /\ At(r, "bloom") \/ At(r, "emitTriaged") => task[r].msg.topic = "uploaded"
         /\ At(r, "unpack") \/ At(r, "countTotal") \/ At(r, "emitExtracted")
              => task[r].msg.topic = "triaged"
         /\ At(r, "analyze") \/ At(r, "countCompleted") \/ At(r, "emitAnalyzed")
              => task[r].msg.topic = "extracted"
         /\ At(r, "putFragment") \/ At(r, "countMatched") \/ At(r, "emitMatched")
              => task[r].msg.topic = "analyzed"
         /\ At(r, "record") \/ At(r, "readTotal") \/ At(r, "readMarker")
              \/ At(r, "readMatched") \/ At(r, "readPartial") \/ At(r, "listFragments")
              \/ At(r, "finalize") \/ At(r, "putSbom") \/ At(r, "putReport")
              \/ At(r, "markJob") \/ At(r, "emitCompleted")
              => task[r].msg.topic = "matched"
BY TaskMessage DEF At, LoopStep, StepsOf, Routed

(* The initial states have the types of TypeOK.                            *)
LEMMA InitType == Init => TypeOK
<1>. SUFFICES ASSUME Init PROVE TypeOK
  OBVIOUS
<1>1. pending \subseteq Message
  BY DEF Init, JobMsg, Msg, Message, Topic, Routed, FanOut
<1>2. task \in [Router -> Task]
  BY IdleType DEF Init
<1>3. QED
  BY <1>1, <1>2 DEF Init, TypeOK, Report


(* Steps that only move the program counter of a router.                   *)
LEMMA MoveType ==
  ASSUME TypeOK, NEW r \in Router, NEW s, Goto(r, s),
         s \in LoopStep \cup StepsOf(task[r].msg.topic),
         s \notin {"countTotal", "emitExtracted"},
         UNCHANGED <<kafka, redis, stores, announced, suspicious, budget>>
  PROVE  TypeOK'
<1>1. task' \in [Router -> Task]
  BY GotoType DEF TypeOK
<1>2. QED
  BY <1>1 DEF TypeOK, kafka, redis, stores, budget

(* The router loop and the faults preserve typing.                         *)
LEMMA LoopType ==
  ASSUME TypeOK, NEW r \in Router,
         Loop(r) \/ Deliver(r) \/ Trouble(r)
  PROVE  TypeOK'
<1>. USE TaskMessage DEF TypeOK, kafka, redis, stores, budget
<1>. DEFINE key == ClaimKey(task[r].msg)
<1>1. CASE Poll(r)
  <2>1. PICK m \in pending :
          /\ m.topic \in Serves[r]
          /\ task' = [task EXCEPT ![r] = [Idle EXCEPT !.at = "claim", !.msg = m]]
    BY <1>1 DEF Poll
  <2>2. m \in Message /\ m.topic \in Routed
    BY <2>1, ConstantsAssumption
  <2>3. [Idle EXCEPT !.at = "claim", !.msg = m] \in Task
    BY <2>2, IdleType DEF Task, LoopStep
  <2>4. task' \in [Router -> Task]
    BY <2>1, <2>3
  <2>5. QED
    BY <1>1, <2>4 DEF Poll
<1>2. CASE ClaimMessage(r)
  <2>1. key \in Claim
    BY DEF ClaimKey, Claim, Message, Routed, Topic, FanOut
  <2>2. PICK s \in LoopStep \cup StepsOf(task[r].msg.topic) :
          s \notin {"countTotal", "emitExtracted"} /\ Goto(r, s)
    BY <1>2 DEF ClaimMessage, FirstStep, Routed, LoopStep, StepsOf
  <2>3. task' \in [Router -> Task]
    BY <2>2, GotoType
  <2>4. QED
    BY <1>2, <2>1, <2>3 DEF ClaimMessage
<1>3. CASE SendDlq(r)
  <2>1. task' \in [Router -> Task]
    BY <1>3, GotoType DEF SendDlq, LoopStep
  <2>2. Delivered(r, "dlq") \subseteq Message /\ Delivered(r, "topic") \subseteq Message
    BY DEF Delivered, Outgoing
  <2>3. QED
    BY <1>3, <2>1, <2>2 DEF SendDlq
<1>4. CASE Commit(r)
  <2>1. task' \in [Router -> Task]
    BY <1>4, IdleType DEF Commit
  <2>2. QED
    BY <1>4, <2>1 DEF Commit
<1>5. CASE Deliver(r)
  <2>1. PICK o \in outbox[r] :
          /\ outbox' = [outbox EXCEPT ![r] = @ \ {o}]
          /\ pending' \subseteq pending \cup {o.msg}
          /\ dlq' \subseteq dlq \cup {o.msg}
    BY <1>5 DEF Deliver
  <2>2. o.msg \in Message
    BY DEF Outgoing
  <2>3. QED
    BY <1>5, <2>1, <2>2 DEF Deliver
<1>6. CASE Fail(r)
  <2>1. task' \in [Router -> Task]
    BY <1>6, GotoType DEF Fail, LoopStep
  <2>2. faults' \in Nat
    BY <1>6 DEF Fail
  <2>3. QED
    BY <1>6, <2>1, <2>2 DEF Fail
<1>7. CASE SendDlqFails(r)
  <2>1. task' \in [Router -> Task]
    BY <1>7, GotoType DEF SendDlqFails, LoopStep
  <2>2. [to |-> "dlq", msg |-> task[r].msg] \in Outgoing
    BY DEF Outgoing
  <2>3. outbox' \in [Router -> SUBSET Outgoing]
    BY <1>7, <2>2 DEF SendDlqFails
  <2>4. faults' \in Nat
    BY <1>7 DEF SendDlqFails
  <2>5. QED
    BY <1>7, <2>1, <2>3, <2>4 DEF SendDlqFails
<1>8. CASE TripDefence(r)
  <2>1. task' \in [Router -> Task]
    BY <1>8, Dispatch, GotoType DEF TripDefence, StepsOf
  <2>2. faults' \in Nat
    BY <1>8 DEF TripDefence
  <2>3. QED
    BY <1>8, <2>1, <2>2 DEF TripDefence
<1>9. CASE Crash(r)
  <2>1. task' \in [Router -> Task]
    BY <1>9, IdleType DEF Crash
  <2>2. outbox' \in [Router -> SUBSET Outgoing] /\ crashes' \in Nat
    BY <1>9 DEF Crash
  <2>3. QED
    BY <1>9, <2>1, <2>2 DEF Crash
<1>10. CASE LateRaise(r)
  <2>1. task' \in [Router -> Task]
    BY <1>10, GotoType DEF LateRaise, LoopStep
  <2>2. faults' \in Nat
    BY <1>10 DEF LateRaise
  <2>3. marker' = TRUE \/ marker' = marker
    BY <1>10 DEF LateRaise
  <2>4. objects' = objects \/ objects' = objects \cup {<<"report">>}
    BY <1>10 DEF LateRaise
  <2>5. objects' \subseteq Objects
    BY <2>4 DEF Objects
  <2>6. QED
    BY <1>10, <2>1, <2>2, <2>3, <2>5 DEF LateRaise
<1>11. QED
  BY <1>1, <1>2, <1>3, <1>4, <1>5, <1>6, <1>7, <1>8, <1>9, <1>10 DEF Loop, Trouble

(* A replayed record is a record.                                          *)
LEMMA ReplayType ==
  ASSUME TypeOK, Replay
  PROVE  TypeOK'
<1>. USE DEF TypeOK, redis, stores, budget
<1>1. PICK m \in dlq : pending' = pending \cup {[m EXCEPT !.try = @ + 1]}
  BY DEF Replay
<1>2. [m EXCEPT !.try = @ + 1] \in Message
  BY DEF Message
<1>3. QED
  BY <1>1, <1>2 DEF Replay


(* The steps of the five handlers preserve typing.                         *)
LEMMA IngestType ==
  ASSUME TypeOK, NEW r \in Router,
         HandleTriage(r) \/ HandleUnpack(r)
  PROVE  TypeOK'
<1>. USE TaskMessage DEF TypeOK, kafka, redis, stores, budget
<1>1. CASE Triage(r)
  <2>1. PICK s \in StepsOf(task[r].msg.topic) :
          s \notin {"countTotal", "emitExtracted"} /\ Goto(r, s)
    BY <1>1, Dispatch DEF Triage, StepsOf
  <2>2. task' \in [Router -> Task]
    BY <2>1, GotoType
  <2>3. QED
    BY <1>1, <2>2 DEF Triage
<1>2. CASE EmitTriaged(r)
  <2>1. task' \in [Router -> Task]
    BY <1>2, GotoType DEF EmitTriaged, LoopStep
  <2>2. JobMsg("triaged") \in Message
    BY JobMsgType DEF Topic, Routed, FanOut
  <2>3. outbox' \in [Router -> SUBSET Outgoing]
    BY <1>2, <2>2, EmitType DEF EmitTriaged
  <2>4. QED
    BY <1>2, <2>1, <2>3 DEF EmitTriaged
<1>3. CASE EmitReject(r)
  <2>1. task' \in [Router -> Task]
    BY <1>3, GotoType DEF EmitReject, LoopStep
  <2>2. [to |-> "dlq", msg |-> task[r].msg] \in Outgoing
    BY DEF Outgoing
  <2>3. QED
    BY <1>3, <2>1, <2>2 DEF EmitReject
<1>4. CASE PutChild(r)
  <2>1. PICK b \in Blob :
          /\ objects' = objects \cup {<<"child", b>>}
          /\ task' = [task EXCEPT ![r].at = "countTotal", ![r].blob = b]
    BY <1>4 DEF PutChild
  <2>2. task' \in [Router -> Task]
    <3>1. [task[r] EXCEPT !.at = "countTotal", !.blob = b] \in Task
      BY <1>4, Dispatch, LeafType DEF PutChild
    <3>2. QED
      BY <2>1, <3>1
  <2>3. objects' \subseteq Objects
    BY <2>1 DEF Objects
  <2>4. QED
    BY <1>4, <2>2, <2>3 DEF PutChild
<1>5. CASE CountTotal(r)
  <2>1. task' \in [Router -> Task]
    <3>1. "emitExtracted" \in StepsOf(task[r].msg.topic)
      BY <1>5, Dispatch DEF CountTotal, StepsOf
    <3>2. task[r].blob \in Blob
      BY <1>5 DEF CountTotal, At
    <3>3. Goto(r, "emitExtracted")
      BY <1>5 DEF CountTotal
    <3>4. QED
      BY <3>1, <3>2, <3>3, GotoType
  <2>2. total' \in Nat
    BY <1>5 DEF CountTotal
  <2>3. QED
    BY <1>5, <2>1, <2>2 DEF CountTotal
<1>6. CASE EmitExtracted(r)
  <2>1. task' \in [Router -> Task]
    <3>1. [task[r] EXCEPT !.at = "unpack", !.done = @ + 1] \in Task
      <4>1. task[r].msg.topic = "triaged"
        BY <1>6, Dispatch DEF EmitExtracted, At
      <4>2. "unpack" \in StepsOf(task[r].msg.topic)
        BY <4>1 DEF StepsOf
      <4>3. task[r] \in Task
        BY <1>6 DEF EmitExtracted
      <4>4. "unpack" \in LoopStep \cup UNION {StepsOf(tp) : tp \in Routed}
        BY <4>2, <4>3 DEF Task
      <4>5. task[r].done + 1 \in Nat
        BY <4>3 DEF Task
      <4>6. QED
        BY <4>2, <4>3, <4>4, <4>5 DEF Task
    <3>2. QED
      BY <1>6, <3>1 DEF EmitExtracted
  <2>2. Msg("extracted", task[r].blob) \in Message
    <3>1. task[r].blob \in Blob
      BY <1>6 DEF EmitExtracted, At
    <3>2. QED
      BY <3>1, ChildMsgType DEF FanOut
  <2>3. outbox' \in [Router -> SUBSET Outgoing]
    BY <1>6, <2>2, EmitType DEF EmitExtracted
  <2>4. QED
    BY <1>6, <2>1, <2>3 DEF EmitExtracted
<1>7. CASE SetMarker(r)
  <2>1. task' \in [Router -> Task]
    BY <1>7, GotoType DEF SetMarker, LoopStep
  <2>2. QED
    BY <1>7, <2>1 DEF SetMarker
<1>8. QED
  BY <1>1, <1>2, <1>3, <1>4, <1>5, <1>6, <1>7 DEF HandleTriage, HandleUnpack

(* So do the steps of analysis and cve_match.                              *)
LEMMA ChildType ==
  ASSUME TypeOK, NEW r \in Router,
         HandleAnalysis(r) \/ HandleCveMatch(r)
  PROVE  TypeOK'
<1>. USE TaskMessage DEF TypeOK, kafka, redis, stores, budget
<1>1. CASE Analyze(r)
  <2>1. PICK s \in LoopStep \cup StepsOf(task[r].msg.topic) :
          s \notin {"countTotal", "emitExtracted"} /\ Goto(r, s)
    BY <1>1, Dispatch DEF Analyze, StepsOf, LoopStep
  <2>2. QED
    BY <1>1, <2>1, MoveType DEF Analyze
<1>2. CASE CountCompleted(r)
  <2>1. task' \in [Router -> Task]
    BY <1>2, Dispatch, GotoType DEF CountCompleted, StepsOf
  <2>2. completed' \in Nat
    BY <1>2 DEF CountCompleted
  <2>3. QED
    BY <1>2, <2>1, <2>2 DEF CountCompleted
<1>3. CASE EmitAnalyzed(r)
  <2>1. task' \in [Router -> Task]
    BY <1>3, GotoType DEF EmitAnalyzed, LoopStep
  <2>2. Msg("analyzed", task[r].msg.blob) \in Message
    BY <1>3, Dispatch, ChildMsgType DEF FanOut, EmitAnalyzed
  <2>3. outbox' \in [Router -> SUBSET Outgoing]
    BY <1>3, <2>2, EmitType DEF EmitAnalyzed
  <2>4. QED
    BY <1>3, <2>1, <2>3 DEF EmitAnalyzed
<1>4. CASE PutFragment(r)
  <2>1. task' \in [Router -> Task]
    BY <1>4, Dispatch, GotoType DEF PutFragment, StepsOf
  <2>2. objects' \subseteq Objects
    BY <1>4, Dispatch DEF PutFragment, Objects, FanOut
  <2>3. QED
    BY <1>4, <2>1, <2>2 DEF PutFragment
<1>5. CASE CountMatched(r)
  <2>1. task' \in [Router -> Task]
    BY <1>5, Dispatch, GotoType DEF CountMatched, StepsOf
  <2>2. matched' \in Nat
    BY <1>5 DEF CountMatched
  <2>3. QED
    BY <1>5, <2>1, <2>2 DEF CountMatched
<1>6. CASE EmitMatched(r)
  <2>1. task' \in [Router -> Task]
    BY <1>6, GotoType DEF EmitMatched, LoopStep
  <2>2. Msg("matched", task[r].msg.blob) \in Message
    BY <1>6, Dispatch, ChildMsgType DEF FanOut, EmitMatched
  <2>3. outbox' \in [Router -> SUBSET Outgoing]
    BY <1>6, <2>2, EmitType DEF EmitMatched
  <2>4. QED
    BY <1>6, <2>1, <2>3 DEF EmitMatched
<1>7. QED
  BY <1>1, <1>2, <1>3, <1>4, <1>5, <1>6 DEF HandleAnalysis, HandleCveMatch

(* So do the recording of a child and the three reads of the gate.         *)
LEMMA GateType ==
  ASSUME TypeOK, NEW r \in Router, Gate(r)
  PROVE  TypeOK'
<1>. USE TaskMessage DEF TypeOK, kafka, redis, stores, budget
<1>1. CASE RecordSubBlob(r)
  <2>1. task' \in [Router -> Task]
    BY <1>1, Dispatch, GotoType DEF RecordSubBlob, StepsOf
  <2>2. task[r].msg.blob \in Blob
    BY <1>1, Dispatch DEF RecordSubBlob, FanOut
  <2>3. report' \in Report
    BY <1>1, <2>2 DEF RecordSubBlob, Report
  <2>4. QED
    BY <1>1, <2>1, <2>3 DEF RecordSubBlob
<1>2. CASE ReadTotal(r)
  <2>1. PICK s \in {"commit", "readMarker"} :
          task' = [task EXCEPT ![r].tot = total, ![r].at = s]
    <3>1. CASE total = 0
      BY <1>2, <3>1 DEF ReadTotal
    <3>2. CASE total # 0
      BY <1>2, <3>2 DEF ReadTotal
    <3>3. QED
      BY <3>1, <3>2
  <2>2. s \in LoopStep \cup StepsOf(task[r].msg.topic)
    BY <1>2, Dispatch DEF ReadTotal, LoopStep, StepsOf
  <2>3. [task[r] EXCEPT !.tot = total, !.at = s] \in Task
    BY <2>2, ZenonT(40) DEF Task
  <2>4. task' \in [Router -> Task]
    BY <2>1, <2>3
  <2>5. QED
    BY <1>2, <2>4 DEF ReadTotal
<1>3. CASE ReadMarker(r)
  <2>1. PICK s \in LoopStep \cup StepsOf(task[r].msg.topic) :
          s \notin {"countTotal", "emitExtracted"} /\ Goto(r, s)
    BY <1>3, Dispatch DEF ReadMarker, StepsOf, LoopStep
  <2>2. QED
    BY <1>3, <2>1, MoveType DEF ReadMarker
<1>4. CASE ReadMatched(r)
  <2>1. PICK s \in LoopStep \cup StepsOf(task[r].msg.topic) :
          s \notin {"countTotal", "emitExtracted"} /\ Goto(r, s)
    BY <1>4, Dispatch DEF ReadMatched, StepsOf, LoopStep
  <2>2. QED
    BY <1>4, <2>1, MoveType DEF ReadMatched
<1>5. QED
  BY <1>1, <1>2, <1>3, <1>4 DEF Gate

(* So do the steps of finalize_job.                                        *)
LEMMA FinalizeJobType ==
  ASSUME TypeOK, NEW r \in Router, FinalizeJob(r)
  PROVE  TypeOK'
<1>. USE TaskMessage DEF TypeOK, kafka, redis, stores, budget
<1>1. CASE ReadPartial(r)
  <2>1. "listFragments" \in StepsOf(task[r].msg.topic)
    BY <1>1, Dispatch DEF ReadPartial, StepsOf
  <2>2. [task[r] EXCEPT !.found = report.slots, !.at = "listFragments"] \in Task
    BY <2>1, ZenonT(40) DEF Task, Report
  <2>3. task' \in [Router -> Task]
    BY <1>1, <2>2 DEF ReadPartial
  <2>4. QED
    BY <1>1, <2>3 DEF ReadPartial
<1>2. CASE ListFragments(r)
  <2>1. "finalize" \in StepsOf(task[r].msg.topic)
    BY <1>2, Dispatch DEF ListFragments, StepsOf
  <2>2. ASSUME NEW S \in SUBSET Blob
        PROVE  [task[r] EXCEPT !.comps = S, !.at = "finalize"] \in Task
    BY <2>1, ZenonT(40) DEF Task
  <2>3. task' \in [Router -> Task]
    BY <1>2, <2>2 DEF ListFragments
  <2>4. QED
    BY <1>2, <2>3 DEF ListFragments
<1>3. CASE Finalize(r)
  <2>1. PICK s \in LoopStep \cup StepsOf(task[r].msg.topic) :
          s \notin {"countTotal", "emitExtracted"} /\ Goto(r, s)
    BY <1>3, Dispatch DEF Finalize, FinalizeOutcome, StepsOf, LoopStep
  <2>2. task' \in [Router -> Task]
    BY <2>1, GotoType
  <2>3. task[r].found \subseteq Blob /\ task[r].comps \subseteq Blob
    BY DEF Task
  <2>4. report' \in Report
    BY <1>3, <2>3 DEF Finalize, Report
  <2>5. QED
    BY <1>3, <2>2, <2>4 DEF Finalize
<1>4. CASE PutSbom(r)
  <2>1. task' \in [Router -> Task]
    BY <1>4, Dispatch, GotoType DEF PutSbom, StepsOf
  <2>2. objects' \subseteq Objects
    BY <1>4 DEF PutSbom, Objects
  <2>3. QED
    BY <1>4, <2>1, <2>2 DEF PutSbom
<1>5. CASE PutReport(r)
  <2>1. task' \in [Router -> Task]
    BY <1>5, Dispatch, GotoType DEF PutReport, StepsOf
  <2>2. objects' \subseteq Objects
    BY <1>5 DEF PutReport, Objects
  <2>3. QED
    BY <1>5, <2>1, <2>2 DEF PutReport
<1>6. CASE MarkJob(r)
  <2>1. task' \in [Router -> Task]
    BY <1>6, Dispatch, GotoType DEF MarkJob, StepsOf
  <2>2. jobStatus' \in {"open", "COMPLETE"} /\ faults' \in Nat
    BY <1>6 DEF MarkJob
  <2>3. QED
    BY <1>6, <2>1, <2>2 DEF MarkJob
<1>7. CASE EmitCompleted(r)
  <2>1. task' \in [Router -> Task]
    BY <1>7, GotoType DEF EmitCompleted, LoopStep
  <2>2. JobMsg("completed") \in Message
    BY JobMsgType DEF Topic, FanOut
  <2>3. outbox' \in [Router -> SUBSET Outgoing]
    BY <1>7, <2>2, EmitType DEF EmitCompleted
  <2>4. announced' \in Nat
    BY <1>7 DEF EmitCompleted
  <2>5. QED
    BY <1>7, <2>1, <2>3, <2>4 DEF EmitCompleted
<1>8. QED
  BY <1>1, <1>2, <1>3, <1>4, <1>5, <1>6, <1>7 DEF FinalizeJob

(* Every variable keeps its type through every step of every router,       *)
(* every failing call and crash, and every replay (runner.py:120-205 and   *)
(* the five handlers).                                                     *)
THEOREM TypeCorrect == Spec => []TypeOK
<1>1. TypeOK /\ [Next]_vars => TypeOK'
  <2>1. SUFFICES ASSUME TypeOK, [Next]_vars PROVE TypeOK'
    OBVIOUS
  <2>2. CASE Replay
    BY <2>1, <2>2, ReplayType
  <2>3. CASE \E r \in Router : Work(r) \/ Deliver(r) \/ Trouble(r)
    <3>1. PICK r \in Router : Work(r) \/ Deliver(r) \/ Trouble(r)
      BY <2>3
    <3>2. QED
      BY <2>1, <3>1, LoopType, IngestType, ChildType, GateType, FinalizeJobType
         DEF Work
  <2>4. CASE UNCHANGED vars
    BY <2>1, <2>4 DEF TypeOK, vars, kafka, redis, stores, budget
  <2>5. QED
    BY <2>1, <2>2, <2>3, <2>4 DEF Next
<1>2. QED
  BY InitType, <1>1, PTL DEF Spec

-----------------------------------------------------------------------------
(***************************************************************************)
(* Completion.  A router that has won finalize is between the transition   *)
(* of the report and the announcement; a crash or a failing call ends that *)
(* for good, because the transition is never won again.                    *)
(***************************************************************************)
WinnerSteps == {"putSbom", "putReport", "markJob", "emitCompleted"}
Winning(r) == task[r].at \in WinnerSteps

OneWinner == \A q, r \in Router : Winning(q) /\ Winning(r) => q = r

WinnerFirst == \A r \in Router : Winning(r) => report.status = "COMPLETE" /\ announced = 0

UploadsBehindWinner ==
  \A r \in Router :
    /\ task[r].at \in {"putReport", "markJob", "emitCompleted"} => <<"sbom">> \in objects
    /\ task[r].at \in {"markJob", "emitCompleted"} => <<"report">> \in objects

CompletionInv ==
  /\ OneWinner
  /\ WinnerFirst
  /\ UploadsBehindWinner
  /\ AtMostOneCompletion
  /\ AnnouncedIsDurable

(* The state CompletionInv speaks of changes in five actions only; all     *)
(* others move routers without making one a winner.                        *)
LEMMA QuietStep ==
  ASSUME TypeOK, CompletionInv,
         report.status = "COMPLETE" => report'.status = "COMPLETE",
         announced' = announced,
         objects \subseteq objects',
         \A r \in Router : task'[r].at \in WinnerSteps => task'[r].at = task[r].at
  PROVE  CompletionInv'
BY DEF CompletionInv, OneWinner, WinnerFirst, UploadsBehindWinner, Winning,
       WinnerSteps, AtMostOneCompletion, AnnouncedIsDurable

(* Who moves: at most router r, and where to.                              *)
LEMMA GotoMoves ==
  ASSUME task \in [Router -> Task], NEW r \in Router, NEW s, Goto(r, s)
  PROVE  /\ task'[r].at = s
         /\ \A q \in Router : q # r => task'[q] = task[q]
BY DEF Goto, Task

(* The router loop and the faults make no router a winner.                 *)
LEMMA LoopQuiet ==
  ASSUME TypeOK, CompletionInv, NEW r \in Router,
         Loop(r) \/ Deliver(r) \/ Trouble(r)
  PROVE  CompletionInv'
<1>. USE DEF TypeOK, stores
<1>1. /\ report' = report /\ announced' = announced /\ objects \subseteq objects'
  BY DEF Loop, Trouble, Poll, ClaimMessage, SendDlq, Commit, Deliver, Fail,
         SendDlqFails, TripDefence, LateRaise, Crash
<1>2. ASSUME NEW q \in Router, task'[q].at \in WinnerSteps
      PROVE  task'[q].at = task[q].at
  <2>1. CASE q # r
    <3>1. task'[q] = task[q]
      BY <2>1 DEF Loop, Trouble, Poll, ClaimMessage, SendDlq, Commit, Deliver,
                  Fail, SendDlqFails, TripDefence, LateRaise, Crash, Goto
    <3>2. QED
      BY <3>1
  <2>2. CASE q = r /\ ~Deliver(r)
    <3>1. task'[r].at \in {"idle", "claim", "dlq", "commit", "reject", "bloom",
                           "unpack", "analyze", "putFragment", "record"}
      <4>1. CASE Poll(r)
        BY <4>1 DEF Poll, Idle
      <4>2. CASE ClaimMessage(r)
        <5>1. task[r].msg.topic \in Routed
          BY TaskMessage
        <5>2. PICK s : s \in {"commit", "bloom", "unpack", "analyze",
                              "putFragment", "record"} /\ Goto(r, s)
          BY <4>2, <5>1 DEF ClaimMessage, FirstStep, Routed
        <5>3. QED
          BY <5>2, GotoMoves
      <4>3. CASE SendDlq(r) \/ Fail(r) \/ SendDlqFails(r) \/ TripDefence(r) \/ LateRaise(r)
        <5>1. PICK s \in {"commit", "dlq", "reject"} : Goto(r, s)
          BY <4>3 DEF SendDlq, Fail, SendDlqFails, TripDefence, LateRaise
        <5>2. QED
          BY <5>1, GotoMoves
      <4>4. CASE Commit(r) \/ Crash(r)
        BY <4>4 DEF Commit, Crash, Idle
      <4>5. QED
        BY <2>2, <4>1, <4>2, <4>3, <4>4 DEF Loop, Trouble
    <3>2. QED
      BY <1>2, <2>2, <3>1 DEF WinnerSteps
  <2>3. CASE Deliver(r)
    BY <2>3 DEF Deliver
  <2>4. QED
    BY <2>1, <2>2, <2>3
<1>3. QED
  BY <1>1, <1>2, QuietStep

(* Nor do the handlers up to and including the reads of the gate.          *)
LEMMA StagesQuiet ==
  ASSUME TypeOK, CompletionInv, NEW r \in Router,
         HandleTriage(r) \/ HandleUnpack(r) \/ HandleAnalysis(r)
           \/ HandleCveMatch(r) \/ Gate(r) \/ ReadPartial(r) \/ ListFragments(r)
  PROVE  CompletionInv'
<1>. USE DEF TypeOK, stores
<1>1. /\ report.status = "COMPLETE" => report'.status = "COMPLETE"
      /\ announced' = announced
      /\ objects \subseteq objects'
  <2>1. CASE RecordSubBlob(r)
    BY <2>1 DEF RecordSubBlob, Report
  <2>2. CASE ~RecordSubBlob(r)
    BY <2>2 DEF HandleTriage, HandleUnpack, HandleAnalysis, HandleCveMatch, Gate,
       Triage, EmitTriaged, EmitReject, PutChild, CountTotal, EmitExtracted,
       SetMarker, Analyze, CountCompleted, EmitAnalyzed, PutFragment,
       CountMatched, EmitMatched, ReadTotal, ReadMarker, ReadMatched,
       ReadPartial, ListFragments
  <2>3. QED
    BY <2>1, <2>2
<1>2. /\ task'[r].at \notin WinnerSteps
      /\ \A q \in Router : q # r => task'[q] = task[q]
  <2>1. CASE PutChild(r) \/ EmitExtracted(r) \/ ReadTotal(r) \/ ReadPartial(r)
               \/ ListFragments(r)
    <3>1. task[r] \in Task
      OBVIOUS
    <3>2. CASE PutChild(r)
      BY <3>1, <3>2 DEF PutChild, Task, WinnerSteps
    <3>3. CASE EmitExtracted(r)
      BY <3>1, <3>3 DEF EmitExtracted, Task, WinnerSteps
    <3>4. CASE ReadTotal(r)
      BY <3>1, <3>4 DEF ReadTotal, Task, WinnerSteps
    <3>5. CASE ReadPartial(r)
      BY <3>1, <3>5 DEF ReadPartial, Task, WinnerSteps
    <3>6. CASE ListFragments(r)
      BY <3>1, <3>6 DEF ListFragments, Task, WinnerSteps
    <3>7. QED
      BY <2>1, <3>2, <3>3, <3>4, <3>5, <3>6
  <2>2. CASE ~(PutChild(r) \/ EmitExtracted(r) \/ ReadTotal(r) \/ ReadPartial(r)
                 \/ ListFragments(r))
    <3>1. PICK s : s \notin WinnerSteps /\ Goto(r, s)
      BY <2>2 DEF HandleTriage, HandleUnpack, HandleAnalysis, HandleCveMatch, Gate,
         Triage, EmitTriaged, EmitReject, CountTotal, SetMarker, Analyze,
         CountCompleted, EmitAnalyzed, PutFragment, CountMatched, EmitMatched,
         RecordSubBlob, ReadMarker, ReadMatched, WinnerSteps
    <3>2. QED
      BY <3>1, GotoMoves
  <2>3. QED
    BY <2>1, <2>2
<1>3. QED
  BY <1>1, <1>2, QuietStep

(* finalize makes a winner only of a router that finds the report open,    *)
(* and then there was none before (aggregator.py:138-142).                 *)
LEMMA FinalizePreserves ==
  ASSUME TypeOK, CompletionInv, NEW r \in Router, Finalize(r)
  PROVE  CompletionInv'
<1>. USE DEF TypeOK, stores
<1>1. CASE FinalizeOutcome(report.status) = "won"
  <2>1. report.status # "COMPLETE" /\ report'.status = "COMPLETE"
    BY <1>1 DEF Finalize, FinalizeOutcome, Report
  <2>2. announced = 0 /\ announced' = 0
    <3>1. announced = 0
      BY <2>1 DEF CompletionInv, AnnouncedIsDurable
    <3>2. QED
      BY <3>1 DEF Finalize
  <2>3. \A q \in Router : ~Winning(q)
    BY <2>1 DEF CompletionInv, WinnerFirst
  <2>4. Goto(r, "putSbom") /\ objects' = objects
    BY <1>1 DEF Finalize
  <2>5. \A q \in Router : task'[q].at \in WinnerSteps => q = r
    BY <2>3, <2>4, GotoMoves DEF Winning
  <2>6. task'[r].at = "putSbom"
    BY <2>4, GotoMoves
  <2>7. OneWinner' /\ WinnerFirst'
    BY <2>1, <2>2, <2>5 DEF OneWinner, WinnerFirst, Winning
  <2>8. UploadsBehindWinner'
    BY <2>5, <2>6 DEF UploadsBehindWinner, WinnerSteps
  <2>9. QED
    BY <2>2, <2>7, <2>8 DEF CompletionInv, AtMostOneCompletion, AnnouncedIsDurable
<1>2. CASE FinalizeOutcome(report.status) # "won"
  <2>1. report' = report /\ announced' = announced /\ objects' = objects
    BY <1>2 DEF Finalize
  <2>2. PICK s \in {"commit", "dlq"} : Goto(r, s)
    BY <1>2 DEF Finalize, FinalizeOutcome
  <2>3. \A q \in Router : task'[q].at \in WinnerSteps => task'[q].at = task[q].at
    BY <2>2, GotoMoves DEF WinnerSteps
  <2>4. QED
    BY <2>1, <2>3, QuietStep
<1>3. QED
  BY <1>1, <1>2

(* The uploads and the job flip happen behind the one winner, in this      *)
(* order (aggregator.py:151-164).                                          *)
LEMMA UploadPreserves ==
  ASSUME TypeOK, CompletionInv, NEW r \in Router,
         PutSbom(r) \/ PutReport(r) \/ MarkJob(r)
  PROVE  CompletionInv'
<1>. USE DEF TypeOK, stores
<1>1. report' = report /\ announced' = announced /\ objects \subseteq objects'
  BY DEF PutSbom, PutReport, MarkJob
<1>2. Winning(r)
  BY DEF Winning, WinnerSteps, PutSbom, PutReport, MarkJob, At
<1>3. \A q \in Router : q # r => task'[q] = task[q] /\ ~Winning(q)
  <2>1. PICK s : Goto(r, s)
    BY DEF PutSbom, PutReport, MarkJob
  <2>2. QED
    BY <1>2, <2>1, GotoMoves DEF CompletionInv, OneWinner
<1>4. /\ task'[r].at \in {"putReport", "markJob", "emitCompleted"}
      /\ <<"sbom">> \in objects'
      /\ task'[r].at \in {"markJob", "emitCompleted"} => <<"report">> \in objects'
  <2>1. CASE PutSbom(r)
    BY <2>1, GotoMoves DEF PutSbom
  <2>2. CASE PutReport(r)
    BY <2>2, GotoMoves DEF PutReport, At, CompletionInv, UploadsBehindWinner
  <2>3. CASE MarkJob(r)
    BY <2>3, GotoMoves DEF MarkJob, At, CompletionInv, UploadsBehindWinner
  <2>4. QED
    BY <2>1, <2>2, <2>3
<1>5. report.status = "COMPLETE" /\ announced = 0
  BY <1>2 DEF CompletionInv, WinnerFirst
<1>6. OneWinner' /\ WinnerFirst'
  BY <1>1, <1>3, <1>5 DEF OneWinner, WinnerFirst, Winning
<1>7. UploadsBehindWinner'
  BY <1>3, <1>4 DEF UploadsBehindWinner, Winning, WinnerSteps
<1>8. QED
  BY <1>1, <1>5, <1>6, <1>7 DEF CompletionInv, AtMostOneCompletion, AnnouncedIsDurable

(* The one winner announces with both artifacts uploaded and is gone.      *)
LEMMA AnnouncePreserves ==
  ASSUME TypeOK, CompletionInv, NEW r \in Router, EmitCompleted(r)
  PROVE  CompletionInv'
<1>. USE DEF TypeOK, stores
<1>1. Winning(r)
  BY DEF Winning, WinnerSteps, EmitCompleted, At
<1>2. report.status = "COMPLETE" /\ announced = 0
  BY <1>1 DEF CompletionInv, WinnerFirst
<1>3. report' = report /\ objects' = objects /\ announced' = 1
  BY <1>2 DEF EmitCompleted
<1>4. {<<"sbom">>, <<"report">>} \subseteq objects
  BY DEF EmitCompleted, At, CompletionInv, UploadsBehindWinner
<1>5. task'[r].at = "commit" /\ \A q \in Router : q # r => task'[q] = task[q]
  BY GotoMoves DEF EmitCompleted
<1>6. \A q \in Router : task'[q].at \notin WinnerSteps
  BY <1>1, <1>5 DEF CompletionInv, OneWinner, Winning, WinnerSteps
<1>7. QED
  BY <1>2, <1>3, <1>4, <1>6
     DEF CompletionInv, OneWinner, WinnerFirst, UploadsBehindWinner, Winning,
         WinnerSteps, AtMostOneCompletion, AnnouncedIsDurable

(* Every step preserves CompletionInv.                                     *)
LEMMA CompletionStep == TypeOK /\ CompletionInv /\ [Next]_vars => CompletionInv'
<1>. SUFFICES ASSUME TypeOK, CompletionInv, [Next]_vars PROVE CompletionInv'
  OBVIOUS
<1>1. CASE Replay
  BY <1>1, QuietStep DEF Replay, stores
<1>2. CASE UNCHANGED vars
  BY <1>2, QuietStep DEF vars, stores
<1>3. ASSUME NEW r \in Router, Work(r) \/ Deliver(r) \/ Trouble(r)
      PROVE  CompletionInv'
  BY <1>3, LoopQuiet, StagesQuiet, FinalizePreserves, UploadPreserves,
     AnnouncePreserves
     DEF Work, FinalizeJob
<1>4. QED
  BY <1>1, <1>2, <1>3 DEF Next

(* No one has won anything initially.                                      *)
LEMMA CompletionInit == Init => CompletionInv
BY DEF Init, CompletionInv, OneWinner, WinnerFirst, UploadsBehindWinner, Winning,
       WinnerSteps, AtMostOneCompletion, AnnouncedIsDurable, Idle

(* The inductive invariant behind the two theorems that follow: at most    *)
(* one router is past finalize, and its uploads are in order               *)
(* (aggregator.py:132-166).                                                *)
THEOREM CompletionCorrect == Spec => []CompletionInv
BY TypeCorrect, CompletionInit, CompletionStep, PTL DEF Spec

(* firmware.completed is produced at most once per job, whatever the       *)
(* topology, the crashes, the failures and the replays                     *)
(* (aggregator.py:138-143, reports.py:12-14).                              *)
THEOREM CompletionAtMostOnce == Spec => []AtMostOneCompletion
<1>1. CompletionInv => AtMostOneCompletion
  BY DEF CompletionInv
<1>2. QED
  BY <1>1, CompletionCorrect, PTL

(* When it is produced, the report is final and both artifacts named in it *)
(* are in MinIO (aggregator.py:145-164).                                   *)
THEOREM CompletionDurable == Spec => []AnnouncedIsDurable
<1>1. CompletionInv => AnnouncedIsDurable
  BY DEF CompletionInv
<1>2. QED
  BY <1>1, CompletionCorrect, PTL

-----------------------------------------------------------------------------
(* record_sub_blob upserts a slot and nothing else, and finalize answers   *)
(* "lost" or raises once the report is COMPLETE: whichever store is used   *)
(* and however many aggregations race, no step changes a final report's    *)
(* status, findings or components (reports.py:49-121).                     *)
THEOREM FrozenReport == Spec => FinalReportFrozen
<1>. DEFINE Frozen == report.status = "COMPLETE" =>
                        /\ report'.status = "COMPLETE"
                        /\ report'.findings = report.findings
                        /\ report'.comps = report.comps
<1>1. TypeOK /\ [Next]_vars => [Frozen]_vars
  <2>1. SUFFICES ASSUME TypeOK, Next PROVE Frozen
    OBVIOUS
  <2>2. CASE report' = report
    BY <2>2
  <2>3. ASSUME NEW r \in Router, RecordSubBlob(r) PROVE Frozen
    BY <2>1, <2>3 DEF RecordSubBlob, TypeOK, Report
  <2>4. ASSUME NEW r \in Router, Finalize(r) PROVE Frozen
    BY <2>4 DEF Finalize, FinalizeOutcome
  <2>5. QED
    BY <2>1, <2>2, <2>3, <2>4, ZenonT(40)
       DEF Next, Work, Loop, HandleTriage, HandleUnpack, HandleAnalysis,
           HandleCveMatch, Gate, FinalizeJob, Trouble, Poll, ClaimMessage, SendDlq,
           Commit, Deliver, Fail, SendDlqFails, TripDefence, LateRaise, Crash, Replay, Triage,
           EmitTriaged, EmitReject, PutChild, CountTotal, EmitExtracted, SetMarker,
           Analyze, CountCompleted, EmitAnalyzed, PutFragment, CountMatched,
           EmitMatched, ReadTotal, ReadMarker, ReadMatched, ReadPartial,
           ListFragments, PutSbom, PutReport, MarkJob, EmitCompleted, stores
<1>2. QED
  BY <1>1, TypeCorrect, PTL DEF Spec, FinalReportFrozen

=============================================================================
