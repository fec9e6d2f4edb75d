-------------------------- MODULE FirmwarePipeline --------------------------
(***************************************************************************)
(* One firmware job on its way through the five stages of the router:      *)
(*                                                                         *)
(*   uploaded -> triage -> triaged -> unpack -> extracted (one per child)  *)
(*     -> analysis -> analyzed -> cve_match -> matched -> aggregate        *)
(*     -> completed                                                        *)
(*                                                                         *)
(* Every call of a handler that touches Redis, MinIO, MongoDB, Postgres or *)
(* Kafka is a step of its own, so handlers of different router processes   *)
(* interleave between any two of them.  Redis keys, the report document    *)
(* and the idempotency claims are all namespaced by job or by child: jobs  *)
(* do not interact here, and one job stands for all.                       *)
(*                                                                         *)
(* A topic is an unordered collection of uncommitted records: the fan-out  *)
(* topics are keyed by sub_blob_id, so two children share no partition and *)
(* no order.                                                               *)
(***************************************************************************)
EXTENDS Naturals, FiniteSets

CONSTANTS
  Blob,        \* the uuid4 values extraction may draw for sub-blobs
  NoBlob,      \* the blob of a job-scoped message
  Router,      \* router processes
  Serves,      \* Serves[r]: the topics router r subscribes to (SERVICES)
  Leaves,      \* how many leaf blobs this firmware image unpacks to
  Backend,     \* "contract" or "mongo": the report store, see FinalizeOutcome
  MaxFaults,   \* bound on failing calls, lost dead letters not counted
  MaxCrashes   \* bound on process crashes

Routed == {"uploaded", "triaged", "extracted", "analyzed", "matched"}
FanOut == {"extracted", "analyzed", "matched"}
Topic == Routed \cup {"completed"}

(* A record as the router sees it.  try counts DLQ replays: the original   *)
(* record (try = 0) carries its Kafka key, a replayed one carries none.    *)
Message == [topic: FanOut, blob: Blob, try: Nat]
             \cup [topic: Topic \ FanOut, blob: {NoBlob}, try: Nat]

Msg(t, b) == [topic |-> t, blob |-> b, try |-> 0]
JobMsg(t) == Msg(t, NoBlob)

(* The idempotency key: the Kafka key if there is one, else the hash of    *)
(* the value.  Topic and child determine both, so what is left of the key  *)
(* is which of the two was used.                                           *)
ClaimKey(m) == [topic |-> m.topic, blob |-> m.blob, hashed |-> m.try > 0]
Claim == [topic: Topic, blob: Blob \cup {NoBlob}, hashed: BOOLEAN]

(* What sits in a producer's local queue: a record for a stage topic or a  *)
(* dead letter holding the record it is about.                             *)
Outgoing == [to: {"topic", "dlq"}, msg: Message]

(* The steps of the handler registered for each topic.                     *)
StepsOf(t) ==
  CASE t = "uploaded"  -> {"bloom", "emitTriaged", "reject"}
    [] t = "triaged"   -> {"unpack", "countTotal", "emitExtracted", "reject"}
    [] t = "extracted" -> {"analyze", "countCompleted", "emitAnalyzed"}
    [] t = "analyzed"  -> {"putFragment", "countMatched", "emitMatched"}
    [] t = "matched"   -> {"record", "readTotal", "readMarker", "readMatched",
                           "readPartial", "listFragments", "finalize",
                           "putSbom", "putReport", "markJob", "emitCompleted"}
LoopStep == {"idle", "claim", "dlq", "commit"}

(* What a router has in hand: where it is, the record it polled, and the   *)
(* handler's locals: unpack's current leaf and count, aggregate's reads.   *)
Task == {t \in [at: LoopStep \cup UNION {StepsOf(tp) : tp \in Routed},
                msg: {m \in Message : m.topic \in Routed},
                blob: Blob \cup {NoBlob}, done: Nat,
                tot: Nat, found: SUBSET Blob, comps: SUBSET Blob] :
           /\ t.at \in LoopStep \cup StepsOf(t.msg.topic)
           /\ t.at \in {"countTotal", "emitExtracted"} => t.blob \in Blob}

Idle == [at |-> "idle", msg |-> JobMsg("uploaded"), blob |-> NoBlob,
         done |-> 0, tot |-> 0, found |-> {}, comps |-> {}]

Report == [status: {"NONE", "PARTIAL", "COMPLETE"},
           slots: SUBSET Blob, findings: SUBSET Blob, comps: SUBSET Blob]

ASSUME ConstantsAssumption ==
  /\ NoBlob \notin Blob
  /\ Serves \in [Router -> SUBSET Routed]
  /\ Leaves \in Nat \ {0}
  /\ Backend \in {"contract", "mongo"}
  /\ MaxFaults \in Nat
  /\ MaxCrashes \in Nat

VARIABLES
  pending,    \* records on the stage topics, not yet committed
  outbox,     \* outbox[r]: librdkafka's queue of produced, undelivered records
  dlq,        \* firmware.dlq: the records the dead letters hold
  task,       \* task[r]: what router r is doing
  claims,     \* Redis processed:{topic}:{key}
  total,      \* Redis job:{id}:total_children (0: the key is absent)
  completed,  \* Redis job:{id}:completed_children
  matched,    \* Redis job:{id}:matched_children
  marker,     \* Redis job:{id}:extraction_complete
  seen,       \* the Bloom filter answers "present" for this image's hash
  suspicious, \* the image fails the magic-byte or size pre-check
  objects,    \* MinIO: <<"child", b>>, <<"fragment", b>>, <<"sbom">>, <<"report">>
  report,     \* the job's document in the report store
  jobStatus,  \* the Postgres jobs row
  announced,  \* how many firmware.completed have been produced
  faults,     \* failing calls so far
  crashes     \* crashes so far

redis == <<claims, total, completed, matched, marker, seen>>
budget == <<faults, crashes>>
stores == <<objects, report, jobStatus>>
kafka == <<pending, outbox, dlq>>
vars == <<kafka, task, redis, stores, announced, suspicious, budget>>

Objects == ({"child", "fragment"} \X Blob) \cup {<<"sbom">>, <<"report">>}

(***************************************************************************)
(* Helpers                                                                 *)
(***************************************************************************)
At(r, s) == task[r].at = s
Goto(r, s) == task' = [task EXCEPT ![r].at = s]

(* ctx.emit: producer.produce only queues the record locally.              *)
Emit(r, m) ==
  outbox' = [outbox EXCEPT ![r] = @ \cup {[to |-> "topic", msg |-> m]}]

Delivered(r, out) == {o.msg : o \in {x \in outbox[r] : x.to = out}}

FirstStep(t) ==
  CASE t = "uploaded"  -> "bloom"
    [] t = "triaged"   -> "unpack"
    [] t = "extracted" -> "analyze"
    [] t = "analyzed"  -> "putFragment"
    [] t = "matched"   -> "record"

Init ==
  /\ pending = {JobMsg("uploaded")}
  /\ outbox = [r \in Router |-> {}]
  /\ dlq = {}
  /\ task = [r \in Router |-> Idle]
  /\ claims = {}
  /\ total = 0 /\ completed = 0 /\ matched = 0
  /\ marker = FALSE
  /\ seen \in BOOLEAN
  /\ suspicious \in BOOLEAN
  /\ objects = {}
  /\ report = [status |-> "NONE", slots |-> {}, findings |-> {}, comps |-> {}]
  /\ jobStatus = "open"
  /\ announced = 0
  /\ faults = 0 /\ crashes = 0

-----------------------------------------------------------------------------
(***************************************************************************)
(* The router loop                                                         *)
(***************************************************************************)

(* poll hands an idle router any uncommitted record of its topics that no  *)
(* other member of the group is working on.                                *)
Poll(r) ==
  /\ At(r, "idle")
  /\ \E m \in pending :
       /\ m.topic \in Serves[r]
       /\ \A q \in Router : ~At(q, "idle") => task[q].msg # m
       /\ task' = [task EXCEPT ![r] = [Idle EXCEPT !.at = "claim", !.msg = m]]
  /\ UNCHANGED <<kafka, redis, stores, announced, suspicious, budget>>

(* Faulty variant: the result of the claim is ignored.                     *)
ClaimIgnored(r) ==
  /\ At(r, "claim")
  /\ claims' = claims \cup {ClaimKey(task[r].msg)}
  /\ Goto(r, FirstStep(task[r].msg.topic))
  /\ UNCHANGED <<kafka, total, completed, matched, marker, seen, stores,
                 announced, suspicious, budget>>

(* claim_message: SET NX; a duplicate goes straight to the commit.         *)
ClaimMessage(r) ==
  LET key == ClaimKey(task[r].msg) IN
  /\ At(r, "claim")
  /\ claims' = claims \cup {key}
  /\ Goto(r, IF key \in claims THEN "commit" ELSE FirstStep(task[r].msg.topic))
  /\ UNCHANGED <<kafka, total, completed, matched, marker, seen, stores,
                 announced, suspicious, budget>>

(* Any call of process_message may raise, before it takes effect or after: *)
(* a call that takes effect and then raises is that step, and then the     *)
(* failure of the next one.  markJob is the exception, as mark_job_complete*)
(* swallows its errors; and for the two calls that no failing call follows *)
(* see LateRaise.                                                          *)
Fail(r) ==
  /\ task[r].at \notin {"idle", "dlq", "commit", "markJob"}
  /\ faults < MaxFaults
  /\ faults' = faults + 1
  /\ Goto(r, "dlq")
  /\ UNCHANGED <<kafka, redis, stores, announced, suspicious, crashes>>

(* The except branch: produce the dead letter and flush the producer.      *)
SendDlq(r) ==
  /\ At(r, "dlq")
  /\ dlq' = dlq \cup Delivered(r, "dlq") \cup {task[r].msg}
  /\ pending' = pending \cup Delivered(r, "topic")
  /\ outbox' = [outbox EXCEPT ![r] = {}]
  /\ Goto(r, "commit")
  /\ UNCHANGED <<redis, stores, announced, suspicious, budget>>

(* Producing the dead letter raises and is swallowed, or the flush times   *)
(* out with the dead letter still queued: the loop commits all the same.   *)
SendDlqFails(r) ==
  /\ At(r, "dlq")
  /\ \/ UNCHANGED outbox
     \/ outbox' = [outbox EXCEPT ![r] = @ \cup {[to |-> "dlq", msg |-> task[r].msg]}]
  /\ Goto(r, "commit")
  /\ UNCHANGED <<pending, dlq, redis, stores, announced, suspicious, budget>>

(* The finally branch: a synchronous commit of this record's offset.       *)
Commit(r) ==
  /\ At(r, "commit")
  /\ pending' = pending \ {task[r].msg}
  /\ task' = [task EXCEPT ![r] = Idle]
  /\ UNCHANGED <<outbox, dlq, redis, stores, announced, suspicious, budget>>

(* The producer's background thread gets a queued record acknowledged.     *)
Deliver(r) ==
  /\ \E o \in outbox[r] :
       /\ outbox' = [outbox EXCEPT ![r] = @ \ {o}]
       /\ \/ /\ o.to = "topic"
             /\ pending' = pending \cup {o.msg}
             /\ UNCHANGED dlq
          \/ /\ o.to = "dlq"
             /\ dlq' = dlq \cup {o.msg}
             /\ UNCHANGED pending
  /\ UNCHANGED <<task, redis, stores, announced, suspicious, budget>>

(* The process dies and restarts: the record in hand is uncommitted and    *)
(* will be polled again, the producer's local queue is gone.               *)
Crash(r) ==
  /\ ~At(r, "idle") \/ outbox[r] # {}
  /\ crashes < MaxCrashes
  /\ crashes' = crashes + 1
  /\ task' = [task EXCEPT ![r] = Idle]
  /\ outbox' = [outbox EXCEPT ![r] = {}]
  /\ UNCHANGED <<pending, dlq, redis, stores, announced, suspicious, faults>>

(* The DLQ replay worker re-injects a dead letter, without a key.          *)
Replay ==
  /\ \E m \in dlq :
       /\ dlq' = dlq \ {m}
       /\ pending' = pending \cup {[m EXCEPT !.try = @ + 1]}
  /\ UNCHANGED <<outbox, task, redis, stores, announced, suspicious, budget>>

-----------------------------------------------------------------------------
(***************************************************************************)
(* triage: pre-check, Bloom filter, then firmware.triaged or a dead letter *)
(***************************************************************************)
Triage(r) ==
  /\ At(r, "bloom")
  /\ IF suspicious
     THEN Goto(r, "reject") /\ UNCHANGED seen
     ELSE /\ seen' = TRUE
          /\ Goto(r, IF seen THEN "reject" ELSE "emitTriaged")
  /\ UNCHANGED <<kafka, claims, total, completed, matched, marker, stores,
                 announced, suspicious, budget>>

EmitTriaged(r) ==
  /\ At(r, "emitTriaged")
  /\ Emit(r, JobMsg("triaged"))
  /\ Goto(r, "commit")
  /\ UNCHANGED <<pending, dlq, redis, stores, announced, suspicious, budget>>

(* A rejection by triage or unpack: the handler itself emits the dead      *)
(* letter, through ctx.emit and so without a flush.                        *)
EmitReject(r) ==
  /\ At(r, "reject")
  /\ outbox' = [outbox EXCEPT ![r] = @ \cup {[to |-> "dlq", msg |-> task[r].msg]}]
  /\ Goto(r, "commit")
  /\ UNCHANGED <<pending, dlq, redis, stores, announced, suspicious, budget>>

-----------------------------------------------------------------------------
(***************************************************************************)
(* unpack: per leaf put, INCR total_children, emit; then the marker        *)
(***************************************************************************)

(* Faulty variant: the child is emitted before it is counted.              *)
EmitBeforeCount(r) ==
  /\ At(r, "unpack")
  /\ task[r].done < Leaves
  /\ \E b \in Blob :
       /\ <<"child", b>> \notin objects
       /\ objects' = objects \cup {<<"child", b>>}
       /\ Emit(r, Msg("extracted", b))
       /\ task' = [task EXCEPT ![r].at = "countTotal", ![r].blob = b]
  /\ UNCHANGED <<pending, dlq, redis, report, jobStatus, announced, suspicious, budget>>

(* The generator yields the next leaf under a fresh uuid, and its bytes    *)
(* are put in MinIO.                                                       *)
PutChild(r) ==
  /\ At(r, "unpack")
  /\ task[r].done < Leaves
  /\ \E b \in Blob :
       /\ <<"child", b>> \notin objects
       /\ objects' = objects \cup {<<"child", b>>}
       /\ task' = [task EXCEPT ![r].at = "countTotal", ![r].blob = b]
  /\ UNCHANGED <<kafka, redis, report, jobStatus, announced, suspicious, budget>>

CountTotal(r) ==
  /\ At(r, "countTotal")
  /\ total' = total + 1
  /\ Goto(r, "emitExtracted")
  /\ UNCHANGED <<kafka, claims, completed, matched, marker, seen, stores,
                 announced, suspicious, budget>>

EmitExtracted(r) ==
  /\ At(r, "emitExtracted")
  /\ Emit(r, Msg("extracted", task[r].blob))
  /\ task' = [task EXCEPT ![r].at = "unpack", ![r].done = @ + 1]
  /\ UNCHANGED <<pending, dlq, redis, stores, announced, suspicious, budget>>

(* Another leaf was due and a zip-bomb defence raised ExtractionError.     *)
TripDefence(r) ==
  /\ At(r, "unpack")
  /\ task[r].done < Leaves
  /\ faults < MaxFaults
  /\ faults' = faults + 1
  /\ Goto(r, "reject")
  /\ UNCHANGED <<kafka, redis, stores, announced, suspicious, crashes>>

SetMarker(r) ==
  /\ At(r, "unpack")
  /\ task[r].done = Leaves
  /\ marker' = TRUE
  /\ Goto(r, "commit")
  /\ UNCHANGED <<kafka, claims, total, completed, matched, seen, stores,
                 announced, suspicious, budget>>

-----------------------------------------------------------------------------
(***************************************************************************)
(* analysis: read the child, INCR completed_children, emit                 *)
(***************************************************************************)
Analyze(r) ==
  /\ At(r, "analyze")
  /\ Goto(r, IF <<"child", task[r].msg.blob>> \in objects
             THEN "countCompleted" ELSE "dlq")
  /\ UNCHANGED <<kafka, redis, stores, announced, suspicious, budget>>

CountCompleted(r) ==
  /\ At(r, "countCompleted")
  /\ completed' = completed + 1
  /\ Goto(r, "emitAnalyzed")
  /\ UNCHANGED <<kafka, claims, total, matched, marker, seen, stores,
                 announced, suspicious, budget>>

(* Faulty variant: a child that is analyzed is not told of.                *)
AnalyzedUntold(r) ==
  /\ At(r, "emitAnalyzed")
  /\ Goto(r, "commit")
  /\ UNCHANGED <<kafka, redis, stores, announced, suspicious, budget>>

EmitAnalyzed(r) ==
  /\ At(r, "emitAnalyzed")
  /\ Emit(r, Msg("analyzed", task[r].msg.blob))
  /\ Goto(r, "commit")
  /\ UNCHANGED <<pending, dlq, redis, stores, announced, suspicious, budget>>

-----------------------------------------------------------------------------
(***************************************************************************)
(* cve_match: put the SBOM fragment, INCR matched_children, emit           *)
(***************************************************************************)
PutFragment(r) ==
  /\ At(r, "putFragment")
  /\ objects' = objects \cup {<<"fragment", task[r].msg.blob>>}
  /\ Goto(r, "countMatched")
  /\ UNCHANGED <<kafka, redis, report, jobStatus, announced, suspicious, budget>>

CountMatched(r) ==
  /\ At(r, "countMatched")
  /\ matched' = matched + 1
  /\ Goto(r, "emitMatched")
  /\ UNCHANGED <<kafka, claims, total, completed, marker, seen, stores,
                 announced, suspicious, budget>>

EmitMatched(r) ==
  /\ At(r, "emitMatched")
  /\ Emit(r, Msg("matched", task[r].msg.blob))
  /\ Goto(r, "commit")
  /\ UNCHANGED <<pending, dlq, redis, stores, announced, suspicious, budget>>

-----------------------------------------------------------------------------
(***************************************************************************)
(* aggregate: record the child, read the gate key by key, then assemble,   *)
(* finalize, upload, flip the job and announce                             *)
(***************************************************************************)

(* Faulty variant: aggregate, too, INCRs matched_children.                 *)
RecordCounts(r) ==
  /\ At(r, "record")
  /\ report' = [report EXCEPT !.slots = @ \cup {task[r].msg.blob}]
  /\ matched' = matched + 1
  /\ Goto(r, "readTotal")
  /\ UNCHANGED <<kafka, claims, total, completed, marker, seen, objects,
                 jobStatus, announced, suspicious, budget>>

(* record_sub_blob: an upsert of this child's slot only.                   *)
RecordSubBlob(r) ==
  /\ At(r, "record")
  /\ report' = [report EXCEPT
                  !.slots = @ \cup {task[r].msg.blob},
                  !.status = IF @ = "NONE" THEN "PARTIAL" ELSE @]
  /\ Goto(r, "readTotal")
  /\ UNCHANGED <<kafka, redis, objects, jobStatus, announced, suspicious, budget>>

(* completion_ready is three GETs, total first and matched last.           *)
ReadTotal(r) ==
  /\ At(r, "readTotal")
  /\ task' = [task EXCEPT ![r].tot = total,
                          ![r].at = IF total = 0 THEN "commit" ELSE "readMarker"]
  /\ UNCHANGED <<kafka, redis, stores, announced, suspicious, budget>>

ReadMarker(r) ==
  /\ At(r, "readMarker")
  /\ Goto(r, IF marker THEN "readMatched" ELSE "commit")
  /\ UNCHANGED <<kafka, redis, stores, announced, suspicious, budget>>

(* Faulty variant: gate on the analysis-stage counter.                     *)
GateOnCompleted(r) ==
  /\ At(r, "readMatched")
  /\ Goto(r, IF completed >= task[r].tot THEN "readPartial" ELSE "commit")
  /\ UNCHANGED <<kafka, redis, stores, announced, suspicious, budget>>

(* Faulty variant: the comparison of the gate is off by one.               *)
GateOffByOne(r) ==
  /\ At(r, "readMatched")
  /\ Goto(r, IF matched > task[r].tot THEN "readPartial" ELSE "commit")
  /\ UNCHANGED <<kafka, redis, stores, announced, suspicious, budget>>

ReadMatched(r) ==
  /\ At(r, "readMatched")
  /\ Goto(r, IF matched >= task[r].tot THEN "readPartial" ELSE "commit")
  /\ UNCHANGED <<kafka, redis, stores, announced, suspicious, budget>>

ReadPartial(r) ==
  /\ At(r, "readPartial")
  /\ task' = [task EXCEPT ![r].found = report.slots, ![r].at = "listFragments"]
  /\ UNCHANGED <<kafka, redis, stores, announced, suspicious, budget>>

ListFragments(r) ==
  /\ At(r, "listFragments")
  /\ task' = [task EXCEPT ![r].comps = {b \in Blob : <<"fragment", b>> \in objects},
                          ![r].at = "finalize"]
  /\ UNCHANGED <<kafka, redis, stores, announced, suspicious, budget>>

(* The paths MongoReportStore.finalize names under each update operator.   *)
MongoSet == {"job_id", "status", "generated_at", "executive_summary",
             "summary_stats", "components", "findings", "report_s3_key",
             "sbom_s3_key"}
MongoSetOnInsert == {"job_id"}

(* Faulty variant: finalize without the status guard.                      *)
FinalizeUnguarded(status) == "won"

(* What finalize answers when the document has this status.  The store's   *)
(* contract is a compare-and-set.  MongoDB refuses an update naming one    *)
(* path under two operators, and an upsert whose filter misses the         *)
(* existing document runs into the unique index on job_id.                 *)
FinalizeOutcome(status) ==
  IF Backend = "contract"
  THEN IF status = "COMPLETE" THEN "lost" ELSE "won"
  ELSE IF MongoSet \cap MongoSetOnInsert # {} \/ status = "COMPLETE"
       THEN "raises" ELSE "won"

Finalize(r) ==
  LET outcome == FinalizeOutcome(report.status) IN
  /\ At(r, "finalize")
  /\ report' = IF outcome = "won"
               THEN [report EXCEPT !.status = "COMPLETE",
                                   !.findings = task[r].found,
                                   !.comps = task[r].comps]
               ELSE report
  /\ Goto(r, CASE outcome = "won"    -> "putSbom"
               [] outcome = "lost"   -> "commit"
               [] outcome = "raises" -> "dlq")
  /\ UNCHANGED <<kafka, redis, objects, jobStatus, announced, suspicious, budget>>

(* Faulty variant: the report itself is not uploaded.                      *)
ReportNotUploaded(r) ==
  /\ At(r, "putSbom")
  /\ objects' = objects \cup {<<"sbom">>}
  /\ Goto(r, "markJob")
  /\ UNCHANGED <<kafka, redis, report, jobStatus, announced, suspicious, budget>>

PutSbom(r) ==
  /\ At(r, "putSbom")
  /\ objects' = objects \cup {<<"sbom">>}
  /\ Goto(r, "putReport")
  /\ UNCHANGED <<kafka, redis, report, jobStatus, announced, suspicious, budget>>

PutReport(r) ==
  /\ At(r, "putReport")
  /\ objects' = objects \cup {<<"report">>}
  /\ Goto(r, "markJob")
  /\ UNCHANGED <<kafka, redis, report, jobStatus, announced, suspicious, budget>>

(* mark_job_complete is best effort: it may fail, and the handler goes on. *)
MarkJob(r) ==
  /\ At(r, "markJob")
  /\ \/ jobStatus' = "COMPLETE" /\ UNCHANGED faults
     \/ /\ faults < MaxFaults
        /\ faults' = faults + 1
        /\ UNCHANGED jobStatus
  /\ Goto(r, "emitCompleted")
  /\ UNCHANGED <<kafka, redis, objects, report, announced, suspicious, crashes>>

EmitCompleted(r) ==
  /\ At(r, "emitCompleted")
  /\ Emit(r, JobMsg("completed"))
  /\ announced' = announced + 1
  /\ Goto(r, "commit")
  /\ UNCHANGED <<pending, dlq, redis, stores, suspicious, budget>>

(* The SET of the marker, or the upload of the report, takes effect and    *)
(* then raises: its answer is lost, or it times out.                       *)
LateRaise(r) ==
  /\ \/ /\ At(r, "unpack") /\ task[r].done = Leaves
        /\ marker' = TRUE
        /\ UNCHANGED objects
     \/ /\ At(r, "putReport")
        /\ objects' = objects \cup {<<"report">>}
        /\ UNCHANGED marker
  /\ faults < MaxFaults
  /\ faults' = faults + 1
  /\ Goto(r, "dlq")
  /\ UNCHANGED <<kafka, claims, total, completed, matched, seen, report, jobStatus,
                 announced, suspicious, crashes>>

-----------------------------------------------------------------------------
Loop(r) == Poll(r) \/ ClaimMessage(r) \/ SendDlq(r) \/ Commit(r)
HandleTriage(r) == Triage(r) \/ EmitTriaged(r) \/ EmitReject(r)
HandleUnpack(r) ==
  PutChild(r) \/ CountTotal(r) \/ EmitExtracted(r) \/ SetMarker(r)
HandleAnalysis(r) == Analyze(r) \/ CountCompleted(r) \/ EmitAnalyzed(r)
HandleCveMatch(r) == PutFragment(r) \/ CountMatched(r) \/ EmitMatched(r)
Gate(r) == RecordSubBlob(r) \/ ReadTotal(r) \/ ReadMarker(r) \/ ReadMatched(r)
FinalizeJob(r) ==
  \/ ReadPartial(r) \/ ListFragments(r) \/ Finalize(r)
  \/ PutSbom(r) \/ PutReport(r) \/ MarkJob(r) \/ EmitCompleted(r)

(* What a live router does next with the record in hand, or its next poll. *)
Work(r) ==
  \/ Loop(r) \/ HandleTriage(r) \/ HandleUnpack(r) \/ HandleAnalysis(r)
  \/ HandleCveMatch(r) \/ Gate(r) \/ FinalizeJob(r)

Trouble(r) ==
  Fail(r) \/ LateRaise(r) \/ SendDlqFails(r) \/ TripDefence(r) \/ Crash(r)

Next == (\E r \in Router : Work(r) \/ Deliver(r) \/ Trouble(r)) \/ Replay

Spec == Init /\ [][Next]_vars

(* Each router process keeps running (restart: unless-stopped), librdkafka *)
(* keeps sending, and the replay worker keeps consuming firmware.dlq.      *)
Fairness ==
  /\ \A r \in Router : WF_vars(Work(r)) /\ WF_vars(Deliver(r))
  /\ WF_vars(Replay)

FairSpec == Spec /\ Fairness

-----------------------------------------------------------------------------
TypeOK ==
  /\ pending \subseteq Message
  /\ outbox \in [Router -> SUBSET Outgoing]
  /\ dlq \subseteq Message
  /\ task \in [Router -> Task]
  /\ claims \subseteq Claim
  /\ total \in Nat /\ completed \in Nat /\ matched \in Nat
  /\ marker \in BOOLEAN /\ seen \in BOOLEAN /\ suspicious \in BOOLEAN
  /\ objects \subseteq Objects
  /\ report \in Report
  /\ jobStatus \in {"open", "COMPLETE"}
  /\ announced \in Nat /\ faults \in Nat /\ crashes \in Nat

(* Every record that exists anywhere: on a topic, queued, or in firmware.dlq. *)
InFlight ==
  pending \cup dlq \cup {o.msg : o \in UNION {outbox[r] : r \in Router}}
           \cup {task[r].msg : r \in {q \in Router : ~At(q, "idle")}}

Unpacked == {b \in Blob : <<"child", b>> \in objects}
Fragmented == {b \in Blob : <<"fragment", b>> \in objects}

(* aggregator.py:138-140, reports.py:12-14: whatever crashes, faults,      *)
(* redeliveries and replays there are, a job is announced at most once.    *)
AtMostOneCompletion == announced <= 1

(* aggregator.py:138-164: firmware.completed is produced only for a job    *)
(* whose report is final and whose two artifacts are in MinIO: a consumer  *)
(* that follows its s3 keys finds both.                                    *)
AnnouncedIsDurable ==
  announced > 0 =>
    /\ report.status = "COMPLETE"
    /\ {<<"sbom">>, <<"report">>} \subseteq objects

(* unpack.py:47-49: a child is counted before it is announced, so at any   *)
(* moment total_children covers every child some stage may be working on.  *)
TotalCoversFanOut ==
  Cardinality({m.blob : m \in {x \in InFlight : x.topic \in FanOut}}) <= total

(* cve_match.py:46-60: when a child reaches the aggregator its SBOM        *)
(* fragment is already in MinIO, whichever run of the match stage won.     *)
MatchedHasFragment ==
  \A m \in InFlight : m.topic = "matched" => m.blob \in Fragmented

(* unpack.py:58-60, idempotency.py:4-7: once extraction_complete is set no *)
(* INCR of total_children follows, wherever processes die and records are  *)
(* redelivered.  (A failing call ends that: the SET of the marker itself   *)
(* may take effect and then raise, and the dead letter, replayed under     *)
(* another key, unpacks the image once more.)                              *)
TotalFinalOnceMarked ==
  [][marker /\ faults = 0 => marker' /\ total' = total]_vars

(* reports.py:110-121: a finalized report never changes again: no second   *)
(* aggregation replaces its findings or components or reopens it.          *)
FinalReportFrozen ==
  [][report.status = "COMPLETE" =>
       /\ report'.status = "COMPLETE"
       /\ report'.findings = report.findings
       /\ report'.comps = report.comps]_vars

(* The gate (aggregator.py:6-7): the report is assembled only when         *)
(* extraction is over and every child has been matched, and its SBOM lists *)
(* the components of every child (cve_match.py:46-52, aggregator.py:119).  *)
GateSound ==
  report.status = "COMPLETE" =>
    /\ marker /\ Cardinality(Fragmented) = total
    /\ Unpacked = Fragmented /\ report.comps = Unpacked

(* README.md:23: the final report is assembled once every child is matched:*)
(* its findings are those of every child.                                  *)
ReportComplete == report.status = "COMPLETE" => report.findings = Unpacked

(* idempotency.py:4-7: a redelivery, after a death between handling and    *)
(* commit, never double-increments a completion counter: matched_children  *)
(* exceeds the children whose fragment is stored by no more than one for   *)
(* each failing call, whatever crashes, is redelivered and is replayed; and*)
(* total_children never exceeds the children that were put.  (The words of *)
(* ARCHITECTURE.md:131-132 go further: a replayed message counts twice if  *)
(* cve_match failed after its INCR.)                                       *)
CountersCountChildren ==
  /\ matched <= Cardinality(Fragmented) + faults
  /\ total <= Cardinality(Unpacked)

(* unpack.py:47-49, analysis.py:53-60: while nothing fails, a child that   *)
(* has been put and has no fragment yet is with unpack, which is to tell of*)
(* it, or a record that tells of it is on its way: no claim and no commit  *)
(* loses the last one.                                                     *)
EveryChildTravels ==
  \A b \in Unpacked \ Fragmented :
    \/ \E r \in Router : task[r].at \in {"countTotal", "emitExtracted"} /\ task[r].blob = b
    \/ \E m \in InFlight : m.topic \in {"extracted", "analyzed"} /\ m.blob = b

(* idempotency.py:18-28 with dlq_replay.py:66-100: a record is handled at  *)
(* most once under its Kafka key and once under its hash, so a permanently *)
(* rejected image circulates through firmware.dlq twice, not for ever.     *)
ReplaysBounded == \A m \in InFlight : m.try <= 2 + faults

(* ARCHITECTURE.md:116-124: while nothing fails the gate opens: where one  *)
(* router serves all stages, a job that triage accepted, so that its       *)
(* firmware.triaged is on the topic, has an aggregation that comes to      *)
(* finalize its report.                                                    *)
TriagedReachesFinalize ==
  (\E m \in pending : m.topic = "triaged") ~> \E r \in Router : At(r, "finalize")

(* ARCHITECTURE.md:74-98: such a job ends with firmware.completed on its   *)
(* topic.                                                                  *)
TriagedCompletes ==
  (\E m \in pending : m.topic = "triaged") ~> JobMsg("completed") \in pending

(* README.md:23: the final report is assembled once every child is matched.*)
AllMatchedAssembles ==
  (marker /\ total > 0 /\ matched = total) ~> report.status = "COMPLETE"

-----------------------------------------------------------------------------
(***************************************************************************)
(* What the pipeline promises about a job, see JobReport: a child is found *)
(* when it is counted and ready when its match is counted.                 *)
(***************************************************************************)
Found == Unpacked \ {task[r].blob : r \in {q \in Router : At(q, "countTotal")}}
Ready == Fragmented \ {task[r].msg.blob : r \in {q \in Router : At(q, "countMatched")}}

Promise == INSTANCE JobReport WITH
  Child <- Blob, found <- Found, closed <- marker, ready <- Ready,
  assembled <- report.status = "COMPLETE", components <- report.comps,
  announced <- announced

(* The stages together keep the promise of JobReport.                      *)
ImplementsJobReport == Promise!Spec

=============================================================================
