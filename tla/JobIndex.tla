------------------------------ MODULE JobIndex ------------------------------
(***************************************************************************)
(* The per-job vector indexes of the integration app (services/integration:*)
(* job_index.py, app.py).  A consumer thread builds the index of a job when *)
(* firmware.completed arrives; a task of the event loop sweeps indexes that *)
(* are older than the time to live.  Both work on one dictionary, without a *)
(* lock.                                                                   *)
(*                                                                         *)
(* Ages are counted in sweep intervals and stop at Ttl + 1.  What a report *)
(* says is one value: chunks are taken from a finalized one or not.        *)
(***************************************************************************)
EXTENDS Naturals, Sequences, FiniteSets

CONSTANTS
  Job,
  NoIndex,
  Ttl,             \* DEFAULT_TTL_SECONDS
  MaxRecords,      \* bound on the records on the broker
  MaxBuildFaults,  \* bound on builds that raise
  MaxAppRestarts   \* bound on restarts of the app

Content == {"none", "partial", "final"}

ASSUME JobIndexAssumption ==
  /\ Ttl \in Nat /\ NoIndex \notin [text : Content, age : Nat]
  /\ MaxRecords \in Nat /\ MaxBuildFaults \in Nat /\ MaxAppRestarts \in Nat

VARIABLES
  report,     \* report[j]: "none", "partial" or "final" in the report store
  log,        \* the records of the topics, in the order the thread polls them
  position,   \* the place it has come to
  start,      \* the place it has joined at
  committed,  \* the place its group had committed when the app last ended, 0: none
  skipped,    \* jobs completed before the place the thread starts at (history)
  builder,    \* the consumer thread: "join", "poll", "fetch", "encode" or "dead"
  job, text,  \* its job and the report it has read
  indexes,    \* _indexes: [text, age], in no order
  sweeper,    \* "asleep", "scan", "teardown" or "dead"
  unseen,     \* keys the scan has still to visit
  overdue,    \* keys whose entry was expired when the scan read the clock
  expired,    \* the list the scan makes
  grown,      \* the dictionary got a new key during the scan
  rebuilt,    \* jobs built since the scan read the clock (history)
  swept,      \* jobs whose index a sweep has removed (history)
  buildFaults, appRestarts

groupVars == <<start, committed, skipped>>
builderVars == <<position, builder, job, text, buildFaults, groupVars>>
sweepVars == <<sweeper, unseen, overdue, expired, swept>>
jobIndexVars == <<report, log, builderVars, indexes, sweepVars, grown, rebuilt,
                  appRestarts>>

Keys == {j \in Job : indexes[j] # NoIndex}
Fresh(content) == [text |-> content, age |-> 0]

JobIndexInit ==
  /\ report = [j \in Job |-> "none"] /\ log = << >> /\ position = 0
  /\ start = 0 /\ committed = 0 /\ skipped = {}
  /\ builder = "join" /\ job \in Job /\ text = "none"
  /\ indexes = [j \in Job |-> NoIndex]
  /\ sweeper = "asleep" /\ unseen = {} /\ overdue = {} /\ expired = {}
  /\ grown = FALSE /\ rebuilt = {} /\ swept = {}
  /\ buildFaults = 0 /\ appRestarts = 0

-----------------------------------------------------------------------------
(* The pipeline: a partial report at the first match, the final one before *)
(* firmware.completed, which a retry of the aggregator may emit again.     *)

Emit(kind, j) ==
  /\ Len(log) < MaxRecords
  /\ log' = Append(log, [kind |-> kind, job |-> j])
  /\ UNCHANGED <<builderVars, indexes, sweepVars, grown, rebuilt, appRestarts>>

Matched(j) ==
  /\ report[j] = "none" /\ report' = [report EXCEPT ![j] = "partial"]
  /\ Emit("matched", j)

Complete(j) ==
  /\ report[j] # "none" /\ report' = [report EXCEPT ![j] = "final"]
  /\ Emit("completed", j)

-----------------------------------------------------------------------------
(* NotifierConsumer.run and JobIndexService.on_event.                      *)

\* Only firmware.completed is of interest.
OnEvent(record) ==
  IF record.kind = "completed" THEN builder' = "fetch" /\ job' = record.job
  ELSE UNCHANGED <<builder, job>>

\* auto.offset.reset is "latest": a group that has committed nothing starts at
\* the end, and what was produced before is never built.
JoinAt == IF committed = 0 THEN Len(log) ELSE committed

Join ==
  /\ builder = "join" /\ builder' = "poll" /\ position' = JoinAt /\ start' = JoinAt
  /\ skipped' = skipped \cup {j \in Job : \E i \in position + 1..JoinAt :
                                 log[i] = [kind |-> "completed", job |-> j]}
  /\ UNCHANGED <<report, log, committed, job, text, indexes, sweepVars, grown, rebuilt,
                 buildFaults, appRestarts>>

PollRecord ==
  /\ builder = "poll" /\ position < Len(log)
  /\ position' = position + 1 /\ OnEvent(log[position + 1])
  /\ UNCHANGED <<report, log, groupVars, text, indexes, sweepVars, grown, rebuilt,
                 buildFaults, appRestarts>>

\* build_for_job: get, then chunks_from_report.
FetchReport ==
  /\ builder = "fetch" /\ builder' = "encode" /\ text' = report[job]
  /\ UNCHANGED <<report, log, position, groupVars, job, indexes, sweepVars, grown, rebuilt,
                 buildFaults, appRestarts>>

\* JobIndexManager.build: the chunks are encoded, then the slot is assigned.
\* A dictionary that is being scanned notices a new key, not a new value.
Build ==
  /\ builder = "encode" /\ builder' = "poll"
  /\ indexes' = [indexes EXCEPT ![job] = Fresh(text)]
  /\ grown' = (grown \/ (sweeper = "scan" /\ job \notin Keys))
  /\ overdue' = overdue \ {job} /\ rebuilt' = rebuilt \cup {job}
  /\ UNCHANGED <<report, log, position, groupVars, job, text, sweeper, unseen, expired, swept,
                 buildFaults, appRestarts>>

\* Faulty variant: a failing build ends the consumer thread.
BuildKillsThread ==
  /\ builder \in {"fetch", "encode"} /\ builder' = "dead"
  /\ buildFaults < MaxBuildFaults /\ buildFaults' = buildFaults + 1
  /\ UNCHANGED <<report, log, position, groupVars, job, text, indexes, sweepVars, grown,
                 rebuilt, appRestarts>>

\* The report store or the embedder raises; on_event logs it.
BuildFails ==
  /\ builder \in {"fetch", "encode"} /\ builder' = "poll"
  /\ buildFaults < MaxBuildFaults /\ buildFaults' = buildFaults + 1
  /\ UNCHANGED <<report, log, position, groupVars, job, text, indexes, sweepVars, grown,
                 rebuilt, appRestarts>>

-----------------------------------------------------------------------------
(* The sweeper: sleep, JobIndexManager.sweep, and again.                   *)

\* Faulty variant: an index as old as the time to live has expired.
ExpiredAtTtl(j) == indexes[j].age >= Ttl

Expired(j) == indexes[j].age > Ttl

\* The clock is read, and the iteration over the items begins.
Wake ==
  /\ sweeper = "asleep" /\ sweeper' = "scan"
  /\ unseen' = Keys /\ overdue' = {j \in Keys : Expired(j)} /\ expired' = {}
  /\ grown' = FALSE /\ rebuilt' = {}
  /\ UNCHANGED <<report, log, builderVars, indexes, swept, appRestarts>>

Visit ==
  /\ sweeper = "scan" /\ ~grown
  /\ \E j \in unseen : /\ unseen' = unseen \ {j}
                       /\ expired' = expired \cup ({j} \cap overdue)
  /\ UNCHANGED <<report, log, builderVars, indexes, sweeper, overdue, swept, grown,
                 rebuilt, appRestarts>>

\* Faulty variant: the exception ends the task.
ScanKillsTask ==
  /\ sweeper = "scan" /\ grown /\ sweeper' = "dead"
  /\ UNCHANGED <<report, log, builderVars, indexes, unseen, overdue, expired, swept,
                 grown, rebuilt, appRestarts>>

\* "dictionary changed size during iteration": nothing is torn down.
ScanRaises ==
  /\ sweeper = "scan" /\ grown /\ sweeper' = "asleep" /\ unseen' = {}
  /\ UNCHANGED <<report, log, builderVars, indexes, overdue, expired, swept, grown,
                 rebuilt, appRestarts>>

ScanEnds ==
  /\ sweeper = "scan" /\ ~grown /\ unseen = {} /\ sweeper' = "teardown"
  /\ UNCHANGED <<report, log, builderVars, indexes, unseen, overdue, expired, swept,
                 grown, rebuilt, appRestarts>>

\* teardown pops whatever is in the slot by now.
Teardown ==
  /\ sweeper = "teardown"
  /\ IF expired = {} THEN sweeper' = "asleep" /\ UNCHANGED <<indexes, expired, swept>>
     ELSE \E j \in expired :
            /\ indexes' = [indexes EXCEPT ![j] = NoIndex]
            /\ expired' = expired \ {j} /\ swept' = swept \cup {j}
            /\ UNCHANGED sweeper
  /\ UNCHANGED <<report, log, builderVars, unseen, overdue, grown, rebuilt, appRestarts>>

Older(index) ==
  IF index = NoIndex \/ index.age > Ttl THEN index ELSE [index EXCEPT !.age = @ + 1]

Tick ==
  /\ indexes' = [j \in Job |-> Older(indexes[j])] /\ indexes' # indexes
  /\ UNCHANGED <<report, log, builderVars, sweepVars, grown, rebuilt, appRestarts>>

\* The indexes are lost, and the thread joins its group anew.  Offsets are
\* committed by a timer: which of the places it came to is the last is open.
AppRestart ==
  /\ appRestarts < MaxAppRestarts /\ appRestarts' = appRestarts + 1
  /\ committed' \in {committed} \cup (start + 1..position)
  /\ builder' = "join" /\ text' = "none" /\ indexes' = [j \in Job |-> NoIndex]
  /\ sweeper' = "asleep" /\ unseen' = {} /\ overdue' = {} /\ expired' = {}
  /\ grown' = FALSE /\ rebuilt' = {}
  /\ UNCHANGED <<report, log, position, start, skipped, job, swept, buildFaults>>

Consume == Join \/ PollRecord \/ FetchReport \/ Build
Sweep == Wake \/ Visit \/ ScanRaises \/ ScanEnds \/ Teardown
JobIndexNext ==
  \/ \E j \in Job : Matched(j) \/ Complete(j)
  \/ Consume \/ BuildFails \/ Sweep \/ Tick \/ AppRestart

JobIndexSpec == JobIndexInit /\ [][JobIndexNext]_jobIndexVars

\* The daemon thread and the task run as long as the process, and time passes.
JobIndexFairSpec ==
  JobIndexSpec /\ WF_jobIndexVars(Consume) /\ WF_jobIndexVars(Sweep)
  /\ WF_jobIndexVars(Tick)

-----------------------------------------------------------------------------
(* Properties.                                                             *)

\* Type correctness; the sweep works on a list of keys it has seen.
JobIndexTypeOK ==
  /\ report \in [Job -> Content]
  /\ log \in Seq([kind : {"matched", "completed"}, job : Job])
  /\ position \in 0..Len(log) /\ job \in Job /\ text \in Content
  /\ start \in 0..position /\ committed \in 0..Len(log) /\ skipped \subseteq Job
  /\ builder \in {"join", "poll", "fetch", "encode", "dead"}
  /\ indexes \in [Job -> {NoIndex} \cup [text : Content, age : 0..Ttl + 1]]
  /\ sweeper \in {"asleep", "scan", "teardown", "dead"}
  /\ unseen \subseteq Keys /\ overdue \subseteq Job /\ swept \subseteq Job
  /\ sweeper = "scan" => expired \cap unseen = {}
  /\ sweeper = "teardown" => expired \subseteq Keys
  /\ grown \in BOOLEAN /\ rebuilt \subseteq Job
  /\ buildFaults \in Nat /\ appRestarts \in Nat

\* The chat index of a job is made of its finished report, whatever else the
\* topics deliver and however often (on_event, build_for_job).
IndexIsFinal ==
  \A j \in Keys : indexes[j].text = "final" /\ report[j] = "final"

\* Build may race with the sweep, but never lets it take an index before its
\* time: one that goes early was rebuilt after the sweep had read the clock,
\* in the place of one that had expired (sweep, teardown).
YoungIndexKept ==
  [][\A j \in Keys : indexes'[j] = NoIndex /\ appRestarts' = appRestarts =>
       indexes[j].age > Ttl \/ j \in rebuilt]_jobIndexVars

\* Memory is given back: an expired index goes or is built anew, although new
\* jobs make scans fail (sweep, _sweeper).
ExpiredIndexFreed ==
  \A j \in Job : (j \in Keys /\ indexes[j].age > Ttl)
                   ~> (j \notin Keys \/ indexes[j].age <= Ttl)

\* "a build failure for one job never breaks the pipeline": every job that is
\* completed has had its index, unless a build failed, the app restarted or its
\* record was produced before the group existed ("latest"), and the records are
\* consumed in any case.
CompletedIsIndexed ==
  /\ \A j \in Job : (report[j] = "final") ~>
       (j \in Keys \cup swept \cup skipped \/ buildFaults > 0 \/ appRestarts > 0)
  /\ []<>(position = Len(log))
=============================================================================
