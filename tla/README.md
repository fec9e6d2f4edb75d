# A TLA+ model of Firmosaurus

Firmosaurus takes a firmware image through triage, unpacking, analysis, CVE
matching and aggregation. The stages are Kafka consumers hosted by *router*
processes, either all by one router (`docker-compose.yml`, `SERVICES=all`) or
spread over four (`docker-compose.prod.yml:54-88`), and meet only in Kafka,
Redis, MinIO, MongoDB and Postgres. What is hard about it is exactly that:
counters in Redis decide when a job is complete, records are delivered at least
once, a claim in Redis is to make redelivery harmless, and a replay worker puts
failed records back. The modules here are translated from the source and check,
and in part prove, what holds of that protocol and what does not.

## 1. Inventory

| component | source | state | operations | interacts through |
|---|---|---|---|---|
| Router loop | `services/router/runner.py`, `idempotency.py`, `dlq.py` | position in the loop, record in hand, producer queue, consumer position; Redis `processed:*` | poll, validate, claim, dispatch, dead-letter, commit, shut down | Kafka group `firmosaurus-router`, Redis |
| Topology and contracts | `services/router/topology.py`, `shared/topics.py`, `shared/redis_keys.py`, `shared/contracts/` | none | subscriptions, keying rule, key names, validation | used by every process |
| Stage handlers | `services/router/handlers/` | Redis counters and marker of a job, MinIO objects | triage, unpack, analysis, cve_match, aggregate | `ctx.emit`, `ctx.redis`, MinIO |
| Aggregator, report store, artifacts | `cve_matching/aggregator.py`, `reports.py`, `artifacts.py`, `jobs_status.py` | report document, two artifacts, jobs row | record, gate, finalize, upload, flip, announce | MongoDB, MinIO, Postgres |
| DLQ replay and lock | `cve_matching/dlq_replay.py`, `locks.py` | `lock:dlq_retry:{job}`, attempts | take, lock, re-inject with back-off, release, commit | `firmware.dlq`, stage topics, Redis |
| Triage logic, Bloom filter | `ingestion/triage.py`, `bloom.py`, `magic.py` | bitmap `bloom:firmware_hashes` | pre-check, add if absent | Redis |
| Unpacking, sandbox | `ingestion/unpack.py`, `extract.py`, `sandbox.py`, `defenses.py` | work directory, running output total, child process | walk, extract, limits, kill on timeout | files, subprocess |
| Upload gateway | `gateway/app.py`, `storage.py`, `jobs.py`, `events.py` | jobs row, multipart upload | create, complete, get | Postgres, MinIO, `firmware.uploaded` |
| Notifier | `notifier/hub.py`, `consumer.py`, `progress.py`, `app.py` | subscribers per job, progress per job | subscribe, broadcast, fold event, snapshot | all topics, WebSockets, Redis |
| Job index | `integration/job_index.py`, `app.py` | index per job with its age | build on completion, query, sweep, tear down | `firmware.completed`, reports |
| Reports API | `integration/http.py`, `reports_api.py`, `schema.py` | none | read reports, take verdicts, recalibrate | MongoDB, Postgres |
| Feedback loop | `integration/feedback_loop.py`, `cve_matching/feedback.py` | verdicts, thresholds per family | record, recalibrate | Postgres, matcher configuration |
| CVE matcher | `cve_matching/matcher.py`, `tiering.py`, `cpe.py`, `normalize.py`, `config.py` | none | exact match, embedding fallback, tiers | corpus |
| Corpus ETL | `cve_matching/nvd_etl.py`, `refresh_daemon.py`, `corpus.py` | corpus, last refresh | page, upsert, resume | NVD, Postgres |
| Static analysis | `static_analysis/` | none | bytes to findings | called by the analysis handler |
| Embeddings, LLM, RAG | `cve_matching/embeddings.py`, `llm.py`, `rag.py`, `security.py` | caches | encode, narrate, answer | model services |
| Frontend | `frontend/src/` | UI state | upload, follow, read | gateway, notifier |

Hard behaviours, each listed with its line under `hazards` in `PROJECT.json`:
the gate is three separate reads of keys other processes move; it is looked at
only when a child is aggregated; counters move before the record they stand for
is on its topic; a claim is made before the work and survives it; a replay has
another claim key than its original; the partition can move while its former
owner is inside a handler, and that owner's commit may arrive last; the producer
is asynchronous and an offset can be committed while outputs are still queued;
`release` of the lock is a GET and a DELETE; the Bloom filter is read and set one
bit at a time by several routers; binwalk, its watchdog and its pipes run beside
the walk; consumer threads share dictionaries with event loops; NVD changes while
it is paged through.

What makes each component correct: the loop never passes over a record and runs
a handler at most once per key; a job is announced at most once, with its
artifacts, and its final report never changes; the gate opens only for a job
whose extraction is over and whose children are all matched; the fan-out total
covers every child under way; every dead letter is committed in the end, and a
job whose dead letter was blocked is attended to while nothing fails; a job is
put on `firmware.uploaded` at most once, and triage decides on it or dead-letters
it unless its record is lost or its router dies; no admitted image is admitted
again; no archive gets past a defence it trips, but for a binwalk container whose
child ends before the watchdog looks, and the leaves that go out are those of the
archive; a browser sees every job that completes completed, and never more than
happened; indexes live for their time and no longer; a CVE keeps its strongest
match; thresholds follow the verdicts and nothing else; and the corpus holds what
NVD had when the last complete run began. Section 3 says where the code falls
short of its own words on these points.

## 2. Modules

| module | models | abstracts from |
|---|---|---|
| `FirmwarePipeline` | one job, five handlers, router loop, DLQ and replay, all stores; every external call is a step | payload contents; partitions and offsets; rebalances (see `RouterLoop`) |
| `JobReport` | what the pipeline promises about a job: discover, match, close, assemble once, announce once | everything else; `FirmwarePipeline` is shown to implement it |
| `RouterLoop` | the loop over one partition: offsets, group, rebalances, former owners, failing commits, shutdown, crash, restart | what the handlers do |
| `DlqReplay` | replay workers, their group, its rebalances, and the expiring per-job lock | offsets: each dead letter is taken for a partition of its own |
| `UploadGateway` | browser and gateway: create, PUT, complete; every call a step that may fail with or without effect | multipart uploads of more than one part |
| `BloomTriage` | triage with the filter's GETBITs and SETBITs as single steps of several routers | digests and magic numbers (constants) |
| `Intake` | `UploadGateway` and `BloomTriage` joined by `firmware.uploaded` | |
| `UnpackWalk` | the depth-first walk, four defences, the binwalk child, watchdog, timeout, temp dir | archive formats: an archive is a tree of nodes with sizes, given with its depth-first order |
| `Notifier` | consumer thread, tracker, hub, mailboxes, sockets | the stages that only change wording |
| `Progress` | `UnpackWalk` and `Notifier` joined by the topics: what a user sees of a job | the stages between, but for the count of matches and the completion |
| `JobIndex` | the consumer thread that builds indexes against the sweep of the event loop | chunks and vectors |
| `Matching` | one sub-blob matched component by component against a growing corpus | embeddings (similarities are constants), rationale text |
| `Calibration` | `Matching` with verdicts, recalibration and the thresholds of two processes | users and roles |
| `NvdRefresh` | full, incremental and scheduled runs, paging, batching, upserts, the daemon | record contents but for CVE and version; `max_records` |
| `MC*` | instances for TLC | |
| `*Proofs` | theorems and their proofs | |

Correspondence, pipeline. In `FirmwarePipeline`, `task[r]` is the position of
router `r` in `run`/`process_message`/its handler with the handler's locals;
`pending` are the records of the stage topics that are not committed; `outbox[r]`
is the local queue of `producer.produce`; `claims`, `total`, `completed`,
`matched` and `marker` are the Redis keys of `shared/redis_keys.py`; `objects` the
MinIO objects; `report` the document of the report store. Actions are named for
what they do (`CountTotal`, `ReadMarker`, `Finalize`, ...) in the order of the
code. `Fail` stands for a call that raises before it takes effect, so every step
of every handler can be the one that fails. A call that takes effect and then
raises is that step followed by the failure of the next; where no call that can
fail follows, which is so of the SET of the marker and of the upload of the
report, it is `LateRaise`. `Backend` chooses the semantics of
`ReportStore.finalize`: the contract the in-memory store implements, or what
MongoDB makes of the update `MongoReportStore` sends. In `RouterLoop`,
`position[c]` is the consumer's fetch position, `committed` the group's offset,
and `owner # c` with `at[c]` inside a handler is a former owner at work. The
coordinator (`Assign`, `Revoke`) is external. `CommitRaises` of a former owner and
the effective late `Commit` are both possible outcomes of the client library: the
broker checks membership and generation, not ownership. In `DlqReplay` a worker
stands for the token of its acquisition. `TakeOver` is a rebalance that gives a
record to another worker before the first has committed it; the first goes on
(`lost`), and its commit then counts or is refused (`CommitRefused`), on which
`run` flushes and ends. `QueueExpires` is a record that librdkafka gives up after
`message.timeout.ms`. `Passed` are the dead letters of which nothing is put back:
those about `firmware.dlq` itself, which are skipped, and those on which
`_job_id_of`, or `replay_record` before it, raises.

Correspondence, the way in. `gw` is the next external call of the one handler
that runs: the gateway's handlers never await, so a request is served to its end
before the next. `tab[j]` is the position of the browser in `uploadFirmware`. A
multipart upload under way (`multipart`) is used up by its completion, which is
what makes a repeated completion fail; a call of the gateway that fails may have
reached the server all the same (`CallFails`). `outbox` is librdkafka's queue;
`Flush` may return with the record in it. In `BloomTriage` a router that has read
a record computes the pre-check (`Inspect`), and then goes over the positions of
the digest twice, with `GetBit` up to the first zero and with `SetBit`. A failing
call or a death leaves the bits set so far; the record comes back by replay.

Correspondence, unpacking and progress. `stack` holds the calls of `_recurse`,
each with its node, its files and the next of them; `stage` is what the handler
does next. `Poll` of the sandbox is one turn of the polling loop: the child works,
ends, is killed by the watchdog, by the wall clock or by its own limits, and may
leave a `helper` of its process group behind. The walk itself never looks at
`Order`, `At`, `Past` and `Level`: they are what it is held against. A definition
of them by recursion over the tree is out of the prover's reach, so they are
constants, and `DepthFirst` states what the order of a tree is; TLC evaluates it
for the archives of `MCUnpackWalk`, which computes them by recursion. `Verbose`
marks images on which binwalk fills the pipe that nobody reads. In `Notifier`,
`callbacks` are the snapshots passed to `call_soon_threadsafe` and not yet run, `slot[b]` the one-slot
mailbox, `held[b]` the snapshot between `get` and the end of `send_json`, and
`conn[b] = "gone"` a socket that the browser closed and only a send will find
closed. One job is followed, since no entry of the hub or tracker is shared by two.
`NotifierRestart` reads each topic again from the last automatic commit, or, where
there is none, goes to its end (`auto.offset.reset` is `latest`). In `Progress` the
record of `firmware.completed` may come before the last ones of `firmware.matched`
(`Complete`): the gate goes by a counter that runs ahead of them.

Correspondence, integration. In `JobIndex`, `builder` and `sweeper` are the two
threads of control; `Join` is the assignment of the topic, at what the group has
`committed` or else at the end (`latest`), which skips what was produced before
(`skipped`); `unseen` and `grown` are the state of the iteration over
`_indexes.items()`, which raises if the dictionary got a key since. In `Matching`,
`stage` is the position in `match_sub_blob` for the component `next`: its CPEs
(`lookups`) are queried one by one and find the rows whose CPE is equal to them in
every field (`rest` is what follows the version, `AnyRest` the wildcards of
`build_cpe`); what they or the similarity search found (`todo`) goes through `_offer` one by one, and rows may arrive between any two of
these steps. `best` is the dict of that name; `offered`, `early` and, in
`Calibration`, `calibrated` are history; `verdicts` is the table of that name, an
`id` telling equal rows apart. `overrides` has a table for each of the two processes
that load `config.py`, of which recalibration changes only the API's. In
`NvdRefresh`, `run` is the run under way with its window, `start_index`, `total`
and batch, of which the order does not matter: an upsert keeps the newest row of a
CVE, and what is fetched later is newer. NVD lists by number: `Place` counts the
CVEs of the query's window that are listed before one. A CVE that is modified
while a run pages through the window keeps its place, or enters the window and
pushes those behind it back. `covered` and `disturbed` are history: how far back
the corpus is known to be complete, and whether something excuses a gap.

Definitions commented *Faulty variant* are not reachable from any
specification: each is a plausible bug of the definition after it, and the
property it must break is listed with it under `mutants` in `PROJECT.json`.

## 3. Runs

Deadlock is checked in `NvdRefresh` alone: a scheduler never rests. Everywhere
else the system rests when its topics are empty or its bounds are used up.

Passing:

| run | instance | shows |
|---|---|---|
| `PipelineFat` | one router, 3 leaves, no failing call, fair | the gate opens on a closed and fully matched job, with every child in the SBOM; no child is lost before its fragment is stored; refinement of `JobReport`; the gate does open: an aggregation of a triaged job comes to `finalize` |
| `PipelineScaled` | two full routers, 2 leaves, 1 failing call, before or after its effect, 1 crash | at most one completion, durable; replays end; the total covers the fan-out; the counters count children, but for one more match per failing call; the total is final once extraction is marked complete, unless a call failed |
| `RouterLoop` | 2 members, 4 records (1 poison, 1 duplicate key), 2 rebalances, 1 crash, 1 failing call, fair | one handler per key, nothing passed over, skips hide no loss; the partition is worked off |
| `DlqReplay` | 2 workers, 2 dead letters of one job, 1 to pass by, 1 rebalance, 1 crash, 1 failing Redis call or expired record, fair | retries exclude each other; one copy per take, and another take only for a crash or a rebalance; a job whose dead letter was blocked is attended to while nothing fails; every dead letter is committed, even if every emit fails |
| `Intake` | 2 uploads of 3 kinds of image, 1 repeated completion, 1 failure of the gateway, 2 routers, 1 failure of triage, a filter of 4 bits, fair | at most one record per job; an admitted image is not admitted again, a duplicate is owed to real images; what the client was told is submitted is decided on or dead-lettered by triage, unless its record is lost or its router dies |
| `Progress` | 10 archives, depth cap 2, ratio 4, 1 failing call or child; two of them followed by a browser over 2 connections and 1 restart of the notifier, fair | leaves in order and complete; no hostile archive passes, but for one that binwalk is done with before the watchdog looks, and no layer is blamed wrongly; output bounded; extraction ends with its temp dir gone; the newest snapshot is never lost, nothing is shown too early, completion is shown |
| `JobIndex` | 2 jobs, 5 records, some of which may precede the first assignment, 1 failing build, 1 restart, fair | a sweep takes old indexes only, or those rebuilt under it; it takes every old one; a completed job is indexed |
| `Calibration` | 2 families, 3 rows, one of which names an update, up to 2 components of 4, one of them of no family, every initial corpus; 3 verdicts | the strongest offer stays; a row of the corpus that names a component exactly, and nothing beyond, is found; thresholds follow the verdicts counted |
| `NvdRefresh` | 4 CVEs of which 3 in scope, pages of 1, batches of 2, interval 1, window 2, 3 publications and modifications, 1 run by hand, 1 failure or stop, fair | what the covered time says is in the corpus is there; undisturbed windows meet; the scheduler goes on |

Violations, each a statement of the repository that the code does not keep (the
quotations are under `findings`):

| run | the code |
|---|---|
| `VTriagedCompletes` | never completes a job that has a child: with the report store the routers build, the update of `finalize` is rejected every time |
| `VReportComplete` | finalizes with findings missing: the counter runs ahead of the recorded matches |
| `VAllMatchedAssembles` | leaves a job PARTIAL for ever when its last child is aggregated before the marker is set |

Bounds. Counters that would grow (`faults`, `crashes`, `rebalances`, `visits`,
...) are bounded by constants in the guards of the actions that raise them. Two or
three leaves are enough for a gate to be passed by one child while another is at
any other stage; two racing routers are the case `finalize` guards against, three
add no new pair; uuids are drawn from a set with one or two to spare, so that a
replayed unpacking can draw fresh ones. One failing call suffices for every
double-counting and replay scenario; that its dead letter is lost too costs no
further one. One rebalance gives a dead letter to both workers, before or after the
first has put it back. Four records put a poison record and a
duplicate key around an ordinary one. The images of `Intake` are the same bytes
twice, two images that share a bit of the filter, and one that fails the
pre-check just beyond its limit; two positions per digest are the fewest for which
reading and setting interleave. The archives of `Progress` are one for each
defence at and beyond its limit, and two that only the limits on the whole walk
catch. Two jobs let the sweep iterate over one index while the other is added.
Five records let both jobs complete, one of them twice, before or after the group
first joins. Rows and components of `Calibration` cover an exact match, a spelling
of the vendor, a row that the lookup misses for its update, a similarity at a
threshold, a tie and a CVE of two families. Pages of
one let an entry be shifted past the total by one that enters the window between two
pages, and with batches of two a run can fail with some rows written and, within
a batch, with the first; a
window of two intervals is the code's 26 hours to 24, rounded up. Liveness runs
use no symmetry.

Fairness. A router that is running takes its next step and is restarted when it
dies (`restart: unless-stopped`); librdkafka's threads keep sending; the replay
worker's `while True` keeps consuming `firmware.dlq` (deployments that do not
start it only keep records there); the event loops of
gateway, notifier and integration app run what is ready; a consumer thread keeps
polling and the sweeper keeps waking; time passes and the scheduler's timer fires.
The unpack handler goes on, and so does its polling loop: binwalk itself need
never end. Nothing is assumed of clients, of tabs, of the success of a call beyond
the bound on failures, of the completion of a job in `Progress`, or, in `DlqReplay`, of
the broker and of the expiry of keys.
`Calibration` and `PipelineScaled` check safety only and assume nothing.

### What the code does besides

Behaviour the models have, or that came up while reading, and that a reader should
know of. Where the repository says otherwise, its words are given.

Pipeline.
- With `MongoReportStore`, `finalize` names `job_id` under `$set` and under
  `$setOnInsert` of one update (`reports.py:110-121`), which MongoDB rejects: the
  aggregation raises and ends in `firmware.dlq`. This is the store that
  `runtime.py:64-68` builds, so with the code as it is no job that has a child
  completes: `VTriagedCompletes` shows it with `Backend = "mongo"`. The passing runs
  use the semantics of the in-memory store, which the tests use too: they check the
  protocol around `finalize` as it is meant to work. What they say of it being
  reached (`TriagedReachesFinalize`) is independent of the store, and the theorems
  hold of both.
- In the deployment of four routers the three GETs of `completion_ready` can
  straddle the end of extraction, a total read before the last INCR with a marker
  read after it, and the gate opens early. `GateSound` is a property of the
  single-router deployment.
- "a redelivery never double-increments a completion counter"
  (`idempotency.py:6-7`) holds of the redelivery after a death, and does not extend
  to replays, which `ARCHITECTURE.md:131-132` includes: a `cve_match` that fails
  after its INCR is replayed under another key and counts its child twice.
  `CountersCountChildren` allows one match more for each failing call, and no more.
- When the SET of the marker takes effect and then raises (`unpack.py:60`), the
  record is dead-lettered, and its replay unpacks the image again with fresh uuids:
  the total grows behind the marker, and the gate, open for a moment on the old
  total, may have let the job be finalized without them. The same happens when a
  crash leaves the record to be redelivered and its claim then fails.
  `TotalFinalOnceMarked` holds up to the first failing call, through any crash.
- A malformed record fails before its claim, so each of its replays fails again, and
  nothing bounds its circulation between its topic and `firmware.dlq`. The models
  have no record that fails every time; no property says that the stage topics drain.
- A lock that expires between the GET and the DELETE of its release is deleted
  under its next owner (`locks.py:41-42`), although the lock is said never to be
  "freed by a different owner (or after it has expired and been re-acquired)"
  (`locks.py:5-7`). With `TtlOutlivesHold = FALSE` TLC finds `ReleasesOwnLock` of
  `DlqReplay` violated by two workers of one job; `OwnLockReleased` proves it
  where the time to live is long enough.
- A record whose claim outlived a crash of its handler is skipped and lost
  (`ClaimMessage`); an image whose `firmware.triaged` could not be emitted is
  rejected on replay as a duplicate of itself (`EmitClean`).
- A dead letter can be committed unretried in four ways: it is blocked by another
  retry of its job (`Acquire` of `DlqReplay`); its payload is JSON but no object, on
  which `_job_id_of` raises (`dlq_replay.py:62`); a Redis call fails; or it is put
  back, the flush times out, and the queued record expires or dies with its worker.
  What remains true is `BlockedIsAttended`: while no call fails, nothing expires and
  nobody dies, a record that can be read, or another one of its job, was put back or
  given up, or a worker is about to. A rebalance before the commit makes a second
  copy, since the loop commits after the work (`InjectedOncePerTake`).

The way in.
- The completion of the multipart upload cannot be repeated: a client that was
  answered 400 or 500 after it can never submit that job. `flush(10)` may return
  with the record still queued, and its result is not looked at: the client is
  told "submitted" although a death of the gateway, or an expiring record, loses
  it (`lost`). A router that dies after its claim leaves the record to others that
  skip it: no verdict is ever given (`"abandoned"`). These are the two silent ends
  that `SubmittedIsTriaged` names (`Silenced`); what a router rejects, or fails on,
  is dead-lettered and so not silent.
- Two triages of the same bytes at the same time may both admit them, and a death
  between two SETBITs may make a later image a duplicate of nothing that was
  admitted; `NoFalseNegative` and `DuplicateIsCovered` state what remains true.

Unpacking.
- The result of `run_sandboxed` is not looked at (`extract.py:183-189`): a child
  killed by its memory cap leaves a container cut short which counts as extracted,
  and the job's marker is set; the layer `sandbox_oom` (`defenses.py:32`) is never
  raised. `LeavesInOrder` and `NothingHostilePasses` exempt
  such runs (`truncated`).
- The watchdog "SIGKILLs the group the instant `output / input` exceeds 100x"
  (`sandbox.py:12-13`): it looks now and then, and nothing is measured when the child
  has ended (`sandbox.py:107-118`). A binwalk that writes more than the ratio and ends
  between two looks is taken for extracted: `NothingHostilePasses` leaves out that one
  case (`Inflates("binwalk")`). What still bounds it is the running total over the
  whole upload (`OutputBounded`).
- When a killed child does not die within `wait(timeout=5)` (`sandbox.py:111`, `118`),
  `TimeoutExpired` takes the place of the layer's error, and the dead letter does not
  name the layer (`WaitExpires`).
- Helpers that outlive the leader of the process group are left alone, since the
  group is killed only while its leader lives (`sandbox.py:134`), and may keep the
  temp dir from being removed. The pipes are drained only after the child has ended, so that a verbose binwalk blocks until
  the wall clock kills it. A `communicate` that times out raises no
  `ExtractionError`. A death of the process leaves its temp dir behind.

Notifier.
- Records of `firmware.dlq` carry no `job_id`, so that the branch for them in
  `progress.py:80` is never taken for a job: one that failed is never shown as
  failed. A restart that reads records again counts from zero, and one that skips
  records, of which a group without a commit on a topic skips all (`consumer.py:40`),
  shows fewer; `CompletionShown` excuses jobs under which the notifier was restarted.
  Replays can make the percentage exceed 100. States and last snapshots are never evicted, and a browser that is gone is unsubscribed
  only by the next send.

Integration.
- The index is built "so the RAG chat can ground answers" (`job_index.py:3-5`), but
  nothing outside the tests queries it; chat uses `rag.build_context`. A restart of
  the app loses all indexes and rebuilds none. A group that has committed nothing
  starts at the end of its topic (`consumer.py:40`): jobs completed before get no
  index (`skipped`). The scan of a sweep raises when a build adds a key under it, and
  the sweep is given up until the next interval. The list of a sweep may name an
  index that was rebuilt since, which is then torn down young.
- Overrides of thresholds live in the process of the API. The routers' matcher
  never sees them, although `config` is called "the exact store Task 10's
  matcher/tiering reads from" (`feedback_loop.py:6-8`, and `tiering.py:4-6`);
  `overrides` has a table for each process. An
  override stays when the rate of a family returns to the middle band
  (`feedback_loop.py:131-132`), so that two histories with the same verdicts can
  end with different thresholds; what recalibration does promise is `NoDrift`. A
  CVE of two families is counted for whichever row Postgres returns first. Calls
  that fail in the middle of the aggregation skew its rates. A verdict whose
  INSERT failed is answered "accepted".

Matching and corpus.
- `build_cpe` writes the part "a" for every component (`cpe.py:67`): a row of the
  kernel, whose part is "o", is never matched exactly. It ends every key with seven
  wildcards (`cpe.py:77-80`), and the lookup is equality with the criteria as NVD
  writes them (`corpus.py:234`, `nvd_etl.py:71-80`): a row that names an update, an
  edition or a target software, or writes a field otherwise, is never found by it,
  though it names product and version, and is left to the similarity search. This is
  why `ExactConfirmed` speaks of rows with `rest = AnyRest`. The lookup in Postgres is
  case-sensitive, that of the in-memory corpus is not. The vector index is
  approximate; `TopRows` is exact.
- A failed refresh leaves a gap that later windows do not reach back over, and so
  does one that is skipped because another is under way; only a full run closes it.
  A restart of the daemon starts its interval anew. `total` is taken from the first
  page, so entries that are pushed beyond it by what enters the window meanwhile are
  missed (`grew`). Rows of withdrawn CPEs are not deleted. A run by hand beside the daemon may overwrite
  newer rows with those it fetched earlier.

## 4. Theorems

Proved with TLAPS for every value of the constants, from the named assumptions
on the constants only.

`FirmwarePipelineProofs`
- `TypeCorrect`: `TypeOK`. It includes that the step a router is at belongs to
  the handler of the topic it polled, which is what makes the records it emits
  well-typed.
- `CompletionAtMostOnce`, `CompletionDurable`. Neither is inductive. The
  invariant `CompletionInv` says who may be behind the compare-and-set of
  `finalize`: at most one router is between winning and announcing, none once
  the job is announced, none while the report is not COMPLETE, and what such a
  router has uploaded grows with its position. Most steps cannot disturb it
  (`QuietStep`); the four that can have lemmas of their own.
- `FrozenReport`: `FinalReportFrozen`, an action property: only two actions write
  the report, and neither touches a final one.

`FanOutProofs`
- `FragmentsUploaded`: `MatchedHasFragment`. The invariant `FragmentInv` adds the
  two steps of `cve_match` between the upload and the record that tells of it.
- `FanOutCounted`: `TotalCoversFanOut`. A comparison of a counter with a
  cardinality is not inductive; `TotalInv` says that there is a set of children,
  no larger than the counter, that holds all children anybody tells of.
- Both rest on the same account of how records travel: `Within(Good)` says that
  every record there is lies in a set `Good`, and only the emits of the handlers
  can leave it (`WithinLoop`, `WithinHandlers`, `WithinReplay`).

`RouterLoopProofs`
- `RouterTypes`.
- `CommitsPassNothingOver`: `NothingPassedOver`. A commit sets an absolute
  offset, possibly by a process that lost the partition, so the invariant
  `OffsetInv` speaks of all three offsets: everything before the committed one,
  before the record in hand of any process, and before the owner's next fetch is
  settled, up to the record in hand itself.
- `ClaimsAreExclusive`: `HandledAtMostOnce`.
- `SkipsHideNoLoss`: `SkipHidesNoLoss`, from `OffsetInv` and `ClaimInv` (every
  claim is attended to while no process has crashed).

`GateProofs`
- All of it rests on a record being in one place at a time. `HeldInv` says that a
  record in hand is uncommitted and in nobody else's hands; `Spots` collects the
  places of the records of one kind (topic, `firmware.dlq`, producer queue) so
  that one step of the loop can be seen to pass a record on, and never to make two
  of one (`Passed`, `PassedKeeps`).
- `ReplaysAreBounded`: `ReplaysBounded`, without any hypothesis. A record may have
  been replayed only as often as there is a reason for: the claim under its Kafka
  key, the claim under its hash, or a failed call (`RetryInv`: what is under way
  is `Fit`, what is in a hand or a dead letter is `Spent`, one short of it).
- `TotalIsFinal`: `TotalFinalOnceMarked`, an action property, from `UnpackedOnce`:
  up to the first failing call, whoever dies, no two routers ever unpack the image
  and none does once the marker is set. Until then nothing but what triage, analysis
  or the store reject is dead-lettered (`LettersStep`), so the record that tells of
  the image is never replayed and claimed under one key only: the claim that leads to
  `unpack` is the first of its key (`FirstUnpack`), and a record redelivered after a
  crash is skipped (`OnceStep`). A failing call cannot be allowed: the SET of the
  marker may take effect and raise (section 3).
- `CountersBounded`: `CountersCountChildren`, without any hypothesis: any failures,
  crashes, replays, topology and store. `total_children` lags the children put by
  those not yet counted (`ChildrenInv`). An INCR of `matched_children` uses up a
  claim; of a child there is one claim under the Kafka key, and one under the hash
  only when its record was dead-lettered by a failing call (`MatchedInv`), so the
  counter is ahead by one per failing call at most. Before the first failure or
  crash both counters are exact (`CountersExact`, from `PieceInv`: at most one
  record or router speaks of a child before its INCR).
- `GateIsSound`: `GateSound`, where one router unpacks and aggregates
  (`OneUnpacksAndAggregates`), in any number of routers that analyse and match.
  `completion_ready` reads the total before the marker (`aggregator.py:47-49`), so
  between the two reads another process could add a child and set the marker;
  with one process doing both, `GateInv` keeps what has been read up to date and
  says that past the gate every child that was unpacked is ready.
- `ChildrenTravel`: `EveryChildTravels`, in any topology. A record in hand is
  replaced by its successor before it is committed, and the claim a child could be
  stopped by is made only under the record that tells of it: `TravelInv` says of a
  child that is not ready that it is `Early`, at one of the places between its
  upload and its match, and that the topics ahead of it hold no claim for it.
- `StagesKeepPromise`: under the same hypothesis and without failures the five
  stages implement `JobReport` (`ImplementsJobReport`), initial states and step by
  step; only `CountTotal`, `SetMarker`, `CountMatched`, `Finalize` and
  `EmitCompleted` are steps of the promise, the rest stutter (`PromiseStutter`).

`WorkerProofs`
- `OneCopyPerTake`: `InjectedOncePerTake`. A worker *carries* a record that it may
  still emit or has queued, and a record is *open* while it is uncommitted and
  nobody owns it. The copies put back, the carriers and, if it is open, one more
  never exceed one more than the crashes and rebalances (`CarriedInv`): a take turns
  the open record into a carrier, an emit a carrier into a copy (`CarriedChange`),
  since a worker emits nothing it has queued (`HandInv`).
- `WindowsDoMeet`: `WindowsMeet`, of the refresh of the corpus. While nothing has
  disturbed it, the age of what is covered and the scheduler's timer add up to at
  most one interval (`WindowInv`), which is within the window by the assumption
  that the window is the wider of the two (`nvd_etl.py:260-261`).
- `CorpusKeepsUp`: `CorpusCurrent`. The window of a query under way only grows: a
  CVE that is modified keeps its place in the listing or enters it, which pushes
  those behind it back (`PlaceGrows`). An entry can only be missed when it is pushed
  past the total that the first page told, and that is what `grew` excuses.
  `FetchInv` says of a CVE that was modified before the run began and not since: it
  was fetched, is in the batch or in the corpus, or its place is at or behind
  `start_index`. No place is left out (`NoGap`, by well-founded induction over the
  least place in question), and so a page that starts at `start_index` misses none
  (`Pages`).
- `RetriesExclude`: `RetryExclusive`, assuming `TtlOutlivesHold`: no key expires
  while its worker is between `acquire` and the end of `release`. The code has
  nothing that renews a lock, so this is a condition on the configuration (ttl
  against attempts and back-off). The run `DlqReplay` assumes it too.
- `BlockedAttended`: `BlockedIsAttended`, until the first failing call, expired
  record or crash, through any rebalance, and for records that `replay_record` can
  read. A worker is blocked only by a lock that is stored, and a stored lock has a
  worker that got it for a dead letter of that job: `AttendInv` keeps that the job
  of such a lock is attended to, and so is that of every record that is past its
  `acquire`. A lock that merely expired changes nothing: the record it was taken
  for is still there.
- `OwnLockReleased`: `ReleasesOwnLock`, under the same assumption as
  `RetriesExclude`. It is false without it (section 3).
- `ReplayTypes`, `RefreshTypes`: `TypeOK` of `DlqReplay` and `RefreshTypeOK` of
  `NvdRefresh`. The latter needs that the versions written come from a listing,
  so that one has a largest (`LargestVersion`), and that a page ends within the
  listing it is taken from (`PageWithin`).

`IntakeProofs`
- `IntakeTypes`: `IntakeTypeOK`.
- `EmittedAtMostOnce`, `EmitsStoredOnly`, `AlwaysTrackable`. The multipart upload
  id is the permission to emit: `GatewayInv` says of each job that it has the
  permission, or a request is between using it up and producing, or the record is
  there, and never two of these; and that parts, object and record come in order.
- `FilterKnowsTheAdded`, `DuplicatesCovered`. `TriageInv` says of a router that
  is reading that it saw bits of no image that was complete before it began
  (bits are never cleared), and of one that is setting which bits it owes.

`ProgressProofs`
- `NotifierTypes`, `NothingLatestLost`, `DisplayNeverFallsBack`, `NothingAhead`.
  A snapshot passes through five places, from the tracker over the queue of
  callbacks, the hub, the slot and the hand to the screen. Along them it never
  gains, so what is shown is behind what was counted (`QueueInv`, `ScreenInv`),
  and what was counted is behind what the topics hold (`TopicsInv`, `SeenInv`).
- `WalkTypes`: every call of `_recurse` below the top one has a file under way,
  and its callee works on that file.
- `LeavesGoOut`, `HostileStopped`, `OutputIsBounded`: `LeavesInOrder`,
  `NothingHostilePasses` and `OutputBounded`, for any archive, limits, behaviour of
  binwalk and failures. One notion carries all three: `Reached`, the last place of
  the depth-first order that the stack of calls has come to. The next file lies
  right behind it (`NextPlace`), and a call that returns has nothing left before
  the end of its node (`LastPlace`). So what was produced is the sum of the sizes
  up to there (`CountInv`), no layer trips on a file up to there (`PassedInv`), and
  the leaves up to there are the ones that are out (`LeafInv`). `HostileStopped` is
  not about a container that binwalk opens over its ratio, which may pass
  (section 3). After a child was cut short the equalities become bounds, and those still carry the ratio. That a
  verdict names a layer which trips is `LayerInv`. `Sums` is a recursive function;
  that it has a solution (`SumsExist`) and grows (`SumsGrow`) is proved from the
  least member of a set of naturals (`MinNat`).

`IntegrationProofs`
- `IndexesAreFinal`: `IndexIsFinal`, an index is made of a report that no longer
  changes.
- `JobIndexTypes`: `JobIndexTypeOK`.
- `MatchingTypes`: `MatchingTypeOK`, for any finite set of rows. It holds the
  LIMIT of `similarity_search`: what one component is reported for by resemblance
  (`Scored`) is what its one search brought, at most `TopK` rows, although the
  corpus grows between the steps and offers are taken from the search one by one.
- `SweepTakesTheOld`: `YoungIndexKept`, from what the scan has put on its list and
  what was rebuilt since it read the clock.
- `CalibrationTypes`, `RecalibrationIdempotent` (`NoDrift`), `TiersFitScores`.
  The first two rest on `ValidOrdered`: clamping yields ordered thresholds
  whatever it is given; a recalibration starts from the base, so only three
  values are reachable. The third follows one offer through the matcher.
- `StrongestReported`: `StrongestKept`. `Stronger` is a strict order
  (`StrongerOrder`), and `_offer` keeps what is not weaker than the offer nor than
  what was there (`OfferKeepsStronger`), so the order of the offers is immaterial.
- `ExactIsConfirmed`: `ExactConfirmed`, of rows that say nothing after the version.
  Not inductive: a row that is sought must be followed from its CPE, still to be looked up, over the offer that waits, to the
  offer made (`AtHandInv`), and with it the fact that the search begins only if
  the lookups left nothing (`OrderInv`); for the components behind, `BehindInv`.
  That a CONFIRMED match stays one is `StrongestKept`.
- `FeedbackFollowed`: `FollowsFeedback`, for steps that are not zero and a lowest
  threshold strictly between the bounds (0.50 in the code); at a bound, clamping
  leaves nothing to move. The families of CVEs must not change between the
  recalibration and the time one looks: verdicts are given after the matches were
  emitted (`FeedbackInv`), and `Matching` adds no row then.

The type invariants of the modules, `Trackable`, `EmittedIsStored`,
`DisplayAdvances`, `IndexIsFinal`, `TierFitsScore`, `NoDrift`, `MatchedHasFragment`,
`FinalReportFrozen` and `ReleasesOwnLock` are in no run: for any instance the
theorems cover them. Every invariant and every action property that a passing run checks is the property of a theorem.

Only model-checked: every liveness property (fairness and ENABLED are out of the
prover's reach), and the refinement of `JobReport` in deployments other than those
of `StagesKeepPromise`.

## 5. Not modelled

The 24 hour expiry of claims (a redelivery later than that runs a handler
again); the executive summary and statistics of the report; message contents and
contract fields beyond well-formedness; byte-level analysis (`static_analysis/`),
text normalisation, embeddings, language models and retrieval, which keep no state
that anything else reads; lazily built singletons and configuration
(`runtime.py`, `gateway/config.py`); tokens and roles, which appear only as a
request that may be refused; `reports_api.py` and `schema.py`, which read stores
and create a table; the views of the frontend; `max_records` of the ETL; scripts
for developers; log output.

## 6. Plan

1. Compositions: `RouterLoop` with `DlqReplay` for records that fail every time;
   `Intake`, `FirmwarePipeline` (as `JobReport`), `Progress` and `JobIndex` over
   the life of a job; `NvdRefresh` with `Matching` for a corpus that is refreshed
   under a match; a run by hand beside the daemon.
2. Proofs: the invariants of these compositions, and `JobReport` as a promise
   under crashes, with the duplicates they allow.
