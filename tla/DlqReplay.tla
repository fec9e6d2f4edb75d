------------------------------ MODULE DlqReplay ------------------------------
(***************************************************************************)
(* The dead-letter replay workers of services/cve_matching/dlq_replay.py   *)
(* and the per-job Redis lock of services/cve_matching/locks.py they hold  *)
(* while they put a record back on the topic it failed on.                 *)
(*                                                                         *)
(* A lock is a key with a time to live; what is stored there is the token  *)
(* of the acquisition that set it.  A worker has one acquisition at a time *)
(* and a dead worker's token is never compared again, so the worker stands *)
(* for its token.  Each Redis command is a step of its own: release is a   *)
(* GET and a DELETE.  firmware.dlq records carry no job_id of their own    *)
(* and so no key: two records of one job may go to two workers, and each   *)
(* dead letter is taken for a partition of its own.                        *)
(***************************************************************************)
EXTENDS Naturals, FiniteSets

CONSTANTS
  Worker,          \* replay processes
  Free,            \* the lock key does not exist
  Record,          \* the records of firmware.dlq
  Job, JobOf,      \* JobOf[r]: the job_id in the payload of r, or "unknown"
  SelfTargeted,    \* records whose original_topic is missing or firmware.dlq
  Unreadable,      \* records that are, or whose payload is, JSON but no object
  MaxAttempts,     \* DlqReplayer.max_attempts
  TtlOutlivesHold, \* whether lock_ttl_ms exceeds every hold of a live worker
  MaxFaults,       \* bound on Redis commands that raise and on expiries
  MaxCrashes,      \* bound on process crashes
  MaxRebalances    \* bound on rebalances of the group under a worker

ASSUME ReplayAssumption ==
  /\ Free \notin Worker /\ IsFiniteSet(Worker)
  /\ JobOf \in [Record -> Job]
  /\ SelfTargeted \subseteq Record /\ Unreadable \subseteq Record
  /\ MaxAttempts \in Nat \ {0}
  /\ TtlOutlivesHold \in BOOLEAN
  /\ MaxFaults \in Nat /\ MaxCrashes \in Nat /\ MaxRebalances \in Nat

VARIABLES
  pending,   \* firmware.dlq: the records not committed yet
  at,        \* at[w]: where worker w is in replay_record
  rec,       \* rec[w]: the record it polled
  attempt,   \* attempt[w]: the attempt under way
  lost,      \* the workers whose record the group has handed to another one
  lock,      \* lock[j]: Redis lock:dlq_retry:{job_id}
  queue,     \* queue[w]: produced, but the flush timed out before the ack
  injected,  \* injected[r]: copies of r that reached its original topic
  exhausted, \* records given up after MaxAttempts
  faults, crashes, rebalances

locals == <<at, rec, attempt>>
group == <<lost, rebalances>>
vars == <<pending, locals, lock, queue, injected, exhausted, faults, crashes, group>>

Holding == {"emit", "sleep", "get", "delete"}
Step == {"idle", "acquire", "commit"} \cup Holding

At(w, s) == at[w] = s
Goto(w, s) == at' = [at EXCEPT ![w] = s]
JobAt(w) == JobOf[rec[w]]
Owns(w, r) == ~At(w, "idle") /\ w \notin lost /\ rec[w] = r

(* Nothing is put back of a record about firmware.dlq itself, which is     *)
(* skipped, nor of one on which _job_id_of, or replay_record before it,    *)
(* raises: the loop logs that and commits it.                              *)
Passed == SelfTargeted \cup Unreadable

Init ==
  /\ pending = Record
  /\ at = [w \in Worker |-> "idle"]
  /\ rec \in [Worker -> Record]
  /\ attempt = [w \in Worker |-> 1]
  /\ lock = [j \in Job |-> Free]
  /\ queue = [w \in Worker |-> {}]
  /\ injected = [r \in Record |-> 0]
  /\ exhausted = {} /\ lost = {}
  /\ faults = 0 /\ crashes = 0 /\ rebalances = 0

-----------------------------------------------------------------------------
Takes(w, r) ==
  /\ At(w, "idle")
  /\ r \in pending
  /\ rec' = [rec EXCEPT ![w] = r]
  /\ attempt' = [attempt EXCEPT ![w] = 1]
  /\ Goto(w, IF r \in Passed THEN "commit" ELSE "acquire")
  /\ UNCHANGED <<pending, lock, queue, injected, exhausted, faults, crashes>>

(* The group hands a record to one worker.                                 *)
Poll(w) ==
  /\ \E r \in Record : Takes(w, r) /\ \A v \in Worker : ~Owns(v, r)
  /\ UNCHANGED group

(* A rebalance hands it to another one before the first has committed it.  *)
TakeOver(w) ==
  /\ rebalances < MaxRebalances
  /\ rebalances' = rebalances + 1
  /\ \E v \in Worker : Owns(v, rec[v]) /\ Takes(w, rec[v]) /\ lost' = lost \cup {v}

(* Faulty variant: SET without NX.                                         *)
AcquireWithoutNX(w) ==
  /\ At(w, "acquire")
  /\ lock' = [lock EXCEPT ![JobAt(w)] = w]
  /\ Goto(w, "emit")
  /\ UNCHANGED <<pending, rec, attempt, queue, injected, exhausted, faults, crashes, group>>

(* RedisLock.acquire: SET NX PX.  When the lock is taken the record is     *)
(* BLOCKED: replay_record returns and the loop commits it.                 *)
Acquire(w) ==
  /\ At(w, "acquire")
  /\ IF lock[JobAt(w)] = Free
     THEN lock' = [lock EXCEPT ![JobAt(w)] = w] /\ Goto(w, "emit")
     ELSE UNCHANGED lock /\ Goto(w, "commit")
  /\ UNCHANGED <<pending, rec, attempt, queue, injected, exhausted, faults, crashes, group>>

(* Faulty variant: a successful emit does not leave the retry loop.        *)
EmitKeepsGoing(w) ==
  /\ At(w, "emit")
  /\ injected' = [injected EXCEPT ![rec[w]] = @ + 1]
  /\ attempt' = [attempt EXCEPT ![w] = IF @ < MaxAttempts THEN @ + 1 ELSE @]
  /\ Goto(w, IF attempt[w] < MaxAttempts THEN "emit" ELSE "get")
  /\ UNCHANGED <<pending, rec, lock, queue, exhausted, faults, crashes, group>>

(* Faulty variant: a flush that times out purges the producer's queue.     *)
TimeoutPurges(w) ==
  /\ At(w, "emit")
  /\ LET out == queue[w] \cup {rec[w]} IN
       \/ injected' = [r \in Record |-> IF r \in out THEN injected[r] + 1 ELSE injected[r]]
       \/ UNCHANGED injected
  /\ queue' = [queue EXCEPT ![w] = {}]
  /\ Goto(w, "get")
  /\ UNCHANGED <<pending, rec, attempt, lock, exhausted, faults, crashes, group>>

(* produce and flush(10): everything queued is acknowledged, or the flush  *)
(* times out, which nobody looks at.  Either way the record is RETRIED.    *)
EmitReturns(w) ==
  /\ At(w, "emit")
  /\ LET out == queue[w] \cup {rec[w]} IN
       \/ /\ injected' = [r \in Record |-> IF r \in out THEN injected[r] + 1 ELSE injected[r]]
          /\ queue' = [queue EXCEPT ![w] = {}]
       \/ queue' = [queue EXCEPT ![w] = out] /\ UNCHANGED injected
  /\ Goto(w, "get")
  /\ UNCHANGED <<pending, rec, attempt, lock, exhausted, faults, crashes, group>>

(* Faulty variant: the attempts are not counted.                           *)
AttemptsNotCounted(w) ==
  /\ At(w, "emit")
  /\ Goto(w, "sleep")
  /\ UNCHANGED <<pending, rec, attempt, lock, queue, injected, exhausted, faults, crashes, group>>

(* produce raises: after the last attempt the record is EXHAUSTED, else    *)
(* the worker backs off, holding the lock.                                 *)
EmitRaises(w) ==
  /\ At(w, "emit")
  /\ IF attempt[w] >= MaxAttempts
     THEN /\ exhausted' = exhausted \cup {rec[w]}
          /\ Goto(w, "get")
          /\ UNCHANGED attempt
     ELSE /\ attempt' = [attempt EXCEPT ![w] = @ + 1]
          /\ Goto(w, "sleep")
          /\ UNCHANGED exhausted
  /\ UNCHANGED <<pending, rec, lock, queue, injected, faults, crashes, group>>

Sleep(w) ==
  /\ At(w, "sleep")
  /\ Goto(w, "emit")
  /\ UNCHANGED <<pending, rec, attempt, lock, queue, injected, exhausted, faults, crashes, group>>

(* RedisLock.release, first half: GET and compare the token.               *)
ReleaseGet(w) ==
  /\ At(w, "get")
  /\ Goto(w, IF lock[JobAt(w)] = w THEN "delete" ELSE "commit")
  /\ UNCHANGED <<pending, rec, attempt, lock, queue, injected, exhausted, faults, crashes, group>>

(* RedisLock.release, second half: DELETE whatever is there now.           *)
ReleaseDelete(w) ==
  /\ At(w, "delete")
  /\ lock' = [lock EXCEPT ![JobAt(w)] = Free]
  /\ Goto(w, "commit")
  /\ UNCHANGED <<pending, rec, attempt, queue, injected, exhausted, faults, crashes, group>>

(* A Redis command raises out of replay_record, before or after it took    *)
(* effect; the loop logs and commits.                                      *)
RedisFails(w) ==
  /\ at[w] \in {"acquire", "get", "delete"}
  /\ faults < MaxFaults
  /\ faults' = faults + 1
  /\ \/ UNCHANGED lock
     \/ At(w, "acquire") /\ lock[JobAt(w)] = Free /\ lock' = [lock EXCEPT ![JobAt(w)] = w]
     \/ At(w, "delete") /\ lock' = [lock EXCEPT ![JobAt(w)] = Free]
  /\ Goto(w, "commit")
  /\ UNCHANGED <<pending, rec, attempt, queue, injected, exhausted, crashes, group>>

(* The finally branch of run, whatever replay_record answered.             *)
Commit(w) ==
  /\ At(w, "commit")
  /\ pending' = pending \ {rec[w]}
  /\ Goto(w, "idle")
  /\ lost' = lost \ {w}
  /\ UNCHANGED <<rec, attempt, lock, queue, injected, exhausted, faults, crashes, rebalances>>

(* The commit of a record that went to another worker may raise: run       *)
(* flushes and leaves, and the process is started again.  A flush that     *)
(* leaves records behind is a Crash.                                       *)
CommitRefused(w) ==
  /\ At(w, "commit") /\ w \in lost
  /\ injected' = [r \in Record |-> IF r \in queue[w] THEN injected[r] + 1 ELSE injected[r]]
  /\ queue' = [queue EXCEPT ![w] = {}]
  /\ Goto(w, "idle")
  /\ lost' = lost \ {w}
  /\ UNCHANGED <<pending, rec, attempt, lock, exhausted, faults, crashes, rebalances>>

(* librdkafka gets a queued record acknowledged after all, or gives it up  *)
(* (message.timeout.ms).                                                   *)
Deliver(w) ==
  /\ \E r \in queue[w] :
       /\ queue' = [queue EXCEPT ![w] = @ \ {r}]
       /\ injected' = [injected EXCEPT ![r] = @ + 1]
  /\ UNCHANGED <<pending, locals, lock, exhausted, faults, crashes, group>>

QueueExpires(w) ==
  /\ faults < MaxFaults
  /\ faults' = faults + 1
  /\ \E r \in queue[w] : queue' = [queue EXCEPT ![w] = @ \ {r}]
  /\ UNCHANGED <<pending, locals, lock, injected, exhausted, crashes, group>>

(* The process dies and is started again; its lock stays behind.           *)
Crash(w) ==
  /\ ~At(w, "idle") \/ queue[w] # {}
  /\ crashes < MaxCrashes
  /\ crashes' = crashes + 1
  /\ Goto(w, "idle")
  /\ queue' = [queue EXCEPT ![w] = {}]
  /\ lost' = lost \ {w}
  /\ UNCHANGED <<pending, rec, attempt, lock, injected, exhausted, faults, rebalances>>

(* The key's time to live runs out.                                        *)
HeldBy(w, j) == at[w] \in Holding /\ JobAt(w) = j /\ lock[j] = w
Expire(j) ==
  /\ lock[j] # Free
  /\ TtlOutlivesHold => ~HeldBy(lock[j], j)
  /\ lock' = [lock EXCEPT ![j] = Free]
  /\ UNCHANGED <<pending, locals, queue, injected, exhausted, faults, crashes, group>>

-----------------------------------------------------------------------------
Replay(w) ==
  \/ Poll(w) \/ Acquire(w) \/ EmitReturns(w) \/ EmitRaises(w) \/ Sleep(w)
  \/ ReleaseGet(w) \/ ReleaseDelete(w) \/ Commit(w) \/ CommitRefused(w)

Trouble(w) ==
  TakeOver(w) \/ Deliver(w) \/ QueueExpires(w) \/ RedisFails(w) \/ Crash(w)

Next ==
  \/ \E w \in Worker : Replay(w) \/ Trouble(w)
  \/ \E j \in Job : Expire(j)

Spec == Init /\ [][Next]_vars

(* The workers loop for ever.  Nothing is assumed about the broker (every  *)
(* single emit may fail) or about the expiry of keys.                      *)
FairSpec == Spec /\ \A w \in Worker : WF_vars(Replay(w))

-----------------------------------------------------------------------------
TypeOK ==
  /\ pending \subseteq Record
  /\ at \in [Worker -> Step]
  /\ rec \in [Worker -> Record]
  /\ attempt \in [Worker -> 1..MaxAttempts]
  /\ lock \in [Job -> Worker \cup {Free}]
  /\ queue \in [Worker -> SUBSET Record]
  /\ injected \in [Record -> Nat]
  /\ exhausted \subseteq Record /\ lost \subseteq Worker
  /\ faults \in Nat /\ crashes \in Nat /\ rebalances \in Nat

(* dlq_replay.py:10-12: two replay workers never work on one job's retries *)
(* at a time.                                                              *)
RetryExclusive ==
  \A w, v \in Worker :
    w # v /\ at[w] \in Holding /\ at[v] \in Holding => JobAt(w) # JobAt(v)

(* dlq_replay.py:77-96, 124-139: however often emit fails and is tried     *)
(* again, a record is put back at most once for every time a worker takes  *)
(* it up, and it is taken up again only for a crash, or for a rebalance    *)
(* that takes it from a worker which has not committed it.                 *)
Copies(r) == injected[r] + Cardinality({w \in Worker : r \in queue[w]})
InjectedOncePerTake == \A r \in Record : Copies(r) <= 1 + crashes + rebalances

(* dlq_replay.py:10-12, 75-77: the second claimant is blocked and moves on,*)
(* and its dead letter is committed all the same: while no Redis command   *)
(* fails, nothing queued expires and no worker dies, a dead letter that    *)
(* replay_record can read and that is gone has itself, or another one of   *)
(* its job, been put back or given up, or a worker is about to.            *)
Attended(j) ==
  \E r \in Record \ Passed :
    /\ JobOf[r] = j
    /\ \/ injected[r] > 0 \/ r \in exhausted
       \/ \E w \in Worker : r \in queue[w] \/ (at[w] \in {"emit", "sleep"} /\ rec[w] = r)
BlockedIsAttended ==
  faults = 0 /\ crashes = 0 =>
    \A r \in Record \ Passed : r \notin pending => Attended(JobOf[r])

(* locks.py:34-37: a release never frees the lock of another acquisition.  *)
ReleasesOwnLock == \A w \in Worker : At(w, "delete") => lock[JobAt(w)] \in {w, Free}

(* dlq_replay.py:79-95: firmware.dlq is drained even if the broker never   *)
(* accepts a re-injection: attempts are counted and then given up.         *)
DlqDrains == <>[](pending = {})
=============================================================================
