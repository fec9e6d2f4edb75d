---------------------------- MODULE WorkerProofs ----------------------------
(***************************************************************************)
(* Theorems about the two background processes of the CVE matcher.         *)
(* DlqReplay: the lock of locks.py excludes and is freed by its holder     *)
(* only, a dead letter is put back once per take, and a blocked one is     *)
(* attended to; for any number of workers, jobs and records.  NvdRefresh:  *)
(* the windows of the daemon's incremental runs meet, for any corpus and   *)
(* any interval that Lookback covers, and the corpus is as new as the time *)
(* covered, whatever NVD lists differently while a run pages through it.   *)
(***************************************************************************)
EXTENDS DlqReplay, NvdRefresh, FiniteSetTheorems, WellFoundedInduction, TLAPS

(* A worker inside the lock is the one whose token is stored.  The key of a*)
(* worker that died is stored too: hence no equivalence.                   *)
LockInv == \A w \in Worker : at[w] \in Holding => lock[JobAt(w)] = w

(* The initial states have the types of TypeOK.                            *)
LEMMA InitTypes == Init => TypeOK
BY ReplayAssumption DEF Init, TypeOK, Step, Holding

(* Every step keeps the types.                                             *)
LEMMA NextTypes == TypeOK /\ [Next]_vars => TypeOK'
<1> SUFFICES ASSUME TypeOK, [Next]_vars PROVE TypeOK'
  OBVIOUS
<1> USE ReplayAssumption
<1>1. ASSUME NEW w \in Worker, Replay(w)
      PROVE  TypeOK'
  <2>1. at' \in [Worker -> Step]
    BY <1>1 DEF Replay, Poll, Takes, Acquire, EmitReturns, EmitRaises, Sleep, ReleaseGet,
       ReleaseDelete, Commit, CommitRefused, Goto, TypeOK, Step, Holding
  <2>2. rec' \in [Worker -> Record] /\ pending' \subseteq Record
    BY <1>1 DEF Replay, Poll, Takes, Acquire, EmitReturns, EmitRaises, Sleep, ReleaseGet,
       ReleaseDelete, Commit, CommitRefused, TypeOK
  <2>3. attempt' \in [Worker -> 1..MaxAttempts]
    BY <1>1 DEF Replay, Poll, Takes, Acquire, EmitReturns, EmitRaises, Sleep, ReleaseGet,
       ReleaseDelete, Commit, CommitRefused, TypeOK
  <2>4. lock' \in [Job -> Worker \cup {Free}] /\ lost' \subseteq Worker
    BY <1>1 DEF Replay, Poll, Takes, Acquire, EmitReturns, EmitRaises, Sleep, ReleaseGet,
       ReleaseDelete, Commit, CommitRefused, group, TypeOK
  <2>5. /\ queue' \in [Worker -> SUBSET Record]
        /\ injected' \in [Record -> Nat]
        /\ exhausted' \subseteq Record
    BY <1>1 DEF Replay, Poll, Takes, Acquire, EmitReturns, EmitRaises, Sleep, ReleaseGet,
       ReleaseDelete, Commit, CommitRefused, TypeOK
  <2>6. faults' \in Nat /\ crashes' \in Nat /\ rebalances' \in Nat
    BY <1>1 DEF Replay, Poll, Takes, Acquire, EmitReturns, EmitRaises, Sleep, ReleaseGet,
       ReleaseDelete, Commit, CommitRefused, group, TypeOK
  <2>7. QED
    BY <2>1, <2>2, <2>3, <2>4, <2>5, <2>6 DEF TypeOK
<1>2. ASSUME NEW w \in Worker, Trouble(w)
      PROVE  TypeOK'
  <2>1. at' \in [Worker -> Step] /\ pending' \subseteq Record /\ exhausted' \subseteq Record
    BY <1>2 DEF Trouble, TakeOver, Takes, Deliver, QueueExpires, RedisFails, Crash, locals,
       Goto, TypeOK, Step, Holding
  <2>2. rec' \in [Worker -> Record] /\ attempt' \in [Worker -> 1..MaxAttempts]
    BY <1>2 DEF Trouble, TakeOver, Takes, Deliver, QueueExpires, RedisFails, Crash, locals, TypeOK
  <2>3. lock' \in [Job -> Worker \cup {Free}] /\ lost' \subseteq Worker
    BY <1>2 DEF Trouble, TakeOver, Takes, Deliver, QueueExpires, RedisFails, Crash, group, TypeOK
  <2>4. queue' \in [Worker -> SUBSET Record] /\ injected' \in [Record -> Nat]
    BY <1>2 DEF Trouble, TakeOver, Takes, Deliver, QueueExpires, RedisFails, Crash, TypeOK
  <2>5. faults' \in Nat /\ crashes' \in Nat /\ rebalances' \in Nat
    BY <1>2 DEF Trouble, TakeOver, Takes, Deliver, QueueExpires, RedisFails, Crash, group, TypeOK
  <2>6. QED
    BY <2>1, <2>2, <2>3, <2>4, <2>5 DEF TypeOK
<1>3. ASSUME NEW j \in Job, Expire(j) PROVE TypeOK'
  BY <1>3 DEF Expire, locals, group, TypeOK
<1>4. CASE UNCHANGED vars
  BY <1>4 DEF vars, locals, group, TypeOK
<1>5. QED
  BY <1>1, <1>2, <1>3, <1>4 DEF Next

(* Type correctness of the replay workers; attempts stay within            *)
(* max_attempts.                                                           *)
THEOREM ReplayTypes == Spec => []TypeOK
BY InitTypes, NextTypes, PTL DEF Spec

(* A step of a worker leaves the others where they are.                    *)
LEMMA OthersStay ==
  ASSUME TypeOK, NEW w \in Worker, Replay(w) \/ Trouble(w)
  PROVE  \A v \in Worker \ {w} : /\ at'[v] = at[v] /\ rec'[v] = rec[v]
                                 /\ queue'[v] = queue[v]
<1>1. CASE Replay(w)
  BY <1>1 DEF Replay, Poll, Takes, Acquire, EmitReturns, EmitRaises, Sleep, ReleaseGet,
     ReleaseDelete, Commit, CommitRefused, Goto, TypeOK
<1>2. CASE Trouble(w)
  BY <1>2 DEF Trouble, TakeOver, Takes, Deliver, QueueExpires, RedisFails, Crash, locals, Goto,
     TypeOK
<1>3. QED
  BY <1>1, <1>2

(* An acquisition finds the key absent, so nobody is inside; a DELETE or an*)
(* expiry removes the key of nobody but the worker that leaves.            *)
LEMMA LockStep ==
  ASSUME TtlOutlivesHold, TypeOK, LockInv, [Next]_vars
  PROVE  LockInv'
<1> USE ReplayAssumption
<1>1. ASSUME NEW w \in Worker, Replay(w) \/ Trouble(w)
      PROVE  LockInv'
  <2>1. \A v \in Worker : v # w => at'[v] = at[v] /\ rec'[v] = rec[v]
    BY <1>1, OthersStay
  <2>2. CASE at[w] = "acquire" /\ lock[JobAt(w)] = Free /\ lock' = [lock EXCEPT ![JobAt(w)] = w]
    <3>1. rec' = rec /\ JobAt(w) \in Job
      BY <1>1, <2>2 DEF Replay, Trouble, Poll, TakeOver, Takes, Deliver, QueueExpires, Acquire,
         EmitReturns, EmitRaises, Sleep, ReleaseGet, ReleaseDelete, Commit, CommitRefused,
         RedisFails, Crash, At, TypeOK, JobAt, locals
    <3>2. \A v \in Worker : v # w /\ at[v] \in Holding => JobAt(v) # JobAt(w)
      BY <2>2 DEF LockInv
    <3>3. QED
      BY <2>1, <2>2, <3>1, <3>2 DEF LockInv, JobAt, TypeOK
  <2>3. CASE at[w] = "delete" /\ at'[w] = "commit" /\ lock' = [lock EXCEPT ![JobAt(w)] = Free]
    <3>1. rec' = rec /\ JobAt(w) \in Job
      BY <1>1, <2>3 DEF Replay, Trouble, Poll, TakeOver, Takes, Deliver, QueueExpires, Acquire,
         EmitReturns, EmitRaises, Sleep, ReleaseGet, ReleaseDelete, Commit, CommitRefused,
         RedisFails, Crash, At, TypeOK, JobAt, locals
    <3>2. \A v \in Worker : v # w /\ at[v] \in Holding => JobAt(v) # JobAt(w)
      BY <2>3 DEF LockInv, Holding
    <3>3. QED
      BY <2>1, <2>3, <3>1, <3>2 DEF LockInv, JobAt, TypeOK, Holding
  <2>4. CASE /\ lock' = lock
             /\ at'[w] \in Holding => at[w] \in Holding /\ rec'[w] = rec[w]
    BY <2>1, <2>4 DEF LockInv, JobAt
  <2>5. \/ at[w] = "acquire" /\ lock[JobAt(w)] = Free /\ lock' = [lock EXCEPT ![JobAt(w)] = w]
        \/ at[w] = "delete" /\ at'[w] = "commit" /\ lock' = [lock EXCEPT ![JobAt(w)] = Free]
        \/ /\ lock' = lock
           /\ at'[w] \in Holding => at[w] \in Holding /\ rec'[w] = rec[w]
    <3>1. CASE Replay(w)
      BY <3>1 DEF Replay, Poll, Takes, Acquire, EmitReturns, EmitRaises, Sleep, ReleaseGet,
         ReleaseDelete, Commit, CommitRefused, Goto, At, TypeOK, Holding
    <3>2. CASE Trouble(w)
      BY <3>2 DEF Trouble, TakeOver, Takes, Deliver, QueueExpires, RedisFails, Crash, locals,
         Goto, At, TypeOK, Holding
    <3>3. QED
      BY <1>1, <3>1, <3>2
  <2>6. QED
    BY <2>2, <2>3, <2>4, <2>5
<1>2. ASSUME NEW j \in Job, Expire(j) PROVE LockInv'
  <2>1. /\ UNCHANGED <<at, rec>> /\ lock' = [lock EXCEPT ![j] = Free]
        /\ lock[j] # Free /\ ~HeldBy(lock[j], j)
    BY <1>2 DEF Expire, locals
  <2>2. ASSUME NEW w \in Worker, at[w] \in Holding PROVE JobAt(w) # j
    BY <2>1, <2>2 DEF LockInv, HeldBy
  <2>3. QED
    BY <2>1, <2>2 DEF LockInv, JobAt, TypeOK
<1>3. CASE UNCHANGED vars
  BY <1>3 DEF vars, locals, LockInv, JobAt
<1>4. QED
  BY <1>1, <1>2, <1>3 DEF Next

(* dlq_replay.py:10-12 for any number of workers, if lock_ttl_ms is longer *)
(* than any hold: no two workers retry one job at a time.                  *)
THEOREM RetriesExclude == ASSUME TtlOutlivesHold PROVE Spec => []RetryExclusive
<1>1. Init => LockInv
  BY DEF Init, LockInv, Holding
<1>2. TypeOK /\ LockInv => RetryExclusive
  BY DEF LockInv, RetryExclusive
<1>3. TypeOK /\ LockInv /\ [Next]_vars => LockInv'
  BY LockStep
<1>4. QED
  BY <1>1, <1>2, <1>3, InitTypes, NextTypes, PTL DEF Spec

-----------------------------------------------------------------------------
(***************************************************************************)
(* One copy per take.  A worker carries a record it may still emit, or has *)
(* queued; a record nobody owns is open to be taken up.  A take turns that *)
(* into one carrier and that into one copy, and only a crash, or a         *)
(* rebalance, makes another carrier possible.                              *)
(***************************************************************************)
Before == {"acquire", "emit", "sleep"}
After == {"get", "delete", "commit"}
Carries(w, r) == r \in queue[w] \/ (at[w] \in Before /\ rec[w] = r)
Carriers(r) == {w \in Worker : Carries(w, r)}
Open(r) == r \in pending /\ \A w \in Worker : ~Owns(w, r)

(* What a worker has queued it does not emit again before it is committed, *)
(* and a worker has lost nothing but a record in its hands.                *)
HandInv ==
  \A w \in Worker :
    /\ at[w] \in Before => rec[w] \notin queue[w]
    /\ \A r \in queue[w] : r \notin pending \/ (at[w] \in After /\ rec[w] = r)
    /\ w \in lost => at[w] # "idle"

CarriedInv ==
  \A r \in Record :
    injected[r] + Cardinality(Carriers(r)) + (IF Open(r) THEN 1 ELSE 0)
      <= 1 + crashes + rebalances

(* Where a step leaves the worker that takes it.                           *)
LEMMA HandStep ==
  ASSUME TypeOK, HandInv, [Next]_vars
  PROVE  HandInv'
<1>1. ASSUME NEW w \in Worker, Replay(w) \/ Trouble(w)
      PROVE  HandInv'
  <2>1. \A v \in Worker : v # w => at'[v] = at[v] /\ rec'[v] = rec[v] /\ queue'[v] = queue[v]
    BY <1>1, OthersStay
  <2>2. pending' \subseteq pending
    BY <1>1 DEF Replay, Poll, Takes, Acquire, EmitReturns, EmitRaises, Sleep, ReleaseGet,
       ReleaseDelete, Commit, CommitRefused, Trouble, TakeOver, RedisFails, Crash, Deliver,
       QueueExpires
  <2>3. \A v \in Worker : v # w /\ v \in lost' => at[v] # "idle"
    BY <1>1 DEF Replay, Poll, Takes, Acquire, EmitReturns, EmitRaises, Sleep, ReleaseGet,
       ReleaseDelete, Commit, CommitRefused, Trouble, TakeOver, RedisFails, Crash, Deliver,
       QueueExpires, group, HandInv, Owns, At
  <2>4. w \in lost' => at'[w] # "idle"
    BY <1>1 DEF Replay, Poll, Takes, Acquire, EmitReturns, EmitRaises, Sleep, ReleaseGet,
       ReleaseDelete, Commit, CommitRefused, Trouble, TakeOver, RedisFails, Crash, Deliver,
       QueueExpires, group, locals, HandInv, Owns, At, Goto, TypeOK
  <2>5. /\ at'[w] \in Before => rec'[w] \notin queue'[w]
        /\ \A r \in queue'[w] : r \notin pending' \/ (at'[w] \in After /\ rec'[w] = r)
    <3>1. CASE EmitReturns(w)
      <4>1. /\ rec' = rec /\ at[w] = "emit" /\ at'[w] = "get" /\ pending' = pending
            /\ queue'[w] \subseteq queue[w] \cup {rec[w]}
        BY <3>1 DEF EmitReturns, At, Goto, TypeOK
      <4>2. QED
        BY <4>1 DEF HandInv, Before, After
    <3>2. CASE Poll(w) \/ TakeOver(w)
      <4>1. PICK r \in pending : rec'[w] = r /\ queue' = queue /\ at[w] = "idle"
        BY <3>2 DEF Poll, TakeOver, Takes, At, TypeOK
      <4>2. QED
        BY <2>2, <4>1 DEF HandInv, After
    <3>3. CASE Commit(w)
      <4>1. /\ pending' = pending \ {rec[w]} /\ queue' = queue /\ at'[w] = "idle"
        BY <3>3 DEF Commit, Goto, TypeOK
      <4>2. QED
        BY <4>1 DEF HandInv, Before
    <3>4. CASE CommitRefused(w) \/ Crash(w)
      BY <3>4 DEF CommitRefused, Crash, TypeOK
    <3>5. CASE Deliver(w) \/ QueueExpires(w)
      <4>1. queue'[w] \subseteq queue[w] /\ at' = at /\ rec' = rec /\ pending' = pending
        BY <3>5 DEF Deliver, QueueExpires, locals, TypeOK
      <4>2. QED
        BY <4>1 DEF HandInv
    <3>6. CASE \/ Acquire(w) \/ EmitRaises(w) \/ Sleep(w) \/ ReleaseGet(w) \/ ReleaseDelete(w)
               \/ RedisFails(w)
      <4>1. /\ queue' = queue /\ rec' = rec /\ pending' = pending
            /\ at'[w] \in Before => at[w] \in Before
            /\ at[w] \in After => at'[w] \in After
        BY <3>6 DEF Acquire, EmitRaises, Sleep, ReleaseGet, ReleaseDelete, RedisFails, At, Goto,
           Before, After, TypeOK
      <4>2. QED
        BY <4>1 DEF HandInv
    <3>7. QED
      BY <1>1, <3>1, <3>2, <3>3, <3>4, <3>5, <3>6 DEF Replay, Trouble
  <2>6. QED
    BY <2>1, <2>2, <2>3, <2>4, <2>5 DEF HandInv
<1>2. CASE UNCHANGED vars \/ \E j \in Job : Expire(j)
  BY <1>2 DEF vars, locals, group, Expire, HandInv
<1>3. QED
  BY <1>1, <1>2 DEF Next

(* Counting workers.                                                       *)
LEMMA WorkersCount ==
  ASSUME NEW S \in SUBSET Worker, NEW T \in SUBSET Worker
  PROVE  /\ Cardinality(S) \in Nat /\ Cardinality(T) \in Nat
         /\ T \subseteq S => Cardinality(T) <= Cardinality(S)
         /\ \A w : T \subseteq S \cup {w} => Cardinality(T) <= Cardinality(S) + 1
         /\ \A w \in S : T \subseteq S \ {w} => Cardinality(T) + 1 <= Cardinality(S)
<1>1. IsFiniteSet(S) /\ IsFiniteSet(T)
  BY ReplayAssumption, FS_Subset
<1>2. Cardinality(S) \in Nat /\ Cardinality(T) \in Nat
  BY <1>1, FS_CardinalityType
<1>3. T \subseteq S => Cardinality(T) <= Cardinality(S)
  BY <1>1, FS_Subset
<1>4. ASSUME NEW w, T \subseteq S \cup {w} PROVE Cardinality(T) <= Cardinality(S) + 1
  <2>1. IsFiniteSet(S \cup {w})
    BY <1>1, FS_AddElement
  <2>2. Cardinality(S \cup {w}) = Cardinality(S) \/ Cardinality(S \cup {w}) = Cardinality(S) + 1
    BY <1>1, FS_AddElement
  <2>3. Cardinality(T) <= Cardinality(S \cup {w})
    BY <1>4, <2>1, FS_Subset
  <2>4. QED
    BY <1>2, <2>2, <2>3
<1>5. ASSUME NEW w \in S, T \subseteq S \ {w} PROVE Cardinality(T) + 1 <= Cardinality(S)
  <2>1. IsFiniteSet(S \ {w}) /\ Cardinality(S \ {w}) = Cardinality(S) - 1
    BY <1>1, FS_RemoveElement
  <2>2. Cardinality(T) <= Cardinality(S \ {w})
    BY <1>5, <2>1, FS_Subset
  <2>3. QED
    BY <1>2, <2>1, <2>2
<1>6. QED
  BY <1>2, <1>3, <1>4, <1>5

(* The three ways a step can change what is carried of a record.           *)
Keeps(r) ==
  /\ Carriers(r)' \subseteq Carriers(r) /\ injected'[r] = injected[r]
  /\ (Open(r)' => Open(r)) \/ crashes' = crashes + 1
TakesUp(w, r) ==
  /\ Carriers(r)' \subseteq Carriers(r) \cup {w} /\ injected'[r] = injected[r]
  /\ (Open(r) /\ ~Open(r)') \/ ((Open(r)' => Open(r)) /\ rebalances' = rebalances + 1)
PutsBack(w, r) ==
  /\ w \in Carriers(r) /\ Carriers(r)' \subseteq Carriers(r) \ {w}
  /\ injected'[r] = injected[r] + 1
  /\ Open(r)' => Open(r)

LEMMA CarriedChange ==
  ASSUME TypeOK, HandInv, NEW w \in Worker, Replay(w) \/ Trouble(w), NEW r \in Record
  PROVE  Keeps(r) \/ TakesUp(w, r) \/ PutsBack(w, r)
<1>1. \A v \in Worker : v # w => at'[v] = at[v] /\ rec'[v] = rec[v] /\ queue'[v] = queue[v]
  BY OthersStay
<1>2. \A v \in Worker : v # w => (Carries(v, r)' <=> Carries(v, r))
  BY <1>1 DEF Carries
<1>3. (Carries(w, r)' => Carries(w, r)) => Carriers(r)' \subseteq Carriers(r)
  BY <1>2 DEF Carriers
<1>4. Carriers(r)' \subseteq Carriers(r) \cup {w}
  BY <1>2 DEF Carriers
<1>5. ~Carries(w, r)' => Carriers(r)' \subseteq Carriers(r) \ {w}
  BY <1>2 DEF Carriers
<1>6. CASE Poll(w)
  <2>1. PICK o \in Record : Takes(w, o) /\ \A v \in Worker : ~Owns(v, o)
    BY <1>6 DEF Poll
  <2>2. /\ at[w] = "idle" /\ at'[w] \in {"acquire", "commit"} /\ rec'[w] = o /\ o \in pending
        /\ pending' = pending /\ queue' = queue /\ injected' = injected /\ crashes' = crashes
        /\ lost' = lost
    BY <1>6, <2>1 DEF Poll, Takes, At, Goto, group, TypeOK
  <2>3. \A v \in Worker : v # w => (Owns(v, r)' <=> Owns(v, r))
    BY <1>1, <2>2 DEF Owns, At
  <2>4. CASE o = r
    <3>1. Open(r) /\ Owns(w, r)'
      BY <2>1, <2>2, <2>4 DEF Open, Owns, At, HandInv
    <3>2. QED
      BY <1>4, <2>2, <3>1 DEF TakesUp, Open
  <2>5. CASE o # r
    <3>1. Carries(w, r)' => Carries(w, r)
      BY <2>2, <2>5 DEF Carries
    <3>2. ~Owns(w, r)
      BY <2>2 DEF Owns, At
    <3>3. Open(r)' => Open(r)
      BY <2>2, <2>3, <3>2 DEF Open
    <3>4. QED
      BY <1>3, <2>2, <3>1, <3>3 DEF Keeps
  <2>6. QED
    BY <2>4, <2>5
<1>7. CASE TakeOver(w)
  <2>1. PICK u \in Worker : Owns(u, rec[u]) /\ Takes(w, rec[u]) /\ lost' = lost \cup {u}
    BY <1>7 DEF TakeOver
  <2>2. /\ at[w] = "idle" /\ at'[w] \in {"acquire", "commit"} /\ rec'[w] = rec[u]
        /\ pending' = pending /\ queue' = queue /\ injected' = injected
        /\ rebalances' = rebalances + 1 /\ u # w /\ w \notin lost'
    BY <1>7, <2>1 DEF TakeOver, Takes, At, Goto, Owns, HandInv, TypeOK
  <2>3. Owns(w, rec[u])'
    BY <2>2, <1>1 DEF Owns, At
  <2>4. Open(r)' => Open(r)
    <3>1. SUFFICES ASSUME Open(r)', NEW v \in Worker, Owns(v, r) PROVE FALSE
      BY <2>2 DEF Open
    <3>2. v # w
      BY <2>2, <3>1 DEF Owns, At
    <3>3. CASE v = u
      <4>1. Owns(w, r)'
        BY <2>2, <3>1, <3>3 DEF Owns, At
      <4>2. QED
        BY <3>1, <4>1 DEF Open
    <3>4. CASE v # u
      <4>1. Owns(v, r)'
        BY <1>1, <2>1, <3>1, <3>2, <3>4 DEF Owns, At
      <4>2. QED
        BY <3>1, <4>1 DEF Open
    <3>5. QED
      BY <3>3, <3>4
  <2>5. QED
    BY <1>4, <2>2, <2>4 DEF TakesUp
<1>8. CASE EmitReturns(w)
  <2>1. /\ at[w] = "emit" /\ at'[w] = "get" /\ rec' = rec /\ pending' = pending /\ lost' = lost
        /\ crashes' = crashes
    BY <1>8 DEF EmitReturns, At, Goto, group, TypeOK
  <2>2. Open(r)' => Open(r)
    BY <1>1, <2>1 DEF Open, Owns, At
  <2>3. CASE r \in queue[w] \cup {rec[w]}
    <3>1. Carries(w, r)
      BY <2>1, <2>3 DEF Carries, Before
    <3>2. \/ injected'[r] = injected[r] + 1 /\ queue'[w] = {}
          \/ injected'[r] = injected[r]
      BY <1>8, <2>3 DEF EmitReturns, TypeOK
    <3>3. CASE injected'[r] = injected[r] + 1 /\ queue'[w] = {}
      <4>1. ~Carries(w, r)'
        BY <2>1, <3>3 DEF Carries, Before
      <4>2. QED
        BY <1>5, <2>2, <3>1, <3>3, <4>1 DEF PutsBack, Carriers
    <3>4. CASE injected'[r] = injected[r]
      BY <1>3, <2>2, <3>1, <3>4 DEF Keeps
    <3>5. QED
      BY <3>2, <3>3, <3>4
  <2>4. CASE r \notin queue[w] \cup {rec[w]}
    <3>1. r \notin queue'[w] /\ injected'[r] = injected[r]
      BY <1>8, <2>4 DEF EmitReturns, TypeOK
    <3>2. ~Carries(w, r)'
      BY <2>1, <3>1 DEF Carries, Before
    <3>3. QED
      BY <1>3, <2>2, <3>1, <3>2 DEF Keeps
  <2>5. QED
    BY <2>3, <2>4
<1>9. CASE CommitRefused(w)
  <2>1. /\ at[w] = "commit" /\ at'[w] = "idle" /\ rec' = rec /\ pending' = pending
        /\ w \in lost /\ lost' = lost \ {w} /\ queue'[w] = {} /\ crashes' = crashes
    BY <1>9 DEF CommitRefused, At, Goto, TypeOK
  <2>2. Open(r)' => Open(r)
    BY <1>1, <2>1 DEF Open, Owns, At
  <2>3. ~Carries(w, r)'
    BY <2>1 DEF Carries, Before
  <2>4. CASE r \in queue[w]
    <3>1. injected'[r] = injected[r] + 1 /\ Carries(w, r)
      BY <1>9, <2>4 DEF CommitRefused, Carries
    <3>2. QED
      BY <1>5, <2>2, <2>3, <3>1 DEF PutsBack, Carriers
  <2>5. CASE r \notin queue[w]
    <3>1. injected'[r] = injected[r]
      BY <1>9, <2>5 DEF CommitRefused
    <3>2. QED
      BY <1>3, <2>2, <2>3, <3>1 DEF Keeps
  <2>6. QED
    BY <2>4, <2>5
<1>10. CASE Deliver(w) \/ QueueExpires(w)
  <2>1. PICK o \in queue[w] : /\ queue' = [queue EXCEPT ![w] = @ \ {o}]
                              /\ \/ injected' = [injected EXCEPT ![o] = @ + 1]
                                 \/ injected' = injected
    BY <1>10 DEF Deliver, QueueExpires
  <2>2. at' = at /\ rec' = rec /\ pending' = pending /\ lost' = lost
    BY <1>10 DEF Deliver, QueueExpires, locals, group
  <2>3. Open(r)' => Open(r)
    BY <2>2 DEF Open, Owns, At
  <2>4. Carries(w, r)' => Carries(w, r)
    BY <2>1, <2>2 DEF Carries, TypeOK
  <2>5. CASE injected'[r] = injected[r]
    BY <1>3, <2>3, <2>4, <2>5 DEF Keeps
  <2>6. CASE o = r /\ injected' = [injected EXCEPT ![o] = @ + 1]
    <3>1. Carries(w, r) /\ ~Carries(w, r)'
      BY <2>1, <2>2, <2>6 DEF Carries, HandInv, TypeOK
    <3>2. injected'[r] = injected[r] + 1
      BY <2>6 DEF TypeOK
    <3>3. QED
      BY <1>5, <2>3, <3>1, <3>2 DEF PutsBack, Carriers
  <2>7. CASE o # r
    <3>1. injected'[r] = injected[r]
      BY <2>1, <2>7 DEF TypeOK
    <3>2. QED
      BY <2>5, <3>1
  <2>8. QED
    BY <2>1, <2>5, <2>6, <2>7
<1>11. CASE Commit(w)
  <2>1. /\ at'[w] = "idle" /\ rec' = rec /\ pending' = pending \ {rec[w]}
        /\ lost' = lost \ {w} /\ queue' = queue /\ injected' = injected /\ at[w] = "commit"
    BY <1>11 DEF Commit, At, Goto, TypeOK
  <2>2. Carries(w, r)' => Carries(w, r)
    BY <2>1 DEF Carries, Before
  <2>3. Open(r)' => Open(r)
    <3>1. SUFFICES ASSUME Open(r)', NEW v \in Worker, Owns(v, r) PROVE FALSE
      BY <2>1 DEF Open
    <3>2. v # w
      BY <2>1, <3>1 DEF Open, Owns
    <3>3. Owns(v, r)'
      BY <1>1, <2>1, <3>1, <3>2 DEF Owns, At
    <3>4. QED
      BY <3>1, <3>3 DEF Open
  <2>4. QED
    BY <1>3, <2>1, <2>2, <2>3 DEF Keeps
<1>12. CASE Crash(w)
  <2>1. /\ crashes' = crashes + 1 /\ injected' = injected /\ queue'[w] = {} /\ at'[w] = "idle"
    BY <1>12 DEF Crash, Goto, TypeOK
  <2>2. ~Carries(w, r)'
    BY <2>1 DEF Carries, Before
  <2>3. QED
    BY <1>3, <2>1, <2>2 DEF Keeps
<1>13. CASE \/ Acquire(w) \/ EmitRaises(w) \/ Sleep(w) \/ ReleaseGet(w) \/ ReleaseDelete(w)
            \/ RedisFails(w)
  <2>1. /\ queue' = queue /\ rec' = rec /\ pending' = pending /\ lost' = lost
        /\ injected' = injected /\ at[w] # "idle" /\ at'[w] # "idle"
        /\ at'[w] \in Before => at[w] \in Before
    BY <1>13 DEF Acquire, EmitRaises, Sleep, ReleaseGet, ReleaseDelete, RedisFails, At, Goto,
       Before, group, TypeOK
  <2>2. Open(r)' => Open(r)
    BY <1>1, <2>1 DEF Open, Owns, At
  <2>3. Carries(w, r)' => Carries(w, r)
    BY <2>1 DEF Carries
  <2>4. QED
    BY <1>3, <2>1, <2>2, <2>3 DEF Keeps
<1>14. QED
  BY <1>6, <1>7, <1>8, <1>9, <1>10, <1>11, <1>12, <1>13 DEF Replay, Trouble

LEMMA CarriedStep ==
  ASSUME TypeOK, HandInv, CarriedInv, [Next]_vars
  PROVE  CarriedInv'
<1>1. ASSUME NEW w \in Worker, Replay(w) \/ Trouble(w), NEW r \in Record
      PROVE  injected'[r] + Cardinality(Carriers(r)') + (IF Open(r)' THEN 1 ELSE 0)
               <= 1 + crashes' + rebalances'
  <2>. DEFINE S == Carriers(r)
              T == Carriers(r)'
  <2>1. S \in SUBSET Worker /\ T \in SUBSET Worker
    BY DEF Carriers
  <2>2. injected[r] \in Nat /\ crashes \in Nat /\ rebalances \in Nat
    BY DEF TypeOK
  <2>3. injected[r] + Cardinality(S) + (IF Open(r) THEN 1 ELSE 0) <= 1 + crashes + rebalances
    BY DEF CarriedInv
  <2>4. crashes' \in {crashes, crashes + 1} /\ rebalances' \in {rebalances, rebalances + 1}
    BY <1>1 DEF Replay, Poll, Takes, Acquire, EmitReturns, EmitRaises, Sleep, ReleaseGet,
       ReleaseDelete, Commit, CommitRefused, Trouble, TakeOver, RedisFails, Crash, Deliver,
       QueueExpires, group
  <2>5. \/ /\ T \subseteq S /\ injected'[r] = injected[r]
           /\ (Open(r)' => Open(r)) \/ crashes' = crashes + 1
        \/ /\ T \subseteq S \cup {w} /\ injected'[r] = injected[r]
           /\ (Open(r) /\ ~Open(r)') \/ ((Open(r)' => Open(r)) /\ rebalances' = rebalances + 1)
        \/ /\ w \in S /\ T \subseteq S \ {w} /\ injected'[r] = injected[r] + 1
           /\ Open(r)' => Open(r)
    BY <1>1, CarriedChange DEF Keeps, TakesUp, PutsBack
  <2>. HIDE DEF S, T
  <2>6. /\ Cardinality(S) \in Nat /\ Cardinality(T) \in Nat
        /\ T \subseteq S => Cardinality(T) <= Cardinality(S)
        /\ T \subseteq S \cup {w} => Cardinality(T) <= Cardinality(S) + 1
        /\ w \in S /\ T \subseteq S \ {w} => Cardinality(T) + 1 <= Cardinality(S)
    BY <2>1, WorkersCount
  <2>7. injected'[r] + Cardinality(T) + (IF Open(r)' THEN 1 ELSE 0) <= 1 + crashes' + rebalances'
    BY <2>2, <2>3, <2>4, <2>5, <2>6
  <2>8. QED
    BY <2>7 DEF T
<1>2. CASE UNCHANGED vars \/ \E j \in Job : Expire(j)
  <2>1. UNCHANGED <<pending, at, rec, queue, injected, crashes, lost, rebalances>>
    BY <1>2 DEF vars, locals, group, Expire
  <2>2. \A r \in Record : Carriers(r)' = Carriers(r) /\ (Open(r)' <=> Open(r))
    BY <2>1 DEF Carriers, Carries, Open, Owns, At
  <2>3. QED
    BY <2>1, <2>2 DEF CarriedInv
<1>3. QED
  BY <1>1, <1>2 DEF Next, CarriedInv

(* dlq_replay.py:77-96, 124-139 for any number of workers and attempts: a  *)
(* record is put back once, and once more at most for every crash and every*)
(* rebalance, however often emit fails, a flush times out or a lock        *)
(* expires.                                                                *)
THEOREM OneCopyPerTake == Spec => []InjectedOncePerTake
<1>1. Init => HandInv /\ CarriedInv
  <2>1. SUFFICES ASSUME Init PROVE HandInv /\ CarriedInv
    OBVIOUS
  <2>2. \A r \in Record : Carriers(r) = {} /\ injected[r] = 0 /\ crashes = 0 /\ rebalances = 0
    BY <2>1 DEF Init, Carriers, Carries, Before
  <2>3. Cardinality({}) = 0
    BY FS_EmptySet
  <2>4. CarriedInv
    BY <2>2, <2>3 DEF CarriedInv
  <2>5. QED
    BY <2>1, <2>4 DEF Init, HandInv, Before
<1>2. TypeOK /\ HandInv /\ CarriedInv /\ [Next]_vars => (HandInv /\ CarriedInv)'
  BY HandStep, CarriedStep
<1>3. TypeOK /\ CarriedInv => InjectedOncePerTake
  <2>1. SUFFICES ASSUME TypeOK, CarriedInv, NEW r \in Record
                 PROVE  Copies(r) <= 1 + crashes + rebalances
    BY DEF InjectedOncePerTake
  <2>. DEFINE Q == {w \in Worker : r \in queue[w]}
              S == Carriers(r)
  <2>2. Q \in SUBSET Worker /\ S \in SUBSET Worker /\ Q \subseteq S
    BY DEF Carriers, Carries
  <2>3. injected[r] + Cardinality(S) + (IF Open(r) THEN 1 ELSE 0) <= 1 + crashes + rebalances
    BY <2>1 DEF CarriedInv
  <2>4. injected[r] \in Nat /\ crashes \in Nat /\ rebalances \in Nat
    BY <2>1 DEF TypeOK
  <2>. HIDE DEF Q, S
  <2>5. Cardinality(Q) <= Cardinality(S) /\ Cardinality(Q) \in Nat /\ Cardinality(S) \in Nat
    BY <2>2, WorkersCount
  <2>6. injected[r] + Cardinality(Q) <= 1 + crashes + rebalances
    BY <2>3, <2>4, <2>5
  <2>7. QED
    BY <2>6 DEF Copies, Q
<1>4. QED
  BY <1>1, <1>2, <1>3, InitTypes, NextTypes, PTL DEF Spec

-----------------------------------------------------------------------------
(***************************************************************************)
(* The blocked claimant.  While nothing fails, a lock that is set is set by*)
(* a worker that has its job's record in hand, or has done with it: who is *)
(* turned away leaves the job to somebody.                                 *)
(***************************************************************************)
Served(r) ==
  \/ injected[r] > 0 \/ r \in exhausted
  \/ \E w \in Worker : r \in queue[w] \/ (at[w] \in {"emit", "sleep"} /\ rec[w] = r)
Unharmed == faults = 0 /\ crashes = 0

AttendInv ==
  /\ \A w \in Worker : at[w] \in {"acquire"} \cup Holding => rec[w] \notin Passed
  /\ \A j \in Job : lock[j] # Free => Attended(j)
  /\ \A w \in Worker :
       at[w] \notin {"idle", "acquire"} /\ rec[w] \notin Passed => Attended(JobAt(w))
  /\ \A r \in Record \ Passed : r \notin pending => Attended(JobOf[r])

(* A record that a worker emits ends up queued, acknowledged or given up.  *)
LEMMA ServedStays ==
  ASSUME TypeOK, NEW w \in Worker, Replay(w) \/ Deliver(w) \/ TakeOver(w), NEW r \in Record, Served(r)
  PROVE  Served(r)'
<1>1. \A v \in Worker : v # w => at'[v] = at[v] /\ rec'[v] = rec[v] /\ queue'[v] = queue[v]
  BY DEF Replay, Poll, Acquire, EmitReturns, EmitRaises, Sleep, ReleaseGet,
     ReleaseDelete, Commit, CommitRefused, TakeOver, Takes, Deliver, locals, Goto, TypeOK
<1>2. injected[r] \in Nat /\ injected'[r] >= injected[r] /\ exhausted \subseteq exhausted'
  BY DEF Replay, Poll, Acquire, EmitReturns, EmitRaises, Sleep, ReleaseGet,
     ReleaseDelete, Commit, CommitRefused, TakeOver, Takes, Deliver, TypeOK
<1>3. CASE injected[r] > 0 \/ r \in exhausted
  <2>1. injected'[r] \in Nat
    BY <1>2, NextTypes DEF Next, Trouble, TypeOK
  <2>2. QED
    BY <1>2, <1>3, <2>1 DEF Served
<1>4. CASE r \in queue[w]
  <2>1. r \in queue'[w] \/ injected'[r] = injected[r] + 1
    BY <1>4 DEF Replay, Poll, Acquire, EmitReturns, EmitRaises, Sleep, ReleaseGet,
       ReleaseDelete, Commit, CommitRefused, TakeOver, Takes, Deliver, TypeOK
  <2>2. QED
    BY <1>2, <2>1 DEF Served
<1>5. CASE at[w] \in {"emit", "sleep"} /\ rec[w] = r
  <2>1. CASE EmitReturns(w)
    <3>1. r \in queue'[w] \/ injected'[r] = injected[r] + 1
      BY <1>5, <2>1 DEF EmitReturns, TypeOK
    <3>2. QED
      BY <1>2, <3>1 DEF Served
  <2>2. CASE EmitRaises(w)
    BY <1>5, <2>2 DEF EmitRaises, Goto, Served, TypeOK
  <2>3. CASE ~EmitReturns(w) /\ ~EmitRaises(w)
    <3>1. at'[w] \in {"emit", "sleep"} /\ rec'[w] = r
      BY <1>5, <2>3 DEF Replay, Poll, Acquire, Sleep, ReleaseGet, ReleaseDelete,
         Commit, CommitRefused, TakeOver, Takes, Deliver, locals, At, Goto, TypeOK
    <3>2. QED
      BY <3>1 DEF Served
  <2>4. QED
    BY <2>1, <2>2, <2>3
<1>6. CASE \E v \in Worker : v # w /\ (r \in queue[v] \/ (at[v] \in {"emit", "sleep"} /\ rec[v] = r))
  BY <1>1, <1>6 DEF Served
<1>7. QED
  BY <1>3, <1>4, <1>5, <1>6 DEF Served

(* A job is attended by a record of its own that is served.                *)
LEMMA AttendedIsServed ==
  ASSUME NEW j
  PROVE  Attended(j) <=> \E r \in Record \ Passed : JobOf[r] = j /\ Served(r)
BY DEF Attended, Served

(* A job that is attended stays so.                                        *)
LEMMA AttendedStays ==
  ASSUME TypeOK, NEW w \in Worker, Replay(w) \/ Deliver(w) \/ TakeOver(w), NEW j, Attended(j)
  PROVE  Attended(j)'
<1>1. PICK r \in Record \ Passed : JobOf[r] = j /\ Served(r)
  BY AttendedIsServed
<1>2. Served(r)'
  BY <1>1, ServedStays
<1>3. QED
  BY <1>1, <1>2 DEF Attended, Served

(* A set lock turns away nobody whose job is not attended.                 *)
LEMMA AttendStep ==
  ASSUME TypeOK, AttendInv, NEW w \in Worker, Replay(w) \/ Deliver(w) \/ TakeOver(w)
  PROVE  AttendInv'
<1> USE ReplayAssumption
<1>1. \A v \in Worker : v # w => at'[v] = at[v] /\ rec'[v] = rec[v]
  BY DEF Replay, Poll, Acquire, EmitReturns, EmitRaises, Sleep, ReleaseGet,
     ReleaseDelete, Commit, CommitRefused, TakeOver, Takes, Deliver, locals, Goto, TypeOK
<1>2. \A j \in Job : Attended(j) => Attended(j)'
  BY AttendedStays
<1>3. \A v \in Worker : rec[v] \in Record /\ JobAt(v) \in Job
  BY DEF TypeOK, JobAt
<1>4. at'[w] \in {"acquire"} \cup Holding => rec'[w] \notin Passed
  BY DEF AttendInv, Replay, Poll, Acquire, EmitReturns, EmitRaises, Sleep, ReleaseGet,
     ReleaseDelete, Commit, CommitRefused, TakeOver, Takes, Deliver, locals, At, Goto, TypeOK, Holding
<1>5. CASE Acquire(w)
  <2>1. /\ at[w] = "acquire" /\ rec' = rec /\ pending' = pending
        /\ rec[w] \in Record \ Passed
    BY <1>3, <1>5 DEF Acquire, At, AttendInv
  <2>2. CASE lock[JobAt(w)] = Free
    <3>1. at'[w] = "emit" /\ lock' = [lock EXCEPT ![JobAt(w)] = w]
      BY <1>5, <2>2 DEF Acquire, Goto, TypeOK
    <3>2. \A j \in Job : j = JobAt(w) => Attended(j)'
      BY <2>1, <3>1 DEF Attended, JobAt
    <3>3. \A j \in Job : lock'[j] # Free => Attended(j)'
      BY <1>2, <1>3, <3>1, <3>2 DEF AttendInv, TypeOK
    <3>4. \A v \in Worker : at'[v] \notin {"idle", "acquire"} /\ rec'[v] \notin Passed
                              => Attended(JobAt(v))'
      <4>1. TAKE v \in Worker
      <4>2. CASE v = w
        <5>1. rec'[v] = rec[w]
          BY <2>1, <4>2
        <5>2. QED
          BY <1>3, <3>2, <5>1 DEF JobAt
      <4>3. CASE v # w
        BY <1>1, <1>2, <1>3, <2>1, <4>3 DEF AttendInv, JobAt
      <4>4. QED
        BY <4>2, <4>3
    <3>5. QED
      BY <1>1, <1>2, <1>4, <2>1, <3>3, <3>4 DEF AttendInv, TypeOK
  <2>3. CASE lock[JobAt(w)] # Free
    <3>1. lock' = lock /\ Attended(JobAt(w))
      BY <1>3, <1>5, <2>3 DEF Acquire, AttendInv
    <3>2. QED
      BY <1>1, <1>2, <1>3, <1>4, <2>1, <3>1 DEF AttendInv, TypeOK, JobAt
  <2>4. QED
    BY <2>2, <2>3
<1>6. CASE Poll(w) \/ TakeOver(w)
  <2>1. /\ pending' = pending /\ lock' = lock
        /\ at'[w] = "acquire" \/ (at'[w] = "commit" /\ rec'[w] \in Passed)
    BY <1>6 DEF Poll, TakeOver, Takes, Goto, TypeOK
  <2>2. QED
    BY <1>1, <1>2, <1>3, <1>4, <2>1 DEF AttendInv, TypeOK, JobAt
<1>7. CASE Commit(w)
  <2>1. /\ pending' = pending \ {rec[w]} /\ lock' = lock /\ rec' = rec
        /\ at[w] = "commit" /\ at'[w] = "idle"
    BY <1>7 DEF Commit, At, Goto, TypeOK
  <2>2. rec[w] \notin Passed => Attended(JobOf[rec[w]])
    BY <2>1 DEF AttendInv, JobAt
  <2>3. QED
    BY <1>1, <1>2, <1>3, <1>4, <2>1, <2>2 DEF AttendInv, TypeOK, JobAt
<1>8. CASE ~Acquire(w) /\ ~Poll(w) /\ ~TakeOver(w) /\ ~Commit(w)
  <2>1. /\ pending' = pending /\ rec' = rec
        /\ at'[w] \notin {"idle", "acquire"} => at[w] \notin {"idle", "acquire"}
    BY <1>8 DEF Replay, EmitReturns, EmitRaises, Sleep, ReleaseGet, ReleaseDelete,
       CommitRefused, Deliver, locals, At, Goto, TypeOK
  <2>2. \A j \in Job : lock'[j] # Free => lock[j] # Free
    BY <1>8 DEF Replay, EmitReturns, EmitRaises, Sleep, ReleaseGet, ReleaseDelete,
       CommitRefused, Deliver, TypeOK
  <2>3. QED
    BY <1>1, <1>2, <1>3, <1>4, <2>1, <2>2 DEF AttendInv, TypeOK, JobAt
<1>9. QED
  BY <1>5, <1>6, <1>7, <1>8

(* Only a fault or a crash harms, and it is never forgotten; an expiry     *)
(* frees a lock.                                                           *)
LEMMA UnharmedStep ==
  ASSUME TypeOK, Unharmed => AttendInv, [Next]_vars
  PROVE  Unharmed' => AttendInv'
<1>1. CASE \E w \in Worker : Replay(w) \/ Deliver(w) \/ TakeOver(w)
  <2>1. faults' = faults /\ crashes' = crashes
    BY <1>1 DEF Replay, Poll, Acquire, EmitReturns, EmitRaises, Sleep, ReleaseGet,
       ReleaseDelete, Commit, CommitRefused, TakeOver, Takes, Deliver
  <2>2. QED
    BY <1>1, <2>1, AttendStep DEF Unharmed
<1>2. CASE \E w \in Worker : RedisFails(w) \/ QueueExpires(w) \/ Crash(w)
  BY <1>2 DEF RedisFails, QueueExpires, Crash, Unharmed, TypeOK
<1>3. CASE UNCHANGED vars \/ \E j \in Job : Expire(j)
  BY <1>3 DEF vars, locals, Expire, Unharmed, AttendInv, Attended, JobAt, TypeOK
<1>4. QED
  BY <1>1, <1>2, <1>3 DEF Next, Trouble

(* dlq_replay.py:75-77, for any number of workers, jobs and records and    *)
(* whether or not a lock outlives its holder, and whatever is rebalanced:  *)
(* while no Redis command fails, nothing queued expires and no worker dies,*)
(* no dead letter that can be read is committed whose job nobody retried,  *)
(* retries or gave up.                                                     *)
THEOREM BlockedAttended == Spec => []BlockedIsAttended
<1>1. Init => (Unharmed => AttendInv)
  BY DEF Init, AttendInv, Holding
<1>2. TypeOK /\ (Unharmed => AttendInv) /\ [Next]_vars => (Unharmed => AttendInv)'
  BY UnharmedStep
<1>3. (Unharmed => AttendInv) => BlockedIsAttended
  BY DEF Unharmed, AttendInv, BlockedIsAttended
<1>4. QED
  BY <1>1, <1>2, <1>3, InitTypes, NextTypes, PTL DEF Spec

-----------------------------------------------------------------------------
(* locks.py:34-37 for any number of workers, and on the condition it needs:*)
(* if lock_ttl_ms is longer than any hold, the token compared before the   *)
(* DELETE is still the one stored when the DELETE is run.                  *)
THEOREM OwnLockReleased == ASSUME TtlOutlivesHold PROVE Spec => []ReleasesOwnLock
<1>1. Init => LockInv
  BY DEF Init, LockInv, Holding
<1>2. TypeOK /\ LockInv => ReleasesOwnLock
  BY DEF LockInv, ReleasesOwnLock, At, Holding
<1>3. TypeOK /\ LockInv /\ [Next]_vars => LockInv'
  BY LockStep
<1>4. QED
  BY <1>1, <1>2, <1>3, InitTypes, NextTypes, PTL DEF Spec

-----------------------------------------------------------------------------
(***************************************************************************)
(* The windows meet.  While nothing disturbs the daemon, what the corpus   *)
(* covers is never older than the time since the last run began, which the *)
(* interval bounds, and Lookback reaches beyond the interval.              *)
(***************************************************************************)
Stage == {"page", "flush", "last"}
RunUnderWay ==
  \E s \in Stage : \E window, start, total, batch, queued, began, sound, grew :
    run = [stage |-> s, window |-> window, start |-> start, total |-> total,
           batch |-> batch, queued |-> queued, began |-> began, sound |-> sound, grew |-> grew]

WindowInv ==
  /\ run = Idle \/ RunUnderWay
  /\ timer \in 0..Interval /\ covered \in 0..Old
  /\ run # Idle => run.began \in 0..Old
  /\ ~disturbed =>
       /\ daemon = "up"
       /\ run = Idle => covered + timer <= Interval
       /\ run # Idle => run.sound /\ run.began + timer <= Interval

(* A tick adds at most one, and time beyond Lookback is just old.          *)
LEMMA GrownTicks ==
  ASSUME NEW t \in 0..Old
  PROVE  Grown(t) \in 0..Old /\ Grown(t) <= t + 1
BY RefreshAssumption DEF Grown, Old

(* A run under way is not Idle.                                            *)
LEMMA BusyIsNotIdle == RunUnderWay => run # Idle
BY DEF RunUnderWay, Idle, Stage

(* What happens to a run under way until it ends: NVD and the pages change *)
(* neither when it began nor whether it is sound.                          *)
LEMMA RunGoesOn ==
  ASSUME RunUnderWay,
         \/ \E x : run' = [run EXCEPT !.window = x]
         \/ \E s \in Stage : \E b, q : run' = [run EXCEPT !.stage = s, !.batch = b, !.queued = q]
         \/ \E s \in Stage : \E n, t, b, q, g :
              run' = [run EXCEPT !.stage = s, !.start = n, !.total = t,
                                 !.batch = b, !.queued = q, !.grew = g]
  PROVE  RunUnderWay' /\ run'.began = run.began /\ run'.sound = run.sound
<1>1. PICK s \in Stage :
        \E window, start, total, batch, queued, began, sound, grew :
          run = [stage |-> s, window |-> window, start |-> start, total |-> total,
                 batch |-> batch, queued |-> queued, began |-> began, sound |-> sound, grew |-> grew]
  BY DEF RunUnderWay
<1>. PICK window, start, total, batch, queued, began, sound, grew :
        run = [stage |-> s, window |-> window, start |-> start, total |-> total,
               batch |-> batch, queued |-> queued, began |-> began, sound |-> sound, grew |-> grew]
  BY <1>1
<1>2. CASE \E x : run' = [run EXCEPT !.window = x]
  <2>1. PICK x : run' = [run EXCEPT !.window = x]
    BY <1>2
  <2>2. run' = [stage |-> s, window |-> x, start |-> start, total |-> total,
                batch |-> batch, queued |-> queued, began |-> began, sound |-> sound, grew |-> grew]
    BY <2>1
  <2>3. RunUnderWay'
    BY <1>1, <2>2, Zenon DEF RunUnderWay
  <2> QED
    BY <2>2, <2>3
<1>3. CASE \E z \in Stage : \E b, q : run' = [run EXCEPT !.stage = z, !.batch = b, !.queued = q]
  <2>1. PICK z \in Stage : \E b, q :
          run' = [run EXCEPT !.stage = z, !.batch = b, !.queued = q]
    BY <1>3, Zenon
  <2>2. PICK b, q : run' = [run EXCEPT !.stage = z, !.batch = b, !.queued = q]
    BY <2>1, Zenon
  <2>3. run' = [stage |-> z, window |-> window, start |-> start, total |-> total,
                batch |-> b, queued |-> q, began |-> began, sound |-> sound, grew |-> grew]
    BY <2>2
  <2>4. RunUnderWay'
    BY <2>1, <2>3, Zenon DEF RunUnderWay
  <2> QED
    BY <2>3, <2>4
<1>4. CASE \E z \in Stage : \E n, t, b, q, g :
             run' = [run EXCEPT !.stage = z, !.start = n, !.total = t,
                                !.batch = b, !.queued = q, !.grew = g]
  <2>1. PICK z \in Stage : \E n, t, b, q, g :
          run' = [run EXCEPT !.stage = z, !.start = n, !.total = t,
                             !.batch = b, !.queued = q, !.grew = g]
    BY <1>4, Zenon
  <2>2. PICK n, t, b, q, g :
          run' = [run EXCEPT !.stage = z, !.start = n, !.total = t,
                             !.batch = b, !.queued = q, !.grew = g]
    BY <2>1, Zenon
  <2>3. run' = [stage |-> z, window |-> window, start |-> n, total |-> t,
                batch |-> b, queued |-> q, began |-> began, sound |-> sound, grew |-> g]
    BY <2>2
  <2>4. RunUnderWay'
    BY <2>1, <2>3, Zenon DEF RunUnderWay
  <2> QED
    BY <2>3, <2>4
<1>5. QED
  BY <1>2, <1>3, <1>4

(* A tick ages a run under way.                                            *)
LEMMA RunAges ==
  ASSUME RunUnderWay, run' = [run EXCEPT !.began = Grown(@)]
  PROVE  RunUnderWay' /\ run'.began = Grown(run.began) /\ run'.sound = run.sound
<1>1. PICK s \in Stage :
        \E window, start, total, batch, queued, began, sound, grew :
          run = [stage |-> s, window |-> window, start |-> start, total |-> total,
                 batch |-> batch, queued |-> queued, began |-> began, sound |-> sound, grew |-> grew]
  BY DEF RunUnderWay
<1>. PICK window, start, total, batch, queued, began, sound, grew :
        run = [stage |-> s, window |-> window, start |-> start, total |-> total,
               batch |-> batch, queued |-> queued, began |-> began, sound |-> sound, grew |-> grew]
  BY <1>1
<1>2. PICK e : e = Grown(run.began)
  OBVIOUS
<1>3. run' = [run EXCEPT !.began = e]
  BY <1>2
<1>4. run' = [stage |-> s, window |-> window, start |-> start, total |-> total,
              batch |-> batch, queued |-> queued, began |-> e, sound |-> sound, grew |-> grew]
  BY <1>1, <1>3
<1>5. QED
  BY <1>1, <1>2, <1>4 DEF RunUnderWay

(* A new run.                                                              *)
LEMMA RunStarts ==
  ASSUME NEW window, NEW sound, Start(window, sound)
  PROVE  RunUnderWay' /\ run'.began = 0 /\ run'.sound = sound /\ run = Idle
BY DEF Start, RunUnderWay, Stage

(* The steps of a run that do not end it.                                  *)
LEMMA RunWorks ==
  ASSUME WindowInv, (\E c \in Cve : Modify(c)) \/ FetchPage \/ Flush, run # Idle
  PROVE  RunUnderWay' /\ run'.began = run.began /\ run'.sound = run.sound
<1>1. RunUnderWay
  BY DEF WindowInv
<1>2. CASE \E c \in Cve : Modify(c)
  BY <1>1, <1>2, RunGoesOn DEF Modify
<1>3. CASE FetchPage
  <2> DEFINE size == Cardinality(run.window)
             page == {c \in run.window :
                        /\ run.start <= Place(c, run.window)
                        /\ Place(c, run.window) < run.start + PageSize}
             total == IF run.start = 0 THEN size ELSE run.total
             start == run.start + Cardinality(page)
             batch == run.batch \cup Versions(page \cap InScope)
             queued == run.queued + Cardinality(page \cap InScope)
             grew == run.grew \/ size # total
             stage == IF page = {} \/ start >= total THEN "last"
                      ELSE IF queued >= BatchSize THEN "flush" ELSE "page"
  <2>1. run' = [run EXCEPT !.stage = stage, !.start = start, !.total = total,
                           !.batch = batch, !.queued = queued, !.grew = grew]
    BY <1>3 DEF FetchPage
  <2>2. stage \in Stage
    BY DEF Stage
  <2> HIDE DEF total, start, batch, queued, grew, stage
  <2>3. \E s \in Stage : \E n, t, b, q, g :
          run' = [run EXCEPT !.stage = s, !.start = n, !.total = t,
                             !.batch = b, !.queued = q, !.grew = g]
    BY <2>1, <2>2, Zenon
  <2>4. QED
    BY <1>1, <2>3, RunGoesOn, Zenon
<1>4. CASE Flush
  BY <1>1, <1>4, RunGoesOn DEF Flush, Stage
<1>5. QED
  BY <1>2, <1>3, <1>4

(* Every step keeps the windows together.                                  *)
LEMMA WindowStep ==
  ASSUME WindowInv, [RefreshNext]_refreshVars
  PROVE  WindowInv'
<1>. USE RefreshAssumption
<1>1. CASE (\E c \in Cve : Modify(c)) \/ FetchPage \/ Flush
  <2>1. UNCHANGED <<daemon, timer, covered, disturbed>>
    BY <1>1, Zenon DEF Modify, FetchPage, Flush
  <2>2. CASE run # Idle
    <3>1. RunUnderWay' /\ run'.began = run.began /\ run'.sound = run.sound
      BY <1>1, <2>2, RunWorks
    <3>2. run' # Idle
      BY <3>1, BusyIsNotIdle DEF RunUnderWay, Idle, Stage
    <3>3. QED
      BY <2>1, <2>2, <3>1, <3>2 DEF WindowInv, Old
  <2>3. CASE run = Idle
    <3>1. run' = Idle
      BY <1>1, <2>3 DEF Modify, FetchPage, Flush
    <3>2. QED
      BY <2>1, <2>3, <3>1 DEF WindowInv, Old
  <2>4. QED
    BY <2>2, <2>3
<1>2. CASE Tick
  <2>1. /\ UNCHANGED <<daemon, disturbed>>
        /\ covered' = Grown(covered) /\ timer' \in 0..Interval
        /\ daemon = "up" => timer' = timer - 1
    BY <1>2 DEF Tick, WindowInv
  <2>2. covered' \in 0..Old /\ covered' <= covered + 1
    BY <2>1, GrownTicks DEF WindowInv
  <2>3. CASE run # Idle
    <3>1. RunUnderWay' /\ run'.began = Grown(run.began) /\ run'.sound = run.sound
      BY <1>2, <2>3, RunAges DEF Tick, WindowInv
    <3>2. run' # Idle
      BY <3>1 DEF RunUnderWay, Idle, Stage
    <3>3. run'.began \in 0..Old /\ run'.began <= run.began + 1
      BY <2>3, <3>1, GrownTicks DEF WindowInv
    <3>4. QED
      BY <2>1, <2>2, <2>3, <3>1, <3>2, <3>3 DEF WindowInv, Old
  <2>4. CASE run = Idle
    <3>1. run' = Idle
      BY <1>2, <2>4 DEF Tick
    <3>2. QED
      BY <2>1, <2>2, <2>4, <3>1 DEF WindowInv, Old
  <2>5. QED
    BY <2>3, <2>4
<1>3. CASE FullEtl \/ Incremental \/ (Fire /\ run = Idle)
  <2>1. PICK window, sound : Start(window, sound) /\ (Fire => sound = (covered <= Lookback))
    BY <1>3, Zenon DEF FullEtl, Incremental, Fire
  <2>2. RunUnderWay' /\ run'.began = 0 /\ run'.sound = sound
    BY <2>1, RunStarts
  <2>3. run' # Idle
    BY <2>2 DEF RunUnderWay, Idle, Stage
  <2>4. UNCHANGED <<daemon, covered>> /\ (timer' = timer \/ timer' = Interval)
    BY <1>3, Zenon DEF FullEtl, Incremental, Fire
  <2>5. CASE FullEtl \/ Incremental
    <3>1. daemon = "down" /\ disturbed' = disturbed
      BY <2>5 DEF FullEtl, Incremental
    <3>2. disturbed'
      BY <3>1 DEF WindowInv
    <3>3. QED
      BY <2>2, <2>3, <2>4, <3>2 DEF WindowInv, Old
  <2>6. CASE Fire /\ covered > Lookback
    <3>1. disturbed' = (covered > Lookback)
      BY <1>3, <2>6, Zenon DEF Fire, FullEtl, Incremental
    <3>2. disturbed'
      BY <2>6, <3>1
    <3>3. QED
      BY <2>2, <2>3, <2>4, <3>2 DEF WindowInv, Old
  <2>7. CASE Fire /\ ~(covered > Lookback)
    <3>1. daemon = "up" /\ timer' = Interval
      BY <2>7, Zenon DEF Fire
    <3>2. covered <= Lookback
      BY <2>7 DEF WindowInv, Old
    <3>3. sound
      BY <2>1, <2>7, <3>2
    <3>4. QED
      BY <2>2, <2>3, <2>4, <3>1, <3>3 DEF WindowInv, Old
  <2>8. QED
    BY <1>3, <2>5, <2>6, <2>7
<1>4. CASE Fire /\ run # Idle
  <2>1. run' = run /\ disturbed' /\ timer' = Interval /\ UNCHANGED <<daemon, covered>>
    BY <1>4, Zenon DEF Fire
  <2>2. RunUnderWay' /\ run' # Idle
    BY <1>4, <2>1 DEF RunUnderWay, WindowInv
  <2>3. QED
    BY <1>4, <2>1, <2>2 DEF WindowInv, Old
<1>5. CASE LastFlush \/ RunFails \/ StopDaemon
  <2>1. run' = Idle /\ timer' = timer
    BY <1>5 DEF LastFlush, RunFails, StopDaemon
  <2>2. CASE disturbed'
    <3>1. covered' \in 0..Old
      BY <1>5 DEF LastFlush, RunFails, StopDaemon, WindowInv
    <3>2. QED
      BY <2>1, <2>2, <3>1 DEF WindowInv
  <2>3. CASE ~disturbed'
    <3>1. /\ run # Idle /\ ~disturbed /\ ~run.grew /\ daemon' = daemon
          /\ covered' = IF run.sound /\ ~run.grew THEN run.began ELSE covered
      BY <1>5, <2>3 DEF LastFlush, RunFails, StopDaemon
    <3>2. QED
      BY <2>1, <2>3, <3>1 DEF WindowInv
  <2>4. QED
    BY <2>2, <2>3
<1>6. CASE StartDaemon
  <2>1. disturbed /\ disturbed'
    BY <1>6 DEF StartDaemon, WindowInv
  <2>2. QED
    BY <1>6, <2>1 DEF StartDaemon, WindowInv
<1>7. CASE UNCHANGED refreshVars
  BY <1>7 DEF refreshVars, WindowInv, RunUnderWay
<1>8. QED
  BY <1>1, <1>2, <1>3, <1>4, <1>5, <1>6, <1>7 DEF RefreshNext, Work

(* nvd_etl.py:260-261, "slightly wider than the interval so nothing is    *)
(* missed at the boundary": for any corpus, page, batch, interval and wider*)
(* window, after a run that reached back to all the corpus lacked the next *)
(* one does too, unless a run failed, was skipped or overtaken, or the     *)
(* daemon stopped.                                                         *)
THEOREM WindowsDoMeet == RefreshSpec => WindowsMeet
<1>. USE RefreshAssumption
<1>1. RefreshInit => WindowInv
  BY DEF RefreshInit, WindowInv, Old
<1>2. WindowInv /\ [RefreshNext]_refreshVars
        => [run = Idle /\ run' # Idle /\ ~disturbed => run'.sound]_refreshVars
  <2>1. SUFFICES ASSUME WindowInv, RefreshNext, run = Idle, run' # Idle, ~disturbed
                 PROVE  run'.sound
    BY DEF refreshVars
  <2>2. daemon = "up"
    BY <2>1 DEF WindowInv
  <2>3. Fire
    BY <2>1, <2>2 DEF RefreshNext, Work, Modify, Tick, FullEtl, Incremental, StartDaemon,
       StopDaemon, FetchPage, Flush, LastFlush, RunFails
  <2>4. covered <= Lookback
    BY <2>1, <2>3 DEF Fire, WindowInv, Old
  <2>5. PICK window : Start(window, covered <= Lookback)
    BY <2>1, <2>3 DEF Fire
  <2>6. run'.sound = (covered <= Lookback)
    BY <2>5, RunStarts
  <2>7. QED
    BY <2>4, <2>6
<1>3. WindowInv /\ [RefreshNext]_refreshVars => WindowInv'
  BY WindowStep
<1>4. QED
  BY <1>1, <1>2, <1>3, PTL DEF RefreshSpec, WindowsMeet

-----------------------------------------------------------------------------
(***************************************************************************)
(* The corpus is current.  What a run has still to fetch lies behind its   *)
(* start index, which no modification can move it in front of: the window  *)
(* of a query only grows, and so does the place of each CVE in it.         *)
(***************************************************************************)

(* Places are the numbers below the size of the listing.                   *)
LEMMA Places ==
  ASSUME NEW S \in SUBSET Cve
  PROVE  /\ IsFiniteSet(S) /\ Cardinality(S) \in Nat
         /\ \A c \in Cve : Place(c, S) \in Nat
         /\ \A c \in S : Place(c, S) < Cardinality(S)
         /\ \A c, d \in S : c < d => Place(c, S) < Place(d, S)
<1>1. IsFiniteSet(Cve)
  BY RefreshAssumption, FS_Interval DEF Cve
<1>2. \A T \in SUBSET Cve : IsFiniteSet(T) /\ Cardinality(T) \in Nat
  BY <1>1, FS_Subset, FS_CardinalityType
<1>3. ASSUME NEW T \in SUBSET Cve, NEW U \in SUBSET T, U # T
      PROVE  Cardinality(U) < Cardinality(T)
  BY <1>2, <1>3, FS_Subset
<1>4. \A c \in Cve : {d \in S : d < c} \in SUBSET S
  OBVIOUS
<1>5. ASSUME NEW c \in S
      PROVE  Place(c, S) < Cardinality(S)
  <2>1. c \notin {d \in S : d < c}
    BY RefreshAssumption DEF Cve
  <2>2. QED
    BY <1>3, <1>4, <2>1 DEF Place
<1>6. ASSUME NEW c \in S, NEW d \in S, c < d
      PROVE  Place(c, S) < Place(d, S)
  <2>1. \A e \in S : e < c => e < d
    BY <1>6, RefreshAssumption DEF Cve
  <2>2. c \in {e \in S : e < d} /\ c \notin {e \in S : e < c}
    BY <1>6, RefreshAssumption DEF Cve
  <2>3. {e \in S : e < c} \in SUBSET {e \in S : e < d}
    BY <2>1
  <2>4. QED
    BY <1>3, <1>4, <2>2, <2>3 DEF Place
<1>7. QED
  BY <1>2, <1>4, <1>5, <1>6 DEF Place

(* What NVD adds to a listing pushes the rest back.                        *)
LEMMA PlaceGrows ==
  ASSUME NEW S \in SUBSET Cve, NEW T \in SUBSET Cve, S \subseteq T, NEW c \in Cve
  PROVE  Place(c, S) <= Place(c, T)
<1>1. IsFiniteSet({d \in T : d < c})
  BY Places, FS_Subset
<1>2. {d \in S : d < c} \in SUBSET {d \in T : d < c}
  OBVIOUS
<1>3. QED
  BY <1>1, <1>2, FS_Subset DEF Place

(* What lies beyond the first few places lies beyond one that has the last *)
(* of them: places leave no gap.                                           *)
LEMMA NoGap ==
  ASSUME NEW S \in SUBSET Cve, NEW start \in Nat, NEW c \in S, Place(c, S) >= start
  PROVE  \E d \in S : Place(d, S) = start
<1>. DEFINE Beyond == {Place(d, S) : d \in {e \in S : Place(e, S) >= start}}
<1>1. \A d \in S : Place(d, S) \in Nat
  BY Places
<1>2. Beyond \subseteq Nat /\ Beyond # {}
  BY <1>1
<1>3. PICK n \in Beyond : \A m \in Beyond : ~(m < n)
  <2>. DEFINE less == {pair \in Nat \X Nat : pair[1] < pair[2]}
  <2>1. IsWellFoundedOn(less, Nat)
    BY NatLessThanWellFounded, Zenon DEF OpToRel
  <2>. HIDE DEF less
  <2>2. \E n \in Beyond : \A m \in Beyond : ~(<<m, n>> \in less)
    BY <1>2, <2>1, WFMin, Zenon
  <2>3. QED
    BY <1>2, <2>2 DEF less
<1>4. PICK d \in S : n = Place(d, S) /\ n >= start
  OBVIOUS
<1>5. \A e \in S : e < d => Place(e, S) < start
  <2>1. SUFFICES ASSUME NEW e \in S, e < d, Place(e, S) >= start PROVE FALSE
    BY <1>1
  <2>2. Place(e, S) \in Beyond /\ Place(e, S) < n
    BY <1>4, <2>1, Places
  <2>3. QED
    BY <1>3, <1>4, <2>2
<1>6. Place(d, S) <= start
  <2>. DEFINE before == {e \in S : e < d}
              place == [e \in before |-> Place(e, S)]
  <2>1. place \in Injection(before, 0..(start - 1))
    <3>1. place \in [before -> 0..(start - 1)]
      BY <1>1, <1>5
    <3>2. \A e, f \in before : place[e] = place[f] => e = f
      BY Places, RefreshAssumption DEF Cve
    <3>3. QED
      BY <3>1, <3>2 DEF Injection, IsInjective
  <2>2. IsFiniteSet(0..(start - 1)) /\ Cardinality(0..(start - 1)) = start
    BY FS_Interval
  <2>3. Cardinality(before) <= start
    BY <2>1, <2>2, FS_Injection
  <2>4. QED
    BY <2>3 DEF Place
<1>7. QED
  BY <1>1, <1>4, <1>6

(* A page is not larger than was asked for, and an empty one comes after   *)
(* everything.                                                             *)
Page(S, start) == {c \in S : start <= Place(c, S) /\ Place(c, S) < start + PageSize}

LEMMA Pages ==
  ASSUME NEW S \in SUBSET Cve, NEW start \in Nat
  PROVE  /\ Cardinality(Page(S, start)) \in 0..PageSize
         /\ Page(S, start) = {} => \A c \in S : Place(c, S) < start
<1>1. \A d \in S : Place(d, S) \in Nat
  BY Places
<1>2. Cardinality(Page(S, start)) \in 0..PageSize
  <2>. DEFINE place == [c \in Page(S, start) |-> Place(c, S)]
  <2>1. place \in Injection(Page(S, start), start..(start + PageSize - 1))
    <3>1. place \in [Page(S, start) -> start..(start + PageSize - 1)]
      BY <1>1, RefreshAssumption DEF Page
    <3>2. \A c, d \in Page(S, start) : place[c] = place[d] => c = d
      BY Places, RefreshAssumption DEF Cve, Page
    <3>3. QED
      BY <3>1, <3>2 DEF Injection, IsInjective
  <2>2. /\ IsFiniteSet(start..(start + PageSize - 1))
        /\ Cardinality(start..(start + PageSize - 1)) = PageSize
    BY FS_Interval, RefreshAssumption
  <2>3. Cardinality(Page(S, start)) <= PageSize /\ IsFiniteSet(Page(S, start))
    BY <2>1, <2>2, FS_Injection
  <2>4. QED
    BY <2>3, FS_CardinalityType, RefreshAssumption
<1>3. ASSUME Page(S, start) = {}, NEW c \in S, Place(c, S) >= start
      PROVE  FALSE
  <2>1. PICK d \in S : Place(d, S) = start
    BY <1>3, NoGap
  <2>2. d \in Page(S, start)
    BY <1>1, <2>1, RefreshAssumption DEF Page
  <2>3. QED
    BY <1>3, <2>2
<1>4. QED
  BY <1>1, <1>2, <1>3

(* What is written of a CVE all of whose records in hand are of one        *)
(* version.                                                                *)
LEMMA UpsertedOne ==
  ASSUME NEW records, NEW c \in Cve, NEW n \in Nat,
         \A v \in records : v.cve = c => v.version = n
  PROVE  Upserted(records)[c] = IF \E v \in records : v.cve = c THEN n ELSE row[c]
<1>. DEFINE versions == {v.version : v \in {w \in records : w.cve = c}}
<1>1. CASE \E v \in records : v.cve = c
  <2>1. versions = {n}
    BY <1>1
  <2>2. Max({n}) = n
    BY DEF Max
  <2>3. QED
    BY <1>1, <2>1, <2>2, Zenon DEF Upserted
<1>2. CASE ~\E v \in records : v.cve = c
  <2>1. versions = {}
    BY <1>2
  <2>2. QED
    BY <1>2, <2>1, Zenon DEF Upserted
<1>3. QED
  BY <1>1, <1>2

(* The types of what the proof reads.                                      *)
Run == [stage : Stage, window : SUBSET Cve, start : Nat, total : Nat,
        batch : SUBSET [cve : Cve, version : Nat], queued : Nat,
        began : 0..Old, sound : BOOLEAN, grew : BOOLEAN]
RunTypes ==
  /\ nvd \in [Cve -> Nat] /\ age \in [Cve -> 0..Old] /\ covered \in 0..Old
  /\ run = Idle \/ run \in Run

(* A run has fetched a CVE or has it still before it.                      *)
StillFetched(c) ==
  \/ Upserted(run.batch)[c] = nvd[c]
  \/ run.stage # "last" /\ c \in run.window /\ run.start <= Place(c, run.window)

(* What was not modified since the run began: the records in hand have its *)
(* version, and a sound run misses none of it.                             *)
RunInv ==
  /\ run.began <= covered /\ run.window \subseteq Published
  /\ \A v \in run.batch :
       v.cve \in Published /\ (age[v.cve] > run.began => v.version = nvd[v.cve])
  /\ run.sound /\ ~run.grew => \A c \in InScope : age[c] > run.began => StillFetched(c)

FetchInv ==
  /\ RunTypes /\ CorpusCurrent
  /\ \A c \in Cve : nvd[c] = 0 => row[c] = 0
  /\ run # Idle => RunInv

LEMMA RunIsNotIdle == \A r \in Run : r # Idle
BY DEF Run, Idle, Stage

(* A modification: the CVE is young from now on, and the rest of the       *)
(* listing stays behind the start index.                                   *)
LEMMA ModifyFetch ==
  ASSUME FetchInv, NEW m \in Cve, Modify(m)
  PROVE  FetchInv'
<1>. USE RefreshAssumption
<1>1. /\ nvd' = [nvd EXCEPT ![m] = @ + 1] /\ age' = [age EXCEPT ![m] = 0]
      /\ run' = IF run = Idle THEN Idle ELSE [run EXCEPT !.window = @ \cup {m}]
      /\ UNCHANGED <<row, covered>>
  BY DEF Modify
<1>2. RunTypes'
  BY <1>1 DEF FetchInv, RunTypes, Run, Old
<1>3. CorpusCurrent'
  BY <1>1 DEF FetchInv, RunTypes, CorpusCurrent, Old
<1>4. \A c \in Cve : nvd'[c] = 0 => row'[c] = 0
  BY <1>1 DEF FetchInv, RunTypes
<1>5. Published' = Published \cup {m}
  BY <1>1 DEF FetchInv, RunTypes, Published
<1>6. ASSUME run' # Idle PROVE RunInv'
  <2>1. run \in Run /\ RunInv /\ run' = [run EXCEPT !.window = @ \cup {m}]
    BY <1>1, <1>6 DEF FetchInv, RunTypes
  <2>2. /\ run'.window = run.window \cup {m}
        /\ UNCHANGED <<run.stage, run.start, run.batch, run.began, run.sound, run.grew>>
    BY <2>1 DEF Run
  <2>3. \A c \in InScope : age'[c] > run'.began =>
          c # m /\ age[c] > run.began /\ nvd'[c] = nvd[c]
    BY <1>1, <2>1, <2>2 DEF FetchInv, RunTypes, Run, Old
  <2>4. ASSUME NEW c \in InScope, StillFetched(c), nvd'[c] = nvd[c]
        PROVE  StillFetched(c)'
    <3>1. Upserted(run.batch)' = Upserted(run.batch)
      <4>1. row' = row /\ run'.batch = run.batch
        BY <1>1, <2>2
      <4>2. QED
        BY <4>1, Zenon DEF Upserted
    <3>2. Place(c, run.window) <= Place(c, run'.window)
      BY <2>1, <2>2, PlaceGrows DEF Run
    <3>3. Place(c, run.window) \in Nat /\ Place(c, run'.window) \in Nat
      BY <2>1, <2>2, Places DEF Run
    <3>4. Place(c, run.window)' = Place(c, run'.window)
      BY DEF Place
    <3>5. run.start \in Nat
      BY <2>1 DEF Run
    <3>6. QED
      BY <2>2, <2>4, <3>1, <3>2, <3>3, <3>4, <3>5 DEF StillFetched
  <2>5. \A v \in run'.batch :
          v.cve \in Published' /\ (age'[v.cve] > run'.began => v.version = nvd'[v.cve])
    BY <1>1, <1>5, <2>1, <2>2 DEF FetchInv, RunTypes, Run, RunInv, Old
  <2>6. run'.began <= covered' /\ run'.window \subseteq Published'
    BY <1>1, <1>5, <2>1, <2>2 DEF RunInv
  <2>7. QED
    BY <2>1, <2>2, <2>3, <2>4, <2>5, <2>6 DEF RunInv
<1>7. QED
  BY <1>2, <1>3, <1>4, <1>6 DEF FetchInv

(* Time goes on for all alike.                                             *)
LEMMA TickFetch ==
  ASSUME FetchInv, Tick
  PROVE  FetchInv'
<1>. USE RefreshAssumption
<1>1. /\ age' = [c \in Cve |-> Grown(age[c])] /\ covered' = Grown(covered)
      /\ run' = IF run = Idle THEN Idle ELSE [run EXCEPT !.began = Grown(@)]
      /\ UNCHANGED <<nvd, row>>
  BY DEF Tick
<1>2. \A s, t \in 0..Old : /\ Grown(s) \in 0..Old
                           /\ s <= t => Grown(s) <= Grown(t)
  BY DEF Grown, Old
<1>3. RunTypes'
  BY <1>1, <1>2 DEF FetchInv, RunTypes, Run
<1>4. CorpusCurrent'
  <2>1. \A c \in InScope : age'[c] > covered' => age[c] > covered
    BY <1>1, <1>2 DEF FetchInv, RunTypes, Old
  <2>2. QED
    BY <1>1, <2>1 DEF FetchInv, CorpusCurrent
<1>5. ASSUME run' # Idle PROVE RunInv'
  <2>1. run \in Run /\ RunInv /\ run' = [run EXCEPT !.began = Grown(@)]
    BY <1>1, <1>5 DEF FetchInv, RunTypes
  <2>2. /\ run'.began = Grown(run.began) /\ run.began \in 0..Old
        /\ UNCHANGED <<run.stage, run.window, run.start, run.batch, run.sound, run.grew>>
    BY <2>1 DEF Run
  <2>3. \A c \in Cve : age'[c] > run'.began => age[c] > run.began
    BY <1>1, <1>2, <2>2 DEF FetchInv, RunTypes, Old
  <2>4. \A c \in InScope : StillFetched(c)' <=> StillFetched(c)
    BY <1>1, <2>2 DEF StillFetched, Upserted, Place
  <2>5. \A v \in run'.batch :
          v.cve \in Published' /\ (age'[v.cve] > run'.began => v.version = nvd'[v.cve])
    BY <1>1, <2>1, <2>2, <2>3 DEF RunInv, Run, Published
  <2>6. run'.began <= covered' /\ run'.window \subseteq Published'
    BY <1>1, <1>2, <2>1, <2>2 DEF RunInv, Published, FetchInv, RunTypes
  <2>7. QED
    BY <2>1, <2>2, <2>3, <2>4, <2>5, <2>6 DEF RunInv
<1>6. QED
  BY <1>1, <1>3, <1>4, <1>5 DEF FetchInv

(* What a run writes of a CVE that is old enough is what NVD has, and of an*)
(* unpublished one it writes nothing.                                      *)
LEMMA WritesFit ==
  ASSUME FetchInv, run # Idle, NEW written \in SUBSET run.batch
  PROVE  /\ \A c \in InScope : age[c] > covered => Upserted(written)[c] = nvd[c]
         /\ \A c \in Cve : nvd[c] = 0 => Upserted(written)[c] = 0
         /\ run.batch \in SUBSET [cve : Cve, version : Nat] /\ RunInv
<1>. USE RefreshAssumption
<1>1. RunInv /\ run \in Run /\ RunTypes
  BY DEF FetchInv, RunTypes
<1>2. run.batch \in SUBSET [cve : Cve, version : Nat]
  BY <1>1 DEF Run
<1>3. ASSUME NEW c \in InScope, age[c] > covered PROVE Upserted(written)[c] = nvd[c]
  <2>1. c \in Cve /\ nvd[c] \in Nat /\ row[c] = nvd[c] /\ age[c] > run.began
    BY <1>1, <1>3 DEF FetchInv, CorpusCurrent, RunTypes, RunInv, Run, Old
  <2>2. \A v \in written : v.cve = c => v.version = nvd[c]
    BY <1>1, <2>1 DEF RunInv
  <2>3. QED
    BY <2>1, <2>2, UpsertedOne
<1>4. ASSUME NEW c \in Cve, nvd[c] = 0 PROVE Upserted(written)[c] = 0
  <2>1. \A v \in written : v.cve # c
    BY <1>1, <1>4 DEF RunInv, Published
  <2>2. row[c] = 0
    BY <1>4 DEF FetchInv
  <2>3. QED
    BY <2>1, <2>2, UpsertedOne
<1>5. QED
  BY <1>1, <1>2, <1>3, <1>4

(* A run begins: what the corpus lacks is in its window, if it is sound.   *)
LEMMA StartFetch ==
  ASSUME FetchInv, NEW window, NEW sound \in BOOLEAN, Start(window, sound),
         window \subseteq Published,
         sound => \A c \in InScope : row[c] = nvd[c] \/ c \in window,
         UNCHANGED <<nvd, age, row, covered>>
  PROVE  FetchInv'
<1>. USE RefreshAssumption
<1>1. run' = [stage |-> "page", window |-> window, start |-> 0, total |-> 0,
              batch |-> {}, queued |-> 0, began |-> 0, sound |-> sound, grew |-> FALSE]
  BY DEF Start
<1>2. Published \subseteq Cve
  BY DEF Published
<1>3. run' \in Run
  BY <1>1, <1>2 DEF Run, Stage, Old
<1>4. \A c \in InScope : sound => StillFetched(c)'
  <2>1. SUFFICES ASSUME NEW c \in InScope, sound PROVE StillFetched(c)'
    OBVIOUS
  <2>2. CASE row[c] = nvd[c]
    <3>1. Upserted({})[c] = row[c]
      BY UpsertedOne
    <3>2. Upserted(run.batch)' = Upserted({})
      <4>1. row' = row /\ run'.batch = {}
        BY <1>1
      <4>2. QED
        BY <4>1, Zenon DEF Upserted
    <3>3. QED
      BY <2>2, <3>1, <3>2 DEF StillFetched
  <2>3. CASE c \in window
    <3>1. Place(c, run'.window) \in Nat
      BY <1>1, <1>2, Places
    <3>2. QED
      BY <1>1, <2>3, <3>1 DEF StillFetched, Place
  <2>4. QED
    BY <2>1, <2>2, <2>3
<1>5. RunInv'
  BY <1>1, <1>4 DEF RunInv, Published, FetchInv, RunTypes
<1>6. QED
  BY <1>3, <1>5 DEF FetchInv, RunTypes, CorpusCurrent

(* The incremental window, sound when it reaches back to the covered time. *)
LEMMA IncrementalFetch ==
  ASSUME FetchInv, Start(ModifiedWithin(Lookback), covered <= Lookback),
         UNCHANGED <<nvd, age, row, covered>>
  PROVE  FetchInv'
<1>. USE RefreshAssumption
<1>1. ModifiedWithin(Lookback) \subseteq Published
  BY DEF ModifiedWithin, Published
<1>2. covered <= Lookback =>
        \A c \in InScope : row[c] = nvd[c] \/ c \in ModifiedWithin(Lookback)
  <2>1. SUFFICES ASSUME covered <= Lookback, NEW c \in InScope, row[c] # nvd[c]
                 PROVE  c \in ModifiedWithin(Lookback)
    OBVIOUS
  <2>2. c \in Cve /\ age[c] \in 0..Old /\ covered \in 0..Old /\ nvd[c] \in Nat
    BY DEF FetchInv, RunTypes
  <2>3. age[c] <= covered /\ nvd[c] # 0
    BY <2>1, <2>2 DEF FetchInv, CorpusCurrent, Old
  <2>4. QED
    BY <2>1, <2>2, <2>3 DEF ModifiedWithin, Old
<1>3. (covered <= Lookback) = TRUE \/ (covered <= Lookback) = FALSE
  BY DEF FetchInv, RunTypes, Old
<1>4. CASE (covered <= Lookback) = TRUE
  <2>1. Start(ModifiedWithin(Lookback), TRUE)
    BY <1>4, Zenon
  <2>2. \A c \in InScope : row[c] = nvd[c] \/ c \in ModifiedWithin(Lookback)
    BY <1>2, <1>4
  <2>3. QED
    BY <1>1, <2>1, <2>2, StartFetch
<1>5. CASE (covered <= Lookback) = FALSE
  <2>1. Start(ModifiedWithin(Lookback), FALSE)
    BY <1>5, Zenon
  <2>2. QED
    BY <1>1, <2>1, StartFetch
<1>6. QED
  BY <1>3, <1>4, <1>5

(* A full run asks for everything.                                         *)
LEMMA FullFetch ==
  ASSUME FetchInv, FullEtl
  PROVE  FetchInv'
<1>1. \A c \in InScope : row[c] = nvd[c] \/ c \in Published
  BY RefreshAssumption DEF FetchInv, RunTypes, Published
<1>2. QED
  BY <1>1, StartFetch DEF FullEtl

(* A page: what is on it is as NVD has it, and what is behind it stays     *)
(* behind the new start index.  When the run has passed the total and the  *)
(* listing did not grow, nothing is behind.                                *)
LEMMA PageFetch ==
  ASSUME FetchInv, FetchPage
  PROVE  FetchInv'
<1>. USE RefreshAssumption
<1>. DEFINE size == Cardinality(run.window)
            page == Page(run.window, run.start)
            total == IF run.start = 0 THEN size ELSE run.total
            start == run.start + Cardinality(page)
            queued == run.queued + Cardinality(page \cap InScope)
            stage == IF page = {} \/ start >= total THEN "last"
                     ELSE IF queued >= BatchSize THEN "flush" ELSE "page"
<1>1. run \in Run /\ RunInv /\ UNCHANGED <<nvd, age, row, covered>>
  BY DEF FetchPage, FetchInv, RunTypes
<1>2. run' = [run EXCEPT !.stage = stage, !.start = start, !.total = total,
                         !.batch = @ \cup Versions(page \cap InScope),
                         !.queued = queued, !.grew = @ \/ size # total]
  BY Zenon DEF FetchPage, Page
<1>3. page \subseteq run.window /\ run.window \subseteq Cve
  BY <1>1 DEF Page, Run
<1>4. size \in Nat /\ Cardinality(page) \in 0..PageSize
      /\ Cardinality(page \cap InScope) \in Nat
  BY <1>1, <1>3, Places, Pages DEF Run
<1>5. Versions(page \cap InScope) \subseteq [cve : Cve, version : Nat]
  BY <1>3 DEF Versions, FetchInv, RunTypes
<1>6. stage \in Stage /\ start \in Nat /\ total \in Nat /\ queued \in Nat
  BY <1>1, <1>4 DEF Run, Stage
<1>. HIDE DEF size, page, total, start, queued, stage
<1>7. /\ run' \in Run
      /\ run'.stage = stage /\ run'.start = start
      /\ run'.batch = run.batch \cup Versions(page \cap InScope)
      /\ run'.grew = (run.grew \/ size # total)
      /\ UNCHANGED <<run.window, run.began, run.sound>>
  BY <1>1, <1>2, <1>5, <1>6 DEF Run
<1>8. \A v \in run'.batch :
        v.cve \in Published' /\ (age'[v.cve] > run'.began => v.version = nvd'[v.cve])
  <2>1. Published' = Published
    BY <1>1 DEF Published
  <2>2. \A v \in Versions(page \cap InScope) : v.cve \in run.window /\ v.version = nvd[v.cve]
    BY <1>3 DEF Versions
  <2>3. \A v \in Versions(page \cap InScope) : v.cve \in Published
    BY <1>1, <2>2 DEF RunInv
  <2>4. \A v \in run.batch :
          v.cve \in Published /\ (age[v.cve] > run.began => v.version = nvd[v.cve])
    BY <1>1 DEF RunInv
  <2>5. QED
    BY <1>1, <1>7, <2>1, <2>2, <2>3, <2>4
<1>9. ASSUME run'.sound, ~run'.grew, NEW c \in InScope, age'[c] > run'.began
      PROVE  StillFetched(c)'
  <2>1. c \in Cve /\ nvd[c] \in Nat /\ age[c] > run.began /\ run.sound /\ ~run.grew
    BY <1>1, <1>7, <1>9 DEF FetchInv, RunTypes
  <2>2. StillFetched(c)
    BY <1>1, <2>1 DEF RunInv
  <2>3. \A v \in run'.batch : v.cve = c => v.version = nvd[c]
    BY <1>1, <1>7, <1>8, <2>1
  <2>4. Upserted(run.batch)' = Upserted(run'.batch)
    <3>1. row' = row
      BY <1>1
    <3>2. QED
      BY <3>1, Zenon DEF Upserted
  <2>5. CASE \E v \in run'.batch : v.cve = c
    <3>1. Upserted(run'.batch)[c] = nvd[c]
      BY <2>1, <2>3, <2>5, UpsertedOne
    <3>2. QED
      BY <1>1, <2>4, <3>1 DEF StillFetched
  <2>6. CASE ~\E v \in run'.batch : v.cve = c
    <3>1. c \notin page
      <4>1. c \in page => [cve |-> c, version |-> nvd[c]] \in run'.batch
        BY <1>7 DEF Versions
      <4>2. QED
        BY <2>6, <4>1
    <3>2. Upserted(run'.batch)[c] = row[c] /\ Upserted(run.batch)[c] = row[c]
      <4>1. \A v \in run.batch : v \in run'.batch
        BY <1>7
      <4>2. ~\E v \in run.batch : v.cve = c
        BY <2>6, <4>1
      <4>3. Upserted(run.batch)[c] = row[c]
        BY <2>1, <4>2, UpsertedOne
      <4>4. Upserted(run'.batch)[c] = row[c]
        BY <2>1, <2>6, UpsertedOne
      <4>5. QED
        BY <4>3, <4>4
    <3>3. CASE Upserted(run.batch)[c] = nvd[c]
      BY <1>1, <2>4, <3>2, <3>3 DEF StillFetched
    <3>4. CASE c \in run.window /\ run.start <= Place(c, run.window)
      <4>1. Place(c, run.window) \in Nat /\ Place(c, run.window) < size
        BY <1>3, <3>4, Places DEF size
      <4>2. run.start \in Nat
        BY <1>1 DEF Run
      <4>3. Place(c, run.window) >= run.start + PageSize
        BY <3>1, <3>4, <4>1, <4>2 DEF page, Page
      <4>4. start <= Place(c, run.window)
        BY <1>4, <4>1, <4>2, <4>3 DEF start
      <4>5. size = total
        BY <1>7, <1>9
      <4>6. page # {}
        BY <1>1, <3>4, <4>1, <4>2, Pages DEF Run, page
      <4>7. stage # "last"
        BY <1>4, <1>6, <4>1, <4>4, <4>5, <4>6 DEF stage
      <4>8. QED
        BY <1>7, <3>4, <4>4, <4>7 DEF StillFetched, Place
    <3>5. QED
      BY <2>2, <3>3, <3>4 DEF StillFetched
  <2>7. QED
    BY <2>5, <2>6
<1>10. RunInv'
  <2>1. run'.began <= covered' /\ run'.window \subseteq Published'
    BY <1>1, <1>7 DEF RunInv, Published
  <2>2. QED
    BY <1>8, <1>9, <2>1 DEF RunInv
<1>11. QED
  BY <1>1, <1>7, <1>10 DEF FetchInv, RunTypes, CorpusCurrent

(* A batch is written, and the run goes on.                                *)
LEMMA FlushFetch ==
  ASSUME FetchInv, Flush
  PROVE  FetchInv'
<1>. USE RefreshAssumption
<1>1. /\ run \in Run /\ RunInv /\ run.stage = "flush"
      /\ row' = Upserted(run.batch)
      /\ run' = [run EXCEPT !.stage = "page", !.batch = {}, !.queued = 0]
      /\ UNCHANGED <<nvd, age, covered>>
  BY DEF Flush, FetchInv, RunTypes
<1>2. /\ run' \in Run /\ run'.batch = {}
      /\ run'.stage = "page"
      /\ UNCHANGED <<run.window, run.start, run.began, run.sound, run.grew>>
  BY <1>1 DEF Run, Stage
<1>3. /\ \A c \in InScope : age[c] > covered => row'[c] = nvd[c]
      /\ \A c \in Cve : nvd[c] = 0 => row'[c] = 0
  <2>1. run # Idle
    BY <1>1, RunIsNotIdle
  <2>2. QED
    BY <1>1, <2>1, WritesFit
<1>4. ASSUME NEW c \in InScope, StillFetched(c) PROVE StillFetched(c)'
  <2>1. Upserted(run.batch)'[c] = row'[c]
    <3>1. Upserted(run.batch)' =
            [d \in Cve |->
               LET versions == {v.version : v \in {w \in run'.batch : w.cve = d}} IN
               IF versions = {} THEN row'[d] ELSE Max(versions)]
      BY Zenon DEF Upserted
    <3>2. {v.version : v \in {w \in run'.batch : w.cve = c}} = {}
      BY <1>2
    <3>3. QED
      BY <3>1, <3>2, Zenon
  <2>2. QED
    BY <1>1, <1>2, <1>4, <2>1 DEF StillFetched, Place
<1>5. RunInv'
  BY <1>1, <1>2, <1>4 DEF RunInv, Published
<1>6. QED
  BY <1>1, <1>2, <1>3, <1>5 DEF FetchInv, RunTypes, CorpusCurrent

(* The run ends: the corpus is as of its beginning.                        *)
LEMMA LastFetch ==
  ASSUME FetchInv, LastFlush
  PROVE  FetchInv'
<1>. USE RefreshAssumption
<1>1. /\ run # Idle /\ run.stage = "last" /\ run' = Idle
      /\ row' = Upserted(run.batch)
      /\ covered' = IF run.sound /\ ~run.grew THEN run.began ELSE covered
      /\ UNCHANGED <<nvd, age>>
  BY DEF LastFlush
<1>2. run \in Run /\ RunInv
  BY <1>1 DEF FetchInv, RunTypes
<1>3. /\ \A c \in InScope : age[c] > covered => row'[c] = nvd[c]
      /\ \A c \in Cve : nvd[c] = 0 => row'[c] = 0
  BY <1>1, WritesFit
<1>4. CASE run.sound /\ ~run.grew
  <2>1. \A c \in InScope : age[c] > run.began => row'[c] = nvd[c]
    BY <1>1, <1>2, <1>4 DEF RunInv, StillFetched
  <2>2. covered' = run.began /\ run.began \in 0..Old
    BY <1>1, <1>2, <1>4 DEF Run
  <2>3. QED
    BY <1>1, <1>3, <2>1, <2>2 DEF FetchInv, RunTypes, CorpusCurrent
<1>5. CASE ~(run.sound /\ ~run.grew)
  BY <1>1, <1>3, <1>5 DEF FetchInv, RunTypes, CorpusCurrent
<1>6. QED
  BY <1>4, <1>5

(* The run fails: whatever part of the batch was written, nothing that the *)
(* corpus had is lost.                                                     *)
LEMMA FailFetch ==
  ASSUME FetchInv, RunFails
  PROVE  FetchInv'
<1>1. PICK written \in SUBSET run.batch : row' = Upserted(written)
  BY DEF RunFails
<1>2. run # Idle /\ run' = Idle /\ UNCHANGED <<nvd, age, covered>>
  BY DEF RunFails
<1>3. /\ \A c \in InScope : age[c] > covered => row'[c] = nvd[c]
      /\ \A c \in Cve : nvd[c] = 0 => row'[c] = 0
  BY <1>1, <1>2, WritesFit
<1>4. QED
  BY <1>2, <1>3 DEF FetchInv, RunTypes, CorpusCurrent

(* The run and the corpus are untouched.                                   *)
LEMMA RestFetch ==
  ASSUME FetchInv, UNCHANGED <<nvd, age, row, covered, run>>
  PROVE  FetchInv'
<1>1. RunTypes' /\ CorpusCurrent'
  BY DEF FetchInv, RunTypes, CorpusCurrent
<1>2. \A c \in Cve : nvd'[c] = 0 => row'[c] = 0
  BY DEF FetchInv
<1>3. Published' = Published
  BY DEF Published
<1>4. \A c : StillFetched(c)' = StillFetched(c)
  BY Zenon DEF StillFetched, Upserted, Place
<1>5. run' # Idle => RunInv'
  BY <1>3, <1>4, Zenon DEF FetchInv, RunInv
<1>6. QED
  BY <1>1, <1>2, <1>5, Zenon DEF FetchInv

LEMMA FetchStep ==
  ASSUME FetchInv, [RefreshNext]_refreshVars
  PROVE  FetchInv'
<1>1. CASE Incremental
  BY <1>1, IncrementalFetch DEF Incremental
<1>2. CASE Fire
  <2>1. CASE run = Idle
    BY <1>2, <2>1, IncrementalFetch DEF Fire
  <2>2. CASE run # Idle
    <3>1. UNCHANGED <<nvd, age, row, covered, run>>
      BY <1>2, <2>2 DEF Fire
    <3>2. QED
      BY <3>1, RestFetch
  <2>3. QED
    BY <2>1, <2>2
<1>3. CASE StopDaemon
  BY <1>3 DEF StopDaemon, FetchInv, RunTypes, CorpusCurrent
<1>4. CASE StartDaemon \/ UNCHANGED refreshVars
  <2>1. UNCHANGED <<nvd, age, row, covered, run>>
    BY <1>4 DEF StartDaemon, refreshVars
  <2>2. QED
    BY <2>1, RestFetch
<1>5. QED
  BY <1>1, <1>2, <1>3, <1>4, ModifyFetch, TickFetch, FullFetch, PageFetch, FlushFetch,
     LastFetch, FailFetch DEF RefreshNext, Work

(* nvd_etl.py:125-244 and corpus.py:199-227, for any corpus, page, batch   *)
(* and window: what NVD last modified before the covered time is in the    *)
(* corpus in its latest version, whatever is modified while a run pages,   *)
(* and whichever runs fail, are skipped or are stopped.                    *)
THEOREM CorpusKeepsUp == RefreshSpec => []CorpusCurrent
<1>1. RefreshInit => FetchInv
  BY RefreshAssumption DEF RefreshInit, FetchInv, RunTypes, CorpusCurrent, Old
<1>2. FetchInv /\ [RefreshNext]_refreshVars => FetchInv'
  BY FetchStep
<1>3. FetchInv => CorpusCurrent
  BY DEF FetchInv
<1>4. QED
  BY <1>1, <1>2, <1>3, PTL DEF RefreshSpec

-----------------------------------------------------------------------------
(***************************************************************************)
(* Types of the refresh.  A row comes from a batch and a batch from NVD:   *)
(* the corpus is never ahead of what NVD has published.                    *)
(***************************************************************************)
Known ==
  /\ row \in [Cve -> Nat]
  /\ \A c \in Cve : row[c] <= nvd[c] /\ (row[c] > 0 => c \in InScope)
InHand ==
  /\ run.start <= Cardinality(run.window)
  /\ \A v \in run.batch : v.cve \in InScope /\ v.version <= nvd[v.cve]
Daemon ==
  /\ daemon \in {"up", "down"} /\ disturbed \in BOOLEAN
  /\ cli \in Nat /\ disruptions \in Nat
RefreshRest == Known /\ Daemon /\ (run # Idle => InHand)

(* Versions that do not exceed one of them have a largest one.             *)
LEMMA LargestVersion ==
  ASSUME NEW n \in Nat, NEW V \in SUBSET (0..n), V # {}
  PROVE  Max(V) \in V
<1>. DEFINE less == {pair \in Nat \X Nat : pair[1] < pair[2]}
            below == {n - v : v \in V}
<1>1. below \subseteq Nat /\ below # {}
  <2>1. \A v \in V : v \in 0..n /\ n - v \in Nat
    OBVIOUS
  <2>2. PICK v \in V : TRUE
    OBVIOUS
  <2>3. n - v \in below
    BY <2>2
  <2>4. QED
    BY <2>1, <2>3
<1>2. IsWellFoundedOn(less, Nat)
  BY NatLessThanWellFounded, Zenon DEF OpToRel
<1>3. PICK d \in below : \A e \in below : ~(<<e, d>> \in less)
  <2>. HIDE DEF less, below
  <2>1. QED
    BY <1>1, <1>2, WFMin, Zenon
<1>4. PICK v \in V : d = n - v
  BY <1>3
<1>5. \A u \in V : v >= u
  <2>1. TAKE u \in V
  <2>2. n - u \in below /\ ~(n - u < d)
    BY <1>1, <1>3
  <2>3. QED
    BY <1>4, <2>2
<1>6. QED
  BY <1>4, <1>5 DEF Max

(* ON CONFLICT DO UPDATE: what is written of a CVE is a version NVD has had*)
LEMMA WritesKnown ==
  ASSUME FetchInv, RefreshRest, run # Idle, NEW written \in SUBSET run.batch,
         row' = Upserted(written), nvd' = nvd
  PROVE  Known'
<1>1. /\ run.batch \in SUBSET [cve : Cve, version : Nat] /\ nvd \in [Cve -> Nat]
      /\ Known /\ InHand
  BY WritesFit DEF FetchInv, RunTypes, RefreshRest
<1>2. ASSUME NEW c \in Cve
      PROVE  row'[c] \in Nat /\ row'[c] <= nvd[c] /\ (row'[c] > 0 => c \in InScope)
  <2>. DEFINE versions == {v.version : v \in {w \in written : w.cve = c}}
  <2>1. row'[c] = IF versions = {} THEN row[c] ELSE Max(versions)
    BY Zenon DEF Upserted
  <2>2. versions \in SUBSET (0..nvd[c])
    BY <1>1 DEF InHand
  <2>3. versions # {} => c \in InScope
    BY <1>1 DEF InHand
  <2>4. CASE versions = {}
    BY <1>1, <2>1, <2>4 DEF Known
  <2>5. CASE versions # {}
    <3>. HIDE DEF versions
    <3>1. Max(versions) \in 0..nvd[c]
      BY <1>1, <2>2, <2>5, LargestVersion
    <3>2. QED
      BY <1>1, <2>1, <2>3, <2>5, <3>1
  <2>6. QED
    BY <2>4, <2>5
<1>3. row' \in [Cve -> Nat]
  <2>1. row' = [c \in Cve |-> row'[c]]
    BY Zenon DEF Upserted
  <2>2. QED
    BY <1>2, <2>1
<1>4. QED
  BY <1>2, <1>3 DEF Known

(* A page takes the start index no further than the listing goes.          *)
LEMMA PageWithin ==
  ASSUME NEW S \in SUBSET Cve, NEW start \in Nat, start <= Cardinality(S)
  PROVE  start + Cardinality(Page(S, start)) <= Cardinality(S)
<1>. DEFINE place == [c \in Page(S, start) |-> Place(c, S)]
            n == Cardinality(S)
<1>1. n \in Nat /\ start <= n /\ \A c \in S : Place(c, S) \in Nat /\ Place(c, S) < n
  BY Places
<1>. HIDE DEF n
<1>2. place \in Injection(Page(S, start), start..(n - 1))
  <2>1. place \in [Page(S, start) -> start..(n - 1)]
    BY <1>1 DEF Page
  <2>2. \A c, d \in Page(S, start) : place[c] = place[d] => c = d
    BY Places, RefreshAssumption DEF Cve, Page
  <2>3. QED
    BY <2>1, <2>2 DEF Injection, IsInjective
<1>3. IsFiniteSet(start..(n - 1)) /\ Cardinality(start..(n - 1)) = n - start
  <2>1. PICK last \in Int : last = n - 1
    BY <1>1
  <2>2. /\ IsFiniteSet(start..last)
        /\ Cardinality(start..last) = IF start > last THEN 0 ELSE last - start + 1
    BY FS_Interval
  <2>3. (IF start > last THEN 0 ELSE last - start + 1) = n - start
    BY <1>1, <2>1
  <2>4. QED
    BY <2>1, <2>2, <2>3, Zenon
<1>4. Cardinality(Page(S, start)) <= n - start
  BY <1>2, <1>3, FS_Injection
<1>5. Cardinality(Page(S, start)) \in Nat
  BY Pages, RefreshAssumption
<1>6. QED
  BY <1>1, <1>4, <1>5 DEF n

(* A modification makes a version and a longer listing of it.              *)
LEMMA ModifyRest ==
  ASSUME FetchInv, RefreshRest, NEW m \in Cve, Modify(m)
  PROVE  RefreshRest'
<1>. USE RefreshAssumption
<1>1. /\ nvd' = [nvd EXCEPT ![m] = @ + 1] /\ nvd \in [Cve -> Nat]
      /\ run' = IF run = Idle THEN Idle ELSE [run EXCEPT !.window = @ \cup {m}]
      /\ UNCHANGED <<row, daemon, cli, disruptions, disturbed>>
  BY DEF Modify, FetchInv, RunTypes
<1>2. Known' /\ Daemon'
  BY <1>1 DEF RefreshRest, Known, Daemon
<1>3. ASSUME run' # Idle PROVE InHand'
  <2>1. run \in Run /\ InHand /\ run' = [run EXCEPT !.window = @ \cup {m}]
    BY <1>1, <1>3 DEF FetchInv, RunTypes, RefreshRest
  <2>2. /\ run'.window = run.window \cup {m} /\ run'.start = run.start
        /\ run'.batch = run.batch
        /\ run.window \in SUBSET Cve /\ run.start \in Nat
        /\ run.batch \subseteq [cve : Cve, version : Nat]
    BY <2>1 DEF Run
  <2>3. run.window \in SUBSET run'.window /\ run'.window \in SUBSET Cve
    BY <2>2
  <2>4. /\ Cardinality(run.window) <= Cardinality(run'.window)
        /\ Cardinality(run.window) \in Nat /\ Cardinality(run'.window) \in Nat
    BY <2>2, <2>3, Places, FS_Subset
  <2>5. \A c \in Cve : nvd'[c] \in Nat /\ nvd[c] \in Nat /\ nvd[c] <= nvd'[c]
    BY <1>1
  <2>6. \A v \in run'.batch : v.cve \in InScope /\ v.version <= nvd'[v.cve]
    BY <2>1, <2>2, <2>5 DEF InHand
  <2>7. QED
    BY <2>1, <2>2, <2>4, <2>6 DEF InHand
<1>4. QED
  BY <1>2, <1>3 DEF RefreshRest

(* A page.                                                                 *)
LEMMA PageRest ==
  ASSUME FetchInv, RefreshRest, FetchPage
  PROVE  RefreshRest'
<1>. USE RefreshAssumption
<1>. DEFINE size == Cardinality(run.window)
            page == Page(run.window, run.start)
            total == IF run.start = 0 THEN size ELSE run.total
            start == run.start + Cardinality(page)
            queued == run.queued + Cardinality(page \cap InScope)
            batch == run.batch \cup Versions(page \cap InScope)
            grew == run.grew \/ size # total
            stage == IF page = {} \/ start >= total THEN "last"
                     ELSE IF queued >= BatchSize THEN "flush" ELSE "page"
<1>1. /\ run \in Run /\ RunInv /\ InHand /\ nvd \in [Cve -> Nat]
      /\ UNCHANGED <<nvd, row, daemon, cli, disruptions, disturbed>>
  BY DEF FetchPage, FetchInv, RunTypes, RefreshRest
<1>2. run' = [run EXCEPT !.stage = stage, !.start = start, !.total = total,
                         !.batch = batch, !.queued = queued, !.grew = grew]
  BY Zenon DEF FetchPage, Page
<1>3. run.window \in SUBSET Cve /\ run.start \in Nat
  BY <1>1 DEF Run
<1>4. start <= Cardinality(run.window)
  BY <1>1, <1>3, PageWithin DEF InHand
<1>5. \A v \in Versions(page \cap InScope) : v.cve \in InScope /\ v.version = nvd[v.cve]
  BY DEF Versions
<1>6. \A v \in batch : v.cve \in InScope /\ v.version <= nvd[v.cve]
  BY <1>1, <1>5 DEF InHand
<1>. HIDE DEF size, page, total, start, queued, batch, grew, stage
<1>7. run'.start = start /\ run'.window = run.window /\ run'.batch = batch
  BY <1>1, <1>2 DEF Run
<1>8. InHand'
  BY <1>1, <1>4, <1>6, <1>7 DEF InHand
<1>9. QED
  BY <1>1, <1>8 DEF RefreshRest, Known, Daemon

(* The rest of the steps.                                                  *)
LEMMA RestStep ==
  ASSUME FetchInv, RefreshRest, [RefreshNext]_refreshVars
  PROVE  RefreshRest'
<1>. USE RefreshAssumption
<1>1. CASE Tick
  <2>1. /\ UNCHANGED <<nvd, row, daemon, cli, disruptions, disturbed>>
        /\ run' = IF run = Idle THEN Idle ELSE [run EXCEPT !.began = Grown(@)]
    BY <1>1 DEF Tick
  <2>2. run' # Idle => /\ run # Idle /\ run'.start = run.start
                       /\ run'.window = run.window /\ run'.batch = run.batch
    BY <2>1 DEF FetchInv, RunTypes, Run
  <2>3. run' # Idle => InHand'
    BY <2>1, <2>2 DEF RefreshRest, InHand
  <2>4. QED
    BY <2>1, <2>3 DEF RefreshRest, Known, Daemon
<1>2. ASSUME NEW window \in SUBSET Cve, NEW sound, Start(window, sound),
             UNCHANGED <<nvd, row>>, Daemon'
      PROVE  RefreshRest'
  <2>1. run'.start = 0 /\ run'.window = window /\ run'.batch = {}
    BY <1>2 DEF Start
  <2>2. Cardinality(window) \in Nat
    BY <1>2, Places
  <2>3. InHand'
    BY <2>1, <2>2 DEF InHand
  <2>4. QED
    BY <1>2, <2>3 DEF RefreshRest, Known
<1>3. ModifiedWithin(Lookback) \in SUBSET Cve /\ Published \in SUBSET Cve
  BY DEF ModifiedWithin, Published
<1>4. CASE FullEtl
  <2>1. Start(Published, TRUE) /\ UNCHANGED <<nvd, row>>
    BY <1>4 DEF FullEtl
  <2>2. Daemon'
    BY <1>4 DEF FullEtl, RefreshRest, Daemon
  <2>3. QED
    BY <1>2, <1>3, <2>1, <2>2
<1>5. CASE Incremental
  <2>1. Start(ModifiedWithin(Lookback), covered <= Lookback) /\ UNCHANGED <<nvd, row>>
    BY <1>5 DEF Incremental
  <2>2. Daemon'
    BY <1>5 DEF Incremental, RefreshRest, Daemon
  <2>3. QED
    BY <1>2, <1>3, <2>1, <2>2
<1>6. CASE Fire
  <2>1. UNCHANGED <<nvd, row, daemon, cli, disruptions>>
    BY <1>6 DEF Fire
  <2>2. CASE run = Idle
    <3>1. Start(ModifiedWithin(Lookback), covered <= Lookback)
          /\ disturbed' = (covered > Lookback)
      BY <1>6, <2>2 DEF Fire
    <3>2. Daemon'
      BY <2>1, <3>1 DEF RefreshRest, Daemon
    <3>3. QED
      BY <1>2, <1>3, <2>1, <3>1, <3>2
  <2>3. CASE run # Idle
    <3>1. disturbed' = TRUE /\ run' = run
      BY <1>6, <2>3 DEF Fire
    <3>2. QED
      BY <2>1, <3>1 DEF RefreshRest, Known, Daemon, InHand
  <2>4. QED
    BY <2>2, <2>3
<1>7. CASE Flush
  <2>1. /\ run # Idle /\ row' = Upserted(run.batch) /\ nvd' = nvd
        /\ run' = [run EXCEPT !.stage = "page", !.batch = {}, !.queued = 0]
        /\ UNCHANGED <<daemon, cli, disruptions, disturbed>>
    BY <1>7 DEF Flush
  <2>2. Known'
    BY <2>1, WritesKnown
  <2>3. run'.start = run.start /\ run'.window = run.window /\ run'.batch = {}
    BY <2>1 DEF FetchInv, RunTypes, Run
  <2>4. QED
    BY <2>1, <2>2, <2>3 DEF RefreshRest, Daemon, InHand
<1>8. CASE LastFlush
  <2>1. /\ run # Idle /\ row' = Upserted(run.batch) /\ nvd' = nvd /\ run' = Idle
        /\ disturbed' = (disturbed \/ run.grew)
        /\ UNCHANGED <<daemon, cli, disruptions>>
    BY <1>8 DEF LastFlush
  <2>2. Known'
    BY <2>1, WritesKnown
  <2>3. Daemon'
    BY <2>1 DEF RefreshRest, Daemon
  <2>4. QED
    BY <2>1, <2>2, <2>3 DEF RefreshRest
<1>9. CASE RunFails
  <2>1. PICK written \in SUBSET run.batch : row' = Upserted(written)
    BY <1>9 DEF RunFails
  <2>2. /\ run # Idle /\ nvd' = nvd /\ run' = Idle /\ disturbed' = TRUE
        /\ disruptions' = disruptions + 1 /\ UNCHANGED <<daemon, cli>>
    BY <1>9 DEF RunFails
  <2>3. Known'
    BY <2>1, <2>2, WritesKnown
  <2>4. QED
    BY <2>2, <2>3 DEF RefreshRest, Daemon
<1>10. CASE StartDaemon
  BY <1>10 DEF StartDaemon, RefreshRest, Known, Daemon, InHand
<1>11. CASE StopDaemon
  BY <1>11 DEF StopDaemon, RefreshRest, Known, Daemon
<1>12. CASE UNCHANGED refreshVars
  BY <1>12 DEF refreshVars, RefreshRest, Known, Daemon, InHand
<1>13. QED
  BY <1>1, <1>4, <1>5, <1>6, <1>7, <1>8, <1>9, <1>10, <1>11, <1>12, ModifyRest, PageRest
  DEF RefreshNext, Work

(* Type correctness of the refresh, for any page and batch size: the corpus*)
(* never has a version NVD did not publish nor a CVE out of scope, and a   *)
(* run never asks beyond what it was told there is.                        *)
THEOREM RefreshTypes == RefreshSpec => []RefreshTypeOK
<1>1. RefreshInit => FetchInv /\ WindowInv /\ RefreshRest
  BY RefreshAssumption DEF RefreshInit, FetchInv, RunTypes, CorpusCurrent, WindowInv,
     RefreshRest, Known, Daemon, Old
<1>2. FetchInv /\ WindowInv /\ RefreshRest => RefreshTypeOK
  <2>1. SUFFICES ASSUME FetchInv, WindowInv, RefreshRest PROVE RefreshTypeOK
    OBVIOUS
  <2>2. ASSUME run # Idle
        PROVE  /\ run.stage \in {"page", "flush", "last"}
               /\ run.window \subseteq Published
               /\ run.start <= Cardinality(run.window) /\ run.began \in 0..Old
               /\ run.batch \subseteq [cve : InScope, version : Nat] /\ run.queued \in Nat
    <3>1. run \in Run /\ RunInv /\ InHand
      BY <2>1, <2>2 DEF FetchInv, RunTypes, RefreshRest
    <3>2. run.batch \subseteq [cve : Cve, version : Nat]
      BY <3>1 DEF Run
    <3>3. run.batch \subseteq [cve : InScope, version : Nat]
      BY <3>1, <3>2 DEF InHand
    <3>4. /\ run.stage \in {"page", "flush", "last"}
          /\ run.began \in 0..Old /\ run.queued \in Nat
      BY <3>1 DEF Run, Stage
    <3>5. QED
      BY <3>1, <3>3, <3>4 DEF RunInv, InHand
  <2>3. /\ nvd \in [Cve -> Nat] /\ age \in [Cve -> 0..Old] /\ covered \in 0..Old
        /\ timer \in 0..Interval
    BY <2>1 DEF FetchInv, RunTypes, WindowInv
  <2>4. /\ row \in [Cve -> Nat] /\ \A c \in Cve : row[c] <= nvd[c]
        /\ \A c \in Cve : row[c] > 0 => c \in InScope
    BY <2>1 DEF RefreshRest, Known
  <2>5. /\ daemon \in {"up", "down"} /\ disturbed \in BOOLEAN
        /\ cli \in Nat /\ disruptions \in Nat
    BY <2>1 DEF RefreshRest, Daemon
  <2>6. QED
    BY <2>2, <2>3, <2>4, <2>5 DEF RefreshTypeOK
<1>3. QED
  BY <1>1, <1>2, FetchStep, WindowStep, RestStep, PTL DEF RefreshSpec
=============================================================================
