----------------------------- MODULE RouterLoop -----------------------------
(***************************************************************************)
(* The consume loop of services/router/runner.py over one partition: the   *)
(* members of the router's consumer group, the offsets they commit, and    *)
(* the Redis claims that are to make a redelivery harmless.                *)
(*                                                                         *)
(* FirmwarePipeline lets the group hand every record to one member at a    *)
(* time; here it does not.  A handler may outlast max.poll.interval.ms, or *)
(* librdkafka may take part in a rebalance in the background while the     *)
(* loop is inside a handler: the partition moves on, its new owner starts  *)
(* from the committed offset, and the old owner is still at work on a      *)
(* record it no longer owns.                                               *)
(***************************************************************************)
EXTENDS Naturals

CONSTANTS
  Consumer,      \* the router processes of the group
  NoConsumer,    \* nobody owns the partition
  Key,           \* message keys
  N,             \* the partition holds the records 1..N
  Log,           \* Log[o]: the key of record o and whether it is well formed
  MaxRebalances, \* bound on reassignments and orderly shutdowns
  MaxCrashes,    \* bound on process crashes
  MaxFaults      \* bound on failing calls

ASSUME RouterAssumption ==
  /\ NoConsumer \notin Consumer
  /\ N \in Nat
  /\ Log \in [1..N -> [key: Key, valid: BOOLEAN]]
  /\ MaxRebalances \in Nat /\ MaxCrashes \in Nat /\ MaxFaults \in Nat

VARIABLES
  owner,      \* the member the partition is assigned to
  committed,  \* the group's committed offset: the next record to hand out
  at,         \* at[c]: where process c is in its loop
  offset,     \* offset[c]: the record it has in hand
  position,   \* position[c]: the next record its consumer will return
  claimed,    \* Redis processed:{topic}:{key}
  runs,       \* runs[k]: how often a handler was started for key k
  handled,    \* keys whose handler returned
  answered,   \* records that were handled or skipped
  dead,       \* records that are in firmware.dlq
  dropped,    \* records whose dead letter could not be produced
  rebalances, crashes, faults

group == <<owner, committed>>
effects == <<claimed, runs, handled>>
outcomes == <<answered, dead, dropped>>
budget == <<rebalances, crashes, faults>>
vars == <<group, at, offset, position, effects, outcomes, budget>>

Offset == 1..N
Step == {"down", "idle", "validate", "claim", "handle", "dlq", "commit"}

At(c, s) == at[c] = s
Goto(c, s) == at' = [at EXCEPT ![c] = s]
KeyOf(c) == Log[offset[c]].key

Init ==
  /\ owner = NoConsumer
  /\ committed = 1
  /\ at = [c \in Consumer |-> "idle"]
  /\ offset = [c \in Consumer |-> 0]
  /\ position = [c \in Consumer |-> 1]
  /\ claimed = {} /\ runs = [k \in Key |-> 0] /\ handled = {}
  /\ answered = {} /\ dead = {} /\ dropped = {}
  /\ rebalances = 0 /\ crashes = 0 /\ faults = 0

(* The record in hand fails: c goes on at step s.                          *)
Faulting(c, s) ==
  /\ faults < MaxFaults
  /\ faults' = faults + 1
  /\ Goto(c, s)

-----------------------------------------------------------------------------
(***************************************************************************)
(* The group coordinator                                                   *)
(***************************************************************************)

(* A live member becomes owner and fetches from the committed offset.      *)
Assign(c) ==
  /\ owner = NoConsumer
  /\ ~At(c, "down")
  /\ owner' = c
  /\ position' = [position EXCEPT ![c] = committed]
  /\ UNCHANGED <<committed, at, offset, effects, outcomes, budget>>

(* The partition is taken away, whatever its owner is doing.               *)
Revoke ==
  /\ owner # NoConsumer
  /\ rebalances < MaxRebalances
  /\ rebalances' = rebalances + 1
  /\ owner' = NoConsumer
  /\ UNCHANGED <<committed, at, offset, position, effects, outcomes, crashes, faults>>

-----------------------------------------------------------------------------
(***************************************************************************)
(* The loop                                                                *)
(***************************************************************************)

(* poll returns the next record of a partition this consumer owns.         *)
Poll(c) ==
  /\ At(c, "idle")
  /\ owner = c
  /\ position[c] <= N
  /\ offset' = [offset EXCEPT ![c] = position[c]]
  /\ position' = [position EXCEPT ![c] = @ + 1]
  /\ Goto(c, "validate")
  /\ UNCHANGED <<group, effects, outcomes, budget>>

(* Faulty variant: a poison record is not caught and ends the process.     *)
PoisonEndsProcess(c) ==
  /\ At(c, "validate")
  /\ Goto(c, IF Log[offset[c]].valid THEN "claim" ELSE "down")
  /\ owner' = IF owner = c /\ ~Log[offset[c]].valid THEN NoConsumer ELSE owner
  /\ UNCHANGED <<committed, offset, position, effects, outcomes, budget>>

(* json.loads and validate_payload, before the claim.                      *)
Validate(c) ==
  /\ At(c, "validate")
  /\ Goto(c, IF Log[offset[c]].valid THEN "claim" ELSE "dlq")
  /\ UNCHANGED <<group, offset, position, effects, outcomes, budget>>

(* Faulty variant: GET and SET, so that a claim held is claimed again.     *)
ClaimWithoutNX(c) ==
  /\ At(c, "claim")
  /\ claimed' = claimed \cup {KeyOf(c)}
  /\ runs' = [runs EXCEPT ![KeyOf(c)] = @ + 1]
  /\ Goto(c, "handle")
  /\ UNCHANGED <<group, offset, position, handled, outcomes, budget>>

(* claim_message: SET NX.  The first one to claim starts the handler, the  *)
(* others skip the record; or Redis is out of reach.                       *)
ClaimMessage(c) ==
  /\ At(c, "claim")
  /\ \/ /\ KeyOf(c) \notin claimed
        /\ claimed' = claimed \cup {KeyOf(c)}
        /\ runs' = [runs EXCEPT ![KeyOf(c)] = @ + 1]
        /\ Goto(c, "handle")
        /\ UNCHANGED <<answered, faults>>
     \/ /\ KeyOf(c) \in claimed
        /\ answered' = answered \cup {offset[c]}
        /\ Goto(c, "commit")
        /\ UNCHANGED <<claimed, runs, faults>>
     \/ Faulting(c, "dlq") /\ UNCHANGED <<claimed, runs, answered>>
  /\ UNCHANGED <<group, offset, position, handled, dead, dropped, rebalances, crashes>>

(* Faulty variant: what the handler raises is logged and forgotten.        *)
HandleSwallows(c) ==
  /\ At(c, "handle")
  /\ \/ handled' = handled \cup {KeyOf(c)} /\ Goto(c, "commit") /\ UNCHANGED faults
     \/ Faulting(c, "commit") /\ UNCHANGED handled
  /\ answered' = answered \cup {offset[c]}
  /\ UNCHANGED <<group, offset, position, claimed, runs, dead, dropped, rebalances, crashes>>

(* The handler returns, or it raises.                                      *)
Handle(c) ==
  /\ At(c, "handle")
  /\ \/ /\ handled' = handled \cup {KeyOf(c)}
        /\ answered' = answered \cup {offset[c]}
        /\ Goto(c, "commit")
        /\ UNCHANGED faults
     \/ Faulting(c, "dlq") /\ UNCHANGED <<handled, answered>>
  /\ UNCHANGED <<group, offset, position, claimed, runs, dead, dropped, rebalances, crashes>>

(* The except branch: the dead letter is produced and flushed, or that     *)
(* fails, is logged, and the loop commits anyway.                          *)
DeadLetter(c) ==
  /\ At(c, "dlq")
  /\ \/ dead' = dead \cup {offset[c]} /\ Goto(c, "commit") /\ UNCHANGED <<dropped, faults>>
     \/ Faulting(c, "commit") /\ dropped' = dropped \cup {offset[c]} /\ UNCHANGED dead
  /\ UNCHANGED <<group, offset, position, effects, answered, rebalances, crashes>>

(* Faulty variant: the loop commits where the consumer has fetched to.     *)
CommitPosition(c) ==
  /\ At(c, "commit")
  /\ committed' = position[c] + 1
  /\ Goto(c, "idle")
  /\ UNCHANGED <<owner, offset, position, effects, outcomes, budget>>

(* commit(message=msg, asynchronous=False).  The broker checks the member  *)
(* and its generation, not who owns the partition: the commit of a former  *)
(* owner that has rejoined in the background takes effect, and may take    *)
(* the group back to an offset it had passed.                              *)
Commit(c) ==
  /\ At(c, "commit")
  /\ committed' = offset[c] + 1
  /\ Goto(c, "idle")
  /\ UNCHANGED <<owner, offset, position, effects, outcomes, budget>>

(* The commit of a member the group has expelled, or one that cannot reach *)
(* the broker, raises out of the finally clause: run flushes, leaves the   *)
(* group and the process exits.                                            *)
CommitRaises(c) ==
  /\ At(c, "commit")
  /\ \/ owner # c /\ Goto(c, "down") /\ UNCHANGED <<owner, faults>>
     \/ owner = c /\ Faulting(c, "down") /\ owner' = NoConsumer
  /\ UNCHANGED <<committed, offset, position, effects, outcomes, rebalances, crashes>>

(* SIGTERM: the loop ends after the record in hand and closes its consumer.*)
Stop(c) ==
  /\ At(c, "idle")
  /\ rebalances < MaxRebalances
  /\ rebalances' = rebalances + 1
  /\ owner' = IF owner = c THEN NoConsumer ELSE owner
  /\ Goto(c, "down")
  /\ UNCHANGED <<committed, offset, position, effects, outcomes, crashes, faults>>

Crash(c) ==
  /\ at[c] \notin {"down", "idle"}
  /\ crashes < MaxCrashes
  /\ crashes' = crashes + 1
  /\ owner' = IF owner = c THEN NoConsumer ELSE owner
  /\ Goto(c, "down")
  /\ UNCHANGED <<committed, offset, position, effects, outcomes, rebalances, faults>>

(* restart: unless-stopped                                                 *)
Restart(c) ==
  /\ At(c, "down")
  /\ Goto(c, "idle")
  /\ UNCHANGED <<group, offset, position, effects, outcomes, budget>>

-----------------------------------------------------------------------------
Loop(c) ==
  Poll(c) \/ Validate(c) \/ ClaimMessage(c) \/ Handle(c) \/ DeadLetter(c) \/ Commit(c)
Lifecycle(c) == CommitRaises(c) \/ Stop(c) \/ Crash(c)

Next == Revoke \/ \E c \in Consumer : Assign(c) \/ Loop(c) \/ Lifecycle(c) \/ Restart(c)

Spec == Init /\ [][Next]_vars

(* Every process keeps running and is restarted, and the coordinator gives *)
(* the partition to somebody.                                              *)
Fairness ==
  /\ \A c \in Consumer : WF_vars(Loop(c)) /\ WF_vars(Restart(c))
  /\ WF_vars(\E c \in Consumer : Assign(c))

FairSpec == Spec /\ Fairness

-----------------------------------------------------------------------------
TypeOK ==
  /\ owner \in Consumer \cup {NoConsumer}
  /\ committed \in 1..N+1
  /\ at \in [Consumer -> Step]
  /\ offset \in [Consumer -> 0..N]
  /\ position \in [Consumer -> 1..N+1]
  /\ \A c \in Consumer : at[c] \notin {"down", "idle"} => offset[c] \in Offset
  /\ claimed \subseteq Key /\ handled \subseteq Key
  /\ runs \in [Key -> Nat]
  /\ answered \subseteq Offset /\ dead \subseteq Offset /\ dropped \subseteq Offset
  /\ rebalances \in Nat /\ crashes \in Nat /\ faults \in Nat

(* idempotency.py:4-8: however the partition moves, and with a former      *)
(* owner still at work, no handler is started twice for one key.           *)
HandledAtMostOnce == \A k \in Key : runs[k] <= 1

(* runner.py:134-205: the committed offset never passes over a record that *)
(* nobody looked at: each one below it was handled, skipped as a duplicate,*)
(* dead-lettered, or had its dead letter fail, though members start from   *)
(* offsets others committed and late commits move the offset back.         *)
Settled == answered \cup dead \cup dropped
NothingPassedOver == \A o \in Offset : o < committed => o \in Settled

(* dlq.py:3-7 and idempotency.py: while no process crashes, a well-formed  *)
(* record the group has moved past got a handler that returned or is still *)
(* running, or some record of its key was dead-lettered (or its dead       *)
(* letter was lost to a failing call): a skip never hides lost work.       *)
Attended(k) ==
  \/ k \in handled
  \/ \E c \in Consumer :
       at[c] \in {"handle", "dlq"} /\ KeyOf(c) = k /\ Log[offset[c]].valid
  \/ \E o \in dead \cup dropped : Log[o].key = k /\ Log[o].valid
SkipHidesNoLoss ==
  crashes = 0 =>
    \A o \in Offset : o < committed /\ Log[o].valid => Attended(Log[o].key)

(* dlq.py:5-7: a poison message never stalls the partition: every record   *)
(* is eventually dealt with, poison records, failing calls and crashes     *)
(* notwithstanding.  (The committed offset itself may end up behind: the   *)
(* late commit of a former owner is the last one to arrive.)               *)
PartitionDrains == <>(Settled = Offset)
=============================================================================
