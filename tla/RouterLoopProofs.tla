-------------------------- MODULE RouterLoopProofs --------------------------
(***************************************************************************)
(* For every group, every log and every number of rebalances, crashes and  *)
(* failing calls: a handler is started at most once per key, the committed *)
(* offset passes over no record, and, while no process crashes, a skipped  *)
(* duplicate hides no lost work.                                           *)
(***************************************************************************)
EXTENDS RouterLoop, TLAPS

Busy == {"validate", "claim", "handle", "dlq", "commit"}

(* All records before n are settled.                                       *)
SettledBefore(n) == \A o \in Offset : o < n => o \in Settled

(* What makes NothingPassedOver inductive: the committed offset, the record*)
(* in hand and the owner's next fetch all have settled records before them *)
(* only, except that the record in hand itself may still be open.          *)
MemberInv(c) ==
  /\ at[c] \in Busy => SettledBefore(offset[c])
  /\ at[c] = "commit" => offset[c] \in Settled
  /\ owner = c =>
       /\ at[c] # "down"
       /\ at[c] = "idle" => SettledBefore(position[c])
       /\ at[c] \in Busy =>
            SettledBefore(position[c]) \/ position[c] = offset[c] + 1
OffsetInv == SettledBefore(committed) /\ \A c \in Consumer : MemberInv(c)

(* What makes SkipHidesNoLoss inductive: only well-formed records are      *)
(* claimed, handled or answered, and every claim is attended to.           *)
ClaimInv ==
  /\ \A c \in Consumer :
       /\ at[c] \in {"claim", "handle"} => Log[offset[c]].valid
       /\ at[c] = "handle" => KeyOf(c) \in claimed
  /\ \A o \in answered : Log[o].key \in claimed
  /\ crashes = 0 => \A k \in claimed : Attended(k)

(* A claim is what starts a handler, and it is never given back.           *)
RunsInv == \A k \in Key : runs[k] = IF k \in claimed THEN 1 ELSE 0

-----------------------------------------------------------------------------
(* The initial states have the types of TypeOK.                            *)
LEMMA InitTypes == Init => TypeOK
BY RouterAssumption DEF Init, TypeOK, Step, Offset

(* Moving a member to a step that has no record in hand, or leaves the     *)
(* record in hand alone, keeps the types of its state.                     *)
LEMMA MoveTypes ==
  ASSUME TypeOK, NEW c \in Consumer, NEW s \in Step, Goto(c, s), UNCHANGED offset,
         s \in {"down", "idle"} \/ at[c] \notin {"down", "idle"}
  PROVE  /\ at' \in [Consumer -> Step]
         /\ \A d \in Consumer : at'[d] \notin {"down", "idle"} => offset'[d] \in Offset
BY DEF TypeOK, Goto

(* Every step of the loop, the coordinator and the processes' lifecycle    *)
(* keeps the types.                                                        *)
LEMMA NextTypes == TypeOK /\ [Next]_vars => TypeOK'
<1> SUFFICES ASSUME TypeOK, [Next]_vars PROVE TypeOK'
  OBVIOUS
<1> USE RouterAssumption DEF group, effects, outcomes, budget
<1>1. CASE Revoke
  BY <1>1 DEF Revoke, TypeOK
<1>2. ASSUME NEW c \in Consumer, Assign(c) PROVE TypeOK'
  BY <1>2 DEF Assign, TypeOK
<1>3. ASSUME NEW c \in Consumer, Poll(c) PROVE TypeOK'
  BY <1>3 DEF Poll, TypeOK, At, Goto, Step, Offset
<1>4. ASSUME NEW c \in Consumer, Loop(c), ~Poll(c) PROVE TypeOK'
  <2>1. /\ UNCHANGED <<owner, offset, position, rebalances, crashes>>
        /\ at[c] \in {"validate", "claim", "handle", "dlq", "commit"}
        /\ \E s \in Step : Goto(c, s)
    BY <1>4 DEF Loop, Validate, ClaimMessage, Handle, DeadLetter, Commit, At, Faulting, Step
  <2>2. /\ at' \in [Consumer -> Step]
        /\ \A d \in Consumer : at'[d] \notin {"down", "idle"} => offset'[d] \in Offset
    BY <2>1, MoveTypes
  <2>3. offset[c] \in Offset /\ KeyOf(c) \in Key
    BY <2>1 DEF TypeOK, Offset, KeyOf
  <2>4. committed' \in 1..N+1
    <3>1. committed' = committed \/ committed' = offset[c] + 1
      BY <1>4 DEF Loop, Validate, ClaimMessage, Handle, DeadLetter, Commit, group
    <3>2. offset[c] + 1 \in 1..N+1
      BY <2>3, RouterAssumption DEF Offset
    <3>3. committed \in 1..N+1
      BY DEF TypeOK
    <3>4. QED
      BY <3>1, <3>2, <3>3
  <2>5. faults' \in Nat
    <3>1. faults' = faults \/ faults' = faults + 1
      BY <1>4 DEF Loop, Validate, ClaimMessage, Handle, DeadLetter, Commit, Faulting, budget
    <3>2. faults \in Nat
      BY DEF TypeOK
    <3>3. QED
      BY <3>1, <3>2
  <2>6. claimed' \subseteq Key /\ handled' \subseteq Key
    <3>1. /\ claimed' = claimed \/ claimed' = claimed \cup {KeyOf(c)}
          /\ handled' = handled \/ handled' = handled \cup {KeyOf(c)}
      BY <1>4 DEF Loop, Validate, ClaimMessage, Handle, DeadLetter, Commit, effects
    <3>2. claimed \subseteq Key /\ handled \subseteq Key
      BY DEF TypeOK
    <3>3. QED
      BY <2>3, <3>1, <3>2
  <2>7. answered' \subseteq Offset /\ dead' \subseteq Offset /\ dropped' \subseteq Offset
    <3>1. /\ answered' = answered \/ answered' = answered \cup {offset[c]}
          /\ dead' = dead \/ dead' = dead \cup {offset[c]}
          /\ dropped' = dropped \/ dropped' = dropped \cup {offset[c]}
      BY <1>4 DEF Loop, Validate, ClaimMessage, Handle, DeadLetter, Commit, outcomes
    <3>2. answered \subseteq Offset /\ dead \subseteq Offset /\ dropped \subseteq Offset
      BY DEF TypeOK
    <3>3. QED
      BY <2>3, <3>1, <3>2
  <2>8. runs' \in [Key -> Nat]
    <3>1. runs' = runs \/ runs' = [runs EXCEPT ![KeyOf(c)] = @ + 1]
      BY <1>4 DEF Loop, Validate, ClaimMessage, Handle, DeadLetter, Commit, effects
    <3>2. runs \in [Key -> Nat]
      BY DEF TypeOK
    <3>3. QED
      BY <2>3, <3>1, <3>2
  <2>9. QED
    BY <2>1, <2>2, <2>4, <2>5, <2>6, <2>7, <2>8 DEF TypeOK
<1>5. ASSUME NEW c \in Consumer, Lifecycle(c) \/ Restart(c) PROVE TypeOK'
  <2>1. /\ UNCHANGED <<committed, offset, position, effects, outcomes>>
        /\ owner' \in {owner, NoConsumer}
        /\ \E s \in {"down", "idle"} : Goto(c, s)
    BY <1>5 DEF Lifecycle, CommitRaises, Stop, Crash, Restart, Faulting
  <2>2. rebalances' \in Nat /\ crashes' \in Nat /\ faults' \in Nat
    BY <1>5, SMTT(40) DEF Lifecycle, CommitRaises, Stop, Crash, Restart, Faulting, TypeOK
  <2>3. /\ at' \in [Consumer -> Step]
        /\ \A d \in Consumer : at'[d] \notin {"down", "idle"} => offset'[d] \in Offset
    BY <2>1, MoveTypes DEF Step
  <2>4. QED
    BY <2>1, <2>2, <2>3 DEF TypeOK
<1>6. CASE UNCHANGED vars
  BY <1>6 DEF vars, TypeOK
<1>7. QED
  BY <1>1, <1>2, <1>3, <1>4, <1>5, <1>6 DEF Next

(* Type correctness of the loop.                                           *)
THEOREM RouterTypes == Spec => []TypeOK
BY InitTypes, NextTypes, PTL DEF Spec

-----------------------------------------------------------------------------
(* Settled records stay settled: outcomes only grow.                       *)
LEMMA OutcomesGrow ==
  ASSUME TypeOK, [Next]_vars
  PROVE  /\ Settled \subseteq Settled'
         /\ \A n \in Nat : SettledBefore(n) => SettledBefore(n)'
<1>1. Settled \subseteq Settled'
  BY DEF Next, Revoke, Assign, Loop, Lifecycle, Poll, Validate, ClaimMessage, Handle,
     DeadLetter, Commit, CommitRaises, Stop, Crash, Restart, vars, outcomes, Settled
<1>2. QED
  BY <1>1 DEF SettledBefore, Offset

(* The steps of one member leave the part of OffsetInv about the others    *)
(* alone: this lemma is the frame for all of them.                         *)
LEMMA OffsetFrame ==
  ASSUME TypeOK, OffsetInv, [Next]_vars, NEW c \in Consumer, NEW d \in Consumer,
         d # c,
         at'[d] = at[d], offset'[d] = offset[d], position'[d] = position[d],
         owner' = d => owner = d
  PROVE  MemberInv(d)'
<1>1. offset[d] \in Nat /\ position[d] \in Nat
  BY RouterAssumption DEF TypeOK
<1>2. QED
  BY <1>1, OutcomesGrow DEF OffsetInv, MemberInv

(* The coordinator, the loop and the lifecycle keep OffsetInv.  The commit *)
(* is the case that matters: it may be that of a former owner, but all the *)
(* records up to the one it has in hand are settled.                       *)
LEMMA OffsetStep ==
  ASSUME TypeOK, OffsetInv, [Next]_vars
  PROVE  OffsetInv'
<1>1. \A c \in Consumer : offset[c] \in Nat /\ position[c] \in Nat
  BY RouterAssumption DEF TypeOK
<1>2. \A n \in Nat : SettledBefore(n) => SettledBefore(n)'
  BY OutcomesGrow
<1>3. committed \in Nat
  BY RouterAssumption DEF TypeOK
<1>4. CASE Revoke
  <2>1. UNCHANGED <<committed, at, offset, position, outcomes>> /\ owner' = NoConsumer
    BY <1>4 DEF Revoke
  <2>2. QED
    BY <2>1, RouterAssumption
       DEF OffsetInv, MemberInv, SettledBefore, Settled, outcomes
<1>5. ASSUME NEW c \in Consumer, Assign(c) PROVE OffsetInv'
  <2>1. UNCHANGED <<committed, at, offset, outcomes>> /\ owner' = c /\ at[c] # "down"
    BY <1>5 DEF Assign, At
  <2>2. position'[c] = committed
    BY <1>5 DEF Assign, TypeOK
  <2>3. \A d \in Consumer : d # c => position'[d] = position[d] /\ owner' # d
    BY <1>5 DEF Assign, TypeOK
  <2>4. QED
    BY <2>1, <2>2, <2>3 DEF OffsetInv, MemberInv, SettledBefore, Settled, outcomes
<1>6. ASSUME NEW c \in Consumer, Loop(c) \/ Lifecycle(c) \/ Restart(c)
      PROVE  OffsetInv'
  <2>1. ASSUME NEW d \in Consumer, d # c PROVE MemberInv(d)'
    <3>1. /\ at'[d] = at[d] /\ offset'[d] = offset[d] /\ position'[d] = position[d]
          /\ owner' = d => owner = d
      BY <1>6, <2>1, RouterAssumption
         DEF Loop, Lifecycle, Poll, Validate, ClaimMessage, Handle, DeadLetter, Commit,
             CommitRaises, Stop, Crash, Restart, Goto, Faulting, group, TypeOK
    <3>2. QED
      BY <2>1, <3>1, OffsetFrame
  <2>2. CASE Poll(c)
    <3>1. /\ UNCHANGED <<owner, committed, outcomes>> /\ owner = c /\ at[c] = "idle"
          /\ at'[c] = "validate" /\ offset'[c] = position[c]
          /\ position'[c] = offset'[c] + 1
      BY <2>2 DEF Poll, At, Goto, group, TypeOK
    <3>2. SettledBefore(offset[c])'
      BY <1>1, <1>2, <3>1 DEF OffsetInv, MemberInv, SettledBefore
    <3>3. MemberInv(c)'
      BY <3>1, <3>2 DEF MemberInv
    <3>4. SettledBefore(committed)'
      BY <1>2, <1>3, <3>1 DEF OffsetInv, SettledBefore
    <3>5. QED
      BY <2>1, <3>3, <3>4 DEF OffsetInv
  <2>3. CASE Commit(c)
    <3>1. /\ UNCHANGED <<owner, offset, position, outcomes>> /\ at[c] = "commit"
          /\ at'[c] = "idle" /\ committed' = offset[c] + 1
      BY <2>3 DEF Commit, At, Goto, TypeOK
    <3>2. /\ SettledBefore(offset[c]) /\ offset[c] \in Settled
          /\ owner = c => SettledBefore(position[c]) \/ position[c] = offset[c] + 1
      BY <3>1 DEF OffsetInv, MemberInv, Busy
    <3>3. SettledBefore(offset[c] + 1)
      BY <1>1, <3>2 DEF SettledBefore, Offset
    <3>4. SettledBefore(committed)'
      BY <3>1, <3>3 DEF SettledBefore, Settled, outcomes
    <3>5. owner = c => SettledBefore(position[c])'
      BY <3>1, <3>2, <3>3 DEF SettledBefore, Settled, outcomes
    <3>6. MemberInv(c)'
      BY <3>1, <3>5 DEF MemberInv, Busy
    <3>7. QED
      BY <2>1, <3>4, <3>6 DEF OffsetInv
  <2>4. CASE Validate(c) \/ ClaimMessage(c) \/ Handle(c) \/ DeadLetter(c)
    <3>1. UNCHANGED <<owner, committed, offset, position>>
          /\ at[c] \in Busy /\ at'[c] \in Busy
      BY <2>4 DEF Validate, ClaimMessage, Handle, DeadLetter, Faulting, At, Goto, Busy,
         group, TypeOK
    <3>2. at'[c] = "commit" => offset[c] \in Settled'
      BY <2>4 DEF Validate, ClaimMessage, Handle, DeadLetter, Faulting, At, Goto,
         Settled, TypeOK
    <3>3. /\ SettledBefore(offset[c])
          /\ owner = c => SettledBefore(position[c]) \/ position[c] = offset[c] + 1
      BY <3>1 DEF OffsetInv, MemberInv
    <3>4. SettledBefore(offset[c])' /\ SettledBefore(committed)'
      BY <1>1, <1>2, <1>3, <3>1, <3>3 DEF OffsetInv, SettledBefore
    <3>5. owner = c => SettledBefore(position[c])' \/ position[c] = offset[c] + 1
      BY <1>1, <1>2, <3>1, <3>3 DEF SettledBefore
    <3>6. MemberInv(c)'
      BY <3>1, <3>2, <3>4, <3>5 DEF MemberInv, Busy
    <3>7. QED
      BY <2>1, <3>4, <3>6 DEF OffsetInv
  <2>5. CASE Lifecycle(c)
    <3>1. /\ UNCHANGED <<committed, offset, position, outcomes>>
          /\ at'[c] = "down" /\ owner' # c
      BY <2>5, RouterAssumption
         DEF Lifecycle, CommitRaises, Stop, Crash, Faulting, At, Goto, TypeOK
    <3>2. MemberInv(c)'
      BY <3>1 DEF MemberInv, Busy
    <3>3. QED
      BY <2>1, <3>1, <3>2 DEF OffsetInv, SettledBefore, Settled, outcomes
  <2>6. CASE Restart(c)
    <3>1. UNCHANGED <<owner, committed, offset, position, outcomes>>
          /\ at[c] = "down" /\ at'[c] = "idle"
      BY <2>6 DEF Restart, At, Goto, group, TypeOK
    <3>2. owner # c
      BY <3>1 DEF OffsetInv, MemberInv
    <3>3. MemberInv(c)'
      BY <3>1, <3>2 DEF MemberInv, Busy
    <3>4. QED
      BY <2>1, <3>1, <3>3 DEF OffsetInv, SettledBefore, Settled, outcomes
  <2>7. QED
    BY <1>6, <2>2, <2>3, <2>4, <2>5, <2>6 DEF Loop
<1>7. CASE UNCHANGED vars
  BY <1>7 DEF vars, group, outcomes, OffsetInv, MemberInv, SettledBefore, Settled
<1>8. QED
  BY <1>4, <1>5, <1>6, <1>7 DEF Next

(* Nothing is behind the first offset.                                     *)
LEMMA OffsetInit == Init => OffsetInv
BY RouterAssumption DEF Init, OffsetInv, MemberInv, SettledBefore, Offset, Busy

(* runner.py commits regardless of the outcome, but never past a record    *)
(* without one: at-least-once for any group, any log and any rebalance.    *)
THEOREM CommitsPassNothingOver == Spec => []NothingPassedOver
<1>1. OffsetInv => NothingPassedOver
  BY DEF OffsetInv, SettledBefore, NothingPassedOver
<1>2. QED
  BY <1>1, InitTypes, NextTypes, OffsetInit, OffsetStep, PTL DEF Spec

-----------------------------------------------------------------------------
(* Only ClaimMessage touches the claims, and it starts a handler exactly   *)
(* when it adds one.                                                       *)
LEMMA RunsStep ==
  ASSUME TypeOK, RunsInv, [Next]_vars
  PROVE  RunsInv'
<1>1. CASE UNCHANGED <<claimed, runs>>
  BY <1>1 DEF RunsInv
<1>2. ASSUME NEW c \in Consumer, at[c] = "claim", KeyOf(c) \notin claimed,
             claimed' = claimed \cup {KeyOf(c)},
             runs' = [runs EXCEPT ![KeyOf(c)] = @ + 1]
      PROVE  RunsInv'
  <2>1. KeyOf(c) \in Key
    BY <1>2, RouterAssumption DEF TypeOK, Offset, KeyOf
  <2>2. runs[KeyOf(c)] = 0
    BY <1>2, <2>1 DEF RunsInv
  <2>3. runs'[KeyOf(c)] = 1
    BY <1>2, <2>1, <2>2 DEF TypeOK
  <2>4. \A k \in Key : k # KeyOf(c) => runs'[k] = runs[k]
    BY <1>2 DEF TypeOK
  <2>5. QED
    BY <1>2, <2>3, <2>4 DEF RunsInv
<1>3. UNCHANGED <<claimed, runs>> \/ \E c \in Consumer :
        /\ at[c] = "claim" /\ KeyOf(c) \notin claimed
        /\ claimed' = claimed \cup {KeyOf(c)}
        /\ runs' = [runs EXCEPT ![KeyOf(c)] = @ + 1]
  BY DEF Next, Revoke, Assign, Loop, Lifecycle, Poll, Validate, ClaimMessage, Handle,
     DeadLetter, Commit, CommitRaises, Stop, Crash, Restart, vars, effects, At
<1>4. QED
  BY <1>1, <1>2, <1>3

(* idempotency.py's promise for any number of processes: one handler per   *)
(* key, whoever owns the partition and however often it is redelivered.    *)
THEOREM ClaimsAreExclusive == Spec => []HandledAtMostOnce
<1>1. Init => RunsInv
  BY DEF Init, RunsInv
<1>2. RunsInv => HandledAtMostOnce
  BY DEF RunsInv, HandledAtMostOnce
<1>3. QED
  BY <1>1, <1>2, InitTypes, NextTypes, RunsStep, PTL DEF Spec

-----------------------------------------------------------------------------
(* The three ways a key is attended to, for the proof of ClaimStep.        *)
InHand(c, k) ==
  at[c] \in {"handle", "dlq"} /\ KeyOf(c) = k /\ Log[offset[c]].valid
Buried(k) == \E o \in dead \cup dropped : Log[o].key = k /\ Log[o].valid

(* Without a crash, a key that is attended to stays so: a handler in hand  *)
(* returns or fails, and a failure becomes a dead letter or a dropped one. *)
LEMMA AttendedStays ==
  ASSUME TypeOK, ClaimInv, [Next]_vars, crashes' = 0, NEW k, Attended(k)
  PROVE  Attended(k)'
<1>1. crashes = 0
  BY DEF Next, Revoke, Assign, Loop, Lifecycle, Poll, Validate, ClaimMessage, Handle,
     DeadLetter, Commit, CommitRaises, Stop, Crash, Restart, Faulting, vars, budget,
     TypeOK
<1>2. /\ handled \subseteq handled' /\ dead \subseteq dead' /\ dropped \subseteq dropped'
  BY DEF Next, Revoke, Assign, Loop, Lifecycle, Poll, Validate, ClaimMessage, Handle,
     DeadLetter, Commit, CommitRaises, Stop, Crash, Restart, vars, effects, outcomes
<1>3. CASE k \in handled \/ Buried(k)
  BY <1>2, <1>3 DEF Attended, Buried
<1>4. ASSUME NEW c \in Consumer, InHand(c, k) PROVE Attended(k)'
  <2>1. CASE Handle(c)
    BY <1>4, <2>1 DEF Handle, InHand, Attended, Faulting, Goto, At, KeyOf, TypeOK
  <2>2. CASE DeadLetter(c)
    BY <1>4, <2>2 DEF DeadLetter, InHand, Attended, Faulting, Goto, At, KeyOf
  <2>3. CASE at'[c] = at[c] /\ offset'[c] = offset[c]
    BY <1>4, <2>3 DEF InHand, Attended, KeyOf
  <2>4. Handle(c) \/ DeadLetter(c) \/ (at'[c] = at[c] /\ offset'[c] = offset[c])
    <3>1. ~Crash(c)
      BY <1>1 DEF Crash
    <3>2. QED
      BY <1>4, <3>1
         DEF InHand, Next, Revoke, Assign, Loop, Lifecycle, Poll, Validate, ClaimMessage,
             Handle, DeadLetter, Commit, CommitRaises, Stop, Crash, Restart, Faulting,
             At, Goto, vars, TypeOK
  <2>5. QED
    BY <2>1, <2>2, <2>3, <2>4
<1>5. QED
  BY <1>3, <1>4 DEF Attended, Buried, InHand

(* A step claims at most the key of a member that starts its handler.      *)
LEMMA ClaimStep ==
  ASSUME TypeOK, ClaimInv, [Next]_vars
  PROVE  ClaimInv'
<1>1. ASSUME NEW c \in Consumer
      PROVE  /\ at'[c] \in {"claim", "handle"} => Log[offset'[c]].valid
             /\ at'[c] = "handle" => Log[offset'[c]].key \in claimed'
  BY DEF ClaimInv, Next, Revoke, Assign, Loop, Lifecycle, Poll, Validate, ClaimMessage,
     Handle, DeadLetter, Commit, CommitRaises, Stop, Crash, Restart, Faulting, At, Goto,
     KeyOf, vars, effects, TypeOK
<1>2. claimed \subseteq claimed'
  BY DEF Next, Revoke, Assign, Loop, Lifecycle, Poll, Validate, ClaimMessage, Handle,
     DeadLetter, Commit, CommitRaises, Stop, Crash, Restart, vars, effects
<1>3. \A o \in answered' : Log[o].key \in claimed'
  <2>1. \A o \in answered' :
          o \in answered \/ \E c \in Consumer : o = offset[c] /\ KeyOf(c) \in claimed
    BY DEF ClaimInv, Next, Revoke, Assign, Loop, Lifecycle, Poll, Validate,
       ClaimMessage, Handle, DeadLetter, Commit, CommitRaises, Stop, Crash, Restart,
       vars, effects, outcomes, At
  <2>2. QED
    BY <1>2, <2>1 DEF ClaimInv, KeyOf
<1>4. ASSUME crashes' = 0, NEW k \in claimed' PROVE Attended(k)'
  <2>1. crashes = 0
    BY <1>4 DEF Next, Revoke, Assign, Loop, Lifecycle, Poll, Validate, ClaimMessage,
       Handle, DeadLetter, Commit, CommitRaises, Stop, Crash, Restart, Faulting, vars,
       budget, TypeOK
  <2>2. CASE k \in claimed
    BY <1>4, <2>1, <2>2, AttendedStays DEF ClaimInv
  <2>3. CASE k \notin claimed
    <3>1. PICK c \in Consumer : ClaimMessage(c) /\ k = KeyOf(c) /\ at'[c] = "handle"
      BY <1>4, <2>3 DEF Next, Revoke, Assign, Loop, Lifecycle, Poll, Validate,
         ClaimMessage, Handle, DeadLetter, Commit, CommitRaises, Stop, Crash, Restart,
         vars, effects, Goto, TypeOK
    <3>2. offset'[c] = offset[c] /\ Log[offset[c]].valid
      BY <3>1 DEF ClaimMessage, ClaimInv, At
    <3>3. QED
      BY <3>1, <3>2 DEF Attended, KeyOf
  <2>4. QED
    BY <2>2, <2>3
<1>5. QED
  BY <1>1, <1>3, <1>4 DEF ClaimInv, KeyOf

(* idempotency.py and dlq.py together: as long as no process crashes, every*)
(* well-formed record the group moved past was handled, is being handled,  *)
(* or failed visibly, although a skip may come before the handler returns. *)
THEOREM SkipsHideNoLoss == Spec => []SkipHidesNoLoss
<1>1. Init => ClaimInv
  BY DEF Init, ClaimInv
<1>2. OffsetInv /\ ClaimInv => SkipHidesNoLoss
  BY DEF OffsetInv, SettledBefore, ClaimInv, SkipHidesNoLoss, Settled, Attended
<1>3. QED
  BY <1>1, <1>2, InitTypes, NextTypes, OffsetInit, OffsetStep, ClaimStep, PTL DEF Spec
=============================================================================
