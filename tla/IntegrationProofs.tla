-------------------------- MODULE IntegrationProofs --------------------------
(***************************************************************************)
(* Theorems about what stands between the matcher and its readers.         *)
(* JobIndex: for any jobs, deliveries, failing builds and restarts a chat  *)
(* index is made of the finished report, and the sweep takes no index      *)
(* before its time but one that was rebuilt under it. Matching: for any    *)
(* corpus that grows meanwhile, spellings and similarities a row with the  *)
(* CPE of a component is confirmed, the strongest offer for a CVE stays, a *)
(* tier fits its score and no component brings more than TopK rows that    *)
(* resemble it.                                                            *)
(* Calibration: for any families, base thresholds, steps and verdicts      *)
(* thresholds stay ordered, recalibrations do not add up and the last one  *)
(* followed the verdicts.                                                  *)
(***************************************************************************)
EXTENDS JobIndex, Calibration, SequenceTheorems, FiniteSetTheorems, TLAPS

-----------------------------------------------------------------------------
(* The chat index.                                                         *)

\* A record "completed" is produced after its report is final, and a final
\* report stays so: whatever the consumer reads later is final too.
FinalInv ==
  /\ report \in [Job -> Content]
  /\ log \in Seq([kind : {"matched", "completed"}, job : Job])
  /\ position \in 0..Len(log) /\ start \in 0..position
  /\ committed \in 0..Len(log) /\ skipped \subseteq Job /\ job \in Job
  /\ \A i \in 1..Len(log) : log[i].kind = "completed" => report[log[i].job] = "final"
  /\ builder \in {"fetch", "encode"} => report[job] = "final"
  /\ builder = "encode" => text = "final"
  /\ \A j \in Job : indexes[j] # NoIndex =>
                      indexes[j].text = "final" /\ report[j] = "final"
  /\ indexes \in [Job -> {NoIndex} \cup [text : Content, age : Nat]]
  /\ text \in Content

LEMMA InitFinal == JobIndexInit => FinalInv
BY DEF JobIndexInit, FinalInv, Content, builderVars, groupVars

LEMMA StepFinal ==
  ASSUME FinalInv, [JobIndexNext]_jobIndexVars
  PROVE  FinalInv'
<1> USE DEF FinalInv
<1>1. ASSUME NEW j \in Job, Matched(j) PROVE FinalInv'
  <2> DEFINE new == [kind |-> "matched", job |-> j]
  <2>1. /\ log' = Append(log, new) /\ UNCHANGED <<builderVars, indexes>>
        /\ report[j] = "none"
        /\ report' = [report EXCEPT ![j] = "partial"]
    BY <1>1 DEF Matched, Emit
  <2>2. log' \in Seq([kind : {"matched", "completed"}, job : Job]) /\ Len(log') = Len(log) + 1
    BY <2>1
  <2>3. ASSUME NEW i \in 1..Len(log'), log'[i].kind = "completed"
        PROVE  report'[log'[i].job] = "final"
    <3>1. CASE i = Len(log) + 1
      BY <2>1, <2>3, <3>1
    <3>2. CASE i \in 1..Len(log)
      BY <2>1, <2>3, <3>2
    <3> QED
      BY <2>2, <3>1, <3>2
  <2> QED
    BY <2>1, <2>2, <2>3 DEF builderVars, groupVars, Content
<1>2. ASSUME NEW j \in Job, Complete(j) PROVE FinalInv'
  <2> DEFINE new == [kind |-> "completed", job |-> j]
  <2>1. /\ log' = Append(log, new) /\ UNCHANGED <<builderVars, indexes>>
        /\ report[j] # "none"
        /\ report' = [report EXCEPT ![j] = "final"]
    BY <1>2 DEF Complete, Emit
  <2>2. log' \in Seq([kind : {"matched", "completed"}, job : Job]) /\ Len(log') = Len(log) + 1
    BY <2>1
  <2>3. ASSUME NEW i \in 1..Len(log'), log'[i].kind = "completed"
        PROVE  report'[log'[i].job] = "final"
    <3>1. CASE i = Len(log) + 1
      BY <2>1, <2>3, <3>1
    <3>2. CASE i \in 1..Len(log)
      BY <2>1, <2>3, <3>2
    <3> QED
      BY <2>2, <3>1, <3>2
  <2> QED
    BY <2>1, <2>2, <2>3 DEF builderVars, groupVars, Content
<1>3. CASE PollRecord
  <2> DEFINE record == log[position + 1]
  <2>1. /\ position + 1 \in 1..Len(log) /\ position' = position + 1
        /\ builder = "poll" /\ OnEvent(record)
        /\ UNCHANGED <<report, log, start, committed, skipped, text, indexes>>
    BY <1>3 DEF PollRecord, groupVars
  <2>2. record \in [kind : {"matched", "completed"}, job : Job]
    BY <2>1, ElementOfSeq
  <2>3. builder' \in {"fetch", "encode"} =>
          builder' = "fetch" /\ report[job'] = "final" /\ job' \in Job
    BY <2>1, <2>2 DEF OnEvent
  <2>4. job' \in Job
    BY <2>1, <2>2 DEF OnEvent
  <2> QED
    BY <2>1, <2>3, <2>4
<1>4. CASE FetchReport
  BY <1>4 DEF FetchReport, groupVars
<1>5. CASE Build
  BY <1>5 DEF Build, Fresh, groupVars
<1>6. CASE BuildFails
  BY <1>6 DEF BuildFails, groupVars
<1>7. CASE Tick
  <2>1. \A j \in Job : /\ indexes'[j] # NoIndex => indexes[j] # NoIndex
                       /\ indexes[j] # NoIndex => indexes'[j].text = indexes[j].text
                       /\ indexes'[j] \in {NoIndex} \cup [text : Content, age : Nat]
    BY <1>7, JobIndexAssumption DEF Tick, Older
  <2> QED
    BY <1>7, <2>1 DEF Tick, builderVars, groupVars
<1>8. CASE AppRestart
  BY <1>8 DEF AppRestart, Content
<1>9. CASE Sweep
  BY <1>9 DEF Sweep, Wake, Visit, ScanRaises, ScanEnds, Teardown, builderVars, groupVars
<1>10. CASE Join
  <2>1. JoinAt \in 0..Len(log)
    BY DEF JoinAt
  <2> QED
    BY <1>10, <2>1 DEF Join
<1>11. CASE UNCHANGED jobIndexVars
  BY <1>11 DEF jobIndexVars, builderVars, groupVars
<1> QED
  BY <1>1, <1>2, <1>3, <1>4, <1>5, <1>6, <1>7, <1>8, <1>9, <1>10, <1>11
  DEF JobIndexNext, Consume

\* on_event, build_for_job: no index is made of a report that can change.
THEOREM IndexesAreFinal == JobIndexSpec => []IndexIsFinal
<1>1. FinalInv => IndexIsFinal
  BY DEF FinalInv, IndexIsFinal, Keys
<1> QED
  BY <1>1, InitFinal, StepFinal, PTL DEF JobIndexSpec

-----------------------------------------------------------------------------
(* The sweep.                                                              *)

\* What a scan has listed, or is about to, had expired when it read the clock:
\* if it is not old any more it was rebuilt since.
SweepInv ==
  /\ appRestarts \in Nat
  /\ \A j \in (overdue \cup expired) \cap Job :
       indexes[j] # NoIndex => indexes[j].age > Ttl \/ j \in rebuilt

LEMMA StepSweep ==
  ASSUME FinalInv, SweepInv, [JobIndexNext]_jobIndexVars
  PROVE  SweepInv'
<1> USE DEF SweepInv
<1>1. ASSUME NEW j \in Job, Matched(j) \/ Complete(j) PROVE SweepInv'
  BY <1>1 DEF Matched, Complete, Emit, sweepVars
<1>2. CASE Join \/ PollRecord \/ FetchReport \/ BuildFails
  BY <1>2 DEF Join, PollRecord, FetchReport, BuildFails, sweepVars
<1>3. CASE Build
  BY <1>3 DEF Build, FinalInv
<1>4. CASE Wake
  BY <1>4 DEF Wake, Expired, Keys, builderVars
<1>5. CASE Visit
  BY <1>5 DEF Visit, builderVars
<1>6. CASE ScanRaises \/ ScanEnds
  BY <1>6 DEF ScanRaises, ScanEnds, builderVars
<1>7. CASE Teardown
  BY <1>7 DEF Teardown, FinalInv, builderVars
<1>8. CASE Tick
  <2>1. \A j \in Job : indexes'[j] # NoIndex =>
          /\ indexes[j] # NoIndex
          /\ indexes[j].age > Ttl => indexes'[j].age > Ttl
    BY <1>8, JobIndexAssumption DEF Tick, Older, FinalInv
  <2> QED
    BY <1>8, <2>1 DEF Tick, sweepVars
<1>9. CASE AppRestart
  BY <1>9 DEF AppRestart
<1>10. CASE UNCHANGED jobIndexVars
  BY <1>10 DEF jobIndexVars, sweepVars
<1> QED
  BY <1>1, <1>2, <1>3, <1>4, <1>5, <1>6, <1>7, <1>8, <1>9, <1>10
  DEF JobIndexNext, Consume, Sweep

\* sweep, teardown: an index is removed before its time only if it was rebuilt
\* after the sweep had read the clock.
THEOREM SweepTakesTheOld == JobIndexSpec => YoungIndexKept
<1> DEFINE Young ==
      \A j \in Keys : indexes'[j] = NoIndex /\ appRestarts' = appRestarts =>
        indexes[j].age > Ttl \/ j \in rebuilt
<1>1. JobIndexInit => FinalInv /\ SweepInv
  BY InitFinal DEF JobIndexInit, SweepInv
<1>2. FinalInv /\ SweepInv /\ [JobIndexNext]_jobIndexVars => [Young]_jobIndexVars
  <2> SUFFICES ASSUME FinalInv, SweepInv, JobIndexNext,
                      NEW j \in Job, indexes[j] # NoIndex, indexes'[j] = NoIndex,
                      appRestarts' = appRestarts
               PROVE  indexes[j].age > Ttl \/ j \in rebuilt
    BY DEF Keys
  <2>1. indexes[j] \in [text : Content, age : Nat]
    BY DEF FinalInv
  <2>2. CASE Teardown
    BY <2>2 DEF Teardown, SweepInv, FinalInv
  <2>3. CASE Build
    BY <2>3, JobIndexAssumption DEF Build, Fresh, FinalInv
  <2>4. CASE Tick
    BY <2>1, <2>4, JobIndexAssumption DEF Tick, Older
  <2>5. CASE AppRestart
    BY <2>5 DEF AppRestart, SweepInv
  <2>6. CASE UNCHANGED indexes
    BY <2>6
  <2>7. Teardown \/ Build \/ Tick \/ AppRestart \/ UNCHANGED indexes
    BY DEF JobIndexNext, Matched, Complete, Emit, Consume, Join, PollRecord, FetchReport,
           BuildFails, Sweep, Wake, Visit, ScanRaises, ScanEnds
  <2> QED
    BY <2>2, <2>3, <2>4, <2>5, <2>6, <2>7
<1>3. FinalInv /\ SweepInv /\ [JobIndexNext]_jobIndexVars => (FinalInv /\ SweepInv)'
  BY StepFinal, StepSweep
<1> QED
  BY <1>1, <1>2, <1>3, PTL DEF JobIndexSpec, YoungIndexKept

-----------------------------------------------------------------------------
(* Types of the chat index.                                                *)

\* The sweep works on keys of the dictionary: only teardown removes a key, and
\* what it has left to do were keys when the scan listed them.  The list a
\* scan that raised has made is not looked at again.
SweepTypes ==
  /\ indexes \in [Job -> {NoIndex} \cup [text : Content, age : 0..Ttl + 1]]
  /\ builder \in {"join", "poll", "fetch", "encode", "dead"}
  /\ sweeper \in {"asleep", "scan", "teardown", "dead"}
  /\ unseen \subseteq Keys /\ overdue \subseteq Job /\ swept \subseteq Job
  /\ sweeper \in {"scan", "teardown"} => expired \subseteq Keys
  /\ sweeper = "scan" => expired \cap unseen = {}
  /\ sweeper = "teardown" => unseen = {}
  /\ grown \in BOOLEAN /\ rebuilt \subseteq Job
  /\ buildFaults \in Nat /\ appRestarts \in Nat

\* An empty dictionary.
LEMMA NoIndexes ==
  ASSUME NEW none, none = [j \in Job |-> NoIndex]
  PROVE  none \in [Job -> {NoIndex} \cup [text : Content, age : 0..Ttl + 1]]
OBVIOUS

LEMMA InitSweepTypes == JobIndexInit => SweepTypes
<1> SUFFICES ASSUME JobIndexInit PROVE SweepTypes
  OBVIOUS
<1>1. indexes \in [Job -> {NoIndex} \cup [text : Content, age : 0..Ttl + 1]]
  BY NoIndexes DEF JobIndexInit
<1>2. builder \in {"join", "poll", "fetch", "encode", "dead"}
  BY DEF JobIndexInit
<1>3. sweeper \in {"asleep", "scan", "teardown", "dead"}
  BY DEF JobIndexInit
<1>4. unseen \subseteq Keys /\ overdue \subseteq Job /\ swept \subseteq Job
  BY DEF JobIndexInit
<1>5. /\ sweeper \in {"scan", "teardown"} => expired \subseteq Keys
      /\ sweeper = "scan" => expired \cap unseen = {}
      /\ sweeper = "teardown" => unseen = {}
  BY DEF JobIndexInit
<1>6. grown \in BOOLEAN /\ rebuilt \subseteq Job
  BY DEF JobIndexInit
<1>7. buildFaults \in Nat /\ appRestarts \in Nat
  BY DEF JobIndexInit
<1> QED
  BY <1>1, <1>2, <1>3, <1>4, <1>5, <1>6, <1>7 DEF SweepTypes

LEMMA StepSweepTypes ==
  ASSUME FinalInv, SweepTypes, [JobIndexNext]_jobIndexVars
  PROVE  SweepTypes'
<1> USE JobIndexAssumption DEF SweepTypes
<1>0. /\ \A j \in Job : report[j] \in Content
      /\ job \in Job /\ text \in Content /\ Keys \subseteq Job
  BY DEF FinalInv, Keys
<1>1. ASSUME NEW j \in Job, Matched(j) \/ Complete(j) PROVE SweepTypes'
  BY <1>1 DEF Matched, Complete, Emit, builderVars, sweepVars, Keys
<1>2. CASE Join \/ PollRecord
  BY <1>2 DEF Join, PollRecord, OnEvent, sweepVars, Keys
<1>3. CASE FetchReport \/ BuildFails
  BY <1>3 DEF FetchReport, BuildFails, sweepVars, Keys
<1>4. CASE Build
  <2>1. Fresh(text) \in [text : Content, age : 0..Ttl + 1] /\ Fresh(text) # NoIndex
    BY <1>0 DEF Fresh
  <2>2. /\ indexes' = [indexes EXCEPT ![job] = Fresh(text)]
        /\ UNCHANGED <<sweeper, unseen, expired, swept, buildFaults, appRestarts>>
        /\ builder' = "poll" /\ overdue' = overdue \ {job} /\ rebuilt' = rebuilt \cup {job}
        /\ grown' \in BOOLEAN
    BY <1>4 DEF Build
  <2>3. Keys \subseteq Keys'
    BY <1>0, <2>1, <2>2 DEF Keys
  <2> QED
    BY <1>0, <2>1, <2>2, <2>3
<1>5. CASE Wake
  BY <1>5 DEF Wake, builderVars, Keys
<1>6. CASE Visit
  <2>1. PICK j \in unseen : /\ unseen' = unseen \ {j}
                            /\ expired' = expired \cup ({j} \cap overdue)
    BY <1>6 DEF Visit
  <2>2. /\ sweeper = "scan" /\ Keys' = Keys
        /\ UNCHANGED <<indexes, builderVars, sweeper, overdue, swept, grown, rebuilt, appRestarts>>
    BY <1>6 DEF Visit, Keys
  <2> QED
    BY <2>1, <2>2 DEF builderVars
<1>7. CASE ScanRaises \/ ScanEnds
  BY <1>7 DEF ScanRaises, ScanEnds, builderVars, Keys
<1>8. CASE Teardown
  <2>1. CASE expired = {}
    BY <1>8, <2>1 DEF Teardown, builderVars, Keys
  <2>2. CASE expired # {}
    <3>1. PICK j \in expired :
            /\ indexes' = [indexes EXCEPT ![j] = NoIndex]
            /\ expired' = expired \ {j} /\ swept' = swept \cup {j}
            /\ sweeper' = sweeper
      BY <1>8, <2>2 DEF Teardown
    <3>2. /\ sweeper = "teardown" /\ j \in Keys
          /\ UNCHANGED <<builderVars, unseen, overdue, grown, rebuilt, appRestarts>>
      BY <1>8, <3>1 DEF Teardown
    <3>3. Keys' = Keys \ {j}
      BY <1>0, <3>1, <3>2 DEF Keys
    <3> QED
      BY <1>0, <3>1, <3>2, <3>3 DEF builderVars
  <2> QED
    BY <2>1, <2>2
<1>9. CASE Tick
  <2>1. ASSUME NEW j \in Job
        PROVE  /\ indexes'[j] \in {NoIndex} \cup [text : Content, age : 0..Ttl + 1]
               /\ indexes[j] # NoIndex => indexes'[j] # NoIndex
    <3>1. indexes'[j] = Older(indexes[j])
      BY <1>9 DEF Tick
    <3>2. CASE indexes[j] = NoIndex \/ indexes[j].age > Ttl
      BY <3>1, <3>2 DEF Older
    <3>3. CASE indexes[j] # NoIndex /\ ~(indexes[j].age > Ttl)
      <4>1. indexes[j] \in [text : Content, age : 0..Ttl + 1]
        BY <3>3
      <4>2. indexes'[j] = [indexes[j] EXCEPT !.age = @ + 1]
        BY <3>1, <3>3 DEF Older
      <4>3. indexes'[j] \in [text : Content, age : 0..Ttl + 1]
        BY <3>3, <4>1, <4>2
      <4> QED
        BY <4>3
    <3> QED
      BY <3>2, <3>3
  <2>2. /\ indexes' \in [Job -> {NoIndex} \cup [text : Content, age : 0..Ttl + 1]]
        /\ Keys \subseteq Keys'
    BY <1>9, <2>1 DEF Tick, Keys
  <2> QED
    BY <1>9, <2>2 DEF Tick, builderVars, sweepVars
<1>10. CASE AppRestart
  <2>1. indexes' \in [Job -> {NoIndex} \cup [text : Content, age : 0..Ttl + 1]]
    BY <1>10, NoIndexes DEF AppRestart
  <2>2. /\ builder' = "join" /\ sweeper' = "asleep" /\ unseen' = {} /\ overdue' = {}
        /\ grown' = FALSE /\ rebuilt' = {} /\ swept' = swept
        /\ buildFaults' = buildFaults /\ appRestarts' = appRestarts + 1
    BY <1>10 DEF AppRestart
  <2>3. builder' \in {"join", "poll", "fetch", "encode", "dead"}
    BY <2>2
  <2>4. sweeper' \in {"asleep", "scan", "teardown", "dead"}
    BY <2>2
  <2>5. unseen' \subseteq Keys' /\ overdue' \subseteq Job /\ swept' \subseteq Job
    BY <2>2
  <2>6. /\ sweeper' \in {"scan", "teardown"} => expired' \subseteq Keys'
        /\ sweeper' = "scan" => expired' \cap unseen' = {}
        /\ sweeper' = "teardown" => unseen' = {}
    BY <2>2
  <2>7. grown' \in BOOLEAN /\ rebuilt' \subseteq Job
    BY <2>2
  <2>8. buildFaults' \in Nat /\ appRestarts' \in Nat
    BY <2>2
  <2> QED
    BY <2>1, <2>3, <2>4, <2>5, <2>6, <2>7, <2>8
<1>11. CASE UNCHANGED jobIndexVars
  BY <1>11 DEF jobIndexVars, builderVars, sweepVars, Keys
<1> QED
  BY <1>1, <1>2, <1>3, <1>4, <1>5, <1>6, <1>7, <1>8, <1>9, <1>10, <1>11
  DEF JobIndexNext, Consume, Sweep

\* Type correctness of the chat index: sweep iterates and tears down keys that
\* are in the dictionary, although builds and restarts change it meanwhile.
THEOREM JobIndexTypes == JobIndexSpec => []JobIndexTypeOK
<1>1. FinalInv /\ SweepTypes => JobIndexTypeOK
  BY DEF FinalInv, SweepTypes, JobIndexTypeOK
<1> QED
  BY <1>1, InitFinal, StepFinal, InitSweepTypes, StepSweepTypes, PTL DEF JobIndexSpec

-----------------------------------------------------------------------------
(* Thresholds.                                                             *)

\* _valid_thresholds: whatever three numbers it is given, the result is
\* ordered and within [0, 1].
LEMMA ValidOrdered ==
  ASSUME NEW high \in Int, NEW possible \in Int, NEW low \in Int
  PROVE  Valid(high, possible, low) \in Thresholds
BY DEF Valid, Clamped, Lesser, Thresholds, Ordered

\* A step to either side of ordered thresholds is ordered.
LEMMA ShiftedOrdered ==
  ASSUME NEW t \in Thresholds, NEW delta \in Int
  PROVE  Shifted(t, delta) \in Thresholds
<1>1. t.high + delta \in Int /\ t.possible + delta \in Int /\ t.low + delta \in Int
  BY DEF Thresholds
<1> QED
  BY <1>1, ValidOrdered DEF Shifted

\* The three thresholds a family can have.
Reachable == {Base, Shifted(Base, StrictenDelta), Shifted(Base, -LoosenDelta)}

LEMMA ReachableOrdered == Reachable \subseteq Thresholds
<1>1. Base \in Thresholds
  BY MatchingAssumption
<1>2. Shifted(Base, StrictenDelta) \in Thresholds
  BY <1>1, ShiftedOrdered, CalibrationAssumption
<1>3. Shifted(Base, -LoosenDelta) \in Thresholds
  BY <1>1, ShiftedOrdered, CalibrationAssumption
<1> QED
  BY <1>1, <1>2, <1>3 DEF Reachable

\* adjust_for_fp_rate: one step at most from the base it is given.
LEMMA AdjustedReachable ==
  ASSUME NEW wrong, NEW decided
  PROVE  AdjustForFpRate(Base, wrong, decided) \in Reachable
BY DEF AdjustForFpRate, Reachable

-----------------------------------------------------------------------------
(* NoDrift.                                                                *)

\* The overrides of both processes; the router's never change.
OverridesReachable ==
  /\ overrides \in [Process -> [Family -> Reachable]]
  /\ overrides["router"] = [f \in Family |-> Base]

LEMMA InitReachable == CalibrationInit => OverridesReachable
BY DEF CalibrationInit, MatchingInit, OverridesReachable, Reachable, Process

LEMMA InstallReachable ==
  ASSUME OverridesReachable, NEW table, NEW resolver, Install(table, resolver)
  PROVE  OverridesReachable'
<1>1. \A f \in Family : overrides["api"][f] \in Reachable
  BY DEF OverridesReachable, Process
<1>2. Recalibrated(table, resolver) \in [Family -> Reachable]
  <2> SUFFICES ASSUME NEW f \in Family
               PROVE  Recalibrated(table, resolver)[f] \in Reachable
    BY DEF Recalibrated
  <2> DEFINE cves == {v \in Cve : resolver[v] = f}
             wrong == Wrong(table, cves)
             decided == wrong + Confirmed(table, cves)
             new == AdjustForFpRate(Base, wrong, decided)
  <2>1. Recalibrated(table, resolver)[f] =
          IF decided < MinSamples \/ new = Base THEN overrides["api"][f] ELSE new
    BY DEF Recalibrated
  <2>2. new \in Reachable
    BY AdjustedReachable
  <2> HIDE DEF new, decided
  <2> QED
    BY <2>1, <2>2, <1>1
<1> QED
  BY <1>2 DEF Install, OverridesReachable, Process

LEMMA StepReachable == OverridesReachable /\ [CalibrationNext]_calibrationVars
                         => OverridesReachable'
<1> SUFFICES ASSUME OverridesReachable, [CalibrationNext]_calibrationVars
             PROVE  OverridesReachable'
  OBVIOUS
<1>1. CASE UNCHANGED overrides
  BY <1>1 DEF OverridesReachable
<1>2. CASE MatchingNext
  BY <1>1, <1>2 DEF MatchingNext, ExactLookup, LookedUp, SimilaritySearch, OfferOne,
                    NextComponent, EmitMatches, RepoRaises, RowAdded
<1>3. CASE SubmitFeedback
  BY <1>1, <1>3 DEF SubmitFeedback
<1>4. CASE RecalibrateNow
  BY <1>4, InstallReachable DEF RecalibrateNow
<1>5. CASE RecalibratePartly
  BY <1>5, InstallReachable DEF RecalibratePartly
<1>6. CASE ApiRestart
  BY <1>6 DEF ApiRestart, OverridesReachable, Reachable, Process
<1>7. CASE UNCHANGED calibrationVars
  BY <1>1, <1>7 DEF calibrationVars
<1> QED
  BY <1>2, <1>3, <1>4, <1>5, <1>6, <1>7 DEF CalibrationNext

LEMMA AlwaysReachable == CalibrationSpec => []OverridesReachable
BY InitReachable, StepReachable, PTL DEF CalibrationSpec

\* feedback_loop.py:121-123: recalibrations and faults in any order and number
\* leave every family within one step of the base.
THEOREM RecalibrationIdempotent == CalibrationSpec => []NoDrift
<1>1. OverridesReachable => NoDrift
  BY DEF OverridesReachable, NoDrift, Reachable, Process
<1> QED
  BY <1>1, AlwaysReachable, PTL

-----------------------------------------------------------------------------
(* CalibrationTypeOK.                                                      *)

\* Verdicts are given of what was reported, so none is there while matching
\* goes on; a calibration read some that are in the table.
FeedbackInv ==
  /\ verdicts \subseteq [cve : Cve, verdict : Verdict, id : Nat]
  /\ calibrated \subseteq verdicts /\ IsFiniteSet(verdicts)
  /\ verdicts # {} => stage = "emitted"

LEMMA InitFeedback == CalibrationInit => FeedbackInv
BY FS_EmptySet DEF CalibrationInit, FeedbackInv

\* Once the matches are emitted the matcher is done with the sub-blob.
LEMMA EmittedStays ==
  ASSUME MatchingNext PROVE stage # "emitted"
BY DEF MatchingNext, ExactLookup, LookedUp, SimilaritySearch, OfferOne, NextComponent,
       EmitMatches, RepoRaises, RowAdded, Running

LEMMA StepFeedback == FeedbackInv /\ [CalibrationNext]_calibrationVars => FeedbackInv'
<1> SUFFICES ASSUME FeedbackInv, [CalibrationNext]_calibrationVars PROVE FeedbackInv'
  OBVIOUS
<1>1. CASE MatchingNext /\ UNCHANGED feedbackVars
  BY <1>1, EmittedStays DEF FeedbackInv, feedbackVars
<1>2. CASE SubmitFeedback
  <2>1. PICK v \in Cve, k \in Verdict :
          verdicts' = verdicts \cup
            {[cve |-> v, verdict |-> k,
              id |-> Cardinality({f \in verdicts : f.cve = v /\ f.verdict = k})]}
    BY <1>2 DEF SubmitFeedback
  <2> DEFINE alike == {f \in verdicts : f.cve = v /\ f.verdict = k}
             new == [cve |-> v, verdict |-> k, id |-> Cardinality(alike)]
  <2>2. IsFiniteSet(alike)
    BY FS_Subset DEF FeedbackInv
  <2>3. new \in [cve : Cve, verdict : Verdict, id : Nat]
    BY <2>2, FS_CardinalityType
  <2>4. IsFiniteSet(verdicts')
    BY <2>1, FS_AddElement DEF FeedbackInv
  <2> HIDE DEF new
  <2> QED
    BY <1>2, <2>1, <2>3, <2>4 DEF FeedbackInv, SubmitFeedback, matchingVars, new
<1>3. CASE RecalibrateNow \/ RecalibratePartly \/ ApiRestart
  BY <1>3 DEF RecalibrateNow, RecalibratePartly, ApiRestart, FeedbackInv, matchingVars
<1>4. CASE UNCHANGED calibrationVars
  BY <1>4 DEF calibrationVars, feedbackVars, matchingVars, FeedbackInv
<1> QED
  BY <1>1, <1>2, <1>3, <1>4 DEF CalibrationNext

\* ThresholdConfig, feedback.py: the thresholds in force are ordered in both
\* processes, and a calibration counted no verdict that is not in the table.
THEOREM CalibrationTypes == CalibrationSpec => []CalibrationTypeOK
<1>1. OverridesReachable /\ FeedbackInv => CalibrationTypeOK
  <2> SUFFICES ASSUME OverridesReachable, FeedbackInv PROVE CalibrationTypeOK
    OBVIOUS
  <2>1. \A p \in Process, f \in Family : overrides[p][f] \in Thresholds
    BY ReachableOrdered DEF OverridesReachable
  <2> QED
    BY <2>1 DEF OverridesReachable, FeedbackInv, CalibrationTypeOK, Thresholds
<1> QED
  BY <1>1, InitFeedback, StepFeedback, AlwaysReachable, PTL DEF CalibrationSpec

-----------------------------------------------------------------------------
(* TierFitsScore.                                                          *)

OfferFits(o) ==
  IF o.score = NoScore THEN o.tier = "CONFIRMED"
  ELSE \E r \in corpus :
         /\ r.cve = o.cve
         /\ LET t == ThresholdsFor("router", FamilyOf(r, components[o.by])) IN
            /\ o.score >= t.low /\ o.tier # "CONFIRMED"
            /\ (o.tier = "HIGH_CONFIDENCE") = (o.score >= t.high)
            /\ (o.tier = "LOW_CONFIDENCE") = (o.score < t.possible)

MatchOffer == [cve : Cve, tier : Tier, score : 0..100 \cup {NoScore}, by : Nat \ {0}]

FitInv ==
  /\ corpus \subseteq Row /\ early \subseteq corpus
  /\ components \in Seq(Component) /\ next \in Nat \ {0}
  /\ offered \cup todo \subseteq MatchOffer
  /\ \A o \in offered \cup todo : OfferFits(o)

\* The router's thresholds are the base, whatever the API recalibrates.
LEMMA RouterThresholds ==
  ASSUME OverridesReachable, NEW r, NEW c
  PROVE  ThresholdsFor("router", FamilyOf(r, c)) = Base
BY DEF OverridesReachable, ThresholdsFor, FamilyFor, FamilyOf

\* tier_for_score: with ordered thresholds the tiers partition the scores.
LEMMA TiersPartition ==
  ASSUME NEW t \in Thresholds, NEW score \in 0..100
  PROVE  LET tier == TierForScore(score, t) IN
         /\ tier # "CONFIRMED"
         /\ tier = "NO_MATCH" <=> score < t.low
         /\ tier = "LOW_CONFIDENCE" <=> score >= t.low /\ score < t.possible
         /\ tier = "HIGH_CONFIDENCE" <=> score >= t.high
BY DEF TierForScore, Thresholds, Ordered

LEMMA InitFit == CalibrationInit => FitInv
<1> SUFFICES ASSUME CalibrationInit PROVE FitInv
  OBVIOUS
<1>1. components \in Seq(Component)
  <2>1. BoundedSeq(Component, MaxComponents) \subseteq Seq(Component)
    <3>1. 0..MaxComponents \subseteq Nat
      BY MatchingAssumption
    <3>2. Seq(Component) = UNION {[1..m -> Component] : m \in Nat}
      BY SeqDef, Zenon
    <3> QED
      BY <3>1, <3>2, Zenon DEF BoundedSeq, SeqOf
  <2> QED
    BY <2>1 DEF CalibrationInit, MatchingInit
<1> QED
  BY <1>1 DEF CalibrationInit, MatchingInit, FitInv

\* While matching goes on the corpus only grows, and the thresholds are fixed.
LEMMA FitMonotone ==
  ASSUME OverridesReachable, OverridesReachable', corpus \subseteq corpus',
         NEW o, OfferFits(o)
  PROVE  OfferFits(o)'
<1>1. \A r, c : ThresholdsFor("router", FamilyOf(r, c)) = Base
  BY RouterThresholds
<1>2. \A r, c : ThresholdsFor("router", FamilyOf(r, c))' = Base
  BY DEF OverridesReachable, ThresholdsFor, FamilyFor, FamilyOf
<1> QED
  BY <1>1, <1>2 DEF OfferFits

LEMMA HitsFit ==
  ASSUME OverridesReachable, FitInv, Running,
         NEW top \in SUBSET corpus, NEW o \in Hits(top, Current)
  PROVE  o \in MatchOffer /\ o.by = next /\ OfferFits(o)
<1>1. Current \in Component
  BY DEF FitInv, Running, Current
<1>2. PICK r \in top :
        /\ o = [cve |-> r.cve, score |-> Similarity[Current][r], by |-> next,
                tier |-> TierForScore(Similarity[Current][r], Base)]
        /\ o.tier # "NO_MATCH"
  BY RouterThresholds DEF Hits
<1>3. r \in Row /\ o.cve \in Cve
  BY <1>2 DEF FitInv, Cve
<1>4. o.score \in 0..100 /\ o.score # NoScore
  <2>1. Similarity[Current] \in [Row -> 0..100]
    BY <1>1, MatchingAssumption
  <2>2. Similarity[Current][r] \in 0..100
    BY <1>3, <2>1
  <2> QED
    BY <1>2, <2>2, MatchingAssumption
<1>5. Base \in Thresholds
  BY MatchingAssumption
<1>6. ThresholdsFor("router", FamilyOf(r, components[o.by])) = Base
  BY RouterThresholds
<1>7. o.cve = r.cve /\ o.tier = TierForScore(o.score, Base)
  BY <1>2
<1>8. /\ o.score >= Base.low /\ o.tier # "CONFIRMED"
      /\ (o.tier = "HIGH_CONFIDENCE") = (o.score >= Base.high)
      /\ (o.tier = "LOW_CONFIDENCE") = (o.score < Base.possible)
  BY <1>2, <1>4, <1>5, <1>7, TiersPartition, SMTT(40) DEF Thresholds, Ordered
<1>9. o.tier \in Tier
  BY <1>2, <1>4, <1>7 DEF TierForScore, Tier
<1>10. OfferFits(o)
  BY <1>2, <1>4, <1>6, <1>7, <1>8, SMTT(40) DEF OfferFits
<1> QED
  BY <1>2, <1>3, <1>4, <1>9, <1>10 DEF MatchOffer, FitInv

\* exact_lookup: a CONFIRMED offer for each row of the CPE.
LEMMA ExactOffers ==
  ASSUME FitInv, NEW cpe,
         NEW o \in {[cve |-> r.cve, tier |-> "CONFIRMED", score |-> NoScore, by |-> next]
                     : r \in {q \in corpus : CpeOf(q) = cpe}}
  PROVE  /\ o \in MatchOffer /\ o.by = next /\ OfferFits(o)
         /\ o.tier = "CONFIRMED" /\ o.score = NoScore
BY DEF FitInv, MatchOffer, OfferFits, Cve, Tier

\* What the lookups and the search put before _offer, and what it takes off.
LEMMA TodoFits ==
  ASSUME OverridesReachable, FitInv, [CalibrationNext]_calibrationVars
  PROVE  /\ \A o \in offered' \cup todo' : o \in MatchOffer /\ OfferFits(o)
         /\ offered' \subseteq offered \cup todo
<1> DEFINE Todo == /\ \A o \in offered' \cup todo' : o \in MatchOffer /\ OfferFits(o)
                   /\ offered' \subseteq offered \cup todo
<1>1. CASE ExactLookup
  <2>1. PICK cpe \in lookups :
          todo' = todo \cup
            {[cve |-> r.cve, tier |-> "CONFIRMED", score |-> NoScore, by |-> next]
               : r \in {q \in corpus : CpeOf(q) = cpe}}
    BY <1>1 DEF ExactLookup
  <2>2. offered' = offered
    BY <1>1 DEF ExactLookup
  <2> DEFINE new == {[cve |-> r.cve, tier |-> "CONFIRMED", score |-> NoScore, by |-> next]
                       : r \in {q \in corpus : CpeOf(q) = cpe}}
  <2>3. \A o \in new : o \in MatchOffer /\ OfferFits(o)
    BY ExactOffers
  <2>4. todo' = todo \cup new
    BY <2>1
  <2> HIDE DEF new
  <2> QED
    BY <2>2, <2>3, <2>4 DEF FitInv
<1>2. CASE SimilaritySearch
  <2>1. PICK top \in TopRows(Current) : todo' = Hits(top, Current)
    BY <1>2 DEF SimilaritySearch
  <2>2. offered' = offered /\ top \in SUBSET corpus
    BY <1>2, <2>1 DEF SimilaritySearch, TopRows
  <2>3. \A o \in todo' : o \in MatchOffer /\ OfferFits(o)
    BY <1>2, <2>1, <2>2, HitsFit DEF SimilaritySearch
  <2> QED
    BY <2>2, <2>3 DEF FitInv
<1>3. CASE OfferOne
  BY <1>3 DEF OfferOne, FitInv
<1>4. CASE RepoRaises
  BY <1>4 DEF RepoRaises
<1>5. CASE UNCHANGED <<offered, todo>>
  BY <1>5 DEF FitInv
<1> QED
  BY <1>1, <1>2, <1>3, <1>4, <1>5
  DEF CalibrationNext, MatchingNext, LookedUp, NextComponent, EmitMatches, RowAdded,
      SubmitFeedback, RecalibrateNow, RecalibratePartly, ApiRestart, calibrationVars,
      matchingVars

LEMMA StepFit ==
  ASSUME OverridesReachable, OverridesReachable', FitInv,
         [CalibrationNext]_calibrationVars
  PROVE  FitInv'
<1>1. corpus \subseteq corpus' /\ corpus' \subseteq Row
  BY DEF FitInv, CalibrationNext, MatchingNext, ExactLookup, LookedUp, SimilaritySearch,
         OfferOne, NextComponent, EmitMatches, RepoRaises, RowAdded, SubmitFeedback,
         RecalibrateNow, RecalibratePartly, ApiRestart, calibrationVars, matchingVars
<1>2. UNCHANGED <<components, early>> /\ next' \in Nat \ {0}
  BY DEF FitInv, CalibrationNext, MatchingNext, ExactLookup, LookedUp, SimilaritySearch,
         OfferOne, NextComponent, EmitMatches, RepoRaises, RowAdded, SubmitFeedback,
         RecalibrateNow, RecalibratePartly, ApiRestart, calibrationVars, matchingVars
<1>3. \A o \in (offered \cup todo)' : o \in MatchOffer /\ OfferFits(o)'
  BY <1>1, TodoFits, FitMonotone
<1> QED
  BY <1>1, <1>2, <1>3 DEF FitInv, MatchOffer

LEMMA AlwaysFit == CalibrationSpec => []FitInv
BY InitFit, StepFit, AlwaysReachable, PTL DEF CalibrationSpec

\* matcher.py:111-125: for any corpus, similarities and spellings, no match is
\* reported below its family's lowest threshold or with a tier its score does
\* not earn.
THEOREM TiersFitScores == CalibrationSpec => []TierFitsScore
<1>1. FitInv => TierFitsScore
  BY DEF FitInv, OfferFits, TierFitsScore
<1> QED
  BY <1>1, AlwaysFit, PTL

-----------------------------------------------------------------------------
(* StrongestKept.                                                          *)

BestInv == best \in [Cve -> {NoMatch} \cup Match] /\ StrongestKept

\* _offer: what it keeps for the CVE is the offer or what was there, and
\* neither is stronger than what it keeps.
LEMMA OfferKeepsStronger ==
  ASSUME BestInv, NEW o \in MatchOffer
  PROVE  LET old == best[o.cve]
             kept == Offer(best, o)[o.cve] IN
         /\ Offer(best, o) \in [Cve -> {NoMatch} \cup Match]
         /\ \A v \in Cve : v # o.cve => Offer(best, o)[v] = best[v]
         /\ kept # NoMatch /\ ~Stronger(o, kept)
         /\ old # NoMatch => ~Stronger(old, kept)
         /\ kept = old \/ (kept.tier = o.tier /\ kept.score = o.score)
<1> DEFINE old == best[o.cve]
           new == [tier |-> o.tier, score |-> o.score]
           better == \/ TierRank(new.tier) > TierRank(old.tier)
                     \/ new.tier = old.tier /\ Score(new) > Score(old)
<1>1. o.cve \in Cve /\ o.tier \in Tier /\ o.score \in 0..100 \cup {NoScore}
  BY DEF MatchOffer
<1>2. new \in Match /\ new.tier = o.tier /\ new.score = o.score
  BY <1>1 DEF Match
<1>3. new # NoMatch /\ old \in {NoMatch} \cup Match
  BY <1>1, <1>2, MatchingAssumption DEF BestInv
<1>4. best \in [Cve -> {NoMatch} \cup Match]
  BY DEF BestInv
<1>5. Score(new) = Score(o) /\ Score(o) \in Int
  BY <1>1, <1>2, MatchingAssumption DEF Score
<1>6. \A m \in Match : TierRank(m.tier) \in 1..4 /\ Score(m) \in Int
  BY MatchingAssumption DEF Match, Tier, TierRank, Score
<1>7. \A t, u \in Tier : TierRank(t) = TierRank(u) => t = u
  BY DEF Tier, TierRank
<1>8. CASE old = NoMatch \/ better
  <2>1. Offer(best, o) = [best EXCEPT ![o.cve] = new]
    BY <1>8 DEF Offer
  <2>2. Offer(best, o)[o.cve] = new
    BY <1>1, <1>4, <2>1
  <2>3. ~Stronger(o, new)
    <3> HIDE DEF new
    <3> QED
      BY <1>2, <1>5, <1>6 DEF Stronger
  <2>4. old # NoMatch => ~Stronger(old, new)
    <3>1. SUFFICES ASSUME old \in Match, better PROVE ~Stronger(old, new)
      BY <1>3, <1>8
    <3> HIDE DEF new, old
    <3> QED
      BY <1>2, <1>6, <3>1 DEF Stronger
  <2> HIDE DEF new, old
  <2> QED
    BY <1>1, <1>2, <1>3, <1>4, <2>1, <2>2, <2>3, <2>4 DEF old
<1>9. CASE old # NoMatch /\ ~better
  <2>1. Offer(best, o) = best
    BY <1>9 DEF Offer
  <2>2. ~Stronger(o, old) /\ ~Stronger(old, old)
    <3>1. old \in Match /\ old.tier \in Tier
      BY <1>3, <1>9 DEF Match
    <3> HIDE DEF new, old
    <3> QED
      BY <1>1, <1>2, <1>5, <1>6, <1>7, <1>9, <3>1 DEF Stronger
  <2> QED
    BY <1>3, <1>4, <1>9, <2>1, <2>2
<1> QED
  BY <1>8, <1>9

\* Stronger is a strict order: what is not stronger stays so.
LEMMA StrongerOrder ==
  ASSUME NEW o \in MatchOffer, NEW m \in Match, NEW n \in Match,
         ~Stronger(o, m), ~Stronger(m, n)
  PROVE  ~Stronger(o, n)
<1>1. \A t \in Tier : TierRank(t) \in Int
  BY DEF Tier, TierRank
<1>2. o.tier \in Tier /\ m.tier \in Tier /\ n.tier \in Tier
  BY DEF MatchOffer, Match
<1>3. Score(o) \in Int /\ Score(m) \in Int /\ Score(n) \in Int
  BY MatchingAssumption DEF MatchOffer, Match, Score
<1> QED
  BY <1>1, <1>2, <1>3 DEF Stronger

LEMMA InitBest == CalibrationInit => BestInv
BY DEF CalibrationInit, MatchingInit, BestInv, StrongestKept

LEMMA StepBest ==
  ASSUME FitInv, BestInv, [CalibrationNext]_calibrationVars
  PROVE  BestInv'
<1>1. CASE OfferOne
  <2>1. PICK o \in todo : best' = Offer(best, o) /\ offered' = offered \cup {o}
    BY <1>1 DEF OfferOne
  <2>2. o \in MatchOffer /\ o.cve \in Cve /\ offered' \subseteq MatchOffer
    BY <2>1 DEF FitInv, MatchOffer
  <2>3. /\ best' \in [Cve -> {NoMatch} \cup Match]
        /\ \A v \in Cve : v # o.cve => best'[v] = best[v]
        /\ best'[o.cve] # NoMatch /\ ~Stronger(o, best'[o.cve])
        /\ best[o.cve] # NoMatch => ~Stronger(best[o.cve], best'[o.cve])
        /\ \/ best'[o.cve] = best[o.cve]
           \/ best'[o.cve].tier = o.tier /\ best'[o.cve].score = o.score
    BY <2>1, <2>2, OfferKeepsStronger
  <2>4. ASSUME NEW p \in offered'
        PROVE  best'[p.cve] # NoMatch /\ ~Stronger(p, best'[p.cve])
    <3>1. p \in MatchOffer /\ p.cve \in Cve
      BY <2>2 DEF MatchOffer
    <3>2. CASE p = o
      BY <2>3, <3>2
    <3>3. CASE p \in offered /\ p.cve # o.cve
      BY <2>3, <3>1, <3>3 DEF BestInv, StrongestKept
    <3>4. CASE p \in offered /\ p.cve = o.cve
      <4>1. best[o.cve] # NoMatch /\ ~Stronger(p, best[o.cve])
        BY <3>4 DEF BestInv, StrongestKept
      <4>2. best[o.cve] \in Match /\ best'[o.cve] \in Match
        BY <2>2, <2>3, <4>1 DEF BestInv
      <4> QED
        BY <2>3, <3>1, <3>4, <4>1, <4>2, StrongerOrder
    <3> QED
      BY <2>1, <3>2, <3>3, <3>4
  <2>5. ASSUME NEW v \in Cve, best'[v] # NoMatch
        PROVE  \E p \in offered' :
                 p.cve = v /\ p.tier = best'[v].tier /\ p.score = best'[v].score
    <3>1. CASE best'[v] = best[v]
      <4>1. \E p \in offered :
              p.cve = v /\ p.tier = best[v].tier /\ p.score = best[v].score
        BY <2>5, <3>1 DEF BestInv, StrongestKept
      <4> QED
        BY <2>1, <3>1, <4>1
    <3>2. CASE v = o.cve /\ best'[v].tier = o.tier /\ best'[v].score = o.score
      BY <2>1, <3>2
    <3> QED
      BY <2>3, <3>1, <3>2
  <2> QED
    BY <2>3, <2>4, <2>5 DEF BestInv, StrongestKept
<1>2. CASE RepoRaises
  BY <1>2 DEF RepoRaises, BestInv, StrongestKept
<1>3. CASE UNCHANGED <<best, offered>>
  BY <1>3 DEF BestInv, StrongestKept
<1> QED
  BY <1>1, <1>2, <1>3
  DEF CalibrationNext, MatchingNext, ExactLookup, LookedUp, SimilaritySearch,
      NextComponent, EmitMatches, RowAdded, SubmitFeedback, RecalibrateNow,
      RecalibratePartly, ApiRestart, calibrationVars, matchingVars

LEMMA AlwaysBest == CalibrationSpec => []BestInv
BY InitBest, StepBest, AlwaysFit, PTL DEF CalibrationSpec

\* _offer, matcher.py:136-148: for any components, rows and similarities, and in
\* whatever order the offers come, a CVE is reported as strongly as the
\* strongest of them, and only as one of them said.
THEOREM StrongestReported == CalibrationSpec => []StrongestKept
<1>1. BestInv => StrongestKept
  BY DEF BestInv
<1> QED
  BY <1>1, AlwaysBest, PTL

-----------------------------------------------------------------------------
(* ExactConfirmed.                                                         *)

ConfirmedOffer(r, i) == [cve |-> r.cve, tier |-> "CONFIRMED", score |-> NoScore, by |-> i]

\* The rows the lookups of a component must find.
Sought(i) == {r \in early : CpeOf(r) \in CandidateCpes(components[i])}

\* Offers belong to the component under way or to those behind; the search is
\* reached only when the lookups left nothing to offer.
OrderInv ==
  /\ \A o \in todo : o.by = next
  /\ \A o \in offered : o.by <= next /\ (stage # "offer" => o.by < next)
  /\ stage = "lookup" => \A o \in todo : o.tier = "CONFIRMED"
  /\ stage = "search" => todo = {}

BehindInv ==
  \A i \in 1..next - 1 : \A r \in Sought(i) :
    /\ ConfirmedOffer(r, i) \in offered
    /\ \A o \in offered : o.by = i => o.tier = "CONFIRMED"

\* A row sought for the component under way is still to be looked up, waits to
\* be offered or is offered: a component that has one never gets to the search.
AtHandInv ==
  next <= Len(components) => \A r \in Sought(next) :
    /\ stage \in {"lookup", "offer"}
    /\ stage = "lookup" => CpeOf(r) \in lookups \/ ConfirmedOffer(r, next) \in todo
    /\ stage = "offer" =>
         /\ ConfirmedOffer(r, next) \in offered \cup todo
         /\ \A o \in offered \cup todo : o.by = next => o.tier = "CONFIRMED"

ConfirmInv == stage = "raised" \/ (OrderInv /\ BehindInv /\ AtHandInv)

LEMMA InitConfirm == CalibrationInit => ConfirmInv
BY DEF CalibrationInit, MatchingInit, ConfirmInv, OrderInv, BehindInv, AtHandInv, Sought,
       CpesOf

\* build_cpe over the spellings: each is looked up, and a row with that CPE
\* brings its offer.
LEMMA LookupConfirms ==
  ASSUME FitInv, OrderInv, BehindInv, AtHandInv, ExactLookup
  PROVE  OrderInv' /\ BehindInv' /\ AtHandInv'
<1>1. PICK cpe \in lookups :
        /\ lookups' = lookups \ {cpe}
        /\ todo' = todo \cup
             {[cve |-> r.cve, tier |-> "CONFIRMED", score |-> NoScore, by |-> next]
                : r \in {q \in corpus : CpeOf(q) = cpe}}
  BY DEF ExactLookup
<1> DEFINE new == {[cve |-> r.cve, tier |-> "CONFIRMED", score |-> NoScore, by |-> next]
                     : r \in {q \in corpus : CpeOf(q) = cpe}}
<1>2. /\ UNCHANGED <<next, stage, offered, early, components>>
      /\ stage = "lookup"
  BY DEF ExactLookup
<1>3. todo' = todo \cup new /\ \A o \in new : o.by = next /\ o.tier = "CONFIRMED"
  BY <1>1, ExactOffers
<1>4. \A r \in early : CpeOf(r) = cpe => ConfirmedOffer(r, next) \in new
  BY DEF FitInv, ConfirmedOffer
<1>5. OrderInv'
  <2> HIDE DEF new
  <2> QED
    BY <1>2, <1>3 DEF OrderInv
<1>6. BehindInv'
  BY <1>2 DEF BehindInv, Sought, ConfirmedOffer
<1>7. AtHandInv'
  <2> HIDE DEF new
  <2>1. SUFFICES ASSUME next <= Len(components), NEW r \in Sought(next)
                 PROVE  CpeOf(r) \in lookups' \/ ConfirmedOffer(r, next) \in todo'
    BY <1>2 DEF AtHandInv, Sought, ConfirmedOffer
  <2>2. r \in early /\ (CpeOf(r) \in lookups \/ ConfirmedOffer(r, next) \in todo)
    BY <1>2, <2>1 DEF AtHandInv, Sought
  <2> QED
    BY <1>1, <1>3, <1>4, <2>2
<1> QED
  BY <1>5, <1>6, <1>7

\* if exact_records: only a component without one is searched for.
LEMMA LookedUpConfirms ==
  ASSUME FitInv, OrderInv, BehindInv, AtHandInv, LookedUp
  PROVE  OrderInv' /\ BehindInv' /\ AtHandInv'
<1>1. /\ UNCHANGED <<next, todo, offered, early, components>>
      /\ stage = "lookup" /\ lookups = {} /\ next <= Len(components)
      /\ stage' = IF todo = {} THEN "search" ELSE "offer"
  BY DEF LookedUp, Running
<1>2. OrderInv'
  BY <1>1 DEF OrderInv
<1>3. BehindInv'
  BY <1>1 DEF BehindInv, Sought, ConfirmedOffer
<1>4. ASSUME NEW r \in Sought(next)
      PROVE  /\ ConfirmedOffer(r, next) \in todo
             /\ \A o \in offered \cup todo : o.by = next => o.tier = "CONFIRMED"
  <2>1. ConfirmedOffer(r, next) \in todo
    BY <1>1 DEF AtHandInv
  <2>2. \A o \in offered \cup todo : o.by = next => o.tier = "CONFIRMED"
    BY <1>1 DEF OrderInv, FitInv, MatchOffer
  <2> QED
    BY <2>1, <2>2
<1>5. AtHandInv'
  BY <1>1, <1>4 DEF AtHandInv, Sought, ConfirmedOffer
<1> QED
  BY <1>2, <1>3, <1>5

LEMMA SearchConfirms ==
  ASSUME OverridesReachable, FitInv, OrderInv, BehindInv, AtHandInv, SimilaritySearch
  PROVE  OrderInv' /\ BehindInv' /\ AtHandInv'
<1>1. PICK top \in TopRows(Current) : todo' = Hits(top, Current)
  BY DEF SimilaritySearch
<1>2. /\ UNCHANGED <<next, offered, early, components>>
      /\ stage = "search" /\ stage' = "offer" /\ next <= Len(components)
      /\ top \in SUBSET corpus /\ Running
  BY <1>1 DEF SimilaritySearch, Running, TopRows
<1>3. \A o \in todo' : o.by = next
  BY <1>1, <1>2, HitsFit
<1>4. OrderInv'
  BY <1>2, <1>3 DEF OrderInv, FitInv, MatchOffer
<1>5. BehindInv'
  BY <1>2 DEF BehindInv, Sought, ConfirmedOffer
<1>6. Sought(next) = {}
  BY <1>2 DEF AtHandInv
<1>7. AtHandInv'
  BY <1>2, <1>6 DEF AtHandInv, Sought
<1> QED
  BY <1>4, <1>5, <1>7

LEMMA OfferConfirms ==
  ASSUME FitInv, OrderInv, BehindInv, AtHandInv, OfferOne
  PROVE  OrderInv' /\ BehindInv' /\ AtHandInv'
<1>1. PICK o \in todo : offered' = offered \cup {o} /\ todo' = todo \ {o}
  BY DEF OfferOne
<1>2. /\ UNCHANGED <<next, stage, early, components>> /\ stage = "offer"
      /\ o.by = next
  BY <1>1 DEF OfferOne, OrderInv
<1>3. next \in Nat
  BY DEF FitInv
<1>4. OrderInv'
  BY <1>1, <1>2, <1>3 DEF OrderInv
<1>5. BehindInv'
  BY <1>1, <1>2, <1>3 DEF BehindInv, Sought, ConfirmedOffer
<1>6. AtHandInv'
  BY <1>1, <1>2 DEF AtHandInv, Sought, ConfirmedOffer
<1> QED
  BY <1>4, <1>5, <1>6

LEMMA NextConfirms ==
  ASSUME FitInv, OrderInv, BehindInv, AtHandInv, NextComponent, next <= Len(components)
  PROVE  OrderInv' /\ BehindInv' /\ AtHandInv'
<1>1. /\ UNCHANGED <<todo, offered, early, components>> /\ stage = "offer"
      /\ todo = {} /\ next' = next + 1 /\ stage' = "lookup" /\ lookups' = CpesOf(next + 1)
  BY DEF NextComponent
<1>2. next \in Nat /\ \A o \in offered : o.by \in Nat
  BY DEF FitInv, MatchOffer
<1>3. OrderInv'
  BY <1>1, <1>2 DEF OrderInv
<1>4. ASSUME NEW i \in 1..next' - 1, NEW r \in Sought(i)
      PROVE  /\ ConfirmedOffer(r, i) \in offered
             /\ \A o \in offered : o.by = i => o.tier = "CONFIRMED"
  <2>1. CASE i = next
    BY <1>1, <1>4, <2>1 DEF AtHandInv
  <2>2. CASE i \in 1..next - 1
    BY <1>4, <2>2 DEF BehindInv
  <2> QED
    BY <1>1, <1>2, <2>1, <2>2
<1>5. BehindInv'
  BY <1>1, <1>4 DEF BehindInv, Sought, ConfirmedOffer
<1>6. AtHandInv'
  BY <1>1, <1>2 DEF AtHandInv, Sought, CpesOf
<1> QED
  BY <1>3, <1>5, <1>6

\* The loop ends with the last component.
InRange == next \in 1..Len(components) + 1 /\ (stage = "offer" => next <= Len(components))

LEMMA StepInRange ==
  ASSUME FitInv, InRange, [CalibrationNext]_calibrationVars PROVE InRange'
<1>1. Len(components) \in Nat /\ next \in Nat
  BY DEF FitInv
<1> QED
  BY <1>1
  DEF InRange, CalibrationNext, MatchingNext, ExactLookup, LookedUp, SimilaritySearch,
      OfferOne, NextComponent, EmitMatches, RepoRaises, RowAdded, Running, SubmitFeedback,
      RecalibrateNow, RecalibratePartly, ApiRestart, calibrationVars, matchingVars

LEMMA StepConfirm ==
  ASSUME OverridesReachable, FitInv, InRange, ConfirmInv, [CalibrationNext]_calibrationVars
  PROVE  ConfirmInv'
<1>1. CASE stage = "raised"
  BY <1>1
  DEF ConfirmInv, CalibrationNext, MatchingNext, ExactLookup, LookedUp, SimilaritySearch,
      OfferOne, NextComponent, EmitMatches, RepoRaises, RowAdded, Running, SubmitFeedback,
      RecalibrateNow, RecalibratePartly, ApiRestart, calibrationVars, matchingVars
<1>2. CASE stage # "raised"
  <2>1. OrderInv /\ BehindInv /\ AtHandInv
    BY <1>2 DEF ConfirmInv
  <2>2. CASE ExactLookup
    BY <2>1, <2>2, LookupConfirms DEF ConfirmInv
  <2>3. CASE LookedUp
    BY <2>1, <2>3, LookedUpConfirms DEF ConfirmInv
  <2>4. CASE SimilaritySearch
    BY <2>1, <2>4, SearchConfirms DEF ConfirmInv
  <2>5. CASE OfferOne
    BY <2>1, <2>5, OfferConfirms DEF ConfirmInv
  <2>6. CASE NextComponent
    BY <2>1, <2>6, NextConfirms DEF ConfirmInv, InRange, NextComponent
  <2>7. CASE EmitMatches
    <3>1. OrderInv'
      BY <2>1, <2>7 DEF EmitMatches, OrderInv
    <3>2. BehindInv'
      BY <2>1, <2>7 DEF EmitMatches, BehindInv, Sought, ConfirmedOffer
    <3>3. AtHandInv'
      BY <2>7 DEF EmitMatches, AtHandInv, FitInv
    <3> QED
      BY <3>1, <3>2, <3>3 DEF ConfirmInv
  <2>8. CASE RepoRaises
    BY <2>8 DEF RepoRaises, ConfirmInv
  <2>9. CASE UNCHANGED <<early, components, next, stage, lookups, todo, offered>>
    <3>1. OrderInv'
      BY <2>1, <2>9 DEF OrderInv
    <3>2. BehindInv'
      BY <2>1, <2>9 DEF BehindInv, Sought, ConfirmedOffer
    <3>3. AtHandInv'
      BY <2>1, <2>9 DEF AtHandInv, Sought, ConfirmedOffer
    <3> QED
      BY <3>1, <3>2, <3>3 DEF ConfirmInv
  <2> QED
    BY <2>2, <2>3, <2>4, <2>5, <2>6, <2>7, <2>8, <2>9
    DEF CalibrationNext, MatchingNext, RowAdded, SubmitFeedback, RecalibrateNow,
        RecalibratePartly, ApiRestart, calibrationVars, matchingVars
<1> QED
  BY <1>1, <1>2

LEMMA AlwaysConfirm == CalibrationSpec => [](ConfirmInv /\ InRange)
<1>1. CalibrationInit => ConfirmInv /\ InRange
  <2>1. CalibrationInit => InRange
    BY InitFit DEF CalibrationInit, MatchingInit, InRange, FitInv
  <2> QED
    BY <2>1, InitConfirm
<1> QED
  BY <1>1, StepConfirm, StepInRange, AlwaysFit, AlwaysReachable, PTL DEF CalibrationSpec

\* family_for, candidate_cpes: a row under a spelling of the component's family
\* has a CPE that is looked up.
LEMMA SpellingSought ==
  ASSUME NEW c, NEW r \in Row, r.part = "a", r.rest = AnyRest,
         FamilyFor(r.product) # NoFamily,
         FamilyFor(c.product) = FamilyFor(r.product),
         r.vendor \in Vendors[FamilyFor(r.product)], c.version = r.version
  PROVE  CpeOf(r) \in CandidateCpes(c)
<1> DEFINE f == FamilyFor(c.product)
<1>1. r.product \in Products[FamilyFor(r.product)]
  BY DEF FamilyFor
<1>2. c.version # NoVersion
  BY MatchingAssumption
<1>3. <<r.vendor, r.product>> \in Vendors[f] \X Products[f] /\ f # NoFamily
  BY <1>1
<1> HIDE DEF f
<1> QED
  BY <1>2, <1>3 DEF CandidateCpes, CpeOf, f

\* matcher.py:94-109: for any corpus, components and spellings, and whatever rows
\* arrive meanwhile, a row that was there when matching began, names the product
\* and version of a component and nothing beyond them is CONFIRMED, however the
\* component spelt it and whatever else points at its CVE.
THEOREM ExactIsConfirmed == CalibrationSpec => []ExactConfirmed
<1>1. FitInv /\ BestInv /\ ConfirmInv => ExactConfirmed
  <2> SUFFICES ASSUME FitInv, BestInv, ConfirmInv, NEW i \in 1..next - 1, NEW r \in early,
                      stage # "raised", r.part = "a", r.rest = AnyRest,
                      FamilyFor(r.product) # NoFamily,
                      FamilyFor(components[i].product) = FamilyFor(r.product),
                      r.vendor \in Vendors[FamilyFor(r.product)],
                      components[i].version = r.version
               PROVE  /\ best[r.cve] # NoMatch /\ best[r.cve].tier = "CONFIRMED"
                      /\ \A o \in offered : o.by = i => o.tier = "CONFIRMED"
    BY DEF ExactConfirmed
  <2>1. r \in Row /\ r.cve \in Cve
    BY DEF FitInv, Cve
  <2>2. r \in Sought(i)
    BY <2>1, SpellingSought DEF Sought
  <2>3. /\ ConfirmedOffer(r, i) \in offered
        /\ \A o \in offered : o.by = i => o.tier = "CONFIRMED"
    BY <2>2 DEF ConfirmInv, BehindInv
  <2> DEFINE o == ConfirmedOffer(r, i)
  <2>4. o.cve = r.cve /\ o.tier = "CONFIRMED" /\ o \in offered
    BY <2>3 DEF ConfirmedOffer
  <2> HIDE DEF o
  <2>5. best[r.cve] # NoMatch /\ ~Stronger(o, best[r.cve])
    BY <2>4 DEF BestInv, StrongestKept
  <2>6. best[r.cve].tier \in Tier
    BY <2>1, <2>5 DEF BestInv, Match
  <2>7. best[r.cve].tier = "CONFIRMED"
    BY <2>4, <2>5, <2>6 DEF Stronger, TierRank, Tier
  <2> QED
    BY <2>3, <2>5, <2>7
<1> QED
  BY <1>1, AlwaysFit, AlwaysBest, AlwaysConfirm, PTL

-----------------------------------------------------------------------------
(* FollowsFeedback.                                                        *)

\* recalibrate, resolve_families: for a family whose CVEs no other shares any
\* resolver gives it the same CVEs.
LEMMA ClearFamily ==
  ASSUME NEW f \in Family, Clear(f), NEW g \in Resolvers
  PROVE  {v \in Cve : g[v] = f} = OnlyOf(f)
<1>1. ASSUME NEW v \in Cve, g[v] = f PROVE v \in OnlyOf(f)
  BY <1>1, MatchingAssumption DEF Resolvers, Clear
<1>2. ASSUME NEW v \in OnlyOf(f) PROVE v \in Cve /\ g[v] = f
  BY <1>2 DEF Resolvers, OnlyOf
<1> QED
  BY <1>1, <1>2 DEF OnlyOf

\* adjust_for_fp_rate: a step has its direction, and so is never taken for the
\* base.
LEMMA StepsMove ==
  ASSUME StrictenDelta > 0, LoosenDelta > 0, 0 < Base.low, Base.low < 100
  PROVE  /\ Shifted(Base, StrictenDelta).low > Base.low
         /\ Shifted(Base, -LoosenDelta).low < Base.low
BY MatchingAssumption, CalibrationAssumption
DEF Shifted, Valid, Clamped, Lesser, Thresholds, Ordered

\* What a recalibration that read every verdict installs for a clear family.
LEMMA RecalibrationFollows ==
  ASSUME StrictenDelta > 0, LoosenDelta > 0, 0 < Base.low, Base.low < 100,
         OverridesReachable, FeedbackInv, NEW g \in Resolvers, Install(verdicts, g),
         NEW f \in Family, Clear(f),
         NEW wrong, wrong = Wrong(verdicts, OnlyOf(f)),
         NEW right, right = Confirmed(verdicts, OnlyOf(f)),
         wrong + right >= MinSamples
  PROVE  /\ wrong >= right => overrides'["api"][f].low > Base.low
         /\ 9 * wrong <= right => overrides'["api"][f].low < Base.low
<1>1. wrong \in Nat /\ right \in Nat
  BY FS_Subset, FS_CardinalityType DEF Wrong, Confirmed, FeedbackInv
<1> DEFINE decided == wrong + right
           new == AdjustForFpRate(Base, wrong, decided)
<1>2. Recalibrated(verdicts, g)[f] =
        IF decided < MinSamples \/ new = Base THEN overrides["api"][f] ELSE new
  BY ClearFamily DEF Recalibrated
<1>3. decided \in Nat /\ ~(decided < MinSamples) /\ decided > 0
  BY <1>1, CalibrationAssumption
<1>4. overrides'["api"][f] = Recalibrated(verdicts, g)[f]
  BY DEF Install, OverridesReachable, Process
<1>5. ASSUME wrong >= right PROVE overrides'["api"][f].low > Base.low
  <2>1. new = Shifted(Base, StrictenDelta)
    BY <1>1, <1>5 DEF AdjustForFpRate
  <2>2. new.low > Base.low /\ Base.low \in Int
    BY <2>1, StepsMove, MatchingAssumption DEF Thresholds
  <2>3. new # Base
    BY <2>2
  <2> HIDE DEF new, decided
  <2> QED
    BY <1>2, <1>3, <1>4, <2>2, <2>3
<1>6. ASSUME 9 * wrong <= right PROVE overrides'["api"][f].low < Base.low
  <2>1. new = Shifted(Base, -LoosenDelta)
    BY <1>1, <1>3, <1>6 DEF AdjustForFpRate
  <2>2. new.low < Base.low /\ Base.low \in Int
    BY <2>1, StepsMove, MatchingAssumption DEF Thresholds
  <2>3. new # Base
    BY <2>2
  <2> HIDE DEF new, decided
  <2> QED
    BY <1>2, <1>3, <1>4, <2>2, <2>3
<1> QED
  BY <1>5, <1>6

\* Before any verdict there is nothing to follow; afterwards the corpus the
\* families are read from does not change under the matcher.
LEMMA StepFollows ==
  ASSUME StrictenDelta > 0, LoosenDelta > 0, 0 < Base.low, Base.low < 100,
         OverridesReachable, FeedbackInv, FeedbackInv', FollowsFeedback,
         [CalibrationNext]_calibrationVars
  PROVE  FollowsFeedback'
<1>1. CASE calibrated' = {}
  <2>1. \A f \in Family, k \in Verdict :
          {r \in calibrated' : r.cve \in OnlyOf(f)' /\ r.verdict = k} = {}
    BY <1>1
  <2>2. 0 < MinSamples
    BY CalibrationAssumption
  <2> QED
    BY <1>1, <2>2, FS_EmptySet, CalibrationAssumption DEF FollowsFeedback
<1>2. CASE MatchingNext /\ UNCHANGED feedbackVars
  BY <1>1, <1>2, EmittedStays DEF FeedbackInv, feedbackVars
<1>3. CASE UNCHANGED <<corpus, overrides, calibrated>>
  BY <1>3 DEF FollowsFeedback, Clear, OnlyOf, FamiliesOf
<1>4. CASE RecalibrateNow
  <2>1. PICK g \in Resolvers : Install(verdicts, g)
    BY <1>4 DEF RecalibrateNow
  <2>2. calibrated' = verdicts /\ UNCHANGED corpus
    BY <1>4 DEF RecalibrateNow, matchingVars
  <2>3. \A f \in Family : /\ Clear(f)' <=> Clear(f)
                          /\ OnlyOf(f)' = OnlyOf(f)
    BY <2>2 DEF Clear, OnlyOf, FamiliesOf
  <2> SUFFICES ASSUME NEW f \in Family, Clear(f)'
               PROVE  LET judged(k) == Cardinality({r \in calibrated' :
                                          r.cve \in OnlyOf(f)' /\ r.verdict = k})
                          wrong == judged("false_positive")
                          right == judged("confirmed") IN
                      wrong + right >= MinSamples =>
                        /\ wrong >= right => overrides'["api"][f].low > Base.low
                        /\ 9 * wrong <= right => overrides'["api"][f].low < Base.low
    BY DEF FollowsFeedback
  <2>4. Clear(f) /\ OnlyOf(f)' = OnlyOf(f)
    BY <2>3
  <2> QED
    BY <2>1, <2>2, <2>4, RecalibrationFollows DEF Wrong, Confirmed
<1>5. CASE RecalibratePartly \/ ApiRestart
  BY <1>1, <1>5 DEF RecalibratePartly, ApiRestart
<1> QED
  BY <1>2, <1>3, <1>4, <1>5
  DEF CalibrationNext, SubmitFeedback, calibrationVars, feedbackVars, matchingVars

\* recalibrate, adjust_for_fp_rate: with steps that are not zero and a lowest
\* threshold strictly between the bounds, as the defaults have them, the last
\* recalibration that read everything made each clear family stricter or looser
\* as its verdicts say, for any table, resolver and history.
THEOREM FeedbackFollowed ==
  ASSUME StrictenDelta > 0, LoosenDelta > 0, 0 < Base.low, Base.low < 100
  PROVE  CalibrationSpec => []FollowsFeedback
<1>1. CalibrationInit => FollowsFeedback
  <2> SUFFICES ASSUME CalibrationInit PROVE FollowsFeedback
    OBVIOUS
  <2>1. calibrated = {}
    BY DEF CalibrationInit
  <2> QED
    BY <2>1, FS_EmptySet, CalibrationAssumption DEF FollowsFeedback
<1> QED
  BY <1>1, StepFollows, InitFeedback, StepFeedback, AlwaysReachable, PTL DEF CalibrationSpec

-----------------------------------------------------------------------------
(* Types of the matcher.                                                   *)

\* What a component's search has brought so far: exact matches have no score.
Few(S) == IsFiniteSet(S) /\ Cardinality(S) <= TopK
Scored(i) == {o \in offered \cup todo : o.by = i /\ o.score # NoScore}

StageInv ==
  /\ stage \in {"lookup", "search", "offer", "emitted", "raised"}
  /\ lookups \subseteq CpesOf(next)
LimitInv ==
  /\ \A o \in offered \cup todo : o.by \in 1..Len(components)
  /\ \A i \in 1..Len(components) : Few(Scored(i))

LEMMA NoneFew == Few({})
BY FS_EmptySet, MatchingAssumption DEF Few

LEMMA FewerFew ==
  ASSUME NEW S, Few(S), NEW T \in SUBSET S
  PROVE  Few(T)
<1>1. IsFiniteSet(S) /\ IsFiniteSet(T)
  BY FS_Subset DEF Few
<1>2. PICK m \in Nat, n \in Nat : Cardinality(S) = m /\ Cardinality(T) = n
  BY <1>1, FS_CardinalityType
<1>3. Cardinality(T) <= Cardinality(S)
  BY <1>1, FS_Subset
<1>4. n <= m /\ m <= TopK
  BY <1>2, <1>3 DEF Few
<1> QED
  BY <1>1, <1>2, <1>4, MatchingAssumption DEF Few

LEMMA InitLimit == CalibrationInit => StageInv /\ LimitInv
<1> SUFFICES ASSUME CalibrationInit PROVE StageInv /\ LimitInv
  OBVIOUS
<1>1. offered \cup todo = {} /\ stage = "lookup" /\ next = 1 /\ lookups = CpesOf(1)
  BY DEF CalibrationInit, MatchingInit
<1>2. \A i : Scored(i) = {}
  BY <1>1 DEF Scored
<1>3. \A i : Few(Scored(i))
  BY <1>2, NoneFew
<1> QED
  BY <1>1, <1>3 DEF StageInv, LimitInv

LEMMA StepStage ==
  ASSUME StageInv, [CalibrationNext]_calibrationVars
  PROVE  StageInv'
<1> USE DEF StageInv
<1>1. CASE ExactLookup \/ LookedUp \/ SimilaritySearch \/ OfferOne \/ EmitMatches
           \/ RepoRaises \/ RowAdded
  <2>1. /\ next' = next /\ components' = components /\ lookups' \subseteq lookups
        /\ stage' \in {"lookup", "search", "offer", "emitted", "raised"}
    BY <1>1 DEF ExactLookup, LookedUp, SimilaritySearch, OfferOne, EmitMatches, RepoRaises,
                RowAdded
  <2>2. CpesOf(next)' = CpesOf(next)
    BY <2>1 DEF CpesOf
  <2> QED
    BY <2>1, <2>2
<1>2. CASE NextComponent
  <2>1. stage' = "lookup" /\ lookups' = CpesOf(next + 1) /\ next' = next + 1
        /\ components' = components
    BY <1>2 DEF NextComponent
  <2>2. CpesOf(next)' = CpesOf(next + 1)
    BY <2>1 DEF CpesOf
  <2> QED
    BY <2>1, <2>2
<1>3. CASE UNCHANGED <<components, next, stage, lookups>>
  <2>1. CpesOf(next)' = CpesOf(next)
    BY <1>3 DEF CpesOf
  <2> QED
    BY <1>3, <2>1
<1> QED
  BY <1>1, <1>2, <1>3
  DEF CalibrationNext, MatchingNext, SubmitFeedback, RecalibrateNow, RecalibratePartly,
      ApiRestart, calibrationVars, matchingVars

\* LIMIT top_k: the hits of one search are at most TopK.
LEMMA HitsFew ==
  ASSUME IsFiniteSet(Row), FitInv, NEW c, NEW top \in TopRows(c)
  PROVE  Few(Hits(top, c))
<1> DEFINE Hit(r) == [cve |-> r.cve, score |-> Similarity[c][r], by |-> next,
                      tier |-> TierForScore(Similarity[c][r],
                                            ThresholdsFor("router", FamilyOf(r, c)))]
           hits == {Hit(r) : r \in top}
           hit == [r \in top |-> Hit(r)]
<1>1. /\ top \subseteq corpus
      /\ Cardinality(top) = IF Cardinality(corpus) < TopK THEN Cardinality(corpus) ELSE TopK
  BY DEF TopRows
<1>2. IsFiniteSet(corpus) /\ IsFiniteSet(top)
  BY <1>1, FS_Subset DEF FitInv
<1>3. PICK m \in Nat, n \in Nat : Cardinality(corpus) = m /\ Cardinality(top) = n
  BY <1>2, FS_CardinalityType
<1>few. n <= TopK
  BY <1>1, <1>3, MatchingAssumption
<1>4. hit \in Surjection(top, hits)
  <2> HIDE DEF Hit
  <2> QED
    BY DEF Surjection
<1> HIDE DEF hit, hits
<1>5. IsFiniteSet(hits) /\ Cardinality(hits) <= Cardinality(top)
  BY <1>2, <1>4, FS_Surjection
<1>6. PICK k \in Nat : Cardinality(hits) = k
  BY <1>5, FS_CardinalityType
<1>7. Few(hits)
  <2>1. k <= n
    BY <1>3, <1>5, <1>6
  <2> QED
    BY <1>few, <1>5, <1>6, <2>1, MatchingAssumption DEF Few
<1>8. Hits(top, c) \in SUBSET hits
  BY Zenon DEF Hits, hits
<1> QED
  BY <1>7, <1>8, FewerFew

LEMMA StepLimit ==
  ASSUME IsFiniteSet(Row), OverridesReachable, FitInv, InRange, ConfirmInv, LimitInv,
         [CalibrationNext]_calibrationVars
  PROVE  LimitInv'
<1>1. ASSUME components' = components, offered' \cup todo' \subseteq offered \cup todo
      PROVE  LimitInv'
  <2>1. \A i \in 1..Len(components) : Scored(i)' \in SUBSET Scored(i)
    BY <1>1 DEF Scored
  <2>2. \A i \in 1..Len(components) : Few(Scored(i)')
    BY <2>1, FewerFew DEF LimitInv
  <2> QED
    BY <1>1, <2>2 DEF LimitInv
<1>2. CASE ExactLookup
  <2>1. PICK cpe \in lookups :
          todo' = todo \cup
            {[cve |-> r.cve, tier |-> "CONFIRMED", score |-> NoScore, by |-> next]
               : r \in {q \in corpus : CpeOf(q) = cpe}}
    BY <1>2 DEF ExactLookup
  <2> DEFINE new == {[cve |-> r.cve, tier |-> "CONFIRMED", score |-> NoScore, by |-> next]
                       : r \in {q \in corpus : CpeOf(q) = cpe}}
  <2>2. todo' = todo \cup new /\ \A o \in new : o.by = next /\ o.score = NoScore
    BY <2>1, ExactOffers
  <2>3. /\ offered' = offered /\ components' = components
        /\ next \in 1..Len(components)
    BY <1>2 DEF ExactLookup, Running, FitInv
  <2> HIDE DEF new
  <2>4. \A i : Scored(i)' = Scored(i)
    BY <2>2, <2>3 DEF Scored
  <2>5. \A o \in offered' \cup todo' : o.by \in 1..Len(components)
    BY <2>2, <2>3 DEF LimitInv
  <2>6. \A i \in 1..Len(components) : Few(Scored(i)')
    BY Zenon, <2>4 DEF LimitInv
  <2> QED
    BY <2>3, <2>5, <2>6 DEF LimitInv
<1>3. CASE SimilaritySearch
  <2>1. PICK top \in TopRows(Current) : todo' = Hits(top, Current)
    BY <1>3 DEF SimilaritySearch
  <2>2. /\ offered' = offered /\ components' = components /\ stage = "search" /\ Running
        /\ next \in 1..Len(components)
    BY <1>3 DEF SimilaritySearch, Running, FitInv
  <2>3. todo = {} /\ \A o \in offered : o.by < next
    BY <2>2 DEF ConfirmInv, OrderInv
  <2>4. \A o \in todo' : o.by = next
    <3>1. top \in SUBSET corpus
      BY DEF TopRows
    <3> QED
      BY <2>1, <2>2, <3>1, HitsFit
  <2>5. \A o \in offered' \cup todo' : o.by \in 1..Len(components)
    BY <2>2, <2>4 DEF LimitInv
  <2>6. ASSUME NEW i \in 1..Len(components) PROVE Few(Scored(i)')
    <3>1. CASE i = next
      <4>1. next \in Nat /\ \A o \in offered : o.by \in Nat
        BY DEF FitInv, MatchOffer
      <4>2. Scored(i)' \in SUBSET Hits(top, Current)
        BY <2>1, <2>2, <2>3, <3>1, <4>1 DEF Scored
      <4> QED
        BY <4>2, HitsFew, FewerFew
    <3>2. CASE i # next
      <4>1. Scored(i)' = Scored(i)
        BY <2>2, <2>3, <2>4, <3>2 DEF Scored
      <4> QED
        BY Zenon, <4>1 DEF LimitInv
    <3> QED
      BY <3>1, <3>2
  <2> QED
    BY <2>2, <2>5, <2>6 DEF LimitInv
<1>4. CASE OfferOne
  BY <1>1, <1>4 DEF OfferOne
<1>5. CASE RepoRaises
  BY <1>1, <1>5 DEF RepoRaises
<1>6. CASE UNCHANGED <<components, offered, todo>>
  BY <1>1, <1>6
<1> QED
  BY <1>2, <1>3, <1>4, <1>5, <1>6
  DEF CalibrationNext, MatchingNext, LookedUp, NextComponent, EmitMatches, RowAdded,
      SubmitFeedback, RecalibrateNow, RecalibratePartly, ApiRestart, calibrationVars,
      matchingVars

\* Type correctness of the matcher over any finite corpus, and the LIMIT of
\* similarity_search: no component is reported for more than TopK rows that
\* only resemble it, however the corpus grows while it is matched.
THEOREM MatchingTypes == ASSUME IsFiniteSet(Row) PROVE CalibrationSpec => []MatchingTypeOK
<1>1. FitInv /\ InRange /\ StageInv /\ LimitInv /\ BestInv => MatchingTypeOK
  <2> SUFFICES ASSUME FitInv, InRange, StageInv, LimitInv, BestInv PROVE MatchingTypeOK
    OBVIOUS
  <2>1. /\ corpus \subseteq Row /\ early \subseteq corpus
        /\ components \in Seq(Component) /\ next \in 1..Len(components) + 1
        /\ stage \in {"lookup", "search", "offer", "emitted", "raised"}
        /\ lookups \subseteq CpesOf(next)
        /\ best \in [Cve -> {NoMatch} \cup Match]
    BY DEF FitInv, InRange, StageInv, BestInv
  <2>2. offered \cup todo \subseteq [cve : Cve, tier : Tier, score : 0..100 \cup {NoScore},
                                     by : 1..Len(components)]
    BY DEF FitInv, LimitInv, MatchOffer
  <2>3. DOMAIN components = 1..Len(components)
    BY <2>1
  <2>4. \A i \in DOMAIN components :
          Cardinality({o \in offered \cup todo : o.by = i /\ o.score # NoScore}) <= TopK
    BY Zenon, <2>3 DEF LimitInv, Few, Scored
  <2> QED
    BY <2>1, <2>2, <2>4 DEF MatchingTypeOK
<1> QED
  BY <1>1, InitLimit, StepStage, StepLimit, AlwaysFit, AlwaysReachable, AlwaysConfirm,
     AlwaysBest, PTL DEF CalibrationSpec
=============================================================================
