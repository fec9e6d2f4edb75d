---------------------------- MODULE IntakeProofs ----------------------------
(***************************************************************************)
(* What the way in guarantees for any number of clients, jobs, repeated     *)
(* requests, failing calls and deaths of the gateway: a job is emitted at   *)
(* most once, and never before its bytes and its row are stored; and what   *)
(* the filter guarantees for any routers: an admitted image is not admitted *)
(* again, and a duplicate is owed to admitted images.                       *)
(***************************************************************************)
EXTENDS Intake, TLAPS

-----------------------------------------------------------------------------
(* The inductive invariant of the gateway.                                 *)

GatewayTypes ==
  /\ tab \in [Job -> Tab] /\ requests \in [Job -> Nat]
  /\ gw \in Call /\ cur \in Job
  /\ rows \subseteq Job /\ multipart \subseteq Job /\ parts \subseteq Job
  /\ objects \subseteq Job /\ outbox \subseteq Job
  /\ uploaded \in [Job -> Nat]

Serving(j, calls) == cur = j /\ gw \in calls
Emitted(j) == j \in outbox \/ uploaded[j] > 0

\* Before its create request is answered nothing of a job but its row exists,
\* and only that request is served.
Fresh(j) ==
  tab[j] \in {"new", "creating"} =>
    /\ requests[j] = 0 /\ j \notin multipart /\ j \notin parts /\ j \notin objects
    /\ ~Emitted(j)
    /\ ~Serving(j, {"lookup", "finish", "head", "produce", "flush"})

\* The upload id is the permission to emit: it is used up by the completion,
\* held by the handler until it has produced, and there is one per job.
OnePermission(j) ==
  /\ j \in multipart \/ Serving(j, {"head", "produce"}) => ~Emitted(j)
  /\ j \in multipart => ~Serving(j, {"head", "produce"})
  /\ j \in outbox => uploaded[j] = 0
  /\ uploaded[j] <= 1

InOrder(j) ==
  /\ Serving(j, {"insert", "initiate"}) => tab[j] = "creating"
  /\ Serving(j, {"initiate", "finish", "head", "produce"}) => j \in rows
  /\ Serving(j, {"produce"}) => j \in objects
  /\ j \in multipart \/ j \in parts => j \in rows
  /\ j \in objects => j \in parts
  /\ Emitted(j) => j \in objects

JobInv(j) == Fresh(j) /\ OnePermission(j) /\ InOrder(j)
GatewayInv == GatewayTypes /\ \A j \in Job : JobInv(j)

-----------------------------------------------------------------------------
(* It is inductive.                                                        *)

LEMMA InitGateway == GatewayInit => GatewayInv
BY DEF GatewayInit, GatewayInv, GatewayTypes, JobInv, Fresh, OnePermission,
       InOrder, Serving, Emitted, Tab, Call

LEMMA StepTypes ==
  ASSUME GatewayTypes, [GatewayNext]_gatewayVars
  PROVE  GatewayTypes'
<1> USE DEF GatewayTypes, Tab, Call, Goto, Answer, Completed, storage, broker, bounds
<1>1. ASSUME NEW i \in Job, SendCreate(i) PROVE GatewayTypes'
  BY <1>1 DEF SendCreate
<1>2. ASSUME NEW i \in Job, PutPart(i) PROVE GatewayTypes'
  BY <1>2 DEF PutPart
<1>3. ASSUME NEW i \in Job, PutFails(i) PROVE GatewayTypes'
  BY <1>3 DEF PutFails
<1>4. ASSUME NEW i \in Job, Resend(i) PROVE GatewayTypes'
  BY <1>4 DEF Resend
<1>5. ASSUME NEW i \in Job, AcceptCreate(i) PROVE GatewayTypes'
  BY <1>5 DEF AcceptCreate
<1>6. ASSUME NEW i \in Job, AcceptComplete(i) PROVE GatewayTypes'
  BY <1>6 DEF AcceptComplete
<1>7. ASSUME NEW i \in Job, Refuse(i) PROVE GatewayTypes'
  BY <1>7 DEF Refuse
<1>8. CASE InsertRow
  BY <1>8 DEF InsertRow
<1>9. CASE Initiate
  BY <1>9 DEF Initiate
<1>10. CASE LookUp
  BY <1>10 DEF LookUp
<1>11. CASE Finish
  BY <1>11 DEF Finish
<1>12. CASE ConfirmObject
  BY <1>12 DEF ConfirmObject
<1>13. CASE Produce
  BY <1>13 DEF Produce
<1>14. CASE Flush
  BY <1>14 DEF Flush
<1>15. CASE CallFails
  BY <1>15 DEF CallFails
<1>16. ASSUME NEW i \in Job, DeliverUpload(i) PROVE GatewayTypes'
  BY <1>16 DEF DeliverUpload
<1>17. ASSUME NEW i \in Job, OutboxExpires(i) PROVE GatewayTypes'
  BY <1>17 DEF OutboxExpires
<1>18. CASE GatewayCrash
  BY <1>18 DEF GatewayCrash
<1>19. CASE UNCHANGED gatewayVars
  BY <1>19 DEF gatewayVars
<1> QED
  BY <1>1, <1>2, <1>3, <1>4, <1>5, <1>6, <1>7, <1>8, <1>9, <1>10, <1>11,
     <1>12, <1>13, <1>14, <1>15, <1>16, <1>17, <1>18, <1>19
  DEF GatewayNext, Serve, Client

LEMMA StepJob ==
  ASSUME GatewayInv, [GatewayNext]_gatewayVars, NEW j \in Job
  PROVE  JobInv(j)'
<1>0. GatewayTypes /\ GatewayTypes' /\ JobInv(j)
  BY StepTypes DEF GatewayInv
<1> USE <1>0 DEF JobInv, Fresh, OnePermission, InOrder, Serving, Emitted,
                 GatewayTypes, Tab, Call, Goto, Answer, Completable, Completed,
                 storage, broker, bounds
<1>1. ASSUME NEW i \in Job, SendCreate(i) PROVE JobInv(j)'
  BY <1>1 DEF SendCreate
<1>2. ASSUME NEW i \in Job, PutPart(i) PROVE JobInv(j)'
  BY <1>2 DEF PutPart
<1>3. ASSUME NEW i \in Job, PutFails(i) PROVE JobInv(j)'
  BY <1>3 DEF PutFails
<1>4. ASSUME NEW i \in Job, Resend(i) PROVE JobInv(j)'
  BY <1>4 DEF Resend
<1>5. ASSUME NEW i \in Job, AcceptCreate(i) PROVE JobInv(j)'
  BY <1>5 DEF AcceptCreate
<1>6. ASSUME NEW i \in Job, AcceptComplete(i) PROVE JobInv(j)'
  BY <1>6 DEF AcceptComplete
<1>7. ASSUME NEW i \in Job, Refuse(i) PROVE JobInv(j)'
  BY <1>7 DEF Refuse
<1>8. CASE InsertRow
  BY <1>8 DEF InsertRow
<1>9. CASE Initiate
  BY <1>9 DEF Initiate
<1>10. CASE LookUp
  BY <1>10 DEF LookUp
<1>11. CASE Finish
  BY <1>11 DEF Finish
<1>12. CASE ConfirmObject
  BY <1>12 DEF ConfirmObject
<1>13. CASE Produce
  BY <1>13 DEF Produce
<1>14. CASE Flush
  BY <1>14 DEF Flush
<1>15. CASE CallFails
  BY <1>15 DEF CallFails
<1>16. ASSUME NEW i \in Job, DeliverUpload(i) PROVE JobInv(j)'
  BY <1>16 DEF DeliverUpload
<1>17. ASSUME NEW i \in Job, OutboxExpires(i) PROVE JobInv(j)'
  BY <1>17 DEF OutboxExpires
<1>18. CASE GatewayCrash
  BY <1>18 DEF GatewayCrash
<1>19. CASE UNCHANGED gatewayVars
  BY <1>19 DEF gatewayVars
<1> QED
  BY <1>1, <1>2, <1>3, <1>4, <1>5, <1>6, <1>7, <1>8, <1>9, <1>10, <1>11,
     <1>12, <1>13, <1>14, <1>15, <1>16, <1>17, <1>18, <1>19
  DEF GatewayNext, Serve, Client

LEMMA StepGateway ==
  GatewayInv /\ [GatewayNext]_gatewayVars => GatewayInv'
BY StepTypes, StepJob DEF GatewayInv

LEMMA AlwaysGateway == IntakeSpec => []GatewayInv
<1>1. IntakeInit => GatewayInv
  BY InitGateway DEF IntakeInit
<1>2. [IntakeNext]_intakeVars => [GatewayNext]_gatewayVars
  BY DEF IntakeNext, intakeVars
<1>3. GatewayInv /\ [IntakeNext]_intakeVars => GatewayInv'
  BY <1>2, StepGateway
<1> QED
  BY <1>1, <1>3, PTL DEF IntakeSpec

\* complete_upload: however often the completion is repeated and whatever
\* fails, a job gets at most one record.
THEOREM EmittedAtMostOnce == IntakeSpec => []EmitOnce
<1>1. GatewayInv => EmitOnce
  BY DEF GatewayInv, GatewayTypes, JobInv, OnePermission, Emitted, EmitOnce
<1> QED
  BY <1>1, AlwaysGateway, PTL

\* complete_upload: what is emitted has its row, its part and its object.
THEOREM EmitsStoredOnly == IntakeSpec => []EmittedIsStored
<1>1. GatewayInv => EmittedIsStored
  BY DEF GatewayInv, JobInv, InOrder, Emitted, EmittedIsStored
<1> QED
  BY <1>1, AlwaysGateway, PTL

\* create_upload: whatever MinIO holds of a job, its row is there.
THEOREM AlwaysTrackable == IntakeSpec => []Trackable
<1>1. GatewayInv => Trackable
  BY DEF GatewayInv, GatewayTypes, JobInv, InOrder, Trackable
<1> QED
  BY <1>1, AlwaysGateway, PTL

-----------------------------------------------------------------------------
(* The Bloom filter.                                                       *)

TriageTypes ==
  /\ image \in [Upload -> Image]
  /\ triage \in [Triager -> {"idle", "inspect", "get", "set", "emit"}]
  /\ record \in [Triager -> Upload \cup {NoUpload}]
  /\ index \in [Triager -> Nat] /\ saw \in [Triager -> SUBSET Image]
  /\ verdict \in [Upload -> Verdict]
  /\ added \subseteq Image /\ touched \subseteq Image

\* The bits are those of the images that were added, and of nothing but images
\* that passed the pre-check.
FilterInv ==
  /\ \A i \in added : BitsOf(i) \subseteq bits
  /\ bits \subseteq UNION {BitsOf(i) : i \in touched}
  /\ \A i \in touched : Precheck(i)
  /\ \A j \in Upload : verdict[j] = "duplicate" => BitsOf(image[j]) \subseteq bits

\* A router that has come to a position found or set the bits before it, and
\* it found a zero if it sets any.
TriagerInv(r) ==
  /\ triage[r] # "idle" => record[r] \in Upload
  /\ triage[r] \in {"get", "set", "emit"} => Precheck(ImageAt(r))
  /\ triage[r] \notin {"get", "set"} => index[r] = 1
  /\ triage[r] \in {"get", "set"} =>
       /\ index[r] \in 1..Len(Positions[ImageAt(r)])
       /\ \A k \in 1..index[r] - 1 : Positions[ImageAt(r)][k] \in bits
  /\ saw[r] \subseteq added
  /\ triage[r] \in {"set", "emit"} => ImageAt(r) \notin saw[r]

TriageInv == TriageTypes /\ FilterInv /\ \A r \in Triager : TriagerInv(r)

LEMMA InitTriage == TriageInit => TriageInv
<1> SUFFICES ASSUME TriageInit PROVE TriageInv
  OBVIOUS
<1>1. TriageTypes
  BY TriageAssumption DEF TriageInit, TriageTypes, Verdict
<1>2. FilterInv
  BY DEF TriageInit, FilterInv
<1>3. \A r \in Triager : TriagerInv(r)
  BY DEF TriageInit, TriagerInv
<1> QED
  BY <1>1, <1>2, <1>3 DEF TriageInv

\* The positions of an image are a nonempty sequence, and BitsOf its elements.
LEMMA PositionsLemma ==
  ASSUME NEW i \in Image
  PROVE  /\ Len(Positions[i]) \in Nat \ {0}
         /\ BitsOf(i) = {Positions[i][k] : k \in 1..Len(Positions[i])}
<1>1. Positions[i] \in Seq(Bit) /\ Positions[i] # << >>
  BY TriageAssumption
<1> QED
  BY <1>1 DEF BitsOf, Range

\* The end of a task leaves the filter alone and the router idle; a duplicate
\* is answered with every bit set.
LEMMA EndTask ==
  ASSUME TriageInv, NEW r \in Triager, NEW v \in Verdict, End(r, v),
         triage[r] # "idle",
         v = "duplicate" => BitsOf(ImageAt(r)) \subseteq bits,
         UNCHANGED <<image, bits, added, touched>>
  PROVE  TriageInv'
<1>1. TriageTypes'
  BY DEF TriageInv, TriageTypes, TriagerInv, End
<1>2. FilterInv'
  BY DEF TriageInv, TriageTypes, TriagerInv, FilterInv, End, ImageAt, Precheck,
         TooSmall, Overstated, BitsOf
<1>3. ASSUME NEW q \in Triager PROVE TriagerInv(q)'
  <2>1. TriagerInv(q)
    BY DEF TriageInv
  <2> QED
    BY <2>1 DEF TriageInv, TriageTypes, TriagerInv, End, ImageAt, Precheck,
         TooSmall, Overstated
<1> QED
  BY <1>1, <1>2, <1>3 DEF TriageInv

LEMMA StepInspect ==
  ASSUME TriageInv, NEW r \in Triager, Inspect(r)
  PROVE  TriageInv'
<1>1. CASE ~Precheck(ImageAt(r))
  BY <1>1, EndTask DEF Inspect, Verdict
<1>2. CASE Precheck(ImageAt(r))
  <2>1. TriageTypes' /\ FilterInv'
    BY <1>2 DEF TriageInv, TriageTypes, FilterInv, Inspect, Precheck, TooSmall,
                Overstated, BitsOf
  <2>2. index[r] = 1 /\ Len(Positions[ImageAt(r)]) \in Nat \ {0}
    BY PositionsLemma DEF TriageInv, TriageTypes, TriagerInv, ImageAt, Inspect
  <2>3. TriagerInv(r)'
    BY <1>2, <2>2 DEF TriageInv, TriageTypes, TriagerInv, Inspect, ImageAt,
                      Precheck, TooSmall, Overstated
  <2>4. ASSUME NEW q \in Triager, q # r PROVE TriagerInv(q)'
    BY <1>2, <2>4 DEF TriageInv, TriageTypes, TriagerInv, Inspect, ImageAt,
                      Precheck, TooSmall, Overstated
  <2> QED
    BY <2>1, <2>3, <2>4 DEF TriageInv
<1> QED
  BY <1>1, <1>2

LEMMA StepGetBit ==
  ASSUME TriageInv, NEW r \in Triager, GetBit(r)
  PROVE  TriageInv'
<1> DEFINE i == ImageAt(r)
           n == Len(Positions[i])
<1>1. /\ i \in Image /\ n \in Nat \ {0} /\ triage[r] = "get"
      /\ BitsOf(i) = {Positions[i][k] : k \in 1..n}
      /\ index[r] \in 1..n /\ record[r] \in Upload
      /\ \A k \in 1..index[r] - 1 : Positions[i][k] \in bits
  BY PositionsLemma DEF TriageInv, TriageTypes, TriagerInv, GetBit, ImageAt
<1>2. CASE AtBit(r) \in bits /\ LastBit(r) /\ End(r, "duplicate")
  <2>1. BitsOf(i) \subseteq bits
    BY <1>1, <1>2 DEF AtBit, LastBit
  <2> QED
    BY <1>1, <1>2, <2>1, EndTask DEF GetBit, Verdict
<1>3. CASE ~(AtBit(r) \in bits /\ LastBit(r))
  <2>1. TriageTypes'
    <3>1. CASE AtBit(r) \notin bits
      BY <3>1 DEF TriageInv, TriageTypes, GetBit
    <3>2. CASE AtBit(r) \in bits /\ ~LastBit(r)
      BY <1>1, <3>2 DEF TriageInv, TriageTypes, GetBit, NextBit
    <3> QED
      BY <1>3, <3>1, <3>2
  <2>4. FilterInv'
    BY <1>3 DEF TriageInv, FilterInv, GetBit, Precheck, TooSmall, Overstated, BitsOf
  <2>2. TriagerInv(r)'
    <3>1. CASE AtBit(r) \notin bits
      <4>1. i \notin saw[r]
        BY <1>1, <3>1 DEF TriageInv, TriagerInv, FilterInv, AtBit
      <4> QED
        BY <1>1, <3>1, <4>1 DEF TriageInv, TriageTypes, TriagerInv, GetBit, ImageAt,
                                Precheck, TooSmall, Overstated
    <3>2. CASE AtBit(r) \in bits
      BY <1>1, <1>3, <3>2 DEF TriageInv, TriageTypes, TriagerInv, GetBit, NextBit,
                     LastBit, AtBit, ImageAt, Precheck, TooSmall, Overstated
    <3> QED
      BY <3>1, <3>2
  <2>3. ASSUME NEW q \in Triager, q # r PROVE TriagerInv(q)'
    BY <1>3, <2>3 DEF TriageInv, TriageTypes, TriagerInv, GetBit, NextBit, ImageAt,
                      Precheck, TooSmall, Overstated
  <2> QED
    BY <2>1, <2>2, <2>3, <2>4 DEF TriageInv
<1> QED
  BY <1>2, <1>3 DEF GetBit

LEMMA StepSetBit ==
  ASSUME TriageInv, NEW r \in Triager, SetBit(r)
  PROVE  TriageInv'
<1> DEFINE i == ImageAt(r)
           n == Len(Positions[i])
<1>1. /\ i \in Image /\ n \in Nat \ {0} /\ triage[r] = "set"
      /\ BitsOf(i) = {Positions[i][k] : k \in 1..n}
      /\ index[r] \in 1..n /\ record[r] \in Upload
      /\ \A k \in 1..index[r] - 1 : Positions[i][k] \in bits
      /\ Precheck(i)
  BY PositionsLemma DEF TriageInv, TriageTypes, TriagerInv, SetBit, ImageAt
<1>2. bits \subseteq bits' /\ added \subseteq added' /\ touched' = touched \cup {i}
      /\ AtBit(r) \in bits' /\ AtBit(r) \in BitsOf(i)
      /\ bits' = bits \cup {AtBit(r)}
  BY <1>1 DEF SetBit, AtBit
<1>3. TriageTypes'
  <2>1. CASE LastBit(r)
    BY <1>1, <2>1 DEF TriageInv, TriageTypes, SetBit, NextBit
  <2>2. CASE ~LastBit(r)
    BY <1>1, <2>2 DEF TriageInv, TriageTypes, SetBit, NextBit
  <2> QED
    BY <2>1, <2>2
<1>4. FilterInv'
  <2>1. ASSUME NEW a \in added' PROVE BitsOf(a) \subseteq bits'
    <3>1. CASE a \in added
      BY <1>2, <3>1 DEF TriageInv, FilterInv
    <3>2. CASE a \notin added
      <4>1. a = i /\ index[r] = n
        BY <2>1, <3>2 DEF SetBit, LastBit
      <4> QED
        BY <1>1, <1>2, <4>1 DEF AtBit
    <3> QED
      BY <3>1, <3>2
  <2>2. bits' \subseteq UNION {BitsOf(a) : a \in touched'}
    BY <1>2 DEF TriageInv, FilterInv
  <2>3. UNCHANGED <<image, verdict>>
    BY DEF SetBit
  <2>4. ASSUME NEW j \in Upload, verdict'[j] = "duplicate"
        PROVE  BitsOf(image'[j]) \subseteq bits'
    BY <1>2, <2>3, <2>4 DEF TriageInv, FilterInv
  <2> QED
    BY <1>1, <1>2, <2>1, <2>2, <2>4 DEF TriageInv, FilterInv, Precheck, TooSmall,
                                        Overstated, BitsOf
<1>5. TriagerInv(r)'
  BY <1>1, <1>2 DEF TriageInv, TriageTypes, TriagerInv, SetBit, NextBit, LastBit,
                    AtBit, ImageAt, Precheck, TooSmall, Overstated
<1>6. ASSUME NEW q \in Triager, q # r PROVE TriagerInv(q)'
  BY <1>2, <1>6 DEF TriageInv, TriageTypes, TriagerInv, SetBit, NextBit, ImageAt,
                    Precheck, TooSmall, Overstated
<1> QED
  BY <1>3, <1>4, <1>5, <1>6 DEF TriageInv

LEMMA StepTake ==
  ASSUME TriageInv, NEW r \in Triager, NEW j \in Upload, Take(r, j)
  PROVE  TriageInv'
<1>1. TriageTypes' /\ FilterInv'
  BY DEF TriageInv, TriageTypes, FilterInv, Take, Precheck, TooSmall, Overstated,
         BitsOf
<1>2. ASSUME NEW q \in Triager PROVE TriagerInv(q)'
  BY DEF TriageInv, TriageTypes, TriagerInv, Take, ImageAt, Precheck, TooSmall,
         Overstated
<1> QED
  BY <1>1, <1>2 DEF TriageInv

LEMMA StepReplay ==
  ASSUME TriageInv, NEW j \in Upload, ReplayUpload(j)
  PROVE  TriageInv'
<1>1. TriageTypes' /\ FilterInv'
  BY DEF TriageInv, TriageTypes, FilterInv, ReplayUpload, Precheck, TooSmall,
         Overstated, BitsOf, Verdict
<1>2. ASSUME NEW q \in Triager PROVE TriagerInv(q)'
  BY DEF TriageInv, TriagerInv, ReplayUpload, ImageAt, Precheck, TooSmall, Overstated
<1> QED
  BY <1>1, <1>2 DEF TriageInv

LEMMA StepTriage ==
  ASSUME TriageInv, [IntakeNext]_intakeVars
  PROVE  TriageInv'
<1>1. ASSUME UNCHANGED triageVars PROVE TriageInv'
  BY <1>1 DEF TriageInv, TriageTypes, FilterInv, TriagerInv, triageVars, ImageAt,
              Precheck, TooSmall, Overstated, BitsOf
<1>2. ASSUME NEW r \in Triager, EmitClean(r) PROVE TriageInv'
  BY <1>2, EndTask DEF EmitClean, Verdict
<1>3. ASSUME NEW r \in Triager, TriageStops(r) PROVE TriageInv'
  BY <1>3, EndTask DEF TriageStops, Verdict
<1> QED
  BY <1>1, <1>2, <1>3, StepInspect, StepGetBit, StepSetBit, StepTake, StepReplay
  DEF IntakeNext, TriageNext, TriageStep, TakeUploaded, intakeVars

LEMMA AlwaysTriage == IntakeSpec => []TriageInv
<1>1. IntakeInit => TriageInv
  BY InitTriage DEF IntakeInit
<1> QED
  BY <1>1, StepTriage, PTL DEF IntakeSpec

\* add_if_absent, "never causes a false negative": for any images, positions
\* and routers, what was added before a record was taken is not added again.
THEOREM FilterKnowsTheAdded == IntakeSpec => []NoFalseNegative
<1>1. TriageInv => NoFalseNegative
  BY DEF TriageInv, TriagerInv, NoFalseNegative
<1> QED
  BY <1>1, AlwaysTriage, PTL

\* A duplicate owes all its bits to images that passed the pre-check.
THEOREM DuplicatesCovered == IntakeSpec => []DuplicateIsCovered
<1>1. TriageInv => DuplicateIsCovered
  BY DEF TriageInv, FilterInv, DuplicateIsCovered
<1> QED
  BY <1>1, AlwaysTriage, PTL

-----------------------------------------------------------------------------
(* Types of both parts.                                                    *)

\* What the two invariants do not say yet.
GatewayRest == lost \subseteq Job /\ resends \in Nat /\ faults \in Nat
TriageRest ==
  /\ image \in Contents /\ added \subseteq touched /\ triageFaults \in Nat
  /\ \A r \in Triager : triage[r] = "idle" => record[r] = NoUpload

LEMMA StepGatewayRest ==
  ASSUME GatewayInv, GatewayRest, [GatewayNext]_gatewayVars
  PROVE  GatewayRest'
<1> USE DEF GatewayRest
<1>1. \A j \in Job : Client(j) \/ DeliverUpload(j) => GatewayRest'
  BY DEF Client, SendCreate, PutPart, PutFails, Resend, DeliverUpload, broker, bounds
<1>2. \A j \in Job : OutboxExpires(j) => GatewayRest'
  BY DEF OutboxExpires
<1>3. Serve => GatewayRest'
  BY DEF Serve, AcceptCreate, AcceptComplete, Refuse, InsertRow, Initiate, LookUp,
         Finish, ConfirmObject, Produce, Flush, broker, bounds
<1>4. CallFails \/ GatewayCrash => GatewayRest'
  BY DEF CallFails, GatewayCrash, broker, GatewayInv, GatewayTypes
<1>5. UNCHANGED gatewayVars => GatewayRest'
  BY DEF gatewayVars, broker, bounds
<1> QED
  BY <1>1, <1>2, <1>3, <1>4, <1>5 DEF GatewayNext

LEMMA StepTriageRest ==
  ASSUME TriageInv, TriageRest, [IntakeNext]_intakeVars
  PROVE  TriageRest'
<1> USE DEF TriageRest
<1>1. ASSUME NEW r \in Triager, NEW v, End(r, v),
             UNCHANGED <<image, added, touched>>, triageFaults' \in Nat
      PROVE  TriageRest'
  BY <1>1 DEF End, TriageInv, TriageTypes
<1>2. ASSUME NEW r \in Triager, TriageStep(r) \/ TriageStops(r) PROVE TriageRest'
  <2>1. CASE Inspect(r)
    BY <1>1, <2>1 DEF Inspect, TriageInv, TriageTypes
  <2>2. CASE GetBit(r)
    BY <1>1, <2>2 DEF GetBit, TriageInv, TriageTypes
  <2>3. CASE SetBit(r)
    BY <2>3 DEF SetBit, TriageInv, TriageTypes
  <2>4. CASE EmitClean(r) \/ TriageStops(r)
    BY <1>1, <2>4 DEF EmitClean, TriageStops
  <2> QED
    BY <1>2, <2>1, <2>2, <2>3, <2>4 DEF TriageStep
<1>3. ASSUME NEW r \in Triager, NEW j \in Upload, Take(r, j) PROVE TriageRest'
  BY <1>3 DEF Take, TriageInv, TriageTypes
<1>4. ASSUME NEW j \in Upload, ReplayUpload(j) PROVE TriageRest'
  BY <1>4 DEF ReplayUpload
<1>5. CASE UNCHANGED triageVars
  BY <1>5 DEF triageVars
<1> QED
  BY <1>2, <1>3, <1>4, <1>5 DEF IntakeNext, TriageNext, TakeUploaded, intakeVars

\* Type correctness of the intake: a router holds a record exactly while it
\* triages, its loops stay within bit_positions, and no bit but a position of
\* an image is ever set.
THEOREM IntakeTypes == IntakeSpec => []IntakeTypeOK
<1>1. IntakeInit => GatewayRest /\ TriageRest
  BY DEF IntakeInit, GatewayInit, TriageInit, GatewayRest, TriageRest
<1>2. GatewayInv /\ GatewayRest /\ [IntakeNext]_intakeVars => GatewayRest'
  BY StepGatewayRest DEF IntakeNext, intakeVars
<1>3. GatewayInv /\ GatewayRest /\ TriageInv /\ TriageRest => IntakeTypeOK
  <2> SUFFICES ASSUME GatewayInv, GatewayRest, TriageInv, TriageRest PROVE IntakeTypeOK
    OBVIOUS
  <2>1. /\ tab \in [Job -> Tab] /\ requests \in [Job -> Nat]
        /\ gw \in Call /\ cur \in Job
        /\ rows \subseteq Job /\ multipart \subseteq Job /\ parts \subseteq Job
        /\ objects \subseteq Job /\ outbox \subseteq Job /\ lost \subseteq Job
        /\ uploaded \in [Job -> Nat]
        /\ resends \in Nat /\ faults \in Nat
    BY DEF GatewayInv, GatewayTypes, GatewayRest
  <2>2. bits \subseteq Bit
    <3>1. \A i \in Image : BitsOf(i) \subseteq Bit
      BY PositionsLemma, TriageAssumption
    <3> QED
      BY <3>1 DEF TriageInv, TriageTypes, FilterInv
  <2>3. \A r \in Triager : /\ triage[r] = "idle" <=> record[r] = NoUpload
                           /\ triage[r] \in {"get", "set"} =>
                                index[r] \in DOMAIN Positions[ImageAt(r)]
    <3> TAKE r \in Triager
    <3>1. TriagerInv(r)
      BY DEF TriageInv
    <3>2. triage[r] = "idle" <=> record[r] = NoUpload
      BY <3>1, TriageAssumption DEF TriagerInv, TriageRest
    <3>3. ASSUME triage[r] \in {"get", "set"} PROVE index[r] \in DOMAIN Positions[ImageAt(r)]
      <4>1. ImageAt(r) \in Image /\ index[r] \in 1..Len(Positions[ImageAt(r)])
        BY <3>1, <3>3 DEF TriagerInv, TriageInv, TriageTypes, ImageAt
      <4> QED
        BY <4>1, TriageAssumption
    <3> QED
      BY <3>2, <3>3
  <2>4. /\ image \in Contents /\ added \subseteq touched /\ touched \subseteq Image
        /\ triage \in [Triager -> {"idle", "inspect", "get", "set", "emit"}]
        /\ record \in [Triager -> Upload \cup {NoUpload}]
        /\ saw \in [Triager -> SUBSET Image]
        /\ verdict \in [Upload -> Verdict] /\ triageFaults \in Nat
    BY DEF TriageInv, TriageTypes, TriageRest
  <2> QED
    BY <2>1, <2>2, <2>3, <2>4 DEF IntakeTypeOK
<1> QED
  BY <1>1, <1>2, <1>3, StepTriageRest, AlwaysGateway, AlwaysTriage, PTL DEF IntakeSpec
=============================================================================
