----------------------------- MODULE BloomTriage -----------------------------
(***************************************************************************)
(* Triage (services/ingestion/triage.py, magic.py) and the Bloom filter of *)
(* services/ingestion/bloom.py that several routers share in Redis.        *)
(*                                                                         *)
(* add_if_absent is not atomic: up to K GETBITs, up to the first zero,     *)
(* and then K SETBITs, each a command of its own.  What has not been       *)
(* triaged yet is given by the module that composes this one.              *)
(***************************************************************************)
EXTENDS Naturals, Sequences, FiniteSets, Functions

CONSTANTS
  Upload,           \* the jobs whose record may come in
  Image, Contents,  \* what the jobs may upload: a set of [Upload -> Image]
  SizeOf, FormatOf, \* the object's size, and the format its magic names
  DeclaredOf,       \* the payload size its header claims, 0 if it claims none
  UnknownFormat,    \* FormatOf of a header no magic matches
  MinBlob,          \* MIN_BLOB_BYTES
  SizeRatio,        \* DECLARED_SIZE_RATIO_LIMIT
  Bit, Positions,   \* Positions[i]: bit_positions of the digest of image i
  Triager,          \* router processes with the triage handler
  NoUpload,         \* the record of an idle router
  MaxTriageFaults   \* bound on failing calls, deaths and replays, together

ASSUME TriageAssumption ==
  /\ Contents \subseteq [Upload -> Image]
  /\ SizeOf \in [Image -> Nat] /\ DeclaredOf \in [Image -> Nat]
  /\ Positions \in [Image -> Seq(Bit)]
  /\ \A i \in Image : Positions[i] # << >>
  /\ NoUpload \notin Upload
  /\ MaxTriageFaults \in Nat

VARIABLES
  image,     \* image[j]: the bytes job j uploads
  bits,      \* bloom:firmware_hashes: the bits that are set
  triage,    \* triage[r]: the next call of router r
  record,    \* record[r]: the job it triages
  index,     \* index[r]: the position the filter loop has come to
  saw,       \* saw[r]: images already added when r took its record (history)
  added,     \* images for which some add_if_absent returned True (history)
  touched,   \* images for which some bit was set (history)
  verdict,   \* verdict[j]: what became of the record
  triageFaults

triageVars == <<image, bits, triage, record, index, saw, added, touched, verdict,
                triageFaults>>

Verdict == {"none", "clean", "rejected", "duplicate", "failed", "abandoned"}
BitsOf(i) == Range(Positions[i])
ImageAt(r) == image[record[r]]

TooSmall(i) == SizeOf[i] < MinBlob
Overstated(i) == DeclaredOf[i] > SizeOf[i] * SizeRatio
Precheck(i) == ~TooSmall(i) /\ FormatOf[i] # UnknownFormat /\ ~Overstated(i)

TriageInit ==
  /\ image \in Contents
  /\ added \in SUBSET {i \in Image : Precheck(i)} /\ touched = added
  /\ bits = UNION {BitsOf(i) : i \in added}
  /\ triage = [r \in Triager |-> "idle"]
  /\ record = [r \in Triager |-> NoUpload]
  /\ index = [r \in Triager |-> 1]
  /\ saw = [r \in Triager |-> {}]
  /\ verdict = [j \in Upload |-> "none"]
  /\ triageFaults = 0

\* The claim of the router loop lets one attempt at a record through.
Take(r, j) ==
  /\ triage[r] = "idle" /\ verdict[j] = "none"
  /\ \A q \in Triager : record[q] # j
  /\ triage' = [triage EXCEPT ![r] = "inspect"]
  /\ record' = [record EXCEPT ![r] = j]
  /\ saw' = [saw EXCEPT ![r] = added]
  /\ UNCHANGED <<image, bits, index, added, touched, verdict, triageFaults>>

End(r, v) ==
  /\ verdict' = [verdict EXCEPT ![record[r]] = v]
  /\ triage' = [triage EXCEPT ![r] = "idle"]
  /\ record' = [record EXCEPT ![r] = NoUpload]
  /\ index' = [index EXCEPT ![r] = 1]
  /\ saw' = [saw EXCEPT ![r] = {}]

\* Header, digest and size are read, then the pre-check decides; a rejected
\* image never reaches the filter.
Inspect(r) ==
  /\ triage[r] = "inspect"
  /\ IF Precheck(ImageAt(r))
     THEN /\ triage' = [triage EXCEPT ![r] = "get"]
          /\ UNCHANGED <<verdict, record, index, saw>>
     ELSE End(r, "rejected")
  /\ UNCHANGED <<image, bits, added, touched, triageFaults>>

AtBit(r) == Positions[ImageAt(r)][index[r]]
LastBit(r) == index[r] = Len(Positions[ImageAt(r)])
NextBit(r) == index' = [index EXCEPT ![r] = IF LastBit(r) THEN 1 ELSE @ + 1]

\* Faulty variant: any(...) in place of all(...).
GetBitAny(r) ==
  /\ triage[r] = "get"
  /\ IF AtBit(r) \in bits THEN End(r, "duplicate")
     ELSE /\ NextBit(r) /\ UNCHANGED <<verdict, record, saw>>
          /\ triage' = [triage EXCEPT ![r] = IF LastBit(r) THEN "set" ELSE "get"]
  /\ UNCHANGED <<image, bits, added, touched, triageFaults>>

\* One GETBIT of all(...): the first zero ends the loop.
GetBit(r) ==
  /\ triage[r] = "get"
  /\ \/ /\ AtBit(r) \notin bits
        /\ triage' = [triage EXCEPT ![r] = "set"]
        /\ index' = [index EXCEPT ![r] = 1]
        /\ UNCHANGED <<verdict, record, saw>>
     \/ /\ AtBit(r) \in bits /\ ~LastBit(r) /\ NextBit(r)
        /\ UNCHANGED <<triage, verdict, record, saw>>
     \/ AtBit(r) \in bits /\ LastBit(r) /\ End(r, "duplicate")
  /\ UNCHANGED <<image, bits, added, touched, triageFaults>>

\* Faulty variant: the loop over the positions leaves out the last one.
SetBitButLast(r) ==
  /\ triage[r] = "set"
  /\ bits' = IF LastBit(r) THEN bits ELSE bits \cup {AtBit(r)}
  /\ touched' = touched \cup {ImageAt(r)}
  /\ NextBit(r)
  /\ IF LastBit(r)
     THEN /\ triage' = [triage EXCEPT ![r] = "emit"]
          /\ added' = added \cup {ImageAt(r)}
     ELSE UNCHANGED <<triage, added>>
  /\ UNCHANGED <<image, record, saw, verdict, triageFaults>>

SetBit(r) ==
  /\ triage[r] = "set"
  /\ bits' = bits \cup {AtBit(r)} /\ touched' = touched \cup {ImageAt(r)}
  /\ NextBit(r)
  /\ IF LastBit(r)
     THEN /\ triage' = [triage EXCEPT ![r] = "emit"]
          /\ added' = added \cup {ImageAt(r)}
     ELSE UNCHANGED <<triage, added>>
  /\ UNCHANGED <<image, record, saw, verdict, triageFaults>>

EmitClean(r) ==
  /\ triage[r] = "emit" /\ End(r, "clean")
  /\ UNCHANGED <<image, bits, added, touched, triageFaults>>

\* MinIO, Redis or the broker raises ("failed": the record is dead-lettered),
\* or the process dies ("abandoned": its claim keeps the record from being
\* handled again).  The bits that are set stay set.
TriageStops(r) ==
  /\ triage[r] # "idle" /\ triageFaults < MaxTriageFaults
  /\ triageFaults' = triageFaults + 1
  /\ End(r, "failed") \/ End(r, "abandoned")
  /\ UNCHANGED <<image, bits, added, touched>>

\* The replay worker puts a dead letter back on firmware.uploaded, whether
\* triage failed or turned the record down.
ReplayUpload(j) ==
  /\ verdict[j] \in {"failed", "rejected", "duplicate"}
  /\ triageFaults < MaxTriageFaults /\ triageFaults' = triageFaults + 1
  /\ verdict' = [verdict EXCEPT ![j] = "none"]
  /\ UNCHANGED <<image, bits, triage, record, index, saw, added, touched>>

TriageStep(r) == Inspect(r) \/ GetBit(r) \/ SetBit(r) \/ EmitClean(r)
TriageNext ==
  \/ \E r \in Triager : TriageStep(r) \/ TriageStops(r)
  \/ \E j \in Upload : ReplayUpload(j)
=============================================================================
