--------------------------- MODULE ProgressProofs ---------------------------
(***************************************************************************)
(* For any archive, browsers, connections and restarts: a subscriber loses  *)
(* no snapshot but superseded ones, its display never goes back, and it     *)
(* never runs ahead of the pipeline.  And the walk below it: its leaves go  *)
(* out in depth-first order, no archive passes that a layer other than the  *)
(* watchdog must stop, and what goes out is bounded by the upload.          *)
(***************************************************************************)
EXTENDS Progress, SequenceTheorems, WellFoundedInduction, TLAPS

(* WalkTypeOK.                                                             *)

Frames == [node : Node, files : Seq(Node), next : Nat \ {0}]

\* Every call but the top one has a file under way.
Linked(calls) ==
  \A i \in 1..Len(calls) :
    /\ calls[i].next <= Len(calls[i].files) + 1
    /\ i < Len(calls) => calls[i + 1].node = calls[i].files[calls[i].next - 1]

\* A call that has not opened its node yet has its files before it, and
\* binwalk writes no more than is packed.
StackInv ==
  /\ stack \in Seq(Frames) /\ Linked(stack)
  /\ stage \in {"download", "open", "sandbox", "next", "leaf", "cleanup", "over"}
  /\ stage \in {"open", "sandbox", "next", "leaf"} => stack # << >>
  /\ stage \in {"open", "sandbox"} => Top.next = 1
  /\ stage = "sandbox" => written <= Len(Packed)
  /\ verdict \in Layer \cup {"none", "ok", "error"}

RestInv ==
  /\ root \in Archive
  /\ produced \in Nat /\ emitted \in Seq([leaf : Node, parent : Node])
  /\ workdir \in BOOLEAN /\ helper \in BOOLEAN /\ truncated \in BOOLEAN
  /\ child \in {"none", "running", "exited", "failed"}
  /\ written \in Nat /\ walkFaults \in Nat

WalkInv == StackInv /\ RestInv

LEMMA TopTyped ==
  ASSUME stack \in Seq(Frames), stack # << >>
  PROVE  Top \in Frames /\ Len(stack) \in Nat \ {0}
BY ElementOfSeq, EmptySeq DEF Top

LEMMA FrameTyped ==
  ASSUME NEW n \in Node
  PROVE  Frame(n) \in Frames /\ Linked(<<Frame(n)>>)
BY DEF Frame, Frames, Linked

\* A prefix of linked calls is linked, and so is one whose top call changes but
\* not its node.
LEMMA LinkedBelow ==
  ASSUME NEW s \in Seq(Frames), Linked(s), NEW t \in Seq(Frames), t # << >>,
         Len(t) <= Len(s), \A i \in 1..Len(t) - 1 : t[i] = s[i],
         t[Len(t)].node = s[Len(t)].node,
         t[Len(t)].next <= Len(t[Len(t)].files) + 1
  PROVE  Linked(t)
<1>1. Len(s) \in Nat /\ Len(t) \in Nat
  OBVIOUS
<1> SUFFICES ASSUME NEW i \in 1..Len(t)
             PROVE  /\ t[i].next <= Len(t[i].files) + 1
                    /\ i < Len(t) => t[i + 1].node = t[i].files[t[i].next - 1]
  BY DEF Linked
<1>2. CASE i = Len(t)
  BY <1>1, <1>2
<1>3. CASE i < Len(t)
  <2>1. i \in 1..Len(t) - 1 /\ i \in 1..Len(s) /\ i < Len(s) /\ t[i] = s[i]
    BY <1>1, <1>3
  <2>2. t[i + 1].node = s[i + 1].node
    <3>1. CASE i + 1 = Len(t)
      BY <3>1
    <3>2. CASE i + 1 # Len(t)
      BY <1>1, <1>3, <3>2
    <3> QED
      BY <3>1, <3>2
  <2> QED
    BY <1>3, <2>1, <2>2 DEF Linked
<1> QED
  BY <1>1, <1>2, <1>3

LEMMA LeaveStack ==
  ASSUME NEW v \in Layer \cup {"ok", "error"}, Leave(v)
  PROVE  StackInv'
BY DEF Leave, StackInv, Linked

LEMMA ReturnStack ==
  ASSUME StackInv, stack # << >>, Return
  PROVE  StackInv'
<1>0. stack \in Seq(Frames) /\ Linked(stack) /\ Len(stack) \in Nat \ {0}
  BY TopTyped DEF StackInv
<1>1. CASE Len(stack) = 1
  BY <1>1, LeaveStack DEF Return
<1>2. CASE Len(stack) # 1
  <2>1. /\ stack' = SubSeq(stack, 1, Len(stack) - 1) /\ stage' = "next"
        /\ verdict' = verdict
    BY <1>2 DEF Return, Front
  <2>2. Len(stack) > 1
    BY <1>0, <1>2
  <2>3. /\ stack' \in Seq(Frames) /\ Len(stack') = Len(stack) - 1
        /\ \A i \in 1..Len(stack') : stack'[i] = stack[i]
    BY <1>0, <2>1, <2>2
  <2>4. Linked(stack')
    BY <1>0, <2>2, <2>3, SMTT(40) DEF Linked
  <2>5. stack' # << >>
    BY <2>2, <2>3, EmptySeq
  <2> QED
    BY <2>1, <2>3, <2>4, <2>5 DEF StackInv
<1> QED
  BY <1>1, <1>2

LEMMA OpenedStack ==
  ASSUME StackInv, stack # << >>, Top.next = 1, NEW files \in Seq(Node), Opened(files)
  PROVE  StackInv'
<1> DEFINE n == Len(stack)
           top == [stack[n] EXCEPT !.files = files]
<1>1. /\ stack' = [stack EXCEPT ![n] = top] /\ verdict' = verdict
      /\ stage' \in {"leaf", "next"}
  BY DEF Opened
<1>2. /\ stack \in Seq(Frames) /\ Linked(stack) /\ n \in Nat \ {0}
      /\ stack[n] \in Frames /\ stack[n].next = 1
  BY TopTyped DEF StackInv, Top
<1>3. /\ top \in Frames /\ top.next = 1 /\ top.files = files
      /\ top.node = stack[n].node
  BY <1>2 DEF Frames
<1> HIDE DEF top
<1>4. /\ stack' \in Seq(Frames) /\ Len(stack') = n /\ stack'[n] = top
      /\ \A i \in 1..n - 1 : stack'[i] = stack[i]
  BY <1>1, <1>2, <1>3
<1>5. stack' # << >>
  BY <1>2, <1>4, EmptySeq
<1>6. Linked(stack')
  <2>1. Len(files) \in Nat
    OBVIOUS
  <2> QED
    BY <1>2, <1>3, <1>4, <1>5, <2>1, LinkedBelow
<1> QED
  BY <1>1, <1>4, <1>5, <1>6 DEF StackInv

\* A call of _recurse for the next file.
LEMMA PushedStack ==
  ASSUME StackInv, stage = "next", Top.next <= Len(Top.files),
         stack' = Append([stack EXCEPT ![Len(stack)].next = @ + 1],
                         Frame(Top.files[Top.next])),
         stage' = "open", verdict' = verdict
  PROVE  StackInv'
<1> DEFINE n == Len(stack)
           top == [stack[n] EXCEPT !.next = @ + 1]
           file == Top.files[Top.next]
           below == [stack EXCEPT ![n] = top]
<1>1. stack' = Append(below, Frame(file))
  OBVIOUS
<1>2. /\ stack \in Seq(Frames) /\ Linked(stack) /\ n \in Nat \ {0}
      /\ stack[n] \in Frames /\ Top = stack[n]
  BY TopTyped DEF StackInv, Top
<1>3. /\ top \in Frames /\ top.next = Top.next + 1 /\ top.files = Top.files
      /\ top.node = Top.node /\ Top.next \in 1..Len(Top.files)
      /\ Len(Top.files) \in Nat /\ Top.files \in Seq(Node)
  BY <1>2 DEF Frames
<1>4. file \in Node
  BY <1>3, ElementOfSeq
<1>5. Frame(file) \in Frames /\ Frame(file).node = file /\ Frame(file).next = 1
      /\ Len(Frame(file).files) = 0
  BY <1>4 DEF Frame, Frames
<1> HIDE DEF top, file
<1>6. /\ below \in Seq(Frames) /\ Len(below) = n /\ below[n] = top
      /\ \A i \in 1..n - 1 : below[i] = stack[i]
  BY <1>2, <1>3
<1>7. Linked(below)
  <2>1. below # << >>
    BY <1>2, <1>6, EmptySeq
  <2>2. top.next <= Len(top.files) + 1 /\ top.node = stack[n].node
    BY <1>2, <1>3
  <2> HIDE DEF below
  <2> QED
    BY <1>2, <1>6, <2>1, <2>2, LinkedBelow
<1> HIDE DEF below
<1>8. /\ stack' \in Seq(Frames) /\ Len(stack') = n + 1 /\ stack'[n + 1] = Frame(file)
      /\ \A i \in 1..n : stack'[i] = below[i]
  <2> DEFINE grown == Append(below, Frame(file))
  <2>1. /\ grown \in Seq(Frames) /\ Len(grown) = Len(below) + 1
        /\ \A i \in 1..Len(below) : grown[i] = below[i]
        /\ grown[Len(below) + 1] = Frame(file)
    BY <1>5, <1>6, AppendProperties
  <2>2. stack' = grown
    BY <1>1
  <2>3. Len(below) = n
    BY <1>6
  <2> HIDE DEF grown, n
  <2>4. /\ grown \in Seq(Frames) /\ Len(grown) = n + 1 /\ grown[n + 1] = Frame(file)
        /\ \A i \in 1..n : grown[i] = below[i]
    BY <2>1, <2>3
  <2> QED
    BY Zenon, <2>2, <2>4
<1>9. Linked(stack')
  <2> SUFFICES ASSUME NEW i \in 1..n + 1
               PROVE  /\ stack'[i].next <= Len(stack'[i].files) + 1
                      /\ i < n + 1 => stack'[i + 1].node
                                      = stack'[i].files[stack'[i].next - 1]
    BY <1>8 DEF Linked
  <2>1. CASE i = n + 1
    <3>1. stack'[i] = Frame(file) /\ ~(i < n + 1)
      BY <1>2, <1>8, <2>1
    <3>2. Frame(file).next = 1 /\ Frame(file).files = << >>
      BY DEF Frame
    <3> QED
      BY <3>1, <3>2
  <2>2. CASE i = n
    <3>1. stack'[i] = top /\ stack'[i + 1].node = file
      BY <1>2, <1>5, <1>6, <1>8, <2>2
    <3>2. top.files[top.next - 1] = file
      BY <1>3 DEF file
    <3>3. top.next <= Len(top.files) + 1
      BY <1>3
    <3>4. stack'[i].next <= Len(stack'[i].files) + 1
      BY <3>1, <3>3
    <3>5. stack'[i + 1].node = stack'[i].files[stack'[i].next - 1]
      BY <3>1, <3>2
    <3> QED
      BY <3>4, <3>5
  <2>3. CASE i < n
    <3>1. i \in 1..Len(below) /\ i + 1 \in 1..n
      BY <1>2, <1>6, <2>3
    <3> QED
      BY <1>6, <1>7, <1>8, <2>3, <3>1 DEF Linked
  <2>4. i = n + 1 \/ i = n \/ i < n
    BY <1>2
  <2> QED
    BY <2>1, <2>2, <2>3, <2>4, Zenon
<1>10. stack' # << >> /\ Top'.next = 1
  BY <1>2, <1>5, <1>8, EmptySeq DEF Top
<1> QED
  BY <1>8, <1>9, <1>10 DEF StackInv

LEMMA PackedTyped ==
  ASSUME StackInv, stack # << >>
  PROVE  /\ Top.node \in Node /\ Packed \in Seq(Node) /\ Len(Packed) \in Nat
         /\ \A k \in Nat : k <= Len(Packed) => SubSeq(Packed, 1, k) \in Seq(Node)
<1>1. Top.node \in Node
  BY TopTyped DEF StackInv, Frames
<1>2. Packed \in Seq(Node)
  BY <1>1, WalkAssumption DEF Packed
<1> QED
  BY <1>1, <1>2

LEMMA StepStack ==
  ASSUME WalkInv, WalkNext
  PROVE  StackInv'
<1> USE DEF WalkInv
<1>1. CASE Download
  <2>1. root \in Node
    BY WalkAssumption DEF RestInv
  <2>2. /\ stack' = <<Frame(root)>> /\ stack' \in Seq(Frames) /\ Linked(stack')
        /\ stack' # << >> /\ Top'.next = 1 /\ stage' = "open" /\ verdict' = verdict
    BY <1>1, <2>1, FrameTyped DEF Download, Top, Frame
  <2> QED
    BY <2>2 DEF StackInv
<1>2. CASE Open
  <2>1. /\ stack # << >> /\ Top.next = 1 /\ Top.node \in Node
        /\ Kids[Top.node] \in Seq(Node) /\ << >> \in Seq(Node)
    BY <1>2, PackedTyped DEF Open, StackInv, Packed
  <2>2. ASSUME Leave("recursion_depth") PROVE StackInv'
    BY <2>2, LeaveStack DEF Layer
  <2>3. ASSUME ExtractNative(Top.node) PROVE StackInv'
    <3>1. ASSUME Leave("decompression_ratio") PROVE StackInv'
      BY <3>1, LeaveStack DEF Layer
    <3>2. ASSUME Escape[Top.node] # "no", Leave(Escape[Top.node]) PROVE StackInv'
      <4>1. Escape[Top.node] \in Layer
        BY <2>1, <3>2, WalkAssumption DEF Layer
      <4> QED
        BY <3>2, <4>1, LeaveStack
    <3> QED
      BY <2>1, <2>3, <3>1, <3>2, OpenedStack DEF ExtractNative
  <2>4. ASSUME Opened(<< >>) PROVE StackInv'
    BY <2>1, <2>4, OpenedStack
  <2>5. ASSUME stage' = "sandbox", written' = 0, UNCHANGED <<stack, verdict>>
        PROVE  StackInv'
    <3>1. Packed' = Packed /\ Top' = Top /\ Len(Packed) \in Nat
      BY <2>1, <2>5, PackedTyped DEF Packed, Top
    <3> QED
      BY <2>1, <2>5, <3>1 DEF StackInv
  <2> QED
    BY <1>2, <2>2, <2>3, <2>4, <2>5 DEF Open
<1>3. CASE NextFile
  <2>1. ASSUME Leave("decompression_ratio") PROVE StackInv'
    BY <2>1, LeaveStack DEF Layer
  <2>2. ASSUME Return PROVE StackInv'
    BY <1>3, <2>2, ReturnStack DEF NextFile, StackInv
  <2>3. ASSUME ~(Top.next > Len(Top.files)) PROVE Top.next <= Len(Top.files)
    <3>1. Top \in Frames
      BY <1>3, TopTyped DEF NextFile, StackInv
    <3>2. Top.next \in Nat /\ Len(Top.files) \in Nat
      BY <3>1 DEF Frames
    <3> QED
      BY <2>3, <3>2
  <2> QED
    BY <1>3, <2>1, <2>2, <2>3, PushedStack DEF NextFile
<1>4. CASE Leaf
  BY <1>4, ReturnStack DEF Leaf, StackInv
<1>5. CASE Cleanup
  BY <1>5 DEF Cleanup, StackInv
<1>6. CASE Collect
  <2>1. ASSUME Leave("symlink") PROVE StackInv'
    BY <2>1, LeaveStack DEF Layer
  <2>2. /\ stack # << >> /\ Top.next = 1
        /\ SubSeq(Packed, 1, written) \in Seq(Node)
    BY <1>6, PackedTyped DEF Collect, StackInv, RestInv
  <2> QED
    BY <1>6, <2>1, <2>2, OpenedStack DEF Collect
<1>7. CASE Timeout \/ Watchdog \/ CommunicateExpires \/ WaitExpires \/ CallRaises
  BY <1>7, LeaveStack DEF Timeout, Watchdog, CommunicateExpires, WaitExpires, CallRaises, Layer
<1>8. CASE ChildWorks
  <2>1. /\ UNCHANGED <<stack, stage, verdict>> /\ Packed' = Packed /\ Top' = Top
        /\ written' \in {written, written + 1}
        /\ written' = written + 1 => written < Len(Packed)
        /\ stage = "sandbox" /\ Len(Packed) \in Nat /\ written \in Nat
    BY <1>8, PackedTyped DEF ChildWorks, Packed, Top, StackInv, RestInv
  <2> QED
    BY <2>1 DEF StackInv
<1>9. CASE UNCHANGED <<stack, stage, verdict, written>>
  BY <1>9 DEF StackInv, Packed, Top
<1> QED
  BY <1>1, <1>2, <1>3, <1>4, <1>5, <1>6, <1>7, <1>8, <1>9
  DEF WalkNext, Handler, Poll, ChildFails, HelperEnds

LEMMA ContainerTyped ==
  ASSUME StackInv, stack # << >>
  PROVE  Container \in Node
<1>1. stack \in Seq(Frames) /\ Len(stack) \in Nat \ {0} /\ Top \in Frames
  BY TopTyped DEF StackInv
<1>2. CASE Depth = 0
  BY <1>1, <1>2 DEF Container, Frames
<1>3. CASE Depth # 0
  <2>1. Len(stack) # 1
    BY <1>1, <1>3 DEF Depth
  <2>2. \A d \in Nat \ {0, 1} : d - 1 \in 1..d
    OBVIOUS
  <2>3. Len(stack) - 1 \in 1..Len(stack)
    <3>1. Len(stack) \in Nat \ {0, 1}
      BY <1>1, <2>1
    <3> QED
      BY <3>1, <2>2
  <2>4. stack[Len(stack) - 1] \in Frames
    BY <1>1, <2>3, ElementOfSeq
  <2> QED
    BY <1>3, <2>4 DEF Container, Frames
<1> QED
  BY <1>2, <1>3

LEMMA StepRest ==
  ASSUME WalkInv, WalkNext
  PROVE  RestInv'
<1> USE DEF WalkInv, RestInv
<1>1. CASE NextFile
  <2>1. CASE Top.next > Len(Top.files)
    BY <1>1, <2>1 DEF NextFile, sandboxVars
  <2>2. CASE ~(Top.next > Len(Top.files))
    <3>1. Top \in Frames
      BY <1>1, TopTyped DEF NextFile, StackInv
    <3>2. Top.next \in 1..Len(Top.files) /\ Top.files \in Seq(Node)
      BY <2>2, <3>1 DEF Frames
    <3>3. Size[Top.files[Top.next]] \in Nat
      BY <3>2, ElementOfSeq, WalkAssumption
    <3> QED
      BY <1>1, <2>2, <3>3 DEF NextFile, sandboxVars
  <2> QED
    BY <2>1, <2>2
<1>2. CASE Leaf
  <2>1. Top.node \in Node /\ Container \in Node
    BY <1>2, PackedTyped, ContainerTyped DEF Leaf, StackInv
  <2> QED
    BY <1>2, <2>1 DEF Leaf, sandboxVars
<1>3. CASE Cleanup
  BY <1>3 DEF Cleanup, sandboxVars
<1>4. CASE Open
  BY <1>4 DEF Open, sandboxVars
<1>5. CASE Download \/ CallRaises \/ HelperEnds
  <2>1. CASE Download
    BY <2>1 DEF Download, sandboxVars
  <2>2. CASE CallRaises
    <3>1. walkFaults' \in Nat
      BY <2>2 DEF CallRaises
    <3> QED
      BY <2>2, <3>1 DEF CallRaises, sandboxVars
  <2>3. CASE HelperEnds
    BY <2>3 DEF HelperEnds
  <2> QED
    BY <1>5, <2>1, <2>2, <2>3
<1>6. CASE Poll
  <2>1. CASE Timeout
    BY <2>1 DEF Timeout, Kill
  <2>2. CASE Watchdog
    BY <2>2 DEF Watchdog, Kill
  <2>3. CASE Collect
    <3>1. truncated' \in BOOLEAN
      BY <2>3 DEF Collect
    <3> QED
      BY <2>3, <3>1 DEF Collect
  <2>4. CASE CommunicateExpires
    BY <2>4 DEF CommunicateExpires
  <2> QED
    BY <1>6, <2>1, <2>2, <2>3, <2>4 DEF Poll
<1>7. CASE ChildWorks \/ ChildFails
  BY <1>7 DEF ChildWorks, ChildFails
<1>8. CASE WaitExpires
  <2>1. walkFaults' \in Nat
    BY <1>8 DEF WaitExpires
  <2> QED
    BY <1>8, <2>1 DEF WaitExpires
<1> QED
  BY <1>1, <1>2, <1>3, <1>4, <1>5, <1>6, <1>7, <1>8 DEF WalkNext, Handler

LEMMA AlwaysWalk == ProgressSpec => []WalkInv
<1>1. ProgressInit => WalkInv
  <2> SUFFICES ASSUME WalkInit PROVE WalkInv
    BY DEF ProgressInit
  <2>1. /\ stack \in Seq(Frames) /\ emitted \in Seq([leaf : Node, parent : Node])
    BY EmptySeq DEF WalkInit
  <2>2. StackInv
    BY <2>1, EmptySeq DEF WalkInit, StackInv, Linked
  <2>3. RestInv
    BY <2>1 DEF WalkInit, RestInv
  <2> QED
    BY <2>2, <2>3 DEF WalkInv
<1>2. WalkInv /\ UNCHANGED walkVars => WalkInv'
  BY DEF WalkInv, StackInv, RestInv, walkVars, sandboxVars, Packed, Top
<1>3. WalkInv /\ WalkNext => WalkInv'
  BY StepStack, StepRest DEF WalkInv
<1>4. [ProgressNext]_progressVars => WalkNext \/ UNCHANGED walkVars
  BY DEF ProgressNext, progressVars, Match, Complete, Read
<1>5. WalkInv /\ [ProgressNext]_progressVars => WalkInv'
  BY <1>2, <1>3, <1>4
<1> QED
  BY <1>1, <1>5, PTL DEF ProgressSpec

\* _recurse: for any archive, limits, binwalk and failures, every call below
\* the top one has a file under way, and its callee works on that file.
THEOREM WalkTypes == ProgressSpec => []WalkTypeOK
<1>1. WalkInv => WalkTypeOK
  <2> SUFFICES ASSUME WalkInv, NEW i \in DOMAIN stack
               PROVE  /\ stack[i].node \in Node /\ stack[i].files \in Seq(Node)
                      /\ stack[i].next \in 1..Len(stack[i].files) + 1
                      /\ i < Len(stack) =>
                           stack[i + 1].node = stack[i].files[stack[i].next - 1]
    BY DEF WalkInv, StackInv, RestInv, WalkTypeOK
  <2>1. stack \in Seq(Frames) /\ Linked(stack) /\ i \in 1..Len(stack)
    BY DEF WalkInv, StackInv
  <2>2. stack[i] \in Frames
    BY <2>1, ElementOfSeq
  <2> QED
    BY <2>1, <2>2 DEF Linked, Frames
<1> QED
  BY <1>1, AlwaysWalk, PTL

-----------------------------------------------------------------------------
(* The notifier's types, and LatestWins.                                   *)

LEMMA InitNotifier == ProgressInit => NotifierTypeOK /\ LatestWins
BY DEF ProgressInit, NotifierInit, NotifierTypeOK, LatestWins, NothingSeen, Snapshot,
       Kind

\* The first snapshot the loop has to publish, and the rest of them.
LEMMA Callbacks ==
  ASSUME callbacks \in Seq(Snapshot), callbacks # << >>
  PROVE  /\ Head(callbacks) \in Snapshot /\ Tail(callbacks) \in Seq(Snapshot)
         /\ Head(callbacks) # NoSnapshot
BY NotifierAssumption

LEMMA CountsTyped ==
  ASSUME counts \in Snapshot, NEW k \in Kind
  PROVE  Folded(k) \in Snapshot
<1>1. CASE k = "extracted"
  BY <1>1 DEF Snapshot, Folded
<1>2. CASE k = "matched"
  BY <1>2 DEF Snapshot, Folded
<1>3. CASE k = "completed"
  BY <1>3 DEF Snapshot, Folded
<1>4. CASE k = "dlq"
  BY <1>4 DEF Folded
<1> QED
  BY <1>1, <1>2, <1>3, <1>4 DEF Kind

LEMMA StepNotifierTypes ==
  ASSUME WalkInv, NotifierTypeOK, [ProgressNext]_progressVars
  PROVE  NotifierTypeOK'
<1> USE DEF NotifierTypeOK
<1>0. Ends \in [Kind -> Nat]
  <2>1. Len(emitted) \in Nat
    BY DEF WalkInv, RestInv
  <2>2. \A k \in Kind : OnTopic(k) \in Nat
    BY <2>1 DEF OnTopic, Kind
  <2> QED
    BY <2>2 DEF Ends
<1>1. CASE UNCHANGED <<notifierVars, laterVars>>
  BY <1>1 DEF notifierVars, hub, laterVars
<1>2. CASE Match \/ Complete
  BY <1>2 DEF Match, Complete, notifierVars, hub
<1>3. ASSUME NEW k \in Kind, Read(k) PROVE NotifierTypeOK'
  <2>1. counts' = Folded(k) /\ counts' \in Snapshot
    BY <1>3, CountsTyped DEF Read, ReadEvent
  <2>2. callbacks' \in Seq(Snapshot) /\ position' \in [Kind -> Nat]
    BY <1>3, <2>1 DEF Read, ReadEvent
  <2> QED
    BY <1>3, <2>1, <2>2 DEF Read, ReadEvent, laterVars
<1> SUFFICES ASSUME UNCHANGED laterVars, NotifierNext(Ends) PROVE NotifierTypeOK'
  BY <1>1, <1>2, <1>3 DEF ProgressNext, progressVars
<1> USE DEF laterVars
<1>4. CASE Publish
  BY <1>4, Callbacks DEF Publish, Offer, Subscribed
<1>5. CASE NotifierRestart(Ends)
  <2>1. position' \in [Kind -> Nat]
    BY <1>0, <1>5, NotifierAssumption DEF NotifierRestart
  <2> QED
    BY <1>5, <2>1 DEF NotifierRestart, NothingSeen, Snapshot
<1>6. ASSUME NEW b \in Browser, Connect(b) PROVE NotifierTypeOK'
  BY <1>6 DEF Connect
<1>7. ASSUME NEW b \in Browser, Get(b) PROVE NotifierTypeOK'
  BY <1>7 DEF Get
<1>8. ASSUME NEW b \in Browser, SendJson(b) PROVE NotifierTypeOK'
  BY <1>8 DEF SendJson
<1>9. ASSUME NEW b \in Browser, SendToClosed(b) PROVE NotifierTypeOK'
  BY <1>9 DEF SendToClosed, Unsubscribe
<1>10. ASSUME NEW b \in Browser, CloseTab(b) PROVE NotifierTypeOK'
  BY <1>10, SMTT(40) DEF CloseTab, Unsubscribe
<1> QED
  BY <1>4, <1>5, <1>6, <1>7, <1>8, <1>9, <1>10 DEF NotifierNext, Loop

LEMMA StepLatest ==
  ASSUME NotifierTypeOK, LatestWins, [ProgressNext]_progressVars
  PROVE  LatestWins'
<1> USE DEF NotifierTypeOK, LatestWins
<1>1. CASE UNCHANGED notifierVars
  BY <1>1 DEF notifierVars, hub
<1>2. ASSUME NEW k \in Kind, Read(k) PROVE LatestWins'
  BY <1>2 DEF Read, ReadEvent
<1> SUFFICES ASSUME NotifierNext(Ends) PROVE LatestWins'
  BY <1>1, <1>2 DEF ProgressNext, progressVars, Match, Complete
<1>4. CASE Publish
  BY <1>4, Callbacks DEF Publish, Offer, Subscribed
<1>5. CASE NotifierRestart(Ends)
  BY <1>5 DEF NotifierRestart
<1>6. ASSUME NEW b \in Browser, Connect(b) PROVE LatestWins'
  BY <1>6 DEF Connect
<1>7. ASSUME NEW b \in Browser, Get(b) PROVE LatestWins'
  BY <1>7 DEF Get
<1>8. ASSUME NEW b \in Browser, SendJson(b) PROVE LatestWins'
  BY <1>8 DEF SendJson
<1>9. ASSUME NEW b \in Browser, SendToClosed(b) PROVE LatestWins'
  BY <1>9 DEF SendToClosed, Unsubscribe
<1>10. ASSUME NEW b \in Browser, CloseTab(b) PROVE LatestWins'
  BY <1>10 DEF CloseTab, Unsubscribe
<1> QED
  BY <1>4, <1>5, <1>6, <1>7, <1>8, <1>9, <1>10 DEF NotifierNext, Loop

LEMMA AlwaysLatest == ProgressSpec => [](NotifierTypeOK /\ LatestWins)
BY AlwaysWalk, InitNotifier, StepNotifierTypes, StepLatest, PTL DEF ProgressSpec

\* Type correctness of the notifier; mailboxes belong to subscribers.
THEOREM NotifierTypes == ProgressSpec => []NotifierTypeOK
BY AlwaysLatest, PTL

\* CoalescingMailbox: however publishing, connecting, sending and closing
\* interleave, nothing but superseded snapshots is dropped.
THEOREM NothingLatestLost == ProgressSpec => []LatestWins
BY AlwaysLatest, PTL

-----------------------------------------------------------------------------
(* DisplayAdvances.                                                        *)

LEMMA BehindTransitive ==
  ASSUME NEW s \in Snapshot, NEW t \in Snapshot, NEW u \in Snapshot,
         Behind(s, t), Behind(t, u)
  PROVE  Behind(s, u)
BY DEF Snapshot, Behind

LEMMA BehindItself ==
  ASSUME NEW s \in Snapshot
  PROVE  Behind(s, s)
BY DEF Snapshot, Behind

LEMMA FoldedAhead ==
  ASSUME counts \in Snapshot, NEW k \in Kind
  PROVE  Behind(counts, Folded(k))
<1>1. CASE k = "extracted"
  BY <1>1 DEF Snapshot, Folded, Behind
<1>2. CASE k = "matched"
  BY <1>2 DEF Snapshot, Folded, Behind
<1>3. CASE k = "completed"
  BY <1>3 DEF Snapshot, Folded, Behind
<1>4. CASE k = "dlq"
  BY <1>4, BehindItself DEF Folded
<1> QED
  BY <1>1, <1>2, <1>3, <1>4 DEF Kind

\* The callbacks wait in the order of their counts, ahead of what was
\* published and behind the counts.
QueueInv ==
  /\ \A i \in 1..Len(callbacks) : Behind(callbacks[i], counts)
  /\ \A i, k \in 1..Len(callbacks) : i <= k => Behind(callbacks[i], callbacks[k])
  /\ last # NoSnapshot => /\ Behind(last, counts)
                         /\ \A i \in 1..Len(callbacks) : Behind(last, callbacks[i])

\* What a connected browser shows and holds is behind what was published, and
\* what it shows behind what it holds.
ScreenInv ==
  \A b \in Browser : conn[b] \in {"waiting", "sending"} =>
    /\ held[b] # NoSnapshot => last # NoSnapshot /\ Behind(held[b], last)
    /\ shown[b] # NoSnapshot => last # NoSnapshot /\ Behind(shown[b], last)
    /\ held[b] # NoSnapshot /\ shown[b] # NoSnapshot => Behind(shown[b], held[b])

LEMMA StepQueue ==
  ASSUME NotifierTypeOK, QueueInv, [ProgressNext]_progressVars
  PROVE  QueueInv'
<1> USE DEF NotifierTypeOK, QueueInv
<1>1. CASE UNCHANGED <<counts, callbacks, last>>
  BY <1>1
<1>2. ASSUME NEW k \in Kind, Read(k) PROVE QueueInv'
  <2>1. counts' \in Snapshot /\ Behind(counts, counts')
    BY <1>2, CountsTyped, FoldedAhead DEF Read, ReadEvent
  <2>2. UNCHANGED last /\ callbacks' \in {callbacks, Append(callbacks, counts')}
    BY <1>2 DEF Read, ReadEvent
  <2>3. \A i \in 1..Len(callbacks) : callbacks[i] \in Snapshot
    BY ElementOfSeq
  <2>4. \A i \in 1..Len(callbacks) : Behind(callbacks[i], counts')
    BY <2>1, <2>3, BehindTransitive
  <2>5. last # NoSnapshot => Behind(last, counts')
    BY <2>1, BehindTransitive
  <2>6. CASE callbacks' = callbacks
    BY <2>1, <2>2, <2>4, <2>5, <2>6
  <2>7. CASE callbacks' = Append(callbacks, counts')
    <3>1. /\ Len(callbacks') = Len(callbacks) + 1 /\ callbacks'[Len(callbacks')] = counts'
          /\ \A i \in 1..Len(callbacks) : callbacks'[i] = callbacks[i]
          /\ Len(callbacks) \in Nat
      BY <2>1, <2>7
    <3>2. Behind(counts', counts')
      BY <2>1, BehindItself
    <3>3. \A i \in 1..Len(callbacks') : i \in 1..Len(callbacks) \/ i = Len(callbacks')
      BY <3>1
    <3>4. \A i \in 1..Len(callbacks') : Behind(callbacks'[i], counts')
      BY <2>4, <3>1, <3>2, <3>3
    <3>5. ASSUME NEW i \in 1..Len(callbacks'), NEW j \in 1..Len(callbacks'), i <= j
          PROVE  Behind(callbacks'[i], callbacks'[j])
      <4>1. CASE j = Len(callbacks')
        BY <3>1, <3>4, <4>1
      <4>2. CASE j \in 1..Len(callbacks)
        BY <3>1, <3>5, <4>2
      <4> QED
        BY <3>3, <4>1, <4>2
    <3>6. ASSUME last # NoSnapshot, NEW i \in 1..Len(callbacks')
          PROVE  Behind(last, callbacks'[i])
      BY <2>5, <3>1, <3>3, <3>6
    <3> QED
      BY <2>2, <2>5, <3>4, <3>5, <3>6
  <2> QED
    BY <2>2, <2>6, <2>7
<1>3. CASE Publish
  <2>1. /\ callbacks # << >> /\ last' = callbacks[1] /\ callbacks' = Tail(callbacks)
        /\ UNCHANGED counts
    BY <1>3 DEF Publish
  <2>2. /\ 1 \in 1..Len(callbacks) /\ Len(callbacks') = Len(callbacks) - 1
        /\ \A i \in 1..Len(callbacks') : /\ callbacks'[i] = callbacks[i + 1]
                                       /\ i + 1 \in 1..Len(callbacks)
    BY <2>1
  <2> QED
    BY <2>1, <2>2
<1>4. CASE NotifierRestart(Ends)
  BY <1>4 DEF NotifierRestart
<1> QED
  BY <1>1, <1>2, <1>3, <1>4
  DEF ProgressNext, progressVars, notifierVars, hub, Match, Complete, NotifierNext, Loop, Connect,
      Get, SendJson, SendToClosed, CloseTab

LEMMA StepScreen ==
  ASSUME NotifierTypeOK, LatestWins, QueueInv, ScreenInv, [ProgressNext]_progressVars
  PROVE  ScreenInv'
<1> USE DEF NotifierTypeOK, ScreenInv
<1>1. CASE UNCHANGED notifierVars
  BY <1>1 DEF notifierVars, hub
<1>2. ASSUME NEW k \in Kind, Read(k) PROVE ScreenInv'
  BY <1>2 DEF Read, ReadEvent
<1> SUFFICES ASSUME NotifierNext(Ends) PROVE ScreenInv'
  BY <1>1, <1>2 DEF ProgressNext, progressVars, Match, Complete
<1>4. CASE Publish
  <2>1. /\ last' = Head(callbacks) /\ last' \in Snapshot /\ last' # NoSnapshot
        /\ last # NoSnapshot => Behind(last, last')
        /\ UNCHANGED <<conn, held, shown>>
    BY <1>4, Callbacks DEF Publish, QueueInv
  <2>2. ASSUME NEW s \in Snapshot, last # NoSnapshot, Behind(s, last)
        PROVE  Behind(s, last')
    BY <2>1, <2>2, BehindTransitive
  <2> QED
    BY <2>1, <2>2
<1>5. CASE NotifierRestart(Ends)
  BY <1>5 DEF NotifierRestart
<1>6. ASSUME NEW b \in Browser, Connect(b) PROVE ScreenInv'
  BY <1>6 DEF Connect
<1>7. ASSUME NEW b \in Browser, Get(b) PROVE ScreenInv'
  BY <1>7, BehindItself DEF Get, LatestWins
<1>8. ASSUME NEW b \in Browser, SendJson(b) PROVE ScreenInv'
  BY <1>8 DEF SendJson
<1>9. ASSUME NEW b \in Browser, SendToClosed(b) PROVE ScreenInv'
  BY <1>9 DEF SendToClosed, Unsubscribe
<1>10. ASSUME NEW b \in Browser, CloseTab(b) PROVE ScreenInv'
  BY <1>10 DEF CloseTab, Unsubscribe
<1> QED
  BY <1>4, <1>5, <1>6, <1>7, <1>8, <1>9, <1>10 DEF NotifierNext, Loop

LEMMA AlwaysOrdered ==
  ProgressSpec => [](NotifierTypeOK /\ LatestWins /\ QueueInv /\ ScreenInv)
<1>1. ProgressInit => QueueInv /\ ScreenInv
  BY DEF ProgressInit, NotifierInit, QueueInv, ScreenInv
<1> QED
  BY <1>1, AlwaysWalk, InitNotifier, StepNotifierTypes, StepLatest, StepQueue, StepScreen, PTL
  DEF ProgressSpec

\* ProgressTracker, ProgressHub: on one connection no count falls and a
\* completed job stays completed.
THEOREM DisplayNeverFallsBack == ProgressSpec => DisplayAdvances
<1> DEFINE Advances ==
      \A b \in Browser : conn[b] = "sending" /\ shown'[b] # NoSnapshot
        /\ shown[b] # NoSnapshot => Behind(shown[b], shown'[b])
<1>1. NotifierTypeOK /\ ScreenInv /\ [ProgressNext]_progressVars =>
        [Advances]_progressVars
  <2> SUFFICES ASSUME NotifierTypeOK, ScreenInv, ProgressNext,
                      NEW b \in Browser, conn[b] = "sending",
                      shown'[b] # NoSnapshot, shown[b] # NoSnapshot
               PROVE  Behind(shown[b], shown'[b])
    OBVIOUS
  <2>1. shown[b] \in Snapshot /\ held[b] # NoSnapshot /\ Behind(shown[b], held[b])
    BY DEF NotifierTypeOK, ScreenInv
  <2>2. shown'[b] \in {shown[b], held[b]}
    BY DEF ProgressNext, notifierVars, hub, Match, Complete, Read, ReadEvent, NotifierNext,
           Loop, Publish, NotifierRestart, Connect, Get, SendJson, SendToClosed,
           CloseTab, NotifierTypeOK
  <2> QED
    BY <2>1, <2>2, BehindItself
<1> QED
  BY <1>1, AlwaysOrdered, PTL DEF ProgressSpec, DisplayAdvances

-----------------------------------------------------------------------------
(* NeverAhead.                                                             *)

\* A snapshot that promises no more than these leaves, matches and completion.
HonestAt(s, leaves, matches, done) ==
  s # NoSnapshot => /\ s.extracted <= leaves /\ s.matched <= matches
                    /\ s.complete => done

Honest(s) == HonestAt(s, Len(emitted), matched, Completed)

\* What was read is on the topics, and what is counted was read.
TopicsInv ==
  /\ position["extracted"] <= Len(emitted) /\ position["matched"] <= matched
  /\ position["completed"] > 0 => Completed
  /\ counts.extracted <= position["extracted"] /\ counts.matched <= position["matched"]
  /\ counts.complete => position["completed"] > 0

\* Whatever is under way to a browser was counted.
SeenInv ==
  /\ \A i \in 1..Len(callbacks) : Honest(callbacks[i])
  /\ Honest(last)
  /\ \A b \in Browser : Honest(slot[b]) /\ Honest(held[b]) /\ Honest(shown[b])

\* The pipeline only goes on, and a completed job stays so.
LEMMA PipelineGoesOn ==
  ASSUME WalkInv, NotifierTypeOK, [ProgressNext]_progressVars
  PROVE  /\ Len(emitted) \in Nat /\ Len(emitted') \in Nat
         /\ Len(emitted) <= Len(emitted') /\ matched <= matched'
         /\ Completed => Completed'
<1>1. emitted \in Seq([leaf : Node, parent : Node]) /\ matched \in Nat
  BY DEF WalkInv, RestInv, NotifierTypeOK
<1>2. CASE UNCHANGED <<emitted, laterVars>>
  BY <1>1, <1>2 DEF Completed, laterVars
<1>3. CASE Match \/ Complete
  BY <1>1, <1>3 DEF Match, Complete, walkVars, Completed
<1>4. CASE Leaf /\ UNCHANGED laterVars
  <2>1. [leaf |-> Top.node, parent |-> Container] \in [leaf : Node, parent : Node]
    BY <1>4, PackedTyped, ContainerTyped DEF Leaf, StackInv, WalkInv
  <2> QED
    BY <1>1, <1>4, <2>1, AppendProperties DEF Leaf, Completed, laterVars
<1> QED
  BY <1>2, <1>3, <1>4
  DEF ProgressNext, progressVars, walkVars, notifierVars, Read, WalkNext, Handler, Poll,
      Download, Open, NextFile, Cleanup, Timeout, Watchdog, Collect,
      CommunicateExpires, WaitExpires, ChildWorks, ChildFails, HelperEnds, CallRaises, sandboxVars

LEMMA StepTopics ==
  ASSUME WalkInv, NotifierTypeOK, TopicsInv, [ProgressNext]_progressVars
  PROVE  TopicsInv'
<1> USE DEF NotifierTypeOK, TopicsInv
<1>1. /\ Len(emitted) \in Nat /\ Len(emitted') \in Nat
      /\ Len(emitted) <= Len(emitted') /\ matched <= matched'
      /\ Completed => Completed'
  BY PipelineGoesOn
<1>2. matched' \in Nat /\ counts \in Snapshot
  BY StepNotifierTypes
<1>3. CASE UNCHANGED <<position, counts>>
  <2> HIDE DEF NotifierTypeOK
  <2>1. position["extracted"] \in Nat /\ position["matched"] \in Nat /\ matched \in Nat
    BY DEF NotifierTypeOK, Kind
  <2> QED
    BY <1>1, <1>2, <1>3, <2>1
<1>4. ASSUME NEW k \in Kind, Read(k) PROVE TopicsInv'
  <2>1. /\ position[k] < OnTopic(k) /\ UNCHANGED <<walkVars, laterVars>>
        /\ position' = [position EXCEPT ![k] = @ + 1] /\ counts' = Folded(k)
    BY <1>4 DEF Read, ReadEvent
  <2>2. UNCHANGED <<emitted, matched, completions>> /\ Completed' = Completed
    BY <2>1 DEF walkVars, Completed, laterVars
  <2>3. /\ counts.extracted \in Nat /\ counts.matched \in Nat
        /\ counts = [extracted |-> counts.extracted, matched |-> counts.matched,
                     complete |-> counts.complete]
    BY DEF Snapshot
  <2>4. CASE k = "extracted"
    <3>1. /\ position' = [position EXCEPT !["extracted"] = @ + 1]
          /\ position["extracted"] < Len(emitted)
          /\ counts'.extracted = counts.extracted + 1 /\ counts'.matched = counts.matched
          /\ counts'.complete = counts.complete
      BY <2>1, <2>3, <2>4 DEF OnTopic, Folded
    <3> QED
      BY <1>1, <2>2, <2>3, <3>1 DEF Kind
  <2>5. CASE k = "matched"
    <3>1. /\ position' = [position EXCEPT !["matched"] = @ + 1]
          /\ position["matched"] < matched
          /\ counts'.matched = counts.matched + 1
          /\ counts'.extracted = counts.extracted /\ counts'.complete = counts.complete
      BY <2>1, <2>3, <2>5 DEF OnTopic, Folded
    <3> QED
      BY <1>1, <2>2, <2>3, <3>1 DEF Kind
  <2>6. CASE k = "completed"
    <3>1. /\ position' = [position EXCEPT !["completed"] = @ + 1]
          /\ position["completed"] < completions
          /\ counts'.extracted = counts.extracted /\ counts'.matched = counts.matched
      BY <2>1, <2>3, <2>6 DEF OnTopic, Folded
    <3>2. Completed /\ position'["completed"] > 0
      BY <3>1 DEF Kind, Completed
    <3> QED
      BY <1>1, <2>2, <2>3, <3>1, <3>2 DEF Kind
  <2>7. CASE k = "dlq"
    <3>1. counts' = counts /\ position' = [position EXCEPT !["dlq"] = @ + 1]
      BY <2>1, <2>7 DEF Folded
    <3> QED
      BY <1>1, <2>2, <2>3, <3>1 DEF Kind
  <2> QED
    BY <2>4, <2>5, <2>6, <2>7 DEF Kind
<1>5. CASE NotifierRestart(Ends) /\ UNCHANGED <<walkVars, laterVars>>
  <2>1. counts' = NothingSeen /\ UNCHANGED <<emitted, matched>> /\ Completed' = Completed
    BY <1>5 DEF NotifierRestart, walkVars, laterVars, Completed
  <2>2. PICK back \in [Kind -> 0..MaxReread] :
          /\ \A k \in Kind : back[k] <= position[k]
          /\ \E new \in SUBSET {k \in Kind : back[k] = position[k]} :
               position' = [k \in Kind |-> IF k \in new THEN Ends[k] ELSE position[k] - back[k]]
    BY <1>5 DEF NotifierRestart
  <2>3. \A k \in Kind : \/ position'[k] \in Nat /\ position'[k] <= position[k]
                        \/ position'[k] = OnTopic(k)
    BY <2>2, NotifierAssumption DEF Ends
  <2>4. /\ position'["extracted"] <= Len(emitted) /\ position'["matched"] <= matched
        /\ position'["extracted"] >= 0 /\ position'["matched"] >= 0
    <3>1. \/ position'["extracted"] \in Nat /\ position'["extracted"] <= position["extracted"]
          \/ position'["extracted"] = Len(emitted)
      BY <2>3 DEF Kind, OnTopic
    <3>2. \/ position'["matched"] \in Nat /\ position'["matched"] <= position["matched"]
          \/ position'["matched"] = matched
      BY <2>3 DEF Kind, OnTopic
    <3>3. position["extracted"] \in Nat /\ position["matched"] \in Nat /\ matched \in Nat
      BY DEF Kind
    <3> QED
      BY <1>1, <3>1, <3>2, <3>3
  <2>5. position'["completed"] > 0 => Completed
    BY <2>3 DEF Kind, OnTopic, Completed
  <2> QED
    BY <1>1, <2>1, <2>4, <2>5 DEF NothingSeen
<1> QED
  BY <1>3, <1>4, <1>5
  DEF ProgressNext, progressVars, notifierVars, hub, Match, Complete, NotifierNext, Loop, Publish,
      Connect, Get, SendJson, SendToClosed, CloseTab

LEMMA StepSeen ==
  ASSUME WalkInv, NotifierTypeOK, TopicsInv, SeenInv, [ProgressNext]_progressVars
  PROVE  SeenInv'
<1> USE DEF NotifierTypeOK
<1> DEFINE Later(s) == HonestAt(s, Len(emitted'), matched', Completed')
<1>1. ASSUME NEW s \in Snapshot \cup {NoSnapshot}, Honest(s) PROVE Later(s)
  <2>1. CASE s = NoSnapshot
    BY <2>1 DEF HonestAt
  <2>2. CASE s # NoSnapshot
    <3>1. s.extracted \in Nat /\ s.matched \in Nat
      BY <2>2, <1>1 DEF Snapshot
    <3>2. matched' \in Nat /\ matched \in Nat
      BY StepNotifierTypes
    <3> QED
      BY <1>1, <2>2, <3>1, <3>2, PipelineGoesOn DEF Honest, HonestAt
  <2> QED
    BY <2>1, <2>2
<1>2. /\ \A i \in 1..Len(callbacks) : Later(callbacks[i])
      /\ Later(last) /\ Later(NoSnapshot)
      /\ \A b \in Browser : Later(slot[b]) /\ Later(held[b]) /\ Later(shown[b])
  <2>1. \A i \in 1..Len(callbacks) : callbacks[i] \in Snapshot
    BY ElementOfSeq
  <2>2. Later(NoSnapshot)
    BY DEF HonestAt
  <2> HIDE DEF Later
  <2> QED
    BY <1>1, <2>1, <2>2 DEF SeenInv
<1>3. SUFFICES /\ \A i \in 1..Len(callbacks') : Later(callbacks'[i])
               /\ Later(last')
               /\ \A b \in Browser : Later(slot'[b]) /\ Later(held'[b]) /\ Later(shown'[b])
  BY DEF SeenInv, Honest
<1> HIDE DEF Later
<1>4. CASE UNCHANGED notifierVars
  BY <1>2, <1>4 DEF notifierVars, hub
<1>5. ASSUME NEW k \in Kind, Read(k)
      PROVE  /\ \A i \in 1..Len(callbacks') : Later(callbacks'[i])
             /\ UNCHANGED <<last, slot, held, shown>>
  <2>1. /\ callbacks' \in {callbacks, Append(callbacks, counts')}
        /\ UNCHANGED <<last, slot, held, shown>>
    BY <1>5 DEF Read, ReadEvent
  <2>2. Later(counts')
    <3>1. TopicsInv' /\ NotifierTypeOK'
      BY StepTopics, StepNotifierTypes
    <3>2. /\ counts'.extracted \in Nat /\ counts'.matched \in Nat /\ matched' \in Nat
          /\ position'["extracted"] \in Nat /\ position'["matched"] \in Nat
          /\ Len(emitted') \in Nat
      BY <3>1, PipelineGoesOn DEF Snapshot, Kind
    <3> QED
      BY <3>1, <3>2, SMTT(40) DEF TopicsInv, Later, HonestAt
  <2>3. CASE callbacks' = callbacks
    BY <1>2, <2>1, <2>3
  <2>4. CASE callbacks' = Append(callbacks, counts')
    <3>1. counts' \in Snapshot
      BY StepNotifierTypes
    <3>2. /\ Len(callbacks') = Len(callbacks) + 1 /\ callbacks'[Len(callbacks')] = counts'
          /\ \A i \in 1..Len(callbacks) : callbacks'[i] = callbacks[i]
          /\ Len(callbacks) \in Nat
      BY <2>4, <3>1
    <3>3. \A i \in 1..Len(callbacks') : i \in 1..Len(callbacks) \/ i = Len(callbacks')
      BY <3>2
    <3> QED
      BY <1>2, <2>1, <2>2, <3>2, <3>3
  <2> QED
    BY <2>1, <2>3, <2>4
<1>6. CASE Publish
  <2>1. /\ callbacks # << >> /\ last' = callbacks[1] /\ callbacks' = Tail(callbacks)
        /\ \A b \in Browser : slot'[b] \in {slot[b], callbacks[1]}
        /\ UNCHANGED <<held, shown>>
    BY <1>6 DEF Publish, Offer
  <2>2. /\ 1 \in 1..Len(callbacks)
        /\ \A i \in 1..Len(callbacks') : /\ callbacks'[i] = callbacks[i + 1]
                                       /\ i + 1 \in 1..Len(callbacks)
    BY <2>1
  <2> QED
    BY <1>2, <2>1, <2>2
<1>7. CASE NotifierRestart(Ends)
  BY <1>2, <1>7 DEF NotifierRestart
<1>8. ASSUME NEW c \in Browser, Connect(c)
      PROVE  /\ UNCHANGED <<callbacks, last>>
             /\ \A b \in Browser : Later(slot'[b]) /\ Later(held'[b]) /\ Later(shown'[b])
  BY <1>2, <1>8 DEF Connect
<1>9. ASSUME NEW c \in Browser, Get(c)
      PROVE  /\ UNCHANGED <<callbacks, last>>
             /\ \A b \in Browser : Later(slot'[b]) /\ Later(held'[b]) /\ Later(shown'[b])
  BY <1>2, <1>9 DEF Get
<1>10. ASSUME NEW c \in Browser, SendJson(c)
      PROVE  /\ UNCHANGED <<callbacks, last>>
             /\ \A b \in Browser : Later(slot'[b]) /\ Later(held'[b]) /\ Later(shown'[b])
  BY <1>2, <1>10 DEF SendJson
<1>11. ASSUME NEW c \in Browser, SendToClosed(c) \/ CloseTab(c)
      PROVE  /\ UNCHANGED <<callbacks, last>>
             /\ \A b \in Browser : Later(slot'[b]) /\ Later(held'[b]) /\ Later(shown'[b])
  BY <1>2, <1>11 DEF SendToClosed, CloseTab, Unsubscribe
<1> QED
  BY <1>2, <1>4, <1>5, <1>6, <1>7, <1>8, <1>9, <1>10, <1>11
  DEF ProgressNext, progressVars, Match, Complete, NotifierNext, Loop

\* The event path end to end: for any interleaving of the walk, the matcher, the
\* consumer thread, the event loop and the browsers, and any restart that has
\* events read again or left out, no browser is shown more than the pipeline has done.
THEOREM NothingAhead == ProgressSpec => []NeverAhead
<1>1. ProgressInit => TopicsInv /\ SeenInv
  BY EmptySeq DEF ProgressInit, WalkInit, NotifierInit, TopicsInv, SeenInv, NothingSeen,
                  Honest, HonestAt, Kind
<1>2. SeenInv => NeverAhead
  BY DEF SeenInv, Honest, HonestAt, NeverAhead
<1> QED
  BY <1>1, <1>2, AlwaysWalk, NotifierTypes, StepTopics, StepSeen, PTL DEF ProgressSpec

-----------------------------------------------------------------------------
(* Sizes summed.                                                           *)

\* A set of naturals has a least member: what stands in for induction.
LEMMA MinNat ==
  ASSUME NEW S \in SUBSET Nat, S # {}
  PROVE  \E k \in S : \A l \in S : k <= l
<1> DEFINE less == {pair \in Nat \X Nat : pair[1] < pair[2]}
<1>1. IsWellFoundedOn(less, Nat)
  BY NatLessThanWellFounded, Zenon DEF OpToRel
<1> HIDE DEF less
<1>2. PICK k \in S : \A l \in S : ~(<<l, k>> \in less)
  BY <1>1, WFMin, Zenon
<1>3. \A l \in S : ~(l < k)
  BY <1>2 DEF less
<1> QED
  BY <1>3

IsSum(f, files, m) ==
  f \in [0..m -> Nat] /\ \A i \in 0..m : f[i] = IF i = 0 THEN 0 ELSE f[i - 1] + Size[files[i]]

\* The recursive definition of Sums has a solution, so that it is one.
LEMMA SumsExist ==
  ASSUME NEW files \in Seq(Node), NEW m \in 0..Len(files)
  PROVE  \E f : IsSum(f, files, m)
<1> DEFINE Without == {k \in 0..Len(files) : ~\E f : IsSum(f, files, k)}
<1>0. Len(files) \in Nat
  OBVIOUS
<1> SUFFICES ASSUME Without # {} PROVE FALSE
  OBVIOUS
<1>1. PICK k \in Without : \A l \in Without : k <= l
  <2>1. Without \in SUBSET Nat
    BY <1>0
  <2> HIDE DEF Without
  <2> QED
    BY <2>1, MinNat
<1>2. k \in 0..Len(files) /\ ~\E f : IsSum(f, files, k)
  OBVIOUS
<1>3. CASE k = 0
  <2>1. IsSum([i \in 0..0 |-> 0], files, 0)
    BY DEF IsSum
  <2> QED
    BY <1>2, <1>3, <2>1
<1>4. CASE k # 0
  <2>1. k - 1 \in 0..Len(files) /\ k - 1 < k
    BY <1>0, <1>2, <1>4
  <2>2. k - 1 \notin Without
    BY <1>0, <1>1, <1>2, <2>1
  <2>3. PICK f : IsSum(f, files, k - 1)
    BY <2>1, <2>2
  <2>4. Size[files[k]] \in Nat
    BY <1>0, <1>2, <1>4, ElementOfSeq, WalkAssumption
  <2> DEFINE g == [i \in 0..k |-> IF i < k THEN f[i] ELSE f[k - 1] + Size[files[k]]]
  <2>5. IsSum(g, files, k)
    <3>1. /\ f \in [0..k - 1 -> Nat] /\ k \in Nat \ {0}
          /\ \A i \in 0..k - 1 : f[i] = IF i = 0 THEN 0 ELSE f[i - 1] + Size[files[i]]
      BY <1>0, <1>2, <1>4, <2>3 DEF IsSum
    <3>2. f[k - 1] + Size[files[k]] \in Nat
      BY <2>4, <3>1
    <3>3. g \in [0..k -> Nat]
      BY <3>1, <3>2
    <3>4. ASSUME NEW i \in 0..k
          PROVE  g[i] = IF i = 0 THEN 0 ELSE g[i - 1] + Size[files[i]]
      <4>1. CASE i = k
        BY <3>1, <4>1
      <4>2. CASE i # k
        BY <3>1, <4>2
      <4> QED
        BY <4>1, <4>2
    <3> QED
      BY <3>3, <3>4 DEF IsSum
  <2> QED
    BY <1>2, <2>5
<1> QED
  BY <1>3, <1>4

LEMMA SumsAre ==
  ASSUME NEW files \in Seq(Node)
  PROVE  IsSum(Sums(files), files, Len(files))
<1>1. PICK f : IsSum(f, files, Len(files))
  BY SumsExist
<1>2. f = [i \in 0..Len(files) |-> IF i = 0 THEN 0 ELSE f[i - 1] + Size[files[i]]]
  BY <1>1 DEF IsSum
<1> DEFINE IsThis(g) == g = [i \in 0..Len(files) |-> IF i = 0 THEN 0 ELSE g[i - 1] + Size[files[i]]]
<1>3. Sums(files) = CHOOSE g : IsThis(g)
  BY Zenon DEF Sums
<1>4. IsThis(f)
  BY <1>2
<1>5. IsThis(Sums(files))
  <2> HIDE DEF IsThis
  <2> QED
  BY <1>3, <1>4
<1> QED
  BY <1>5

\* The next sum adds the size of the next file.
LEMMA SumStep ==
  ASSUME NEW files \in Seq(Node), NEW k \in 0..Len(files), k # Len(files)
  PROVE  Sums(files)[k + 1] = Sums(files)[k] + Size[files[k + 1]] /\ Sums(files)[k] \in Nat
<1> DEFINE f == Sums(files)
           m == Len(files)
<1>1. /\ f \in [0..m -> Nat]
      /\ \A i \in 0..m : f[i] = IF i = 0 THEN 0 ELSE f[i - 1] + Size[files[i]]
  BY SumsAre DEF IsSum
<1>2. k \in 0..m /\ k + 1 \in 0..m /\ k + 1 # 0 /\ k + 1 - 1 = k
  OBVIOUS
<1> HIDE DEF f, m
<1>3. f[k + 1] = f[k] + Size[files[k + 1]] /\ f[k] \in Nat
  BY <1>1, <1>2
<1> QED
  BY <1>3 DEF f

\* What bounds a count, and what it is, after both have grown alike.
LEMMA SumGrows ==
  ASSUME NEW p \in Nat, NEW r \in Nat, NEW s \in Nat, NEW z \in Nat
  PROVE  /\ p + r <= s => p + z + r <= s + z
         /\ p + r = s => p + z + r = s + z
OBVIOUS

\* Sums of sequences that begin alike are alike so far, and grow.
LEMMA SumsAgree ==
  ASSUME NEW s \in Seq(Node), NEW t \in Seq(Node), NEW m \in Nat,
         m <= Len(s), m <= Len(t), \A i \in 1..m : s[i] = t[i]
  PROVE  Sums(s)[m] = Sums(t)[m]
<1> DEFINE Apart == {k \in 0..m : Sums(s)[k] # Sums(t)[k]}
<1>1. /\ \A i \in 0..m : Sums(s)[i] = IF i = 0 THEN 0 ELSE Sums(s)[i - 1] + Size[s[i]]
      /\ \A i \in 0..m : Sums(t)[i] = IF i = 0 THEN 0 ELSE Sums(t)[i - 1] + Size[t[i]]
  BY SumsAre DEF IsSum
<1> SUFFICES ASSUME Apart # {} PROVE FALSE
  OBVIOUS
<1>2. PICK k \in Apart : \A l \in Apart : k <= l
  <2>1. Apart \in SUBSET Nat
    OBVIOUS
  <2> HIDE DEF Apart
  <2> QED
    BY <2>1, MinNat
<1>3. k # 0 /\ k \in 0..m
  BY <1>1
<1>4. k - 1 \in 0..m /\ k - 1 \notin Apart
  BY <1>2, <1>3
<1>5. Sums(s)[k - 1] = Sums(t)[k - 1] /\ s[k] = t[k]
  BY <1>3, <1>4
<1>6. /\ Sums(s)[k] = Sums(s)[k - 1] + Size[s[k]]
      /\ Sums(t)[k] = Sums(t)[k - 1] + Size[t[k]]
  BY <1>1, <1>3
<1>7. Sums(s)[k] # Sums(t)[k]
  OBVIOUS
<1> QED
  BY <1>5, <1>6, <1>7

LEMMA SumsGrow ==
  ASSUME NEW s \in Seq(Node), NEW l \in 0..Len(s), NEW m \in l..Len(s)
  PROVE  Sums(s)[l] <= Sums(s)[m]
<1> DEFINE Less == {k \in l..Len(s) : Sums(s)[k] < Sums(s)[l]}
<1>0. Len(s) \in Nat
  OBVIOUS
<1>1. /\ Sums(s) \in [0..Len(s) -> Nat]
      /\ \A i \in 1..Len(s) : Sums(s)[i] = Sums(s)[i - 1] + Size[s[i]] /\ Size[s[i]] \in Nat
  <2>1. \A i \in 1..Len(s) : Size[s[i]] \in Nat
    BY ElementOfSeq, WalkAssumption
  <2> QED
    BY <1>0, <2>1, SumsAre DEF IsSum
<1>2. SUFFICES ASSUME Less # {} PROVE FALSE
  <2>1. ASSUME NEW a \in Nat, NEW b \in Nat, ~(b < a) PROVE a <= b
    BY <2>1
  <2>2. m \in 0..Len(s) /\ l \in 0..Len(s)
    BY <1>0
  <2>3. Sums(s)[l] \in Nat /\ Sums(s)[m] \in Nat
    BY <1>1, <2>2
  <2>4. SUFFICES ASSUME Less = {} PROVE ~(Sums(s)[m] < Sums(s)[l])
    BY <2>1, <2>3
  <2> QED
    BY <2>4
<1>3. PICK k \in Less : \A j \in Less : k <= j
  <2>1. Less \in SUBSET Nat
    BY <1>0
  <2> HIDE DEF Less
  <2> QED
    BY <1>2, <2>1, MinNat
<1>4. k # l /\ k \in l..Len(s)
  BY <1>0, <1>1
<1>5. k - 1 \in l..Len(s) /\ k - 1 \notin Less
  BY <1>0, <1>3, <1>4
<1>6. Sums(s)[k] < Sums(s)[l] /\ ~(Sums(s)[k - 1] < Sums(s)[l])
  BY <1>3, <1>5
<1> HIDE DEF Less
<1>7. /\ k \in 1..Len(s) /\ k - 1 \in 0..Len(s) /\ l \in 0..Len(s)
  BY <1>0, <1>4, <1>5
<1>8. /\ Sums(s)[k] = Sums(s)[k - 1] + Size[s[k]] /\ Size[s[k]] \in Nat
      /\ Sums(s)[k - 1] \in Nat /\ Sums(s)[l] \in Nat
  BY <1>1, <1>7
<1> QED
  BY <1>6, <1>8

\* The size of a list of files: a number, more by the size of a file with one
\* more, and no less than that of its beginning.
LEMMA BytesTyped ==
  ASSUME NEW s \in Seq(Node) PROVE Bytes(s) \in Nat
<1>1. Len(s) \in Nat
  OBVIOUS
<1> QED
  BY <1>1, SumsAre DEF IsSum, Bytes

LEMMA BytesNone ==
  ASSUME NEW s \in Seq(Node), Len(s) = 0 PROVE Bytes(s) = 0
<1>1. IsSum(Sums(s), s, 0)
  BY SumsAre
<1> QED
  BY <1>1 DEF IsSum, Bytes

LEMMA BytesAppend ==
  ASSUME NEW s \in Seq(Node), NEW t \in Seq(Node), Len(t) = Len(s) + 1,
         \A i \in 1..Len(s) : t[i] = s[i]
  PROVE  Bytes(t) = Bytes(s) + Size[t[Len(t)]]
<1>1. Len(s) \in Nat
  OBVIOUS
<1>2. Sums(t)[Len(t)] = Sums(t)[Len(s)] + Size[t[Len(t)]]
  BY <1>1, SumsAre DEF IsSum
<1>3. Sums(t)[Len(s)] = Sums(s)[Len(s)]
  BY <1>1, SumsAgree
<1> QED
  BY <1>2, <1>3 DEF Bytes

LEMMA BytesPrefix ==
  ASSUME NEW s \in Seq(Node), NEW m \in 0..Len(s)
  PROVE  Bytes(SubSeq(s, 1, m)) <= Bytes(s)
<1> DEFINE t == SubSeq(s, 1, m)
<1>1. /\ t \in Seq(Node) /\ Len(t) = m /\ Len(s) \in Nat /\ m \in Nat
      /\ \A i \in 1..m : t[i] = s[i]
  OBVIOUS
<1> HIDE DEF t
<1>2. Sums(t)[m] = Sums(s)[m]
  BY <1>1, SumsAgree
<1>3. Sums(s)[m] <= Sums(s)[Len(s)]
  BY <1>1, SumsGrow
<1> QED
  BY <1>1, <1>2, <1>3 DEF Bytes, t
-----------------------------------------------------------------------------
(* The archive and the depth-first order.                                  *)

LEMMA TooMuchGrows ==
  ASSUME NEW a \in Nat, NEW b \in Nat, NEW input \in Nat, a <= b, TooMuch(a, input)
  PROVE  TooMuch(b, input)
<1>1. input * RatioLimit \in Nat
  BY WalkAssumption
<1> QED
  BY <1>1 DEF TooMuch

LEMMA OrderShape ==
  ASSUME root \in Archive
  PROVE  /\ Order[root] \in Seq(Node) /\ Len(Order[root]) \in Nat \ {0}
         /\ root \in Files /\ At[root] = 1 /\ Level[root] = 0 /\ root \in Node
         /\ Past[root] = Len(Order[root]) + 1 /\ Files \subseteq Node
         /\ \A n \in Files : /\ At[n] \in 1..Len(Order[root]) /\ Order[root][At[n]] = n
                             /\ Past[n] \in At[n] + 1..Len(Order[root]) + 1
                             /\ ~Opens(n) => Past[n] = At[n] + 1
<1>1. /\ Order[root] \in Seq(Node) /\ DepthFirst(root) /\ root \in Node
  BY WalkAssumption
<1>2. Len(Order[root]) \in Nat /\ DOMAIN Order[root] = 1..Len(Order[root])
  BY <1>1
<1>3. Order[root] # << >> /\ Len(Order[root]) # 0
  BY <1>1, EmptySeq DEF DepthFirst
<1>4. 1 \in DOMAIN Order[root]
  BY <1>2, <1>3
<1>5. Files = {Order[root][i] : i \in DOMAIN Order[root]}
  BY DEF Files, Range
<1>6. Files \subseteq Node
  BY <1>1, <1>2, <1>5, ElementOfSeq
<1>7. /\ Order[root][1] = root /\ Level[root] = 0 /\ Past[root] = Len(Order[root]) + 1
      /\ At[root] = 1
  BY <1>1, <1>4 DEF DepthFirst
<1>8. ASSUME NEW n \in Files
      PROVE  /\ At[n] \in 1..Len(Order[root]) /\ Order[root][At[n]] = n
             /\ Past[n] \in At[n] + 1..Len(Order[root]) + 1
             /\ ~Opens(n) => Past[n] = At[n] + 1
  <2>1. PICK i \in DOMAIN Order[root] : n = Order[root][i]
    BY <1>5
  <2>2. At[n] = i /\ Past[n] \in i + 1..Len(Order[root]) + 1 /\ (~Opens(n) => Past[n] = i + 1)
    BY <1>1, <2>1 DEF DepthFirst
  <2> QED
    BY <1>2, <2>1, <2>2
<1> QED
  BY <1>1, <1>2, <1>3, <1>4, <1>5, <1>6, <1>7, <1>8

LEMMA KidShape ==
  ASSUME root \in Archive, NEW n \in Files, Opens(n), NEW j \in 1..Len(Kids[n])
  PROVE  /\ Kids[n][j] \in Files /\ Level[Kids[n][j]] = Level[n] + 1
         /\ At[Kids[n][j]] = IF j = 1 THEN At[n] + 1 ELSE Past[Kids[n][j - 1]]
         /\ Past[Kids[n][j]] <= Past[n]
         /\ j = Len(Kids[n]) => Past[Kids[n][j]] = Past[n]
<1>1. /\ DepthFirst(root) /\ Kids[n] \in Seq(Node)
      /\ At[n] \in DOMAIN Order[root] /\ Order[root][At[n]] = n /\ Past[n] \in Nat
  <2>1. Kids \in [Node -> Seq(Node)] /\ DepthFirst(root)
    BY WalkAssumption
  <2>2. n \in Node /\ DOMAIN Order[root] = 1..Len(Order[root])
    BY OrderShape
  <2>3. At[n] \in 1..Len(Order[root]) /\ Order[root][At[n]] = n /\ Past[n] \in Nat
    BY OrderShape
  <2> QED
    BY <2>1, <2>2, <2>3
<1>2. j \in DOMAIN Kids[n]
  BY <1>1
<1>3. /\ Kids[n][j] \in Range(Order[root]) /\ Level[Kids[n][j]] = Level[n] + 1
      /\ At[Kids[n][j]] = IF j = 1 THEN At[n] + 1 ELSE Past[Kids[n][j - 1]]
      /\ IF j = Len(Kids[n]) THEN Past[Kids[n][j]] = Past[n] ELSE Past[Kids[n][j]] <= Past[n]
  <2>1. \A i \in DOMAIN Order[root] : \A l \in DOMAIN Kids[Order[root][i]] :
          LET k == Kids[Order[root][i]][l] IN
          Opens(Order[root][i]) =>
            /\ k \in Range(Order[root]) /\ Level[k] = Level[Order[root][i]] + 1
            /\ At[k] = IF l = 1 THEN i + 1 ELSE Past[Kids[Order[root][i]][l - 1]]
            /\ IF l = Len(Kids[Order[root][i]]) THEN Past[k] = Past[Order[root][i]]
               ELSE Past[k] <= Past[Order[root][i]]
    BY <1>1 DEF DepthFirst
  <2> QED
    BY <1>1, <1>2, <2>1
<1> QED
  BY <1>1, <1>3 DEF Files

\* Two files have two places.
LEMMA PlacesDiffer ==
  ASSUME root \in Archive, NEW m \in Files, NEW n \in Files, At[m] = At[n] PROVE m = n
BY OrderShape
-----------------------------------------------------------------------------
(* What the walk has behind it.                                            *)

Walking == stage \in {"open", "sandbox", "next", "leaf"}

\* The files of a call are the first ones packed in its node.
Fits(call, level) ==
  /\ call.node \in Files /\ Level[call.node] = level
  /\ Len(call.files) <= Len(Kids[call.node])
  /\ \A j \in 1..Len(call.files) : call.files[j] = Kids[call.node][j]
  /\ call.files # << >> => Opens(call.node)

Whole(call) == call.files # << >> => Len(call.files) = Len(Kids[call.node])

CallsInv ==
  \A i \in 1..Len(stack) :
    /\ Fits(stack[i], i - 1) /\ (truncated \/ Whole(stack[i]))
    /\ i < Len(stack) => stack[i].next > 1

StageInv ==
  /\ Walking => stack[1].node = root /\ verdict = "none"
  /\ stage = "download" => verdict = "none" /\ emitted = << >> /\ produced = 0
  /\ stage \in {"open", "sandbox", "leaf"} => Top.files = << >>
  /\ stage = "sandbox" => Opener[Top.node] = "binwalk" /\ Level[Top.node] <= DepthCap
  /\ stage = "next" => Top.files # << >>
  /\ stage = "leaf" => truncated \/ ~Opens(Top.node)

\* The last place in the order that the walk has come to.
Reached ==
  IF stage = "next" /\ Top.next > 1 THEN Past[Top.files[Top.next - 1]] - 1 ELSE At[Top.node]

LEMMA TopShape ==
  ASSUME WalkInv, CallsInv, StageInv, Walking
  PROVE  /\ Len(stack) \in Nat \ {0} /\ Top \in Frames /\ Top = stack[Len(stack)]
         /\ Fits(Top, Len(stack) - 1) /\ (truncated \/ Whole(Top))
         /\ Top.node \in Files /\ Top.node \in Node /\ Kids[Top.node] \in Seq(Node)
         /\ Top.files \in Seq(Node) /\ Len(Top.files) \in Nat /\ Len(Kids[Top.node]) \in Nat
         /\ Top.next \in 1..Len(Top.files) + 1 /\ root \in Archive
<1>1. Len(stack) \in Nat \ {0} /\ Top \in Frames /\ Top = stack[Len(stack)] /\ root \in Archive
  BY TopTyped DEF WalkInv, StackInv, RestInv, Walking, Top
<1>2. Fits(Top, Len(stack) - 1) /\ (truncated \/ Whole(Top))
  BY <1>1 DEF CallsInv
<1>3. Top.next <= Len(Top.files) + 1
  BY <1>1 DEF WalkInv, StackInv, Linked
<1>4. Top.node \in Node /\ Top.files \in Seq(Node) /\ Top.next \in Nat \ {0}
  BY <1>1 DEF Frames
<1>5. Kids[Top.node] \in Seq(Node)
  BY <1>4, WalkAssumption
<1>6. Top.node \in Files
  BY <1>2 DEF Fits
<1> QED
  BY <1>1, <1>2, <1>3, <1>4, <1>5, <1>6

\* A file of the top call is one of its node's, below that node.
LEMMA FileShape ==
  ASSUME WalkInv, CallsInv, StageInv, Walking, NEW j \in 1..Len(Top.files)
  PROVE  /\ Top.files[j] = Kids[Top.node][j] /\ Opens(Top.node)
         /\ j \in 1..Len(Kids[Top.node]) /\ Top.files[j] \in Files
         /\ Level[Top.files[j]] = Len(stack)
         /\ At[Top.files[j]] = IF j = 1 THEN At[Top.node] + 1 ELSE Past[Top.files[j - 1]]
         /\ Past[Top.files[j]] <= Past[Top.node]
         /\ j = Len(Kids[Top.node]) => Past[Top.files[j]] = Past[Top.node]
<1>1. /\ Fits(Top, Len(stack) - 1) /\ Top.files # << >> /\ Top.node \in Files
      /\ Len(Top.files) \in Nat /\ Len(Kids[Top.node]) \in Nat /\ root \in Archive
      /\ Len(stack) \in Nat
  BY TopShape, EmptySeq
<1>2. /\ Opens(Top.node) /\ Level[Top.node] = Len(stack) - 1
      /\ \A k \in 1..Len(Top.files) : Top.files[k] = Kids[Top.node][k]
      /\ j \in 1..Len(Kids[Top.node])
  BY <1>1 DEF Fits
<1>3. /\ Kids[Top.node][j] \in Files /\ Level[Kids[Top.node][j]] = Level[Top.node] + 1
      /\ At[Kids[Top.node][j]] = IF j = 1 THEN At[Top.node] + 1 ELSE Past[Kids[Top.node][j - 1]]
      /\ Past[Kids[Top.node][j]] <= Past[Top.node]
      /\ j = Len(Kids[Top.node]) => Past[Kids[Top.node][j]] = Past[Top.node]
  BY <1>1, <1>2, KidShape
<1>4. Top.files[j] = Kids[Top.node][j]
  BY <1>2
<1>5. j # 1 => Top.files[j - 1] = Kids[Top.node][j - 1]
  <2>1. j # 1 => j - 1 \in 1..Len(Top.files)
    BY <1>1
  <2> QED
    BY <1>2, <2>1
<1>6. Level[Top.files[j]] = Len(stack)
  BY <1>1, <1>2, <1>3, <1>4
<1>7. At[Top.files[j]] = IF j = 1 THEN At[Top.node] + 1 ELSE Past[Top.files[j - 1]]
  BY <1>3, <1>4, <1>5
<1> QED
  BY <1>2, <1>3, <1>4, <1>6, <1>7

LEMMA ReachedTyped ==
  ASSUME WalkInv, CallsInv, StageInv, Walking
  PROVE  Reached \in 1..Len(Order[root]) /\ Len(Order[root]) \in Nat
<1>1. root \in Archive /\ Top.node \in Files /\ Len(Top.files) \in Nat
      /\ Top.next \in 1..Len(Top.files) + 1
  BY TopShape
<1>2. Len(Order[root]) \in Nat /\ \A n \in Files : /\ At[n] \in 1..Len(Order[root])
                                                  /\ Past[n] \in At[n] + 1..Len(Order[root]) + 1
  BY <1>1, OrderShape
<1>3. CASE stage = "next" /\ Top.next > 1
  <2>1. Top.files[Top.next - 1] \in Files
    BY <1>1, <1>3, FileShape
  <2> QED
    BY <1>2, <1>3, <2>1 DEF Reached
<1>4. CASE ~(stage = "next" /\ Top.next > 1)
  BY <1>1, <1>2, <1>4 DEF Reached
<1> QED
  BY <1>3, <1>4

\* The file that is taken next lies right behind the last place.
LEMMA NextPlace ==
  ASSUME WalkInv, CallsInv, StageInv, stage = "next", Top.next <= Len(Top.files)
  PROVE  /\ Top.files[Top.next] \in Files /\ Level[Top.files[Top.next]] = Len(stack)
         /\ At[Top.files[Top.next]] = Reached + 1
         /\ Order[root][Reached + 1] = Top.files[Top.next]
         /\ Reached + 1 \in 1..Len(Order[root])
<1>1. /\ Walking /\ Top.next \in 1..Len(Top.files) /\ root \in Archive
      /\ Top.next \in Nat /\ Len(Top.files) \in Nat /\ Top.node \in Files
  BY TopShape DEF Walking
<1> DEFINE file == Top.files[Top.next]
<1>2. /\ file \in Files /\ Level[file] = Len(stack)
      /\ At[file] = IF Top.next = 1 THEN At[Top.node] + 1 ELSE Past[Top.files[Top.next - 1]]
  BY <1>1, FileShape
<1>3. Top.next # 1 => Top.files[Top.next - 1] \in Files
  BY <1>1, FileShape
<1> HIDE DEF file
<1>4. At[file] = Reached + 1
  BY <1>1, <1>2, <1>3, OrderShape DEF Reached
<1>5. At[file] \in 1..Len(Order[root]) /\ Order[root][At[file]] = file
  BY <1>1, <1>2, OrderShape
<1> QED
  BY <1>2, <1>4, <1>5 DEF file

\* When the top call returns nothing is left of its node, but for what a
\* failed child has not written.
LEMMA LastPlace ==
  ASSUME WalkInv, CallsInv, StageInv,
         stage = "leaf" \/ (stage = "next" /\ Top.next > Len(Top.files))
  PROVE  /\ Reached <= Past[Top.node] - 1 /\ Past[Top.node] \in Nat
         /\ truncated \/ Reached = Past[Top.node] - 1
<1>1. /\ Walking /\ Top.next \in 1..Len(Top.files) + 1 /\ root \in Archive
      /\ Len(Top.files) \in Nat /\ Top.node \in Files /\ (truncated \/ Whole(Top))
  BY TopShape DEF Walking
<1>2. /\ At[Top.node] \in Nat /\ Past[Top.node] \in Nat /\ At[Top.node] + 1 <= Past[Top.node]
      /\ ~Opens(Top.node) => Past[Top.node] = At[Top.node] + 1
  BY <1>1, OrderShape
<1>3. CASE stage = "leaf"
  <2>1. Reached = At[Top.node] /\ (truncated \/ ~Opens(Top.node))
    BY <1>3 DEF Reached, StageInv
  <2> QED
    BY <1>2, <2>1
<1>4. CASE stage = "next" /\ Top.next > Len(Top.files)
  <2>1. Top.files # << >> /\ Len(Top.files) # 0
    BY <1>1, <1>4, TopShape, EmptySeq DEF StageInv
  <2>2. Len(Top.files) \in 1..Len(Top.files) /\ Top.next - 1 = Len(Top.files) /\ Top.next > 1
    BY <1>1, <1>4, <2>1
  <2> DEFINE final == Top.files[Len(Top.files)]
  <2>3. /\ Past[final] <= Past[Top.node] /\ final \in Files
        /\ Len(Top.files) = Len(Kids[Top.node]) => Past[final] = Past[Top.node]
    BY <1>1, <2>2, FileShape
  <2>4. Reached = Past[final] - 1
    BY <1>4, <2>2 DEF Reached
  <2>5. truncated \/ Len(Top.files) = Len(Kids[Top.node])
    BY <1>1, <2>1 DEF Whole
  <2>6. Past[final] \in Nat
    <3>1. Past[final] \in At[final] + 1..Len(Order[root]) + 1 /\ At[final] \in Nat
      BY <1>1, <2>3, OrderShape
    <3> QED
      BY <3>1
  <2> HIDE DEF final
  <2> QED
    BY <1>2, <2>3, <2>4, <2>5, <2>6
<1> QED
  BY <1>3, <1>4

Emitted == {emitted[i].leaf : i \in 1..Len(emitted)}
Out == [i \in 1..Len(emitted) |-> emitted[i].leaf]

CountInv ==
  Walking =>
    /\ produced + Size[root] <= Sums(Order[root])[Reached]
    /\ truncated \/ produced + Size[root] = Sums(Order[root])[Reached]

\* No layer trips on the file itself.
Passed(n) ==
  /\ Level[n] <= DepthCap
  /\ Opener[n] = "native" => ~TooMuch(Bytes(Kids[n]), Size[n]) /\ Escape[n] = "no"
  /\ Opener[n] # "none" => Escape[n] # "symlink"

Cleared == IF stage \in {"next", "leaf"} THEN Reached ELSE Reached - 1
PassedInv == Walking => truncated \/ \A n \in Files : At[n] <= Cleared => Passed(n)

Left == IF stage = "next" THEN Reached ELSE Reached - 1
LeafInv == Walking => truncated \/ Emitted = {n \in Leaves : At[n] <= Left}

WalkedInv == CallsInv /\ StageInv /\ CountInv /\ PassedInv /\ LeafInv

EndInv ==
  verdict = "ok" =>
    /\ ~TooMuch(produced, Size[root])
    /\ \/ truncated
       \/ /\ produced + Size[root] = Bytes(Order[root])
          /\ \A n \in Files : Passed(n)
          /\ Leaves = Emitted

\* What has gone out is part of what was produced, save a leaf under way.
OutInv ==
  /\ Walking => ~TooMuch(produced, Size[root])
  /\ Out # <<root>> => ~TooMuch(Bytes(Out), Size[root])
  /\ stage \in {"open", "sandbox", "leaf"} =>
       IF Len(stack) = 1 THEN emitted = << >> ELSE Bytes(Out) + Size[Top.node] <= produced
  /\ stage = "next" => Bytes(Out) <= produced

OrderedInv ==
  truncated \/ \A i \in 1..Len(emitted) :
    /\ emitted[i].leaf \in Leaves
    /\ {n \in Leaves : At[n] < At[emitted[i].leaf]} = {emitted[j].leaf : j \in 1..i - 1}
    /\ \/ emitted[i].leaf \in Range(Kids[emitted[i].parent])
       \/ emitted[i] = [leaf |-> root, parent |-> root]

LayerInv ==
  /\ verdict = "recursion_depth" => TooDeep
  /\ verdict = "decompression_ratio" => TooBig \/ Inflates("native") \/ Inflates("binwalk")
  /\ verdict = "zip_slip" => Slips
  /\ verdict = "symlink" => Links

DoneInv == EndInv /\ OutInv /\ OrderedInv /\ LayerInv

LEMMA RootStays ==
  ASSUME root' = root
  PROVE  /\ Files' = Files /\ Leaves' = Leaves /\ (TooDeep <=> TooDeep') /\ (TooBig <=> TooBig')
         /\ (Inflates("native") <=> Inflates("native")')
         /\ (Inflates("binwalk") <=> Inflates("binwalk")')
         /\ (Slips <=> Slips') /\ (Links <=> Links')
BY DEF Files, Leaves, TooDeep, TooBig, Inflates, Slips, Links

\* The walk is over: nothing is under way.
LEMMA EndsWalk ==
  ASSUME stage' = "cleanup", stack' = << >> PROVE WalkedInv'
BY DEF WalkedInv, CallsInv, StageInv, CountInv, PassedInv, LeafInv, Walking

LEMMA OutTyped ==
  ASSUME RestInv
  PROVE  Out \in Seq(Node) /\ Len(Out) = Len(emitted) /\ Bytes(Out) \in Nat
         /\ Len(emitted) \in Nat /\ (emitted = << >> => Bytes(Out) = 0)
<1>1. emitted \in Seq([leaf : Node, parent : Node]) /\ Len(emitted) \in Nat
  BY DEF RestInv
<1>2. \A i \in 1..Len(emitted) : emitted[i] \in [leaf : Node, parent : Node]
  BY <1>1, ElementOfSeq
<1>3. Out \in Seq(Node) /\ Len(Out) = Len(emitted)
  BY <1>1, <1>2 DEF Out
<1>4. Len(Out) = 0 => Bytes(Out) = 0
  BY <1>3, BytesNone
<1> QED
  BY <1>1, <1>3, <1>4, BytesTyped

\* The walk is left by an exception: what has gone out stays as it was.
LEMMA LeftStays ==
  ASSUME DoneInv, NEW v, v # "ok", Leave(v), root' = root, emitted' = emitted,
         truncated => truncated', LayerInv'
  PROVE  DoneInv'
<1>1. EndInv'
  BY DEF EndInv, Leave
<1>2. OutInv'
  <2>1. Out' = Out
    BY DEF Out
  <2>2. ~Walking' /\ stage' = "cleanup"
    BY DEF Leave, Walking
  <2> QED
    BY <2>1, <2>2 DEF DoneInv, OutInv
<1>3. OrderedInv'
  BY RootStays DEF DoneInv, OrderedInv
<1> QED
  BY <1>1, <1>2, <1>3 DEF DoneInv

\* The call below the top one has the top one's node under way.
LEMMA CallerShape ==
  ASSUME WalkInv, CallsInv, StageInv, Walking, Len(stack) # 1, NEW call,
         call = stack[Len(stack) - 1]
  PROVE  /\ call \in Frames /\ Len(stack) - 1 \in 1..Len(stack)
         /\ Fits(call, Len(stack) - 2) /\ (truncated \/ Whole(call))
         /\ call.files \in Seq(Node) /\ Len(call.files) \in Nat /\ call.files # << >>
         /\ call.next - 1 \in 1..Len(call.files) /\ call.next > 1
         /\ call.files[call.next - 1] = Top.node
         /\ call.node \in Node
<1>1. Len(stack) \in Nat \ {0} /\ stack \in Seq(Frames) /\ Linked(stack)
  BY TopShape DEF WalkInv, StackInv
<1>2. Len(stack) - 1 \in 1..Len(stack) /\ Len(stack) - 1 < Len(stack)
      /\ Len(stack) - 1 + 1 = Len(stack)
  <2>1. \A d \in Nat \ {0, 1} : d - 1 \in 1..d /\ d - 1 < d /\ d - 1 + 1 = d
    OBVIOUS
  <2>2. Len(stack) \in Nat \ {0, 1}
    BY <1>1
  <2> QED
    BY <2>1, <2>2
<1>3. call \in Frames
  BY <1>1, <1>2, ElementOfSeq
<1>4. call.files \in Seq(Node) /\ Len(call.files) \in Nat /\ call.next \in Nat
      /\ call.node \in Node
  BY <1>3 DEF Frames
<1>5. call.next <= Len(call.files) + 1 /\ Top.node = call.files[call.next - 1]
  BY <1>1, <1>2 DEF Linked, Top
<1>6. Fits(call, Len(stack) - 2) /\ (truncated \/ Whole(call)) /\ call.next > 1
  <2>1. Len(stack) - 1 - 1 = Len(stack) - 2
    BY <1>1
  <2> QED
    BY <1>2, <2>1 DEF CallsInv
<1>7. call.next - 1 \in 1..Len(call.files) /\ call.files # << >>
  BY <1>4, <1>5, <1>6, EmptySeq
<1> QED
  BY <1>2, <1>3, <1>4, <1>5, <1>6, <1>7

LEMMA CallMoves ==
  ASSUME NEW call \in Frames, NEW moved, moved = [call EXCEPT !.next = @ + 1]
  PROVE  /\ moved \in Frames /\ moved.node = call.node /\ moved.files = call.files
         /\ moved.next = call.next + 1
<1>1. call.next \in Nat \ {0} /\ call.next + 1 \in Nat \ {0}
  BY DEF Frames
<1> QED
  BY <1>1 DEF Frames

\* The stack after a call for the next file.
LEMMA PushShape ==
  ASSUME NEW s \in Seq(Frames), s # << >>, NEW file \in Node,
         NEW t, t = Append([s EXCEPT ![Len(s)].next = @ + 1], Frame(file))
  PROVE  /\ t \in Seq(Frames) /\ Len(t) = Len(s) + 1 /\ t[Len(s) + 1] = Frame(file)
         /\ \A i \in 1..Len(s) - 1 : t[i] = s[i]
         /\ t[Len(s)].node = s[Len(s)].node /\ t[Len(s)].files = s[Len(s)].files
         /\ t[Len(s)].next = s[Len(s)].next + 1
<1> DEFINE n == Len(s)
           top == [s[n] EXCEPT !.next = @ + 1]
           below == [s EXCEPT ![n] = top]
<1>1. n \in Nat \ {0} /\ n \in 1..Len(s) /\ s[n] \in Frames
  <2>1. n \in Nat /\ n # 0
    BY EmptySeq
  <2>2. n \in 1..Len(s)
    BY <2>1
  <2> QED
    BY <2>1, <2>2, ElementOfSeq
<1>2. /\ top \in Frames /\ top.node = s[n].node /\ top.files = s[n].files
      /\ top.next = s[n].next + 1
  BY <1>1, CallMoves
<1>3. t = Append(below, Frame(file)) /\ Frame(file) \in Frames
  BY FrameTyped
<1> HIDE DEF top
<1>4. /\ below \in Seq(Frames) /\ Len(below) = n /\ below[n] = top
      /\ \A i \in 1..n - 1 : below[i] = s[i]
  <2>1. /\ below \in Seq(Frames) /\ Len(below) = n
        /\ \A i \in 1..n : below[i] = IF i = n THEN top ELSE s[i]
    BY <1>1, <1>2, ExceptSeq
  <2> HIDE DEF below, n
  <2> QED
    BY <1>1, <2>1
<1> HIDE DEF below
<1>5. /\ t \in Seq(Frames) /\ Len(t) = n + 1 /\ t[n + 1] = Frame(file)
      /\ \A i \in 1..n : t[i] = below[i]
  <2>1. /\ Append(below, Frame(file)) \in Seq(Frames)
        /\ Len(Append(below, Frame(file))) = Len(below) + 1
        /\ \A i \in 1..Len(below) : Append(below, Frame(file))[i] = below[i]
        /\ Append(below, Frame(file))[Len(below) + 1] = Frame(file)
    BY <1>3, <1>4, AppendProperties
  <2> QED
    BY <1>3, <1>4, <2>1
<1> QED
  BY <1>1, <1>2, <1>4, <1>5

LEMMA PushedWalked ==
  ASSUME WalkInv, WalkedInv, DoneInv, stage = "next", Top.next <= Len(Top.files),
         stack' = Append([stack EXCEPT ![Len(stack)].next = @ + 1],
                         Frame(Top.files[Top.next])),
         stage' = "open", verdict' = verdict, root' = root, emitted' = emitted,
         truncated' = truncated, produced' = produced + Size[Top.files[Top.next]],
         ~TooMuch(produced', Size[root])
  PROVE  WalkedInv' /\ DoneInv'
<1> DEFINE n == Len(stack)
           file == Top.files[Top.next]
<1>1. CallsInv /\ StageInv /\ Walking /\ Walking' /\ root \in Archive
      /\ CountInv /\ PassedInv /\ LeafInv
  BY TopShape DEF WalkedInv, Walking
<1>2. /\ n \in Nat \ {0} /\ stack \in Seq(Frames) /\ Top = stack[n] /\ Top \in Frames
      /\ Top.next \in 1..Len(Top.files) /\ Top.next \in Nat
      /\ Len(Top.files) \in Nat
  BY <1>1, TopShape DEF WalkInv, StackInv
<1>3. /\ file \in Files /\ Level[file] = n /\ At[file] = Reached + 1
      /\ Order[root][Reached + 1] = file /\ Reached + 1 \in 1..Len(Order[root])
  BY <1>1, NextPlace
<1>4. file \in Node /\ Reached \in 1..Len(Order[root]) /\ Len(Order[root]) \in Nat
      /\ Order[root] \in Seq(Node) /\ Files \subseteq Node
  BY <1>1, <1>3, ReachedTyped, OrderShape
<1> HIDE DEF file
<1>5. /\ stack' \in Seq(Frames) /\ Len(stack') = n + 1 /\ stack'[n + 1] = Frame(file)
      /\ \A i \in 1..n - 1 : stack'[i] = stack[i]
      /\ stack'[n].node = Top.node /\ stack'[n].files = Top.files
      /\ stack'[n].next = Top.next + 1
  <2>1. stack # << >> /\ stack' = Append([stack EXCEPT ![n].next = @ + 1], Frame(file))
    BY <1>2, EmptySeq DEF file
  <2>2. /\ stack' \in Seq(Frames) /\ Len(stack') = n + 1 /\ stack'[n + 1] = Frame(file)
        /\ \A i \in 1..n - 1 : stack'[i] = stack[i]
        /\ stack'[n].node = stack[n].node /\ stack'[n].files = stack[n].files
        /\ stack'[n].next = stack[n].next + 1
    BY <1>2, <1>4, <2>1, PushShape, Zenon
  <2> QED
    BY <1>2, <2>2
<1>6. Top' = Frame(file) /\ Top'.node = file /\ Top'.files = << >>
  BY <1>2, <1>5 DEF Top, Frame
<1>7. Files' = Files /\ Leaves' = Leaves
  BY RootStays
<1>8. CallsInv'
  <2> SUFFICES ASSUME NEW i \in 1..Len(stack')
               PROVE  /\ Fits(stack[i], i - 1)' /\ (truncated \/ Whole(stack[i]))'
                      /\ i < Len(stack)' => (stack[i].next > 1)'
    BY DEF CallsInv
  <2> SUFFICES /\ Fits(stack'[i], i - 1) /\ (truncated \/ Whole(stack'[i]))
               /\ i < n + 1 => stack'[i].next > 1
    BY <1>5, <1>7 DEF Fits, Whole
  <2>1. CASE i = n + 1
    <3>1. Kids[file] \in Seq(Node)
      BY <1>4, WalkAssumption
    <3>2. Fits(Frame(file), n) /\ Whole(Frame(file))
      BY <1>2, <1>3, <3>1 DEF Fits, Whole, Frame
    <3> QED
      BY <1>2, <1>5, <2>1, <3>2
  <2>2. CASE i = n
    <3>1. Fits(Top, n - 1) /\ (truncated \/ Whole(Top))
      BY <1>1, TopShape
    <3> QED
      BY <1>2, <1>5, <2>2, <3>1 DEF Fits, Whole
  <2>3. CASE i < n
    <3>1. i \in 1..n /\ i \in 1..n - 1
      BY <1>2, <2>3
    <3>2. Fits(stack[i], i - 1) /\ (truncated \/ Whole(stack[i])) /\ stack[i].next > 1
      BY <1>1, <2>3, <3>1 DEF CallsInv
    <3> QED
      BY <1>5, <3>1, <3>2
  <2> QED
    BY <1>2, <2>1, <2>2, <2>3
<1>9. StageInv'
  <2>1. stack'[1].node = root /\ verdict = "none"
    BY <1>1, <1>2, <1>5 DEF StageInv
  <2> QED
    BY <1>6, <2>1 DEF StageInv
<1>10. Reached' = Reached + 1
  BY <1>3, <1>6 DEF Reached
<1>11. CountInv'
  <2>1. Sums(Order[root])[Reached + 1] = Sums(Order[root])[Reached] + Size[file]
        /\ Sums(Order[root])[Reached] \in Nat /\ Size[file] \in Nat /\ Size[root] \in Nat
    <3>1. root \in Node
      BY <1>1, OrderShape
    <3>2. Size[file] \in Nat /\ Size[root] \in Nat
      BY <1>4, <3>1, WalkAssumption
    <3>3. Reached \in 0..Len(Order[root]) /\ Reached # Len(Order[root])
      BY <1>3, <1>4
    <3>4. /\ Sums(Order[root])[Reached + 1]
             = Sums(Order[root])[Reached] + Size[Order[root][Reached + 1]]
          /\ Sums(Order[root])[Reached] \in Nat
      BY <1>4, <3>3, SumStep
    <3> QED
      BY <1>3, <3>2, <3>4
  <2>2. produced \in Nat /\ produced' = produced + Size[file]
    BY DEF WalkInv, RestInv, file
  <2>3. /\ produced + Size[root] <= Sums(Order[root])[Reached]
        /\ truncated \/ produced + Size[root] = Sums(Order[root])[Reached]
    BY <1>1 DEF CountInv
  <2>4. /\ produced' + Size[root] <= Sums(Order[root])[Reached + 1]
        /\ truncated \/ produced' + Size[root] = Sums(Order[root])[Reached + 1]
    <3> DEFINE was == Sums(Order[root])[Reached]
               is == Sums(Order[root])[Reached + 1]
               size == Size[file]
               packed == Size[root]
    <3>1. /\ was \in Nat /\ size \in Nat /\ packed \in Nat /\ produced \in Nat
          /\ is = was + size /\ produced' = produced + size
      BY <2>1, <2>2
    <3>2. produced + packed <= was /\ (truncated \/ produced + packed = was)
      BY <2>3
    <3> HIDE DEF was, is, size, packed
    <3>3. /\ produced + packed <= was => produced + size + packed <= was + size
          /\ produced + packed = was => produced + size + packed = was + size
      BY <3>1, SumGrows
    <3>4. produced' + packed <= is /\ (truncated \/ produced' + packed = is)
      BY <3>1, <3>2, <3>3
    <3> QED
      BY <3>4 DEF is, packed
  <2> QED
    BY <1>10, <2>4 DEF CountInv
<1>12. PassedInv' /\ LeafInv'
  <2>1. Cleared' = Cleared /\ Left' = Left
    BY <1>4, <1>10 DEF Cleared, Left
  <2>2. Emitted' = Emitted
    BY DEF Emitted
  <2>3. PassedInv'
    BY <1>1, <1>7, <2>1 DEF PassedInv, Passed
  <2>4. LeafInv'
    BY <1>1, <1>7, <2>1, <2>2 DEF LeafInv
  <2> QED
    BY <2>3, <2>4
<1>13. OutInv'
  <2>1. Out' = Out
    BY DEF Out
  <2>2. Bytes(Out) <= produced /\ Bytes(Out) \in Nat /\ produced \in Nat /\ Size[file] \in Nat
    BY <1>4, OutTyped, WalkAssumption DEF DoneInv, OutInv, WalkInv, RestInv
  <2>3. produced' = produced + Size[file]
    BY DEF file
  <2>4. Bytes(Out) + Size[file] <= produced'
    BY <2>2, <2>3
  <2>5. Len(stack') # 1
    BY <1>2, <1>5
  <2> QED
    BY <1>6, <2>1, <2>4, <2>5 DEF DoneInv, OutInv
<1>14. EndInv' /\ OrderedInv' /\ LayerInv'
  <2>1. verdict = "none"
    BY <1>1 DEF StageInv
  <2>2. EndInv' /\ LayerInv'
    BY <2>1 DEF EndInv, LayerInv
  <2>3. OrderedInv'
    BY <1>7 DEF DoneInv, OrderedInv
  <2> QED
    BY <2>2, <2>3
<1> QED
  BY <1>8, <1>9, <1>11, <1>12, <1>13, <1>14 DEF WalkedInv, DoneInv

LEMMA CallOpens ==
  ASSUME NEW call \in Frames, NEW files \in Seq(Node),
         NEW opened, opened = [call EXCEPT !.files = files]
  PROVE  /\ opened \in Frames /\ opened.node = call.node /\ opened.files = files
         /\ opened.next = call.next
<1>1. call = [node |-> call.node, files |-> call.files, next |-> call.next]
      /\ call.node \in Node /\ call.next \in Nat \ {0}
  BY DEF Frames
<1>2. opened = [node |-> call.node, files |-> files, next |-> call.next]
  BY <1>1
<1> QED
  BY <1>1, <1>2 DEF Frames

\* The stack after the extractor has returned the top call's files.
LEMMA OpenShape ==
  ASSUME NEW s \in Seq(Frames), s # << >>, NEW files \in Seq(Node),
         NEW t, t = [s EXCEPT ![Len(s)].files = files]
  PROVE  /\ t \in Seq(Frames) /\ Len(t) = Len(s) /\ \A i \in 1..Len(s) - 1 : t[i] = s[i]
         /\ t[Len(s)].node = s[Len(s)].node /\ t[Len(s)].files = files
         /\ t[Len(s)].next = s[Len(s)].next
<1> DEFINE n == Len(s)
           top == [s[n] EXCEPT !.files = files]
<1>1. n \in Nat \ {0} /\ n \in 1..Len(s) /\ s[n] \in Frames
  <2>1. n \in Nat /\ n # 0
    BY EmptySeq
  <2>2. n \in 1..Len(s)
    BY <2>1
  <2> QED
    BY <2>1, <2>2, ElementOfSeq
<1>2. /\ top \in Frames /\ top.node = s[n].node /\ top.files = files
      /\ top.next = s[n].next
  BY <1>1, CallOpens
<1>3. t = [s EXCEPT ![n] = top]
  OBVIOUS
<1> HIDE DEF top
<1>4. /\ t \in Seq(Frames) /\ Len(t) = n
      /\ \A i \in 1..n : t[i] = IF i = n THEN top ELSE s[i]
  <2> HIDE DEF n
  <2>1. top \in Frames
    BY <1>2
  <2>2. /\ [s EXCEPT ![n] = top] \in Seq(Frames) /\ Len([s EXCEPT ![n] = top]) = Len(s)
        /\ \A i \in 1..Len(s) : [s EXCEPT ![n] = top][i] = IF i = n THEN top ELSE s[i]
    BY <1>1, <2>1, ExceptSeq
  <2>3. n = Len(s)
    BY DEF n
  <2> QED
    BY <1>3, <2>2, <2>3
<1>5. t[n] = top /\ \A i \in 1..n - 1 : t[i] = s[i]
  <2> HIDE DEF n
  <2> QED
    BY <1>1, <1>4
<1> QED
  BY <1>2, <1>4, <1>5

\* The node under way is opened or is a leaf, and no layer tripped on it.
LEMMA OpenedWalked ==
  ASSUME WalkInv, WalkedInv, DoneInv, stage \in {"open", "sandbox"},
         NEW files \in Seq(Node), Opened(files), root' = root, emitted' = emitted,
         produced' = produced, truncated => truncated',
         Len(files) <= Len(Kids[Top.node]), \A j \in 1..Len(files) : files[j] = Kids[Top.node][j],
         files # << >> => Opens(Top.node),
         truncated' \/ files # << >> \/ ~Opens(Top.node),
         truncated' \/ files = << >> \/ Len(files) = Len(Kids[Top.node]),
         truncated' \/ Passed(Top.node)
  PROVE  WalkedInv' /\ DoneInv'
<1> DEFINE n == Len(stack)
<1>1. CallsInv /\ StageInv /\ Walking /\ Walking' /\ root \in Archive
      /\ CountInv /\ PassedInv /\ LeafInv /\ verdict = "none"
  BY TopShape DEF WalkedInv, StageInv, Walking, Opened
<1>2. /\ n \in Nat \ {0} /\ stack \in Seq(Frames) /\ Top = stack[n] /\ stack # << >>
      /\ Top.node \in Files /\ Top.next = 1 /\ Fits(Top, n - 1)
  BY <1>1, TopShape DEF WalkInv, StackInv
<1>3. /\ Len(stack') = n /\ \A i \in 1..n - 1 : stack'[i] = stack[i]
      /\ stack'[n].node = Top.node /\ stack'[n].files = files /\ stack'[n].next = 1
  <2>1. stack' = [stack EXCEPT ![n].files = files]
    BY DEF Opened
  <2>2. /\ Len(stack') = n /\ \A i \in 1..n - 1 : stack'[i] = stack[i]
        /\ stack'[n].node = stack[n].node /\ stack'[n].files = files
        /\ stack'[n].next = stack[n].next
    BY <1>2, <2>1, OpenShape
  <2> QED
    BY <1>2, <2>2
<1>4. /\ Top'.node = Top.node /\ Top'.files = files /\ Top'.next = 1
      /\ stage' = (IF files = << >> THEN "leaf" ELSE "next") /\ verdict' = "none"
  BY <1>1, <1>3 DEF Top, Opened
<1>5. Files' = Files /\ Leaves' = Leaves
  BY RootStays
<1>6. CallsInv'
  <2> SUFFICES ASSUME NEW i \in 1..Len(stack')
               PROVE  /\ Fits(stack[i], i - 1)' /\ (truncated \/ Whole(stack[i]))'
                      /\ i < Len(stack)' => (stack[i].next > 1)'
    BY DEF CallsInv
  <2> SUFFICES /\ Fits(stack'[i], i - 1) /\ (truncated' \/ Whole(stack'[i]))
               /\ i < n => stack'[i].next > 1
    BY <1>3, <1>5 DEF Fits, Whole
  <2>1. CASE i = n
    BY <1>2, <1>3, <2>1 DEF Fits, Whole
  <2>2. CASE i < n
    <3>1. i \in 1..n /\ i \in 1..n - 1
      BY <1>2, <2>2, <1>3
    <3> QED
      BY <1>1, <1>3, <2>2, <3>1 DEF CallsInv
  <2> QED
    BY <1>2, <1>3, <2>1, <2>2
<1>7. StageInv'
  <2>1. stack'[1].node = root
    BY <1>1, <1>2, <1>3 DEF StageInv
  <2>2. stage' = "leaf" => Top'.files = << >> /\ (truncated' \/ ~Opens(Top'.node))
    BY <1>4
  <2>3. stage' = "next" => Top'.files # << >>
    BY <1>4
  <2> QED
    BY <1>4, <2>1, <2>2, <2>3 DEF StageInv
<1>8. Reached' = Reached /\ Reached = At[Top.node] /\ Reached \in Nat
  BY <1>1, <1>4, ReachedTyped DEF Reached
<1>9. CountInv'
  BY <1>1, <1>8 DEF CountInv
<1>10. PassedInv'
  <2> SUFFICES ASSUME ~truncated', NEW m \in Files, At[m] <= Cleared' PROVE Passed(m)
    BY <1>5 DEF PassedInv, Passed
  <2>1. At[m] <= Reached /\ At[m] \in Nat /\ Cleared = Reached - 1
    BY <1>1, <1>4, <1>8, OrderShape DEF Cleared
  <2>2. CASE At[m] = Reached
    <3>1. m = Top.node
      BY <1>1, <1>2, <1>8, <2>2, PlacesDiffer
    <3> QED
      BY <3>1
  <2>3. CASE At[m] # Reached
    <3>1. At[m] <= Cleared
      BY <1>8, <2>1, <2>3
    <3> QED
      BY <1>1, <3>1 DEF PassedInv
  <2> QED
    BY <2>2, <2>3
<1>11. LeafInv'
  <2>1. Emitted' = Emitted
    BY DEF Emitted
  <2> SUFFICES ASSUME ~truncated' PROVE Emitted = {m \in Leaves : At[m] <= Left'}
    BY <1>5, <2>1 DEF LeafInv
  <2>2. Emitted = {m \in Leaves : At[m] <= Left} /\ Left = Reached - 1
    BY <1>1 DEF LeafInv, Left
  <2>3. ASSUME NEW m \in Leaves PROVE (At[m] <= Left') <=> (At[m] <= Left)
    <3>1. m \in Files /\ ~Opens(m) /\ At[m] \in Nat
      BY <1>1, OrderShape DEF Leaves
    <3>2. CASE stage' = "leaf"
      BY <1>8, <2>2, <3>2 DEF Left
    <3>3. CASE stage' = "next"
      <4>1. Opens(Top.node)
        BY <1>4, <3>3
      <4>2. At[m] # Reached
        BY <1>1, <1>2, <1>8, <3>1, <4>1, PlacesDiffer
      <4>3. Left' = Reached
        BY <1>8, <3>3 DEF Left
      <4> QED
        BY <1>8, <2>2, <3>1, <4>2, <4>3
    <3> QED
      BY <1>4, <3>2, <3>3
  <2> QED
    BY <2>2, <2>3
<1>12. OutInv'
  <2>1. Out' = Out
    BY DEF Out
  <2>2. /\ Bytes(Out) \in Nat /\ produced \in Nat /\ Size[Top.node] \in Nat
        /\ emitted = << >> => Bytes(Out) = 0
    BY <1>1, <1>2, OutTyped, OrderShape, WalkAssumption DEF WalkInv, RestInv
  <2>3. Bytes(Out) <= produced
    BY <2>2 DEF DoneInv, OutInv
  <2> QED
    BY <1>1, <1>3, <1>4, <2>1, <2>3 DEF DoneInv, OutInv
<1>13. EndInv' /\ LayerInv'
  BY <1>4 DEF EndInv, LayerInv
<1>14. OrderedInv'
  BY <1>5 DEF DoneInv, OrderedInv
<1>15. WalkedInv'
  BY Zenon, <1>6, <1>7, <1>9, <1>10, <1>11 DEF WalkedInv
<1>16. DoneInv'
  BY Zenon, <1>12, <1>13, <1>14 DEF DoneInv
<1> QED
  BY Zenon, <1>15, <1>16

\* The top call returns, with its leaf, if it is one, among those that are out.
LEMMA ReturnWalked ==
  ASSUME WalkInv, WalkedInv, DoneInv,
         stage = "leaf" \/ (stage = "next" /\ Top.next > Len(Top.files)), Return,
         root' = root, produced' = produced, truncated' = truncated,
         truncated \/ Emitted' = {m \in Leaves : At[m] <= Reached}
  PROVE  WalkedInv' /\ EndInv' /\ LayerInv' /\ stage' \in {"cleanup", "next"}
         /\ (Len(stack) = 1 => stage' = "cleanup")
<1> DEFINE n == Len(stack)
<1>1. CallsInv /\ StageInv /\ Walking /\ root \in Archive
      /\ CountInv /\ PassedInv /\ LeafInv /\ verdict = "none"
  BY TopShape DEF WalkedInv, StageInv, Walking
<1>2. /\ n \in Nat \ {0} /\ stack \in Seq(Frames) /\ Top = stack[n]
      /\ Top.node \in Files /\ Reached \in 1..Len(Order[root]) /\ Len(Order[root]) \in Nat
      /\ Fits(Top, n - 1) /\ Order[root] \in Seq(Node) /\ root \in Node
  BY <1>1, TopShape, ReachedTyped, OrderShape DEF WalkInv, StackInv
<1>3. /\ Reached <= Past[Top.node] - 1 /\ Past[Top.node] - 1 \in 1..Len(Order[root])
      /\ truncated \/ Reached = Past[Top.node] - 1
  <2>1. /\ Reached <= Past[Top.node] - 1 /\ Past[Top.node] \in Nat
        /\ truncated \/ Reached = Past[Top.node] - 1
    BY <1>1, LastPlace
  <2>2. Past[Top.node] \in At[Top.node] + 1..Len(Order[root]) + 1 /\ At[Top.node] \in Nat
    BY <1>1, <1>2, OrderShape
  <2> QED
    BY <1>2, <2>1, <2>2
<1>4. Files' = Files /\ Leaves' = Leaves
  BY RootStays
<1>5. /\ produced + Size[root] <= Sums(Order[root])[Past[Top.node] - 1]
      /\ truncated \/ produced + Size[root] = Sums(Order[root])[Past[Top.node] - 1]
  <2>1. Sums(Order[root])[Reached] <= Sums(Order[root])[Past[Top.node] - 1]
    BY <1>2, <1>3, SumsGrow
  <2>2. /\ produced + Size[root] <= Sums(Order[root])[Reached]
        /\ truncated \/ produced + Size[root] = Sums(Order[root])[Reached]
    BY <1>1 DEF CountInv
  <2>3. /\ Sums(Order[root])[Reached] \in Nat /\ produced \in Nat /\ Size[root] \in Nat
        /\ Sums(Order[root])[Past[Top.node] - 1] \in Nat
    <3>1. Sums(Order[root]) \in [0..Len(Order[root]) -> Nat]
      BY <1>2, SumsAre DEF IsSum
    <3>2. Size[root] \in Nat
      BY <1>2, WalkAssumption
    <3>3. \A m \in 1..Len(Order[root]) : Sums(Order[root])[m] \in Nat
      BY <1>2, <3>1
    <3>4. produced \in Nat
      BY DEF WalkInv, RestInv
    <3> QED
      BY <1>2, <1>3, <3>2, <3>3, <3>4
  <2>4. produced + Size[root] <= Sums(Order[root])[Past[Top.node] - 1]
    BY <2>1, <2>2, <2>3
  <2>5. CASE truncated
    BY <2>4, <2>5
  <2>6. CASE ~truncated
    BY <1>3, <2>2, <2>4, <2>6
  <2> QED
    BY <2>5, <2>6
<1>6. truncated \/ \A m \in Files : At[m] <= Past[Top.node] - 1 => Passed(m)
  BY <1>1, <1>3 DEF PassedInv, Cleared
<1>7. truncated \/ Emitted' = {m \in Leaves : At[m] <= Past[Top.node] - 1}
  BY <1>3
<1>8. CASE n = 1
  <2>1. stage' = "cleanup" /\ verdict' = "ok" /\ stack' = << >>
    BY <1>8 DEF Return, Leave
  <2>2. Top.node = root /\ Past[Top.node] - 1 = Len(Order[root])
    BY <1>1, <1>2, <1>8, OrderShape DEF StageInv
  <2>3. ~TooMuch(produced, Size[root])
    BY <1>1 DEF DoneInv, OutInv
  <2>4. truncated \/ produced + Size[root] = Bytes(Order[root])
    BY <1>5, <2>2 DEF Bytes
  <2>5. \A m \in Files : At[m] <= Len(Order[root])
    BY <1>1, <1>2, OrderShape
  <2>6. truncated \/ \A m \in Files : Passed(m)
    BY <1>6, <2>2, <2>5
  <2>7. truncated \/ Leaves = Emitted'
    BY <1>7, <2>2, <2>5 DEF Leaves
  <2>8. EndInv'
    BY <1>4, <2>3, <2>4, <2>6, <2>7 DEF EndInv, Passed
  <2> QED
    BY <2>1, <2>8, EndsWalk DEF LayerInv
<1>9. CASE n # 1
  <2> DEFINE caller == stack[n - 1]
  <2>1. /\ n - 1 \in 1..n /\ Fits(caller, n - 2) /\ (truncated \/ Whole(caller))
        /\ caller.files # << >> /\ caller.next > 1
        /\ caller.files[caller.next - 1] = Top.node
    BY <1>1, <1>9, CallerShape
  <2>2. /\ Len(stack') = n - 1 /\ \A i \in 1..n - 1 : stack'[i] = stack[i]
        /\ stage' = "next" /\ verdict' = "none" /\ Top' = caller
    <3>1. stack' = SubSeq(stack, 1, n - 1) /\ stage' = "next" /\ verdict' = verdict
      BY <1>9 DEF Return, Front
    <3>2. Len(stack') = n - 1 /\ \A i \in 1..n - 1 : stack'[i] = stack[i]
      BY <1>2, <2>1, <3>1
    <3> QED
      BY <1>1, <1>2, <2>1, <3>1, <3>2 DEF Top
  <2>3. Reached' = Past[Top.node] - 1
    BY <2>1, <2>2 DEF Reached
  <2> HIDE DEF caller
  <2>4. CallsInv'
    <3> SUFFICES ASSUME NEW i \in 1..Len(stack')
                 PROVE  /\ Fits(stack[i], i - 1)' /\ (truncated \/ Whole(stack[i]))'
                        /\ i < Len(stack)' => (stack[i].next > 1)'
      BY DEF CallsInv
    <3>1. i \in 1..n /\ i \in 1..n - 1 /\ (i < n - 1 => i < n)
      BY <1>2, <2>2
    <3>2. /\ Fits(stack[i], i - 1) /\ (truncated \/ Whole(stack[i]))
          /\ i < n => stack[i].next > 1
      BY <1>1, <3>1 DEF CallsInv
    <3> QED
      BY <1>4, <2>2, <3>1, <3>2 DEF Fits, Whole
  <2>5. StageInv'
    <3>1. stack'[1].node = root
      BY <1>1, <1>2, <2>1, <2>2 DEF StageInv
    <3> QED
      BY <2>1, <2>2, <3>1 DEF StageInv
  <2>6. CountInv'
    BY <1>5, <2>3 DEF CountInv
  <2>7. PassedInv' /\ LeafInv'
    <3>1. Cleared' = Reached' /\ Left' = Reached'
      BY <2>2 DEF Cleared, Left
    <3>2. PassedInv'
      BY <1>4, <1>6, <2>3, <3>1 DEF PassedInv, Passed
    <3>3. LeafInv'
      BY <1>4, <1>7, <2>3, <3>1 DEF LeafInv
    <3> QED
      BY <3>2, <3>3
  <2>8. EndInv' /\ LayerInv'
    BY <2>2 DEF EndInv, LayerInv
  <2> QED
    BY <1>9, <2>2, <2>4, <2>5, <2>6, <2>7, <2>8 DEF WalkedInv
<1> QED
  BY <1>8, <1>9

LEMMA StepNextFile ==
  ASSUME WalkInv, WalkedInv, DoneInv, NextFile
  PROVE  WalkedInv' /\ DoneInv'
<1> DEFINE file == Top.files[Top.next]
<1>1. /\ CallsInv /\ StageInv /\ Walking /\ stage = "next" /\ CountInv /\ root \in Archive
      /\ UNCHANGED <<root, emitted, truncated>> /\ verdict = "none"
      /\ Top.next \in Nat /\ Len(Top.files) \in Nat
  BY TopShape DEF NextFile, sandboxVars, WalkedInv, StageInv, Walking
<1>2. CASE Top.next > Len(Top.files)
  <2>1. Return /\ produced' = produced
    BY <1>2 DEF NextFile
  <2>2. Emitted' = Emitted /\ (truncated \/ Emitted = {m \in Leaves : At[m] <= Reached})
    BY <1>1 DEF Emitted, WalkedInv, LeafInv, Left
  <2>3. WalkedInv' /\ EndInv' /\ LayerInv' /\ stage' \in {"cleanup", "next"}
    BY <1>1, <1>2, <2>1, <2>2, ReturnWalked
  <2>4. OutInv'
    <3>1. Out' = Out
      BY <1>1 DEF Out
    <3> QED
      BY <1>1, <2>1, <2>3, <3>1 DEF DoneInv, OutInv, Walking
  <2>5. OrderedInv'
    BY <1>1, RootStays DEF DoneInv, OrderedInv
  <2> QED
    BY <2>3, <2>4, <2>5 DEF DoneInv
<1>3. CASE Top.next <= Len(Top.files) /\ ~TooMuch(produced', Size[root])
  <2>1. ~(Top.next > Len(Top.files))
    BY <1>1, <1>3
  <2>2. /\ stack' = Append([stack EXCEPT ![Len(stack)].next = @ + 1], Frame(file))
        /\ stage' = "open" /\ verdict' = verdict /\ produced' = produced + Size[file]
    BY <1>3, <2>1 DEF NextFile
  <2> QED
    BY <1>1, <1>3, <2>2, PushedWalked
<1>4. CASE Top.next <= Len(Top.files) /\ TooMuch(produced', Size[root])
  <2>1. ~(Top.next > Len(Top.files))
    BY <1>1, <1>4
  <2>2. Leave("decompression_ratio") /\ produced' = produced + Size[file]
    BY <1>4, <2>1 DEF NextFile
  <2>3. /\ file \in Files /\ Order[root][Reached + 1] = file
        /\ Reached + 1 \in 1..Len(Order[root])
    BY <1>1, <1>4, NextPlace
  <2>4. /\ Order[root] \in Seq(Node) /\ file \in Node /\ root \in Node
        /\ Len(Order[root]) \in Nat /\ Reached \in 1..Len(Order[root])
    BY <1>1, <2>3, OrderShape, ReachedTyped
  <2>5. IsSum(Sums(Order[root]), Order[root], Len(Order[root]))
    BY <2>4, SumsAre
  <2>6. Size[file] \in Nat /\ Size[root] \in Nat /\ produced \in Nat
    BY <2>4, WalkAssumption DEF WalkInv, RestInv
  <2> HIDE DEF file
  <2>7. /\ Sums(Order[root])[Reached + 1] = Sums(Order[root])[Reached] + Size[file]
        /\ Sums(Order[root])[Reached] \in Nat /\ Bytes(Order[root]) \in Nat
    <3>1. /\ Reached + 1 \in 0..Len(Order[root]) /\ Reached + 1 # 0
          /\ Reached + 1 - 1 = Reached /\ Reached \in 0..Len(Order[root])
      BY <2>3, <2>4
    <3>2. Sums(Order[root]) \in [0..Len(Order[root]) -> Nat] /\ Bytes(Order[root]) \in Nat
      BY <2>4, <2>5, BytesTyped DEF IsSum
    <3>3. Sums(Order[root])[Reached + 1]
            = Sums(Order[root])[Reached + 1 - 1] + Size[Order[root][Reached + 1]]
      BY <2>5, <3>1 DEF IsSum
    <3> QED
      BY <2>3, <3>1, <3>2, <3>3
  <2>8. Sums(Order[root])[Reached + 1] <= Bytes(Order[root])
    BY <2>3, <2>4, SumsGrow DEF Bytes
  <2>9. produced + Size[root] <= Sums(Order[root])[Reached]
    BY <1>1 DEF CountInv
  <2>10. /\ produced' <= Bytes(Order[root]) - Size[root] /\ produced' \in Nat
         /\ Bytes(Order[root]) - Size[root] \in Nat
    BY <2>2, <2>6, <2>7, <2>8, <2>9
  <2>11. TooBig
    BY <1>4, <2>6, <2>10, TooMuchGrows DEF TooBig
  <2>12. LayerInv' /\ stage' = "cleanup" /\ stack' = << >>
    BY <1>1, <2>2, <2>11, RootStays DEF LayerInv, Leave
  <2> QED
    BY <1>1, <2>2, <2>12, LeftStays, EndsWalk
<1> QED
  BY <1>1, <1>2, <1>3, <1>4

LEMMA StepLeaf ==
  ASSUME WalkInv, WalkedInv, DoneInv, Leaf
  PROVE  WalkedInv' /\ DoneInv'
<1> DEFINE n == Len(emitted)
           new == [leaf |-> Top.node, parent |-> Container]
<1>1. /\ CallsInv /\ StageInv /\ Walking /\ stage = "leaf" /\ LeafInv /\ root \in Archive
      /\ UNCHANGED <<root, produced, truncated>> /\ verdict = "none" /\ Return
      /\ Top.node \in Files /\ Top.node \in Node /\ (truncated \/ ~Opens(Top.node))
      /\ Len(stack) \in Nat \ {0} /\ Top = stack[Len(stack)] /\ Container \in Node
  BY TopShape, ContainerTyped, EmptySeq
  DEF Leaf, sandboxVars, WalkedInv, StageInv, Walking, WalkInv, StackInv
<1>2. Reached = At[Top.node] /\ Reached \in Nat
  BY <1>1, ReachedTyped DEF Reached
<1>3. /\ n \in Nat /\ Len(emitted') = n + 1 /\ emitted'[n + 1] = new
      /\ \A i \in 1..n : emitted'[i] = emitted[i]
      /\ emitted \in Seq([leaf : Node, parent : Node])
      /\ emitted' \in Seq([leaf : Node, parent : Node])
  <2>1. emitted \in Seq([leaf : Node, parent : Node]) /\ emitted' = Append(emitted, new)
    BY DEF WalkInv, RestInv, Leaf
  <2>2. new \in [leaf : Node, parent : Node]
    BY <1>1
  <2> DEFINE Told == [leaf : Node, parent : Node]
  <2> HIDE DEF new, Told
  <2>3. emitted \in Seq(Told) /\ new \in Told
    BY <2>1, <2>2 DEF Told
  <2>4. /\ emitted' \in Seq(Told) /\ Len(emitted') = Len(emitted) + 1
        /\ \A i \in 1..Len(emitted) : emitted'[i] = emitted[i]
        /\ emitted'[Len(emitted) + 1] = new
    BY <2>1, <2>3, AppendProperties
  <2>5. Len(emitted) \in Nat
    BY <2>3
  <2> QED
    BY <2>3, <2>4, <2>5 DEF Told
<1>4. new.leaf = Top.node /\ new.parent = Container
  OBVIOUS
<1> HIDE DEF new
<1>5. Emitted' = Emitted \cup {Top.node}
  BY <1>3, <1>4 DEF Emitted
<1>6. truncated \/ Emitted = {m \in Leaves : At[m] < Reached}
  <2>1. Left = Reached - 1
    BY <1>1 DEF Left
  <2>2. ASSUME NEW m \in Leaves PROVE (At[m] <= Left) <=> (At[m] < Reached)
    BY <1>1, <1>2, <2>1, OrderShape DEF Leaves
  <2>3. truncated \/ Emitted = {m \in Leaves : At[m] <= Left}
    BY <1>1 DEF LeafInv
  <2> QED
    BY <2>2, <2>3
<1>7. truncated \/ Emitted' = {m \in Leaves : At[m] <= Reached}
  <2> SUFFICES ASSUME ~truncated PROVE Emitted' = {m \in Leaves : At[m] <= Reached}
    OBVIOUS
  <2>1. Top.node \in Leaves
    BY <1>1 DEF Leaves
  <2>2. ASSUME NEW m \in Leaves
        PROVE  (At[m] <= Reached) <=> (At[m] < Reached \/ m = Top.node)
    <3>1. m \in Files /\ At[m] \in Nat
      BY <1>1, OrderShape DEF Leaves
    <3>2. At[m] = Reached <=> m = Top.node
      BY <1>1, <1>2, <3>1, PlacesDiffer
    <3> QED
      BY <1>2, <3>1, <3>2
  <2> QED
    BY <1>5, <1>6, <2>1, <2>2
<1>8. WalkedInv' /\ EndInv' /\ LayerInv' /\ stage' \in {"cleanup", "next"}
      /\ (Len(stack) = 1 => stage' = "cleanup")
  BY <1>1, <1>7, ReturnWalked
<1>9. OutInv'
  <2>1. /\ Out \in Seq(Node) /\ Len(Out) = n /\ Bytes(Out) \in Nat
        /\ Out' \in Seq(Node) /\ Len(Out') = n + 1 /\ Bytes(Out)' \in Nat
        /\ n = 0 => Out = << >>
    <3>1. RestInv /\ RestInv'
      BY <1>1, StepRest DEF WalkInv, WalkNext, Handler
    <3>2. Out \in Seq(Node) /\ Len(Out) = n /\ Bytes(Out) \in Nat
      BY <3>1, OutTyped DEF WalkInv
    <3>3. Out' = [i \in 1..n + 1 |-> emitted'[i].leaf]
      BY <1>3 DEF Out
    <3>4. ASSUME NEW i \in 1..n + 1 PROVE emitted'[i].leaf \in Node
      <4>1. emitted'[i] \in [leaf : Node, parent : Node]
        BY <1>3, ElementOfSeq
      <4> QED
        BY <4>1
    <3>5. Out' \in Seq(Node) /\ Len(Out') = n + 1
      BY <1>3, <3>3, <3>4
    <3> QED
      BY <3>2, <3>5, BytesTyped, EmptySeq
  <2>2. /\ \A i \in 1..n : Out'[i] = Out[i]
        /\ Out'[n + 1] = Top.node
    BY <1>3, <1>4 DEF Out
  <2>3. Bytes(Out)' = Bytes(Out) + Size[Top.node]
    BY <2>1, <2>2, BytesAppend
  <2>4. CASE Len(stack) = 1
    <3>1. stage' = "cleanup" /\ n = 0 /\ Top.node = root
      BY <1>1, <1>8, <2>4 DEF DoneInv, OutInv, StageInv
    <3>2. Out' = <<root>>
      BY <1>1, <2>1, <2>2, <3>1
    <3> QED
      BY <1>1, <3>1, <3>2 DEF OutInv, Walking
  <2>5. CASE Len(stack) # 1
    <3>1. Bytes(Out) + Size[Top.node] <= produced /\ ~TooMuch(produced, Size[root])
      BY <1>1, <2>5 DEF DoneInv, OutInv
    <3>2. produced \in Nat /\ Size[root] \in Nat
      BY <1>1, OrderShape, WalkAssumption DEF WalkInv, RestInv
    <3>3. Bytes(Out)' <= produced
      BY <2>3, <3>1
    <3>4. ~TooMuch(Bytes(Out)', Size[root])
      BY <2>1, <3>1, <3>2, <3>3, TooMuchGrows
    <3> QED
      BY <1>1, <1>8, <3>1, <3>3, <3>4 DEF OutInv, Walking
  <2> QED
    BY <2>4, <2>5
<1>10. OrderedInv'
  <2>1. Leaves' = Leaves
    BY <1>1, RootStays
  <2> SUFFICES ASSUME ~truncated, NEW i \in 1..n + 1
               PROVE  /\ emitted'[i].leaf \in Leaves
                      /\ {m \in Leaves : At[m] < At[emitted'[i].leaf]}
                         = {emitted'[j].leaf : j \in 1..i - 1}
                      /\ \/ emitted'[i].leaf \in Range(Kids[emitted'[i].parent])
                         \/ emitted'[i] = [leaf |-> root, parent |-> root]
    BY <1>1, <1>3, <2>1 DEF OrderedInv
  <2>2. CASE i \in 1..n
    <3>1. \A j \in 1..i - 1 : emitted'[j] = emitted[j]
      BY <1>3, <2>2
    <3>2. emitted'[i] = emitted[i]
      BY <1>3, <2>2
    <3>3. {emitted'[j].leaf : j \in 1..i - 1} = {emitted[j].leaf : j \in 1..i - 1}
      BY <3>1
    <3> QED
      BY <2>2, <3>2, <3>3 DEF DoneInv, OrderedInv
  <2>3. CASE i = n + 1
    <3>1. emitted'[i].leaf = Top.node /\ emitted'[i].parent = Container
      BY <1>3, <1>4, <2>3
    <3>2. Top.node \in Leaves
      BY <1>1 DEF Leaves
    <3>3. {emitted'[j].leaf : j \in 1..i - 1} = Emitted
      BY <1>3, <2>3 DEF Emitted
    <3>4. CASE Len(stack) = 1
      <4>1. Top.node = root /\ Container = root
        BY <1>1, <3>4 DEF StageInv, Container, Depth
      <4> QED
        BY <1>2, <1>3, <1>6, <2>3, <3>1, <3>2, <3>3, <4>1 DEF new
    <3>5. CASE Len(stack) # 1
      <4> DEFINE caller == stack[Len(stack) - 1]
      <4>1. /\ caller.next - 1 \in 1..Len(caller.files) /\ Fits(caller, Len(stack) - 2)
            /\ caller.files[caller.next - 1] = Top.node /\ caller.node \in Node
            /\ Len(caller.files) \in Nat
        BY <1>1, <3>5, CallerShape
      <4>2. Container = caller.node
        BY <1>1, <3>5 DEF Container, Depth
      <4> HIDE DEF caller
      <4>3. Kids[caller.node] \in Seq(Node)
        BY <4>1, WalkAssumption
      <4>4. /\ Top.node = Kids[caller.node][caller.next - 1]
            /\ caller.next - 1 \in DOMAIN Kids[caller.node]
        BY <4>1, <4>3 DEF Fits
      <4>5. Top.node \in Range(Kids[Container])
        BY <4>2, <4>4 DEF Range
      <4> QED
        BY <1>2, <1>6, <3>1, <3>2, <3>3, <4>5
    <3> QED
      BY <3>4, <3>5
  <2> QED
    BY <1>3, <2>2, <2>3
<1> QED
  BY <1>8, <1>9, <1>10 DEF DoneInv

LEMMA StepOpen ==
  ASSUME WalkInv, WalkedInv, DoneInv, Open
  PROVE  WalkedInv' /\ DoneInv'
<1> DEFINE n == Top.node
<1>1. /\ CallsInv /\ StageInv /\ Walking /\ stage = "open" /\ root \in Archive
      /\ UNCHANGED <<root, produced, emitted>> /\ verdict = "none"
      /\ n \in Files /\ n \in Node /\ Kids[n] \in Seq(Node) /\ Len(Kids[n]) \in Nat
      /\ Level[n] = Depth /\ Top.files = << >>
  BY TopShape DEF Open, WalkedInv, StageInv, Walking, Fits, Depth
<1>2. /\ Depth \in Nat /\ DepthCap \in Nat
      /\ Opener[n] \in {"native", "binwalk", "none"}
      /\ Escape[n] \in {"zip_slip", "symlink", "no"}
  <2>1. Len(stack) \in Nat \ {0}
    BY <1>1, TopShape
  <2> QED
    BY <1>1, <2>1, WalkAssumption DEF Depth
<1> HIDE DEF n
<1>3. CASE Depth > DepthCap
  <2>1. Leave("recursion_depth") /\ UNCHANGED sandboxVars
    BY <1>3 DEF Open
  <2>2. TooDeep
    BY <1>1, <1>3 DEF TooDeep
  <2>3. LayerInv' /\ stage' = "cleanup" /\ stack' = << >>
    BY <1>1, <2>1, <2>2, RootStays DEF LayerInv, Leave
  <2> QED
    BY <1>1, <2>1, <2>3, LeftStays, EndsWalk DEF sandboxVars
<1>4. CASE ~(Depth > DepthCap) /\ Opener[n] = "native" /\ ExtractNative(n) /\ UNCHANGED sandboxVars
  <2>1. CASE TooMuch(Bytes(Kids[n]), Size[n])
    <3>1. Leave("decompression_ratio") /\ Inflates("native")
      BY <1>1, <1>4, <2>1 DEF ExtractNative, Inflates
    <3>2. LayerInv' /\ stage' = "cleanup" /\ stack' = << >>
      BY <1>1, <3>1, RootStays DEF LayerInv, Leave
    <3> QED
      BY <1>1, <1>4, <3>1, <3>2, LeftStays, EndsWalk DEF sandboxVars
  <2>2. CASE ~TooMuch(Bytes(Kids[n]), Size[n]) /\ Escape[n] # "no"
    <3>1. /\ Leave(Escape[n]) /\ Escape[n] \in {"zip_slip", "symlink"}
          /\ Escape[n] = "zip_slip" => Slips
          /\ Escape[n] = "symlink" => Links
      BY <1>1, <1>2, <1>4, <2>2 DEF ExtractNative, Slips, Links
    <3>2. LayerInv' /\ stage' = "cleanup" /\ stack' = << >>
      BY <1>1, <3>1, RootStays DEF LayerInv, Leave
    <3> QED
      BY <1>1, <1>4, <3>1, <3>2, LeftStays, EndsWalk DEF sandboxVars
  <2>3. CASE ~TooMuch(Bytes(Kids[n]), Size[n]) /\ Escape[n] = "no"
    <3>1. Opened(Kids[n]) /\ truncated' = truncated
      BY <1>4, <2>3 DEF ExtractNative, sandboxVars
    <3>2. Passed(n)
      BY <1>1, <1>2, <1>4, <2>3 DEF Passed
    <3>3. Kids[n] # << >> <=> Opens(n)
      BY <1>4 DEF Opens
    <3> QED
      BY <1>1, <3>1, <3>2, <3>3, OpenedWalked DEF n
  <2> QED
    BY <2>1, <2>2, <2>3
<1>5. CASE ~(Depth > DepthCap) /\ Opener[n] = "none" /\ Opened(<< >>) /\ UNCHANGED sandboxVars
  <2>1. Passed(n) /\ ~Opens(n) /\ truncated' = truncated
    BY <1>1, <1>2, <1>5 DEF Passed, Opens, sandboxVars
  <2> DEFINE files == << >>
  <2>2. files \in Seq(Node) /\ Len(files) = 0 /\ files = << >>
    OBVIOUS
  <2>3. Opened(files)
    BY <1>5
  <2> HIDE DEF files
  <2>4. Len(files) <= Len(Kids[n]) /\ \A j \in 1..Len(files) : files[j] = Kids[n][j]
    BY <1>1, <2>2
  <2> QED
    BY <1>1, <2>1, <2>2, <2>3, <2>4, OpenedWalked DEF n
<1>6. CASE /\ ~(Depth > DepthCap) /\ Opener[n] = "binwalk" /\ stage' = "sandbox"
           /\ UNCHANGED <<stack, verdict, helper, truncated>>
  <2>1. Top' = Top /\ Files' = Files /\ Leaves' = Leaves /\ Out' = Out /\ Emitted' = Emitted
    BY <1>1, <1>6, RootStays DEF Top, Out, Emitted
  <2>2. CallsInv'
    BY <1>1, <1>6, <2>1 DEF CallsInv, Fits, Whole
  <2>3. StageInv'
    BY <1>1, <1>2, <1>6, <2>1 DEF StageInv, n
  <2>4. Reached' = Reached /\ Cleared' = Cleared /\ Left' = Left
    BY <1>1, <1>6, <2>1 DEF Reached, Cleared, Left
  <2>5. CountInv' /\ PassedInv' /\ LeafInv'
    BY <1>1, <1>6, <2>1, <2>4 DEF WalkedInv, CountInv, PassedInv, LeafInv, Passed
  <2>6. OutInv'
    BY <1>1, <1>6, <2>1 DEF DoneInv, OutInv
  <2>7. EndInv' /\ LayerInv' /\ OrderedInv'
    BY <1>1, <1>6, <2>1 DEF DoneInv, EndInv, LayerInv, OrderedInv
  <2> QED
    BY <2>2, <2>3, <2>5, <2>6, <2>7 DEF WalkedInv, DoneInv
<1> QED
  BY <1>3, <1>4, <1>5, <1>6 DEF Open, n

LEMMA StepCollect ==
  ASSUME WalkInv, WalkedInv, DoneInv, Collect
  PROVE  WalkedInv' /\ DoneInv'
<1> DEFINE n == Top.node
           files == SubSeq(Packed, 1, written)
<1>1. /\ CallsInv /\ StageInv /\ Walking /\ stage = "sandbox" /\ root \in Archive
      /\ UNCHANGED <<root, produced, emitted>> /\ verdict = "none"
      /\ n \in Files /\ Kids[n] \in Seq(Node) /\ Len(Kids[n]) \in Nat /\ Packed = Kids[n]
      /\ written \in Nat /\ written <= Len(Packed) /\ Opener[n] = "binwalk"
      /\ Level[n] <= DepthCap
  BY TopShape
  DEF Collect, WalkedInv, StageInv, Walking, Packed, WalkInv, StackInv, RestInv
<1>2. /\ files \in Seq(Node) /\ Len(files) = written
      /\ \A j \in 1..Len(files) : files[j] = Kids[n][j]
  BY <1>1
<1>5. (truncated => truncated') /\ (written < Len(Packed) => truncated')
  BY DEF Collect
<1>3. CASE Escape[n] = "symlink"
  <2>1. Leave("symlink") /\ Links
    BY <1>1, <1>3 DEF Collect, Links
  <2>2. LayerInv' /\ stage' = "cleanup" /\ stack' = << >>
    BY <1>1, <2>1, RootStays DEF LayerInv, Leave
  <2> QED
    BY <1>1, <1>5, <2>1, <2>2, LeftStays, EndsWalk
<1>4. CASE Escape[n] # "symlink"
  <2>1. Opened(files)
    BY <1>4 DEF Collect
  <2> HIDE DEF files
  <2>2. Passed(n)
    BY <1>1, <1>4 DEF Passed
  <2>3. files # << >> => Opens(n)
    <3>1. files # << >> => Len(Kids[n]) # 0
      BY <1>1, <1>2, EmptySeq
    <3> QED
      BY <1>1, <3>1 DEF Opens
  <2>4. files # << >> \/ truncated' \/ ~Opens(n)
    <3>1. Kids[n] # << >> => Len(Kids[n]) # 0
      BY <1>1, EmptySeq
    <3>2. files = << >> => written = 0
      BY <1>2
    <3> QED
      BY <1>1, <1>5, <3>1, <3>2 DEF Opens
  <2>5. truncated' \/ Len(files) = Len(Kids[n])
    BY <1>1, <1>5, <1>2
  <2> QED
    BY <1>1, <1>5, <1>2, <2>1, <2>2, <2>3, <2>4, <2>5, OpenedWalked
<1> QED
  BY <1>3, <1>4

\* What binwalk has written so far is part of what is packed.
LEMMA StepWatchdog ==
  ASSUME WalkInv, WalkedInv, DoneInv, Watchdog
  PROVE  WalkedInv' /\ DoneInv'
<1>1. /\ StageInv /\ stage = "sandbox" /\ Opener[Top.node] = "binwalk" /\ Top.node \in Files
      /\ Top.node \in Node /\ Kids[Top.node] \in Seq(Node) /\ Packed = Kids[Top.node]
      /\ written \in 0..Len(Packed) /\ TooMuch(Written, Size[Top.node])
      /\ Leave("decompression_ratio") /\ UNCHANGED <<root, produced, emitted, truncated>>
      /\ verdict = "none"
  BY TopShape
  DEF Watchdog, WalkedInv, StageInv, Walking, Packed, WalkInv, StackInv, RestInv
<1>2. Written <= Bytes(Packed) /\ Written \in Nat /\ Bytes(Packed) \in Nat
  <2>1. SubSeq(Packed, 1, written) \in Seq(Node)
    BY <1>1
  <2> QED
    BY <1>1, <2>1, BytesPrefix, BytesTyped DEF Written
<1>3. Size[Top.node] \in Nat
  BY <1>1, WalkAssumption
<1>4. Inflates("binwalk")
  BY <1>1, <1>2, <1>3, TooMuchGrows DEF Inflates
<1>5. LayerInv' /\ stage' = "cleanup" /\ stack' = << >>
  BY <1>1, <1>4, RootStays DEF LayerInv, Leave
<1> QED
  BY <1>1, <1>5, LeftStays, EndsWalk

LEMMA StepDownload ==
  ASSUME WalkInv, WalkedInv, DoneInv, Download
  PROVE  WalkedInv' /\ DoneInv'
<1>1. /\ StageInv /\ stage = "download" /\ stage' = "open" /\ stack' = <<Frame(root)>>
      /\ UNCHANGED <<root, produced, emitted, verdict, truncated>>
      /\ verdict = "none" /\ emitted = << >> /\ produced = 0 /\ root \in Archive
  BY DEF Download, sandboxVars, WalkedInv, StageInv, WalkInv, RestInv
<1>2. /\ root \in Files /\ At[root] = 1 /\ Level[root] = 0 /\ root \in Node
      /\ Order[root] \in Seq(Node) /\ Len(Order[root]) \in Nat \ {0}
      /\ Order[root][1] = root /\ Files' = Files /\ Leaves' = Leaves
      /\ \A n \in Files : At[n] \in Nat \ {0}
  BY <1>1, OrderShape, RootStays
<1>3. Len(stack') = 1 /\ stack'[1] = Frame(root) /\ Top' = Frame(root)
  BY <1>1 DEF Top
<1>4. Frame(root).node = root /\ Frame(root).files = << >>
  BY DEF Frame
<1>5. CallsInv'
  <2>1. Kids[root] \in Seq(Node)
    BY <1>2, WalkAssumption
  <2>2. Fits(Frame(root), 0) /\ Whole(Frame(root))
    BY <1>2, <1>4, <2>1 DEF Fits, Whole
  <2> SUFFICES ASSUME NEW i \in 1..Len(stack')
               PROVE  /\ Fits(stack[i], i - 1)' /\ (truncated \/ Whole(stack[i]))'
                      /\ i < Len(stack)' => (stack[i].next > 1)'
    BY DEF CallsInv
  <2>3. i = 1 /\ stack'[i] = Frame(root) /\ i - 1 = 0
    BY <1>3
  <2> QED
    BY <1>2, <1>3, <2>2, <2>3 DEF Fits, Whole
<1>6. StageInv'
  BY <1>1, <1>3, <1>4 DEF StageInv
<1>7. Reached' = 1 /\ Cleared' = 0 /\ Left' = 0
  BY <1>1, <1>2, <1>3, <1>4 DEF Reached, Cleared, Left
<1>8. CountInv'
  <2>1. IsSum(Sums(Order[root]), Order[root], Len(Order[root])) /\ Size[root] \in Nat
    BY <1>2, SumsAre, WalkAssumption
  <2>2. Sums(Order[root])[0] = 0 /\ Sums(Order[root])[1] = Sums(Order[root])[0] + Size[root]
    BY <1>2, <2>1 DEF IsSum
  <2> QED
    BY <1>1, <1>7, <2>1, <2>2 DEF CountInv
<1>9. PassedInv' /\ LeafInv'
  <2>1. \A n \in Files : ~(At[n] <= 0)
    BY <1>2
  <2>2. Emitted' = {}
    BY <1>1 DEF Emitted
  <2>3. PassedInv'
    BY <1>2, <1>7, <2>1 DEF PassedInv
  <2>4. LeafInv'
    BY <1>2, <1>7, <2>1, <2>2 DEF LeafInv, Leaves
  <2> QED
    BY <2>3, <2>4
<1>10. OutInv'
  <2>1. Out' = Out /\ ~TooMuch(produced, Size[root])
    <3>1. Size[root] * RatioLimit \in Nat
      BY <1>2, WalkAssumption
    <3> QED
      BY <1>1, <3>1 DEF Out, TooMuch
  <2> QED
    BY <1>1, <1>3, <2>1 DEF DoneInv, OutInv
<1>11. EndInv' /\ LayerInv' /\ OrderedInv'
  BY <1>1, <1>2 DEF DoneInv, EndInv, LayerInv, OrderedInv
<1> QED
  BY <1>5, <1>6, <1>8, <1>9, <1>10, <1>11 DEF WalkedInv, DoneInv

LEMMA WalkedStays ==
  ASSUME WalkedInv, DoneInv,
         UNCHANGED <<root, stage, stack, produced, emitted, verdict, truncated>>
  PROVE  WalkedInv' /\ DoneInv'
<1>1. /\ Top' = Top /\ Files' = Files /\ Leaves' = Leaves /\ Out' = Out /\ Emitted' = Emitted
      /\ Reached' = Reached /\ (Walking <=> Walking')
  BY RootStays DEF Top, Out, Emitted, Reached, Walking
<1>2. CallsInv'
  BY <1>1 DEF WalkedInv, CallsInv, Fits, Whole
<1>3. StageInv'
  BY <1>1 DEF WalkedInv, StageInv
<1>4. CountInv'
  BY <1>1 DEF WalkedInv, CountInv
<1>5. Cleared' = Cleared /\ Left' = Left
  BY <1>1 DEF Cleared, Left
<1>6. PassedInv' /\ LeafInv'
  BY <1>1, <1>5 DEF WalkedInv, PassedInv, LeafInv, Passed
<1>7. EndInv' /\ OutInv'
  BY <1>1 DEF DoneInv, EndInv, OutInv, Passed
<1>8. OrderedInv' /\ LayerInv'
  BY <1>1, RootStays DEF DoneInv, OrderedInv, LayerInv
<1> QED
  BY <1>2, <1>3, <1>4, <1>6, <1>7, <1>8 DEF WalkedInv, DoneInv

LEMMA StepWalked ==
  ASSUME WalkInv, WalkedInv, DoneInv, WalkNext
  PROVE  WalkedInv' /\ DoneInv'
<1>1. CASE Download \/ Open \/ NextFile \/ Leaf
  BY <1>1, StepDownload, StepOpen, StepNextFile, StepLeaf
<1>2. CASE Collect \/ Watchdog
  BY <1>2, StepCollect, StepWatchdog
<1>3. CASE Timeout \/ CommunicateExpires \/ WaitExpires \/ CallRaises
  <2>1. PICK v \in {"sandbox_timeout", "error"} : Leave(v)
    BY <1>3 DEF Timeout, CommunicateExpires, WaitExpires, CallRaises
  <2>2. UNCHANGED <<root, emitted, truncated>>
    BY <1>3 DEF Timeout, CommunicateExpires, WaitExpires, CallRaises, sandboxVars
  <2>3. LayerInv' /\ stage' = "cleanup" /\ stack' = << >>
    BY <2>1 DEF LayerInv, Leave
  <2> QED
    BY <2>1, <2>2, <2>3, LeftStays, EndsWalk
<1>4. CASE Cleanup
  <2>1. /\ stage' = "over" /\ stage = "cleanup"
        /\ UNCHANGED <<root, stack, produced, emitted, verdict, truncated>>
    BY <1>4 DEF Cleanup, sandboxVars
  <2>2. Files' = Files /\ Leaves' = Leaves /\ Out' = Out /\ Emitted' = Emitted
    BY <2>1, RootStays DEF Out, Emitted
  <2>3. WalkedInv'
    <3>1. CallsInv'
      BY <2>1, <2>2 DEF WalkedInv, CallsInv, Fits, Whole
    <3> QED
      BY <2>1, <3>1
      DEF WalkedInv, StageInv, CountInv, PassedInv, LeafInv, Walking
  <2>4. EndInv' /\ OutInv'
    BY <2>1, <2>2 DEF DoneInv, EndInv, OutInv, Passed, Walking
  <2>5. OrderedInv' /\ LayerInv'
    BY <2>1, <2>2, RootStays DEF DoneInv, OrderedInv, LayerInv
  <2> QED
    BY <2>3, <2>4, <2>5 DEF DoneInv
<1>5. CASE UNCHANGED <<root, stage, stack, produced, emitted, verdict, truncated>>
  BY <1>5, WalkedStays
<1> QED
  BY <1>1, <1>2, <1>3, <1>4, <1>5
  DEF WalkNext, Handler, Poll, ChildWorks, ChildFails, HelperEnds

LEMMA AlwaysWalked == ProgressSpec => [](WalkInv /\ WalkedInv /\ DoneInv)
<1>1. ProgressInit => WalkedInv /\ DoneInv
  <2> SUFFICES ASSUME WalkInit PROVE WalkedInv /\ DoneInv
    BY DEF ProgressInit
  <2>1. /\ stage = "download" /\ verdict = "none" /\ emitted = << >> /\ produced = 0
        /\ Len(stack) = 0 /\ ~Walking /\ root \in Archive /\ Len(emitted) = 0
    BY DEF WalkInit, Walking
  <2>2. WalkedInv
    BY <2>1 DEF WalkedInv, CallsInv, StageInv, CountInv, PassedInv, LeafInv
  <2>3. EndInv /\ OrderedInv /\ LayerInv
    BY <2>1 DEF EndInv, OrderedInv, LayerInv
  <2>4. OutInv
    <3>1. << >> \in Seq(Node) /\ Len(<< >>) = 0 /\ Out = << >>
      BY <2>1 DEF Out
    <3>2. Bytes(Out) = 0
      BY <3>1, BytesNone
    <3>3. Size[root] * RatioLimit \in Nat
      BY <2>1, WalkAssumption
    <3> QED
      BY <2>1, <3>2, <3>3 DEF OutInv, TooMuch
  <2> QED
    BY <2>2, <2>3, <2>4 DEF DoneInv
<1>2. ASSUME WalkedInv, DoneInv, UNCHANGED walkVars PROVE WalkedInv' /\ DoneInv'
  BY <1>2, WalkedStays DEF walkVars, sandboxVars
<1>3. [ProgressNext]_progressVars => WalkNext \/ UNCHANGED walkVars
  BY DEF ProgressNext, progressVars, Match, Complete, Read
<1>4. WalkInv /\ WalkedInv /\ DoneInv /\ [ProgressNext]_progressVars => WalkedInv' /\ DoneInv'
  BY <1>2, <1>3, StepWalked
<1> QED
  BY <1>1, <1>4, AlwaysWalk, PTL DEF ProgressSpec

\* _recurse, handle_unpack: for any archive, limits, binwalk and failures, the
\* leaves go out in depth-first order, each once and with its container, and
\* all of them when the job is marked extracted, unless a child failed.
THEOREM LeavesGoOut == ProgressSpec => []LeavesInOrder
<1>1. WalkInv /\ DoneInv => LeavesInOrder
  <2> SUFFICES ASSUME WalkInv, DoneInv, ~truncated
               PROVE  /\ \A i \in DOMAIN emitted :
                           /\ emitted[i].leaf \in Leaves
                           /\ {n \in Leaves : At[n] < At[emitted[i].leaf]}
                              = {emitted[j].leaf : j \in 1..i - 1}
                           /\ \/ emitted[i].leaf \in Range(Kids[emitted[i].parent])
                              \/ emitted[i] = [leaf |-> root, parent |-> root]
                      /\ verdict = "ok" => Leaves = {emitted[i].leaf : i \in DOMAIN emitted}
    BY DEF LeavesInOrder
  <2>1. DOMAIN emitted = 1..Len(emitted)
    BY DEF WalkInv, RestInv
  <2>2. OrderedInv /\ EndInv
    BY DEF DoneInv
  <2>3. verdict = "ok" => Leaves = {emitted[i].leaf : i \in DOMAIN emitted}
    BY <2>1, <2>2 DEF EndInv, Emitted
  <2> QED
    BY <2>1, <2>2, <2>3 DEF OrderedInv
<1> QED
  BY <1>1, AlwaysWalk, AlwaysWalked, PTL

\* defenses: an archive that is too deep or too big in all, inflates in the
\* native extractors, slips or links out of the root is never taken for
\* extracted, and the layer a dead letter names is one that it trips.  What
\* binwalk inflates is not among them: that is left to the watchdog, which
\* may come too late (run_sandboxed).
THEOREM HostileStopped == ProgressSpec => []NothingHostilePasses
<1>1. WalkInv /\ DoneInv => NothingHostilePasses
  <2> SUFFICES ASSUME RestInv, DoneInv, verdict = "ok", ~truncated
               PROVE  ~TooDeep /\ ~TooBig /\ ~Inflates("native") /\ ~Slips /\ ~Links
    BY DEF WalkInv, DoneInv, LayerInv, NothingHostilePasses
  <2>1. /\ ~TooMuch(produced, Size[root]) /\ produced + Size[root] = Bytes(Order[root])
        /\ \A n \in Files : Passed(n)
    BY DEF DoneInv, EndInv
  <2>2. Bytes(Order[root]) - Size[root] = produced
    <3>1. Size[root] \in Nat /\ produced \in Nat
      BY OrderShape, WalkAssumption DEF RestInv
    <3> QED
      BY <2>1, <3>1
  <2>3. ASSUME NEW n \in Files
        PROVE  /\ ~(Level[n] > DepthCap) /\ n \in Node
               /\ Opener[n] = "native" => ~TooMuch(Bytes(Kids[n]), Size[n]) /\ Escape[n] = "no"
               /\ Opener[n] # "none" => Escape[n] # "symlink"
    <3>1. n \in Node /\ Level[n] \in Nat /\ DepthCap \in Nat
      BY OrderShape, WalkAssumption DEF RestInv
    <3> QED
      BY <2>1, <3>1 DEF Passed
  <2> QED
    BY <2>1, <2>2, <2>3 DEF TooDeep, TooBig, Inflates, Slips, Links
<1> QED
  BY <1>1, AlwaysWalked, PTL

\* check_ratio in _recurse: over nested containers too, no more goes out than
\* the limit allows for the upload.
THEOREM OutputIsBounded == ProgressSpec => []OutputBounded
<1>1. RestInv /\ DoneInv => OutputBounded
  <2> SUFFICES ASSUME RestInv, DoneInv PROVE OutputBounded
    OBVIOUS
  <2>1. [i \in DOMAIN emitted |-> emitted[i].leaf] = Out
    BY DEF RestInv, Out
  <2> QED
    BY <2>1 DEF DoneInv, OutInv, OutputBounded
<1> QED
  BY <1>1, AlwaysWalked, PTL DEF WalkInv
=============================================================================
