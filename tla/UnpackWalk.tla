----------------------------- MODULE UnpackWalk -----------------------------
(***************************************************************************)
(* The unpack handler at work on one job (services/ingestion: unpack.py,   *)
(* extract.py, sandbox.py, defenses.py): the depth-first walk over nested  *)
(* containers, its four defences, and the binwalk child that is polled,    *)
(* timed out and killed.                                                   *)
(*                                                                         *)
(* An archive is a tree of nodes.  What the extractors would do with a     *)
(* node, its size and the way it is hostile are constants; sizes count     *)
(* units, and the limits are scaled with them.  The depth-first order that *)
(* the walk is held against is a constant too, and DepthFirst says what it *)
(* is: every finite tree has exactly one.                                  *)
(***************************************************************************)
EXTENDS Naturals, Sequences, SequencesExt

CONSTANTS
  Node, Archive,   \* the files, and those that are uploaded
  Kids,            \* Kids[n]: the files packed in n, in the order of their names
  Order,           \* Order[a]: what archive a holds, a first, depth first
  At, Past,        \* At[n]: the place of n there; Past[n]: the first place behind
                   \* n and all that n holds
  Level,           \* Level[n]: in how many containers n lies
  Size,            \* Size[n]: the size of n
  Opener,          \* Opener[n]: "native", "binwalk", or "none" for unknown magic
  Escape,          \* Escape[n]: an entry of n leaves the root: "zip_slip",
                   \* "symlink" or "no"
  Verbose,         \* images on which binwalk fills its output pipe
  DepthCap,        \* RECURSION_DEPTH_CAP
  RatioLimit,      \* DECOMPRESSION_RATIO_LIMIT
  MaxWalkFaults    \* bound on failing calls and dying children

Opens(n) == Opener[n] # "none" /\ Kids[n] # << >>

DepthFirst(a) ==
  /\ Order[a] # << >> /\ Order[a][1] = a /\ Level[a] = 0 /\ Past[a] = Len(Order[a]) + 1
  /\ \A i \in DOMAIN Order[a] :
       LET n == Order[a][i] IN
       /\ At[n] = i /\ Past[n] \in i + 1..Len(Order[a]) + 1
       /\ ~Opens(n) => Past[n] = i + 1
       /\ Opens(n) => \A j \in DOMAIN Kids[n] :
            LET k == Kids[n][j] IN
            /\ k \in Range(Order[a]) /\ Level[k] = Level[n] + 1
            /\ At[k] = IF j = 1 THEN i + 1 ELSE Past[Kids[n][j - 1]]
            /\ IF j = Len(Kids[n]) THEN Past[k] = Past[n] ELSE Past[k] <= Past[n]

ASSUME WalkAssumption ==
  /\ Archive \subseteq Node /\ Verbose \subseteq Node
  /\ Kids \in [Node -> Seq(Node)] /\ Size \in [Node -> Nat]
  /\ Order \in [Archive -> Seq(Node)] /\ At \in [Node -> Nat] /\ Past \in [Node -> Nat]
  /\ Level \in [Node -> Nat] /\ \A a \in Archive : DepthFirst(a)
  /\ Opener \in [Node -> {"native", "binwalk", "none"}]
  /\ Escape \in [Node -> {"zip_slip", "symlink", "no"}]
  /\ DepthCap \in Nat /\ RatioLimit \in Nat /\ MaxWalkFaults \in Nat

VARIABLES
  root,       \* the archive of the job
  stage,      \* what the handler does next
  stack,      \* the calls of _recurse: the node, its files, the next file
  produced,   \* produced_total
  emitted,    \* the leaves put, counted and emitted, each with its container
  verdict,    \* how extraction ended: "ok", a layer, or "error"
  workdir,    \* whether the job's temp dir exists
  child,      \* binwalk: "none", "running", "exited", "failed"
  helper,     \* a process of binwalk's group is still there after the poll loop
  written,    \* how many files of the node binwalk has written
  truncated,  \* some container was read after its child failed (history)
  walkFaults

sandboxVars == <<child, helper, written, truncated>>
walkVars == <<root, stage, stack, produced, emitted, verdict, workdir,
              sandboxVars, walkFaults>>

Layer == {"zip_slip", "symlink", "recursion_depth", "decompression_ratio",
          "sandbox_timeout"}
Top == stack[Len(stack)]
Depth == Len(stack) - 1

\* The sizes of the first files, summed; a recursive function, to be reasoned about.
Sums(files) ==
  LET sum[i \in 0..Len(files)] == IF i = 0 THEN 0 ELSE sum[i - 1] + Size[files[i]] IN sum
Bytes(files) == Sums(files)[Len(files)]

TooMuch(output, input) == input > 0 /\ output > input * RatioLimit
Frame(n) == [node |-> n, files |-> << >>, next |-> 1]

WalkInit ==
  /\ root \in Archive /\ stage = "download" /\ stack = << >>
  /\ produced = 0 /\ emitted = << >> /\ verdict = "none"
  /\ workdir = TRUE /\ child = "none" /\ helper = FALSE /\ written = 0
  /\ truncated = FALSE /\ walkFaults = 0

\* The with-block is left, by a return or by an exception.
Leave(v) == stage' = "cleanup" /\ verdict' = v /\ stack' = << >>

\* The call of _recurse on top of the stack returns.
Return ==
  IF Len(stack) = 1 THEN Leave("ok")
  ELSE /\ stack' = Front(stack) /\ stage' = "next" /\ UNCHANGED verdict

Download ==
  /\ stage = "download" /\ stage' = "open"
  /\ stack' = <<Frame(root)>>
  /\ UNCHANGED <<root, produced, emitted, verdict, workdir, sandboxVars, walkFaults>>

\* extract returned: no files make a leaf of the node.
Opened(files) ==
  /\ stage' = IF files = << >> THEN "leaf" ELSE "next"
  /\ stack' = [stack EXCEPT ![Len(stack)].files = files]
  /\ UNCHANGED verdict

\* Faulty variant: the layers are alternatives, a small archive is trusted.
ExtractTrusting(n) ==
  IF TooMuch(Bytes(Kids[n]), Size[n]) THEN Leave("decompression_ratio")
  ELSE Opened(Kids[n])

\* NativeExtractor: the declared total is checked before anything is
\* written, then each entry's path and link target.
ExtractNative(n) ==
  IF TooMuch(Bytes(Kids[n]), Size[n]) THEN Leave("decompression_ratio")
  ELSE IF Escape[n] # "no" THEN Leave(Escape[n])
  ELSE Opened(Kids[n])

\* _recurse: the depth check comes before the extractors, native first.
Open ==
  LET n == Top.node IN
  /\ stage = "open"
  /\ IF Depth > DepthCap THEN Leave("recursion_depth") /\ UNCHANGED sandboxVars
     ELSE \/ Opener[n] = "native" /\ ExtractNative(n) /\ UNCHANGED sandboxVars
          \/ Opener[n] = "none" /\ Opened(<< >>) /\ UNCHANGED sandboxVars
          \/ /\ Opener[n] = "binwalk" /\ stage' = "sandbox"
             /\ child' = "running" /\ written' = 0
             /\ UNCHANGED <<stack, verdict, helper, truncated>>
  /\ UNCHANGED <<root, produced, emitted, workdir, walkFaults>>

-----------------------------------------------------------------------------
(* run_sandboxed.  Nothing reads the pipes while the loop polls, so a child *)
(* that writes more than they hold stops for good.                          *)

Packed == Kids[Top.node]

ChildWorks ==
  /\ stage = "sandbox" /\ child = "running" /\ Top.node \notin Verbose
  /\ IF written < Len(Packed) THEN written' = written + 1 /\ UNCHANGED child
     ELSE child' = "exited" /\ UNCHANGED written
  /\ UNCHANGED <<root, stage, stack, produced, emitted, verdict, workdir, helper,
                 truncated, walkFaults>>

\* The memory cap or a bug ends the child, also when all is written; a helper
\* it started may go on.  The exit status is not looked at, so this is also a
\* child that ends well and leaves a helper behind.
ChildFails ==
  /\ stage = "sandbox" /\ child = "running" /\ walkFaults < MaxWalkFaults
  /\ walkFaults' = walkFaults + 1 /\ child' = "failed" /\ helper' \in BOOLEAN
  /\ UNCHANGED <<root, stage, stack, produced, emitted, verdict, workdir, written,
                 truncated>>

Kill == child' = "none" /\ helper' = FALSE

\* Faulty variant: the wall clock is read only after the child has ended.
NoTimeout == FALSE /\ UNCHANGED walkVars

Timeout ==
  /\ stage = "sandbox" /\ child = "running"
  /\ Kill /\ Leave("sandbox_timeout")
  /\ UNCHANGED <<root, produced, emitted, workdir, written, truncated, walkFaults>>

\* The child does not die of SIGKILL within wait(timeout=5), on the way out of
\* either kill: TimeoutExpired is raised in place of the layer's error.
WaitExpires ==
  /\ stage = "sandbox" /\ child = "running" /\ walkFaults < MaxWalkFaults
  /\ walkFaults' = walkFaults + 1 /\ child' = "none" /\ helper' = TRUE
  /\ Leave("error")
  /\ UNCHANGED <<root, produced, emitted, workdir, written, truncated>>

Written == Bytes(SubSeq(Packed, 1, written))

Watchdog ==
  /\ stage = "sandbox" /\ child = "running" /\ TooMuch(Written, Size[Top.node])
  /\ Kill /\ Leave("decompression_ratio")
  /\ UNCHANGED <<root, produced, emitted, workdir, written, truncated, walkFaults>>

\* The child has ended by itself: its exit status is not looked at and its
\* group is not killed.  The files are collected, and links are checked.
Collect ==
  /\ stage = "sandbox" /\ child \in {"exited", "failed"}
  /\ child' = "none" /\ truncated' = (truncated \/ written < Len(Packed))
  /\ IF Escape[Top.node] = "symlink" THEN Leave("symlink")
     ELSE Opened(SubSeq(Packed, 1, written))
  /\ UNCHANGED <<root, produced, emitted, workdir, helper, written, walkFaults>>

\* communicate(timeout=5) waits for whoever still holds the pipes.
CommunicateExpires ==
  /\ stage = "sandbox" /\ child = "failed" /\ helper
  /\ child' = "none" /\ Leave("error")
  /\ UNCHANGED <<root, produced, emitted, workdir, helper, written, truncated,
                 walkFaults>>

HelperEnds ==
  /\ helper /\ helper' = FALSE
  /\ UNCHANGED <<root, stage, stack, produced, emitted, verdict, workdir, child,
                 written, truncated, walkFaults>>

-----------------------------------------------------------------------------

\* Faulty variant: each container is held against its own size only.
NextFilePerContainer ==
  /\ stage = "next"
  /\ IF Top.next > Len(Top.files) THEN Return /\ UNCHANGED produced
     ELSE LET file == Top.files[Top.next] IN
          /\ produced' = produced + Size[file]
          /\ IF TooMuch(Bytes(Top.files), Size[Top.node]) THEN Leave("decompression_ratio")
             ELSE /\ stage' = "open" /\ UNCHANGED verdict
                  /\ stack' = Append([stack EXCEPT ![Len(stack)].next = @ + 1],
                                     Frame(file))
  /\ UNCHANGED <<root, emitted, workdir, sandboxVars, walkFaults>>

\* The for-loop over a container's files; the generator shares one total.
NextFile ==
  /\ stage = "next"
  /\ IF Top.next > Len(Top.files) THEN Return /\ UNCHANGED produced
     ELSE LET file == Top.files[Top.next] IN
          /\ produced' = produced + Size[file]
          /\ IF TooMuch(produced', Size[root]) THEN Leave("decompression_ratio")
             ELSE /\ stage' = "open" /\ UNCHANGED verdict
                  /\ stack' = Append([stack EXCEPT ![Len(stack)].next = @ + 1],
                                     Frame(file))
  /\ UNCHANGED <<root, emitted, workdir, sandboxVars, walkFaults>>

Container == IF Depth = 0 THEN Top.node ELSE stack[Len(stack) - 1].node

\* Faulty variant: a leaf goes in front of the earlier ones.
LeafFirst ==
  /\ stage = "leaf" /\ Return
  /\ emitted' = <<[leaf |-> Top.node, parent |-> Container]>> \o emitted
  /\ UNCHANGED <<root, produced, workdir, sandboxVars, walkFaults>>

\* The generator yields; the handler uploads, counts and emits the leaf.
Leaf ==
  /\ stage = "leaf" /\ Return
  /\ emitted' = Append(emitted, [leaf |-> Top.node, parent |-> Container])
  /\ UNCHANGED <<root, produced, workdir, sandboxVars, walkFaults>>

\* MinIO, Redis, the broker or the disk raises.
CallRaises ==
  /\ stage \in {"download", "open", "next", "leaf"} /\ walkFaults < MaxWalkFaults
  /\ walkFaults' = walkFaults + 1 /\ Leave("error")
  /\ UNCHANGED <<root, produced, emitted, workdir, sandboxVars>>

\* rmtree(ignore_errors): a helper that still writes may keep it from ending.
Cleanup ==
  /\ stage = "cleanup" /\ stage' = "over"
  /\ workdir' \in IF helper THEN BOOLEAN ELSE {FALSE}
  /\ UNCHANGED <<root, stack, produced, emitted, verdict, sandboxVars, walkFaults>>

Poll == Timeout \/ Watchdog \/ Collect \/ CommunicateExpires
Handler == Download \/ Open \/ NextFile \/ Leaf \/ Cleanup \/ Poll
WalkNext ==
  Handler \/ ChildWorks \/ ChildFails \/ WaitExpires \/ HelperEnds \/ CallRaises

-----------------------------------------------------------------------------
(* What an archive holds, by definition.                                   *)

Files == Range(Order[root])
Leaves == {n \in Files : ~Opens(n)}
TooDeep == \E n \in Files : Level[n] > DepthCap
TooBig == TooMuch(Bytes(Order[root]) - Size[root], Size[root])
Inflates(opener) == \E n \in Files :
  Opener[n] = opener /\ TooMuch(Bytes(Kids[n]), Size[n])
Slips == \E n \in Files : Opener[n] = "native" /\ Escape[n] = "zip_slip"
Links == \E n \in Files : Opener[n] # "none" /\ Escape[n] = "symlink"

-----------------------------------------------------------------------------
(* Properties.                                                             *)

\* Type correctness; below the top of the stack every call has a file under
\* way.
WalkTypeOK ==
  /\ root \in Archive
  /\ stage \in {"download", "open", "sandbox", "next", "leaf", "cleanup", "over"}
  /\ \A i \in DOMAIN stack :
       /\ stack[i].node \in Node /\ stack[i].files \in Seq(Node)
       /\ stack[i].next \in 1..Len(stack[i].files) + 1
       /\ i < Len(stack) => stack[i + 1].node = stack[i].files[stack[i].next - 1]
  /\ produced \in Nat /\ emitted \in Seq([leaf : Node, parent : Node])
  /\ verdict \in Layer \cup {"none", "ok", "error"}
  /\ workdir \in BOOLEAN /\ helper \in BOOLEAN /\ truncated \in BOOLEAN
  /\ child \in {"none", "running", "exited", "failed"}
  /\ written \in Nat /\ walkFaults \in Nat

\* Unless a failing child cut a container short, the leaves go out in the
\* order of a depth-first walk, none left out and none twice, each with the
\* container it was in; when extraction_complete is set all of them have gone
\* out (_recurse, handle_unpack).
LeavesInOrder ==
  ~truncated =>
    /\ \A i \in DOMAIN emitted :
         /\ emitted[i].leaf \in Leaves
         /\ {n \in Leaves : At[n] < At[emitted[i].leaf]} = {emitted[j].leaf : j \in 1..i - 1}
         /\ \/ emitted[i].leaf \in Range(Kids[emitted[i].parent])
            \/ emitted[i] = [leaf |-> root, parent |-> root]
    /\ verdict = "ok" => Leaves = {emitted[i].leaf : i \in DOMAIN emitted}

\* "every one is enforced regardless of the others", with one exception: an
\* archive that is too deep, too big in all, or has a file that inflates in the
\* native extractors, slips or links out of the root, is never taken for
\* extracted, whatever the other layers say and binwalk does; and the layer
\* that a dead letter names is one the archive really trips (defenses).  The
\* exception: binwalk may end between two looks of the watchdog, and then
\* nobody holds what it wrote against the size of its own image; the running
\* total over the upload is all that bounds it (run_sandboxed).
NothingHostilePasses ==
  /\ verdict = "ok" /\ ~truncated =>
       ~TooDeep /\ ~TooBig /\ ~Inflates("native") /\ ~Slips /\ ~Links
  /\ verdict = "recursion_depth" => TooDeep
  /\ verdict = "decompression_ratio" =>
       TooBig \/ Inflates("native") \/ Inflates("binwalk")
  /\ verdict = "zip_slip" => Slips
  /\ verdict = "symlink" => Links

\* Children that went out before a defence tripped stay out, but together
\* they are within the limit: a bomb spread over nested containers puts no
\* more than RatioLimit times the upload into MinIO (check_ratio in _recurse).
OutputBounded ==
  LET out == [i \in DOMAIN emitted |-> emitted[i].leaf] IN
  out # <<root>> => ~TooMuch(Bytes(out), Size[root])

\* Extraction ends, also when binwalk hangs or blocks on its output pipe, and
\* on every path out of it the temp dir is gone, unless an orphan of binwalk
\* still writes to it (extract_job, run_sandboxed).
WalkEnds == <>(stage = "over" /\ (workdir => helper))
=============================================================================
