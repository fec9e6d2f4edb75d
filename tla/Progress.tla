------------------------------ MODULE Progress ------------------------------
(***************************************************************************)
(* What a user sees while a job is taken apart: the unpack handler emits   *)
(* the leaves of the archive, the later stages match them and complete the *)
(* job, and the notifier turns those events into the browser's display.    *)
(***************************************************************************)
EXTENDS UnpackWalk, Notifier

CONSTANT Watched   \* bound: the archives whose jobs are followed to the browser

VARIABLES
  matched,      \* records on firmware.matched
  completions   \* records on firmware.completed

laterVars == <<matched, completions>>
progressVars == <<walkVars, notifierVars, laterVars>>

ProgressInit == WalkInit /\ NotifierInit /\ matched = 0 /\ completions = 0

Completed == completions = 1
DeadLettered == stage = "over" /\ verdict # "ok"

OnTopic(k) ==
  CASE k = "extracted" -> Len(emitted)
    [] k = "matched"   -> matched
    [] k = "completed" -> completions
    [] k = "dlq"       -> IF DeadLettered THEN 1 ELSE 0

Ends == [k \in Kind |-> OnTopic(k)]

Match ==
  /\ root \in Watched /\ matched < Len(emitted) /\ matched' = matched + 1
  /\ UNCHANGED <<walkVars, notifierVars, completions>>

\* The aggregator, at some record of firmware.matched, finds as many children
\* counted as extraction put.  cve_match counts a child before it emits the
\* record, so the records of others may still be to come.
Complete ==
  /\ root \in Watched /\ stage = "over" /\ verdict = "ok" /\ matched > 0
  /\ completions = 0 /\ completions' = 1
  /\ UNCHANGED <<walkVars, notifierVars, matched>>

Read(k) ==
  /\ root \in Watched /\ position[k] < OnTopic(k) /\ ReadEvent(k)
  /\ UNCHANGED <<walkVars, laterVars>>

ProgressNext ==
  \/ WalkNext /\ UNCHANGED <<notifierVars, laterVars>>
  \/ root \in Watched /\ NotifierNext(Ends) /\ UNCHANGED <<walkVars, laterVars>>
  \/ Match \/ Complete
  \/ \E k \in Kind : Read(k)

ProgressSpec == ProgressInit /\ [][ProgressNext]_progressVars

\* The handler, the later stages, the consumer thread, the event loop and
\* the coroutine of each socket go on; tabs and processes come and go freely.
ProgressFair ==
  /\ WF_progressVars(Handler /\ UNCHANGED <<notifierVars, laterVars>>)
  /\ WF_progressVars(Match)
  /\ WF_progressVars(\E k \in Kind : Read(k))
  /\ WF_progressVars(Publish /\ UNCHANGED <<walkVars, laterVars>>)
  /\ \A b \in Browser : WF_progressVars(Loop(b) /\ UNCHANGED <<walkVars, laterVars>>)

ProgressFairSpec == ProgressSpec /\ ProgressFair

-----------------------------------------------------------------------------
(* Safety.                                                                 *)

\* Type correctness of the notifier; a mailbox exists only while its browser
\* is subscribed.
NotifierTypeOK ==
  /\ position \in [Kind -> Nat] /\ counts \in Snapshot
  /\ callbacks \in Seq(Snapshot) /\ last \in Snapshot \cup {NoSnapshot}
  /\ conn \in [Browser -> {"away", "waiting", "sending", "gone"}]
  /\ slot \in [Browser -> Snapshot \cup {NoSnapshot}]
  /\ held \in [Browser -> Snapshot \cup {NoSnapshot}]
  /\ shown \in [Browser -> Snapshot \cup {NoSnapshot}]
  /\ \A b \in Browser : conn[b] = "away" => slot[b] = NoSnapshot
  /\ \A b \in Browser : conn[b] = "sending" <=> held[b] # NoSnapshot
  /\ visits \in Nat /\ restarts \in Nat /\ matched \in Nat
  /\ completions \in {0, 1}

\* Coalescing drops only what is superseded: whatever a subscriber has not
\* been given yet is in its slot, its hand or on its screen, and the newest
\* of the three is the last snapshot published (CoalescingMailbox, subscribe).
LatestWins ==
  \A b \in Browser : conn[b] \in {"waiting", "sending"} =>
    last = IF slot[b] # NoSnapshot THEN slot[b]
           ELSE IF conn[b] = "sending" THEN held[b] ELSE shown[b]

\* The display never runs ahead of the pipeline: no more leaves and matches
\* than were emitted, and complete only when the job is, also when the
\* notifier reads events again, or leaves some out, after a restart
\* (ProgressTracker.update).
NeverAhead ==
  \A b \in Browser : shown[b] # NoSnapshot =>
    /\ shown[b].extracted <= Len(emitted) /\ shown[b].matched <= matched
    /\ shown[b].complete => Completed

Behind(s, t) ==
  /\ s.extracted <= t.extracted /\ s.matched <= t.matched
  /\ s.complete => t.complete

\* On one connection the display never goes back: no count falls and a
\* completed job stays completed, whatever comes in afterwards.
DisplayAdvances ==
  [][\A b \in Browser : conn[b] = "sending" /\ shown'[b] # NoSnapshot
       /\ shown[b] # NoSnapshot => Behind(shown[b], shown'[b])]_progressVars

-----------------------------------------------------------------------------
(* Liveness.                                                               *)

\* Who stays connected to a job that completes sees it completed with every
\* leaf counted, also those whose match comes in after the completion, or the
\* notifier is restarted under him.
CompletionShown ==
  \A b \in Browser :
    (Completed /\ conn[b] = "waiting" /\ restarts = 0) ~>
      \/ conn[b] \in {"away", "gone"} \/ restarts > 0
      \/ shown[b] = [extracted |-> Len(emitted), matched |-> Len(emitted),
                     complete |-> TRUE]
=============================================================================
