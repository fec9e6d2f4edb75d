------------------------------ MODULE Notifier ------------------------------
(***************************************************************************)
(* The progress notifier (services/notifier): a consumer thread folds the  *)
(* events of a job into counts and hands snapshots to the event loop,      *)
(* which offers them to the one-slot mailbox of every connected browser    *)
(* (frontend/src/hooks/useJobProgress.ts).                                 *)
(*                                                                         *)
(* Every map of the tracker and the hub is keyed by job_id and an event    *)
(* touches the entry of its own job, so one job is modelled.  The topics   *)
(* are read in any order relative to one another; what is on them is given *)
(* by the module that composes this one.  The consumer is there when the   *)
(* job begins; one that comes late starts like one that restarts.          *)
(***************************************************************************)
EXTENDS Naturals, Sequences

CONSTANTS
  Browser,       \* web-socket clients of the job
  NoSnapshot,    \* an empty slot; nothing published yet
  MaxVisits,     \* bound on connections
  MaxRestarts,   \* bound on restarts of the notifier process
  MaxReread      \* bound on the records of a topic read after the last commit

Snapshot == [extracted : Nat, matched : Nat, complete : BOOLEAN]

ASSUME NotifierAssumption ==
  /\ NoSnapshot \notin Snapshot
  /\ MaxVisits \in Nat /\ MaxRestarts \in Nat /\ MaxReread \in Nat

VARIABLES
  position,    \* position[k]: records of topic k that poll has returned
  counts,      \* the tracker's _JobState
  callbacks,   \* call_soon_threadsafe: snapshots the loop has not published
  last,        \* the hub's _last
  conn,        \* conn[b]: "away", "waiting" in get(), "sending", or "gone":
               \* closed by the browser, which only a send will find out
  slot,        \* slot[b]: the mailbox
  held,        \* held[b]: the snapshot get() returned
  shown,       \* shown[b]: what the browser displays
  visits, restarts

hub == <<callbacks, last, conn, slot, held, shown, visits>>
notifierVars == <<position, counts, hub, restarts>>

Kind == {"extracted", "matched", "completed", "dlq"}
NothingSeen == [extracted |-> 0, matched |-> 0, complete |-> FALSE]
Subscribed == {b \in Browser : conn[b] # "away"}

NotifierInit ==
  /\ position = [k \in Kind |-> 0]
  /\ counts = NothingSeen
  /\ callbacks = << >> /\ last = NoSnapshot
  /\ conn = [b \in Browser |-> "away"]
  /\ slot = [b \in Browser |-> NoSnapshot]
  /\ held = [b \in Browser |-> NoSnapshot]
  /\ shown = [b \in Browser |-> NoSnapshot]
  /\ visits = 0 /\ restarts = 0

\* ProgressTracker.update without a Redis client, as the app builds it.  A
\* firmware.dlq record names no job: it changes nothing.
Folded(k) ==
  CASE k = "extracted" -> [counts EXCEPT !.extracted = @ + 1]
    [] k = "matched"   -> [counts EXCEPT !.matched = @ + 1]
    [] k = "completed" -> [counts EXCEPT !.complete = TRUE]
    [] k = "dlq"       -> counts

\* The consumer thread: poll, update, and hand the snapshot to the loop.
ReadEvent(k) ==
  /\ position' = [position EXCEPT ![k] = @ + 1]
  /\ counts' = Folded(k)
  /\ callbacks' = IF k = "dlq" THEN callbacks ELSE Append(callbacks, counts')
  /\ UNCHANGED <<last, conn, slot, held, shown, visits, restarts>>

\* Faulty variant: a full mailbox keeps what it has.
OfferToEmpty(b, snapshot) ==
  IF b \notin Subscribed \/ slot[b] # NoSnapshot THEN slot[b] ELSE snapshot

\* CoalescingMailbox.offer: an unread snapshot is replaced.
Offer(b, snapshot) == IF b \in Subscribed THEN snapshot ELSE slot[b]

Publish ==
  /\ callbacks # << >>
  /\ last' = Head(callbacks) /\ callbacks' = Tail(callbacks)
  /\ slot' = [b \in Browser |-> Offer(b, Head(callbacks))]
  /\ UNCHANGED <<position, counts, conn, held, shown, visits, restarts>>

\* Faulty variant: a new subscriber starts with an empty mailbox.
ConnectBlank(b) ==
  /\ conn[b] = "away" /\ visits < MaxVisits /\ visits' = visits + 1
  /\ conn' = [conn EXCEPT ![b] = "waiting"]
  /\ shown' = [shown EXCEPT ![b] = NoSnapshot]
  /\ UNCHANGED <<position, counts, callbacks, last, slot, held, restarts>>

\* job_progress: accept, subscribe, and be given the last known snapshot.
Connect(b) ==
  /\ conn[b] = "away" /\ visits < MaxVisits /\ visits' = visits + 1
  /\ conn' = [conn EXCEPT ![b] = "waiting"]
  /\ slot' = [slot EXCEPT ![b] = last]
  /\ shown' = [shown EXCEPT ![b] = NoSnapshot]
  /\ UNCHANGED <<position, counts, callbacks, last, held, restarts>>

\* CoalescingMailbox.get, up to the await on the socket.
Get(b) ==
  /\ conn[b] = "waiting" /\ slot[b] # NoSnapshot
  /\ held' = [held EXCEPT ![b] = slot[b]]
  /\ slot' = [slot EXCEPT ![b] = NoSnapshot]
  /\ conn' = [conn EXCEPT ![b] = "sending"]
  /\ UNCHANGED <<position, counts, callbacks, last, shown, visits, restarts>>

SendJson(b) ==
  /\ conn[b] = "sending"
  /\ conn' = [conn EXCEPT ![b] = "waiting"]
  /\ shown' = [shown EXCEPT ![b] = held[b]]
  /\ held' = [held EXCEPT ![b] = NoSnapshot]
  /\ UNCHANGED <<position, counts, callbacks, last, slot, visits, restarts>>

Unsubscribe(b) ==
  /\ conn' = [conn EXCEPT ![b] = "away"]
  /\ slot' = [slot EXCEPT ![b] = NoSnapshot]
  /\ held' = [held EXCEPT ![b] = NoSnapshot]

\* The tab is closed.  A send under way fails and unsubscribes; a handler
\* that waits in get() does not notice before the next snapshot.
CloseTab(b) ==
  /\ \/ conn[b] = "sending" /\ Unsubscribe(b)
     \/ conn[b] = "waiting" /\ conn' = [conn EXCEPT ![b] = "gone"]
                            /\ UNCHANGED <<slot, held>>
  /\ UNCHANGED <<position, counts, callbacks, last, shown, visits, restarts>>

SendToClosed(b) ==
  /\ conn[b] = "gone" /\ slot[b] # NoSnapshot /\ Unsubscribe(b)
  /\ UNCHANGED <<position, counts, callbacks, last, shown, visits, restarts>>

\* Faulty variant: the counts are in Redis and outlive the process.
RestartKeepingCounts(ends) ==
  /\ restarts < MaxRestarts /\ restarts' = restarts + 1
  /\ \E back \in [Kind -> 0..MaxReread] :
       /\ \A k \in Kind : back[k] <= position[k]
       /\ \E new \in SUBSET {k \in Kind : back[k] = position[k]} :
            position' = [k \in Kind |-> IF k \in new THEN ends[k] ELSE position[k] - back[k]]
  /\ callbacks' = << >> /\ last' = NoSnapshot
  /\ conn' = [b \in Browser |-> "away"]
  /\ slot' = [b \in Browser |-> NoSnapshot]
  /\ held' = [b \in Browser |-> NoSnapshot]
  /\ UNCHANGED <<counts, shown, visits>>

\* All memory is lost, and offsets go back to the last automatic commit; a
\* topic of which nothing was committed is read from its end on ("latest").
\* The browsers see their sockets close and do not connect again by
\* themselves.
NotifierRestart(ends) ==
  /\ restarts < MaxRestarts /\ restarts' = restarts + 1
  /\ \E back \in [Kind -> 0..MaxReread] :
       /\ \A k \in Kind : back[k] <= position[k]
       /\ \E new \in SUBSET {k \in Kind : back[k] = position[k]} :
            position' = [k \in Kind |-> IF k \in new THEN ends[k] ELSE position[k] - back[k]]
  /\ counts' = NothingSeen /\ callbacks' = << >> /\ last' = NoSnapshot
  /\ conn' = [b \in Browser |-> "away"]
  /\ slot' = [b \in Browser |-> NoSnapshot]
  /\ held' = [b \in Browser |-> NoSnapshot]
  /\ UNCHANGED <<shown, visits>>

Loop(b) == Get(b) \/ SendJson(b) \/ SendToClosed(b)
NotifierNext(ends) ==
  \/ Publish \/ NotifierRestart(ends)
  \/ \E b \in Browser : Connect(b) \/ Loop(b) \/ CloseTab(b)
=============================================================================
