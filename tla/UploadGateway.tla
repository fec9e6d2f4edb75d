---------------------------- MODULE UploadGateway ----------------------------
(***************************************************************************)
(* The upload gateway of services/gateway and the browser that drives it   *)
(* (frontend/src/api/client.ts): create the job row and the multipart      *)
(* upload, PUT the part to MinIO, complete, confirm, emit.                 *)
(*                                                                         *)
(* The handlers are coroutines that never await, so one request is served  *)
(* at a time; but each call of a handler to Postgres, MinIO or Kafka may   *)
(* fail, with or without its effect, and the process may die between two.  *)
(* A job is named by the client that creates it: the gateway mints one     *)
(* uuid per create request.                                                *)
(***************************************************************************)
EXTENDS Naturals, FiniteSets

CONSTANTS
  Job,          \* one per POST /uploads
  Uploader,     \* the jobs whose client's role has the permission "upload"
  MaxResends,   \* bound on completion requests sent again
  MaxFaults     \* bound on failing calls and deaths of the process, together

ASSUME GatewayAssumption ==
  /\ Uploader \subseteq Job
  /\ MaxResends \in Nat /\ MaxFaults \in Nat

VARIABLES
  tab,        \* tab[j]: where the client is in uploadFirmware
  requests,   \* requests[j]: completion requests sent, not yet accepted
  gw, cur,    \* the handler's next external call, and the job it serves
  rows,       \* Postgres table jobs
  multipart,  \* MinIO: multipart uploads under way
  parts,      \* MinIO: jobs whose part was PUT and its ETag returned
  objects,    \* MinIO: objects raw-uploads/{job}
  outbox,     \* produced, not yet acknowledged by the broker
  uploaded,   \* uploaded[j]: records of j on firmware.uploaded
  lost,       \* jobs whose record left the outbox without an acknowledgement
  resends, faults

storage == <<rows, multipart, parts, objects>>
broker == <<outbox, uploaded, lost>>
bounds == <<resends, faults>>
gatewayVars == <<tab, requests, gw, cur, storage, broker, bounds>>

Tab == {"new", "creating", "putting", "completing", "submitted", "failed"}
Call == {"idle", "insert", "initiate", "lookup", "finish", "head", "produce",
         "flush"}

GatewayInit ==
  /\ tab = [j \in Job |-> "new"] /\ requests = [j \in Job |-> 0]
  /\ gw = "idle" /\ cur \in Job
  /\ rows = {} /\ multipart = {} /\ parts = {} /\ objects = {}
  /\ outbox = {} /\ uploaded = [j \in Job |-> 0] /\ lost = {}
  /\ resends = 0 /\ faults = 0

-----------------------------------------------------------------------------
(* The client.                                                             *)

SendCreate(j) ==
  /\ tab[j] = "new"
  /\ tab' = [tab EXCEPT ![j] = "creating"]
  /\ UNCHANGED <<requests, gw, cur, storage, broker, bounds>>

\* uploadPart goes straight to MinIO; completeUpload follows its ETag.
PutPart(j) ==
  /\ tab[j] = "putting" /\ j \in multipart
  /\ parts' = parts \cup {j}
  /\ tab' = [tab EXCEPT ![j] = "completing"]
  /\ requests' = [requests EXCEPT ![j] = 1]
  /\ UNCHANGED <<gw, cur, rows, multipart, objects, broker, bounds>>

PutFails(j) ==
  /\ tab[j] = "putting" /\ faults < MaxFaults
  /\ faults' = faults + 1
  /\ tab' = [tab EXCEPT ![j] = "failed"]
  /\ UNCHANGED <<requests, gw, cur, storage, broker, resends>>

\* A client that holds the ETag sends the request again, after an error or
\* because no answer came; the gateway does not notice an abandoned request.
Resend(j) ==
  /\ tab[j] \in {"completing", "failed"} /\ j \in parts
  /\ resends < MaxResends
  /\ resends' = resends + 1
  /\ tab' = [tab EXCEPT ![j] = "completing"]
  /\ requests' = [requests EXCEPT ![j] = @ + 1]
  /\ UNCHANGED <<gw, cur, storage, broker, faults>>

-----------------------------------------------------------------------------
(* The gateway's handlers.                                                 *)

Goto(call) == gw' = call

\* Only the answer to the last request of a client reaches it.
Answer(a) ==
  /\ Goto("idle")
  /\ tab' = IF requests[cur] > 0 THEN tab ELSE [tab EXCEPT ![cur] = a]

AcceptCreate(j) ==
  /\ gw = "idle" /\ tab[j] = "creating" /\ j \in Uploader
  /\ Goto("insert") /\ cur' = j
  /\ UNCHANGED <<tab, requests, storage, broker, bounds>>

AcceptComplete(j) ==
  /\ gw = "idle" /\ requests[j] > 0 /\ j \in Uploader
  /\ requests' = [requests EXCEPT ![j] = @ - 1]
  /\ Goto("lookup") /\ cur' = j
  /\ UNCHANGED <<tab, storage, broker, bounds>>

\* 401 or 403 from the dependencies: a role without "upload", or a token
\* that has expired since the client took it.
Refuse(j) ==
  /\ gw = "idle" /\ (tab[j] = "creating" \/ requests[j] > 0)
  /\ IF requests[j] > 1 THEN UNCHANGED tab ELSE tab' = [tab EXCEPT ![j] = "failed"]
  /\ requests' = [requests EXCEPT ![j] = IF @ > 0 THEN @ - 1 ELSE 0]
  /\ UNCHANGED <<gw, cur, storage, broker, bounds>>

\* The row comes first, so that a crash still leaves a trackable record.
InsertRow ==
  /\ gw = "insert" /\ Goto("initiate")
  /\ rows' = rows \cup {cur}
  /\ UNCHANGED <<tab, requests, cur, multipart, parts, objects, broker, bounds>>

Initiate ==
  /\ gw = "initiate" /\ Answer("putting")
  /\ multipart' = multipart \cup {cur}
  /\ UNCHANGED <<requests, cur, rows, parts, objects, broker, bounds>>

LookUp ==
  /\ gw = "lookup"
  /\ IF cur \in rows THEN Goto("finish") /\ UNCHANGED tab ELSE Answer("failed")
  /\ UNCHANGED <<requests, cur, storage, broker, bounds>>

\* CompleteMultipartUpload: MinIO forgets the upload id, so that a second
\* completion of one upload is answered 400.
Completable == cur \in multipart /\ cur \in parts
Completed ==
  /\ multipart' = multipart \ {cur} /\ objects' = objects \cup {cur}
  /\ UNCHANGED <<rows, parts>>

\* Faulty variant: an upload that is already complete counts as completed.
FinishIdempotent ==
  /\ gw = "finish"
  /\ \/ Completable /\ Completed /\ Goto("head") /\ UNCHANGED tab
     \/ ~Completable /\ Goto("head") /\ UNCHANGED <<tab, storage>>
  /\ UNCHANGED <<requests, cur, broker, bounds>>

Finish ==
  /\ gw = "finish"
  /\ \/ Completable /\ Completed /\ Goto("head") /\ UNCHANGED tab
     \/ ~Completable /\ Answer("failed") /\ UNCHANGED storage
  /\ UNCHANGED <<requests, cur, broker, bounds>>

\* object_exists: the gate in front of the event.
ConfirmObject ==
  /\ gw = "head"
  /\ IF cur \in objects THEN Goto("produce") /\ UNCHANGED tab
     ELSE Answer("failed")
  /\ UNCHANGED <<requests, cur, storage, broker, bounds>>

\* Faulty variant: the answer goes out and nothing is produced.
ProduceForgotten ==
  /\ gw = "produce" /\ Goto("flush")
  /\ UNCHANGED <<tab, requests, cur, storage, broker, bounds>>

Produce ==
  /\ gw = "produce" /\ Goto("flush")
  /\ outbox' = outbox \cup {cur}
  /\ UNCHANGED <<tab, requests, cur, storage, uploaded, lost, bounds>>

\* flush(10) returns after ten seconds whether or not the broker answered,
\* and its result is not looked at.
Flush ==
  /\ gw = "flush" /\ Answer("submitted")
  /\ UNCHANGED <<requests, cur, storage, broker, bounds>>

\* A call raises; a write may have reached the server all the same.
CallFails ==
  /\ gw \in {"insert", "initiate", "lookup", "finish", "head", "produce"}
  /\ faults < MaxFaults /\ faults' = faults + 1
  /\ Answer("failed")
  /\ \/ UNCHANGED storage
     \/ gw = "insert" /\ rows' = rows \cup {cur}
                      /\ UNCHANGED <<multipart, parts, objects>>
     \/ gw = "initiate" /\ multipart' = multipart \cup {cur}
                        /\ UNCHANGED <<rows, parts, objects>>
     \/ gw = "finish" /\ Completable /\ Completed
  /\ UNCHANGED <<requests, cur, broker, resends>>

-----------------------------------------------------------------------------
(* The producer thread, the broker, and process death.                     *)

DeliverUpload(j) ==
  /\ j \in outbox
  /\ outbox' = outbox \ {j} /\ uploaded' = [uploaded EXCEPT ![j] = @ + 1]
  /\ UNCHANGED <<tab, requests, gw, cur, storage, lost, bounds>>

\* message.timeout.ms passes without an acknowledgement.
OutboxExpires(j) ==
  /\ j \in outbox /\ faults < MaxFaults /\ faults' = faults + 1
  /\ outbox' = outbox \ {j} /\ lost' = lost \cup {j}
  /\ UNCHANGED <<tab, requests, gw, cur, storage, uploaded, resends>>

GatewayCrash ==
  /\ faults < MaxFaults /\ faults' = faults + 1
  /\ Goto("idle") /\ cur' = cur
  /\ outbox' = {} /\ lost' = lost \cup outbox
  /\ requests' = [j \in Job |-> 0]
  /\ tab' = [j \in Job |-> IF tab[j] \in {"creating", "completing"}
                            THEN "failed" ELSE tab[j]]
  /\ UNCHANGED <<storage, uploaded, resends>>

Serve ==
  \/ \E j \in Job : AcceptCreate(j) \/ AcceptComplete(j) \/ Refuse(j)
  \/ InsertRow \/ Initiate \/ LookUp \/ Finish \/ ConfirmObject \/ Produce \/ Flush
Client(j) == SendCreate(j) \/ PutPart(j) \/ PutFails(j) \/ Resend(j)

GatewayNext ==
  \/ \E j \in Job : Client(j) \/ DeliverUpload(j) \/ OutboxExpires(j)
  \/ Serve \/ CallFails \/ GatewayCrash

GatewaySpec == GatewayInit /\ [][GatewayNext]_gatewayVars
=============================================================================
