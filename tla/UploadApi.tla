------------------------------ MODULE UploadApi -------------------------------
(***************************************************************************)
(* The answer service's side of an uploaded PDF: ingest_document and       *)
(* retry_ingestion_run in production.py, which register or re-queue the    *)
(* run, and _enqueue_upload_ingest_if_needed in server.py, which sends the *)
(* message.  The HTTP server handles one request at a time, so there is    *)
(* one process; a request that raises, and a task that is killed, both     *)
(* leave the statements already committed behind (ApiAborts).              *)
(*                                                                         *)
(* First upload and retry run the same code: the retry endpoint calls      *)
(* ingest_document with the stored bytes, which have the same checksum and *)
(* therefore the same idempotency key.  A request for a run that has       *)
(* succeeded, is running, or is queued with a message id changes nothing.  *)
(***************************************************************************)
EXTENDS SqsTaskQueue, IngestionRunStore

VARIABLES
    apiPc,   \* what the request in progress does next
    apiJob   \* the run it is about, NoJob between requests

apiVars == <<apiPc, apiJob>>

ApiPcs == {"idle", "insertState", "requeue", "requeueDoc", "clearId", "enqueue", "stamp"}

ApiInit == apiPc = "idle" /\ apiJob = NoJob

ApiGoto(p) == apiPc' = p /\ UNCHANGED apiJob
ApiReturn == apiPc' = "idle" /\ apiJob' = NoJob

-------------------------------------------------------------------------------
Submit(j) ==
    /\ apiPc = "idle"
    /\ apiJob' = j
    /\ UNCHANGED queueVars
    /\ \/ /\ InsertRun(j)
          /\ apiPc' = "insertState"
       \/ /\ status[j] = "queued" /\ j \notin stamped
          /\ apiPc' = "enqueue"
          /\ UNCHANGED storeVars
       \/ /\ status[j] \in {"failed", "dead_letter"}
          /\ apiPc' = "requeue"
          /\ UNCHANGED storeVars

(* Mutant: the message id is recorded before the message is sent. *)
InsertedState_StampsFirst ==
    /\ apiPc = "insertState"
    /\ docStatus' = [docStatus EXCEPT ![DocOf[apiJob]] = "queued"]
    /\ stamped' = stamped \cup {apiJob}
    /\ ApiGoto("enqueue")
    /\ UNCHANGED <<queueVars, status, asyncJob>>

InsertedState ==
    /\ apiPc = "insertState"
    /\ InsertState(apiJob)
    /\ ApiGoto("enqueue")
    /\ UNCHANGED queueVars

(* mark_queued: three statements. *)
Requeue ==
    /\ apiPc = "requeue"
    /\ SetRunStatus(apiJob, "queued")
    /\ ApiGoto("requeueDoc")
    /\ UNCHANGED queueVars

RequeueDoc ==
    /\ apiPc = "requeueDoc"
    /\ SetDocStatus(apiJob, "queued")
    /\ ApiGoto("clearId")
    /\ UNCHANGED queueVars

RequeueClearId ==
    /\ apiPc = "clearId"
    /\ ClearMessageId(apiJob)
    /\ ApiGoto("enqueue")
    /\ UNCHANGED queueVars

Enqueue(m) ==
    /\ apiPc = "enqueue"
    /\ EnqueueMessage(m, apiJob)
    /\ ApiGoto("stamp")
    /\ UNCHANGED storeVars

StampEnqueued ==
    /\ apiPc = "stamp"
    /\ StampMessageId(apiJob)
    /\ ApiReturn
    /\ UNCHANGED queueVars

ApiAborts ==
    /\ apiPc # "idle"
    /\ ApiReturn
    /\ UNCHANGED <<queueVars, storeVars>>

ApiStep ==
    \/ InsertedState \/ Requeue \/ RequeueDoc \/ RequeueClearId
    \/ \E m \in Msgs : Enqueue(m)
    \/ StampEnqueued

ApiNext == ApiStep \/ ApiAborts \/ \E j \in Jobs : Submit(j)
===============================================================================
