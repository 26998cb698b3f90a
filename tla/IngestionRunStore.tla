-------------------------- MODULE IngestionRunStore ---------------------------
(***************************************************************************)
(* The run store as PostgresIngestionRunStore keeps it                     *)
(* (persistence/postgres.py): one ingestion_runs row per idempotency key,  *)
(* one document_processing_states row per document.  The connection is in  *)
(* autocommit, so each UPDATE below is a transaction of its own: _mark is  *)
(* SetRunStatus followed by SetDocStatus, mark_queued is those two and     *)
(* then ClearMessageId, create_queued is InsertRun and then InsertState.   *)
(* No statement compares the row it overwrites with what its caller read.  *)
(***************************************************************************)
EXTENDS IngestionJobs

CONSTANTS
    Handles,   \* job tokens of the asynchronous document analyzer
    NoHandle   \* async_job_id = ''

ASSUME NoHandleAssumption == NoHandle \notin Handles

VARIABLES
    status,     \* status[j]: ingestion_runs.status, or "absent"
    docStatus,  \* docStatus[d]: document_processing_states.status, or "absent"
    stamped,    \* jobs whose row has a non-empty sqs_message_id
    asyncJob    \* asyncJob[j]: ingestion_runs.async_job_id

storeVars == <<status, docStatus, stamped, asyncJob>>

RunStatus == {"absent", "queued", "running", "succeeded", "partially_succeeded",
              "failed", "dead_letter"}

StoreInit ==
    /\ status = [j \in Jobs |-> "absent"]
    /\ docStatus = [d \in Docs |-> "absent"]
    /\ stamped = {}
    /\ asyncJob = [j \in Jobs |-> NoHandle]

(* INSERT INTO ingestion_runs ... ON CONFLICT DO NOTHING, when it inserts. *)
InsertRun(j) ==
    /\ status[j] = "absent"
    /\ status' = [status EXCEPT ![j] = "queued"]
    /\ UNCHANGED <<docStatus, stamped, asyncJob>>

InsertState(j) ==
    /\ docStatus' = [docStatus EXCEPT ![DocOf[j]] = "queued"]
    /\ UNCHANGED <<status, stamped, asyncJob>>

SetRunStatus(j, s) ==
    /\ status' = [status EXCEPT ![j] = s]
    /\ UNCHANGED <<docStatus, stamped, asyncJob>>

(* The UPDATE matches no row when the state row was never inserted. *)
SetDocStatus(j, s) ==
    /\ docStatus' = [docStatus EXCEPT ![DocOf[j]] = IF @ = "absent" THEN @ ELSE s]
    /\ UNCHANGED <<status, stamped, asyncJob>>

StampMessageId(j) ==
    /\ stamped' = stamped \cup {j}
    /\ UNCHANGED <<status, docStatus, asyncJob>>

ClearMessageId(j) ==
    /\ stamped' = stamped \ {j}
    /\ UNCHANGED <<status, docStatus, asyncJob>>

MarkAsyncJob(j, h) ==
    /\ asyncJob' = [asyncJob EXCEPT ![j] = h]
    /\ UNCHANGED <<status, docStatus, stamped>>
===============================================================================
