----------------------------- MODULE IngestionJobs ----------------------------
(***************************************************************************)
(* What an ingestion job is (IngestionJobMessage, workers/ingestion.py):   *)
(* its idempotency key names one document with one checksum, so a document *)
(* uploaded again with other bytes is another job of the same document.    *)
(***************************************************************************)
CONSTANTS
    Jobs,    \* idempotency keys
    NoJob,   \* not a job
    Docs,    \* documents
    DocOf    \* DocOf[j]: the document job j ingests

ASSUME NoJobAssumption == NoJob \notin Jobs
ASSUME DocOfAssumption == DocOf \in [Jobs -> Docs]
===============================================================================
