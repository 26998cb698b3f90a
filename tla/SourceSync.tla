------------------------------- MODULE SourceSync -----------------------------
(***************************************************************************)
(* Synchronising one data source: services/source_sync.py and the part of  *)
(* workers/ingestion.py that answers for it.  A request registers a parent *)
(* run and queues it; a worker that receives it walks the documents of the *)
(* source, indexing text at once and queueing every PDF as a child job on  *)
(* the same queue; each child that ends recomputes the state of the source *)
(* from the processing rows of its documents (Refresh...).                 *)
(*                                                                         *)
(* Parents and children are jobs of one run store and one queue.  One step *)
(* is one call to either: the windows inside _mark and create_queued are   *)
(* the subject of IngestionPipeline.  What the executor does with a child  *)
(* is only its outcome here.  A document has one job: its bytes do not     *)
(* change, and it is not deleted, while the module looks.                  *)
(***************************************************************************)
EXTENDS SqsTaskQueue, IngestionRunStore, FiniteSets

CONSTANTS
    Syncs,       \* idempotency keys of sync requests, the parent jobs
    ParentDoc,   \* "<source_id>::__source_sync__"
    Manifest,    \* Manifest[k]: the documents sync k finds, as child jobs
    PdfJobs,     \* children the sync leaves to a worker
    Forced,      \* syncs requested with force
    Requesters,  \* answer service tasks
    Workers,
    NoMsg

ASSUME SyncAssumption ==
    /\ Syncs \subseteq Jobs
    /\ \A j \in Jobs : j \in Syncs <=> DocOf[j] = ParentDoc
    /\ Manifest \in [Syncs -> (SUBSET (Jobs \ Syncs)) \ {{}}]
    /\ Forced \subseteq Syncs
    /\ NoMsg \notin Msgs

ASSUME OneJobAssumption ==
    \A i, j \in Jobs \ Syncs : DocOf[i] = DocOf[j] => i = j

ASSUME FiniteAssumption == IsFiniteSet(Jobs) /\ IsFiniteSet(Docs)

VARIABLES
    source,   \* the source_sync_states row
    walked,   \* syncs whose walk reached the last document (history)
    reqPc, reqSync,   \* a request: its next call, and its sync
    pc, ctx   \* a worker: its next call, and its local variables

requestVars == <<reqPc, reqSync>>
workerVars == <<pc, ctx>>
vars == <<queueVars, storeVars, source, walked, requestVars, workerVars>>

Children == Jobs \ Syncs
ChildDocs == Docs \ {ParentDoc}

(* A SourceSyncState: only the counts a caller passes differ from zero.    *)
State(s, k, observed, changed, failed) ==
    [status |-> s, run |-> k, observed |-> observed,
     changed |-> changed, failed |-> failed]

NoState == State("none", NoJob, 0, 0, 0)
NoRow == [status |-> "absent", stamped |-> FALSE]

Blank == [msg |-> NoMsg, receipt |-> 0, todo |-> {}, failed |-> 0, open |-> 0,
          child |-> NoJob, row |-> NoRow, state |-> NoState, result |-> "none",
          then |-> "none"]

SyncInit ==
    /\ source = NoState
    /\ walked = {}
    /\ reqPc = [r \in Requesters |-> "idle"]
    /\ reqSync = [r \in Requesters |-> NoJob]
    /\ pc = [w \in Workers |-> "idle"]
    /\ ctx = [w \in Workers |-> Blank]

Init == QueueInit /\ StoreInit /\ SyncInit

-------------------------------------------------------------------------------
(* Calls of the run store. *)

CreateQueued(j) ==
    /\ status[j] = "absent"
    /\ status' = [status EXCEPT ![j] = "queued"]
    /\ docStatus' = [docStatus EXCEPT ![DocOf[j]] = "queued"]
    /\ UNCHANGED <<stamped, asyncJob>>

MarkRun(j, s) ==
    /\ status' = [status EXCEPT ![j] = s]
    /\ docStatus' = [docStatus EXCEPT ![DocOf[j]] = s]
    /\ UNCHANGED <<stamped, asyncJob>>

MarkQueued(j) ==
    /\ status' = [status EXCEPT ![j] = "queued"]
    /\ docStatus' = [docStatus EXCEPT ![DocOf[j]] = "queued"]
    /\ stamped' = stamped \ {j}
    /\ UNCHANGED asyncJob

(* The last branch of both callers: what a source with these counts is.    *)
Verdict(observed, changed, failed) ==
    IF observed > changed + failed THEN "syncing"
    ELSE IF failed = 0 THEN "succeeded"
    ELSE IF failed = observed THEN "failed" ELSE "partially_succeeded"

RunOf(verdict) == IF verdict = "syncing" THEN "running" ELSE verdict

-------------------------------------------------------------------------------
(* request_source_sync and the route that calls it. *)

RequestGoto(r, p) == reqPc' = [reqPc EXCEPT ![r] = p]

Request(r, k) ==
    /\ reqPc[r] = "idle"
    /\ \/ CreateQueued(k) /\ RequestGoto(r, "openNew")
       \/ status[k] # "absent" /\ RequestGoto(r, "open") /\ UNCHANGED storeVars
    /\ reqSync' = [reqSync EXCEPT ![r] = k]
    /\ UNCHANGED <<queueVars, source, walked, workerVars>>

RequestEnds(r) ==
    /\ RequestGoto(r, "idle")
    /\ reqSync' = [reqSync EXCEPT ![r] = NoJob]

(* Mutant: a repeated request sends the message again. *)
RequestState_AlwaysEnqueues(r) ==
    /\ reqPc[r] \in {"openNew", "open"}
    /\ source' = State("queued", reqSync[r], 0, 0, 0)
    /\ RequestGoto(r, "enqueue")
    /\ UNCHANGED <<queueVars, storeVars, reqSync, walked, workerVars>>

(* The state is overwritten whether or not the run was created. *)
RequestState(r) ==
    /\ reqPc[r] \in {"openNew", "open"}
    /\ source' = State("queued", reqSync[r], 0, 0, 0)
    /\ \/ reqPc[r] = "openNew" /\ RequestGoto(r, "enqueue") /\ UNCHANGED reqSync
       \/ reqPc[r] = "open" /\ RequestEnds(r)
    /\ UNCHANGED <<queueVars, storeVars, walked, workerVars>>

RequestEnqueue(r, m) ==
    /\ reqPc[r] = "enqueue"
    /\ EnqueueMessage(m, reqSync[r])
    /\ RequestGoto(r, "stamp")
    /\ UNCHANGED <<storeVars, source, walked, reqSync, workerVars>>

RequestStamp(r) ==
    /\ reqPc[r] = "stamp"
    /\ StampMessageId(reqSync[r])
    /\ RequestEnds(r)
    /\ UNCHANGED <<queueVars, source, walked, workerVars>>

RequestDies(r) ==
    /\ reqPc[r] # "idle"
    /\ RequestEnds(r)
    /\ UNCHANGED <<queueVars, storeVars, source, walked, workerVars>>

RequestStep(r) ==
    \/ RequestState(r) \/ RequestStamp(r)
    \/ \E m \in Msgs : RequestEnqueue(r, m)
===============================================================================
