---------------------------- MODULE IngestionWorker ---------------------------
(***************************************************************************)
(* The ingestion workers: IngestionWorker.process_once and the executor it *)
(* calls (workers/ingestion.py), run forever by workers/ingest/worker.py.  *)
(* Several tasks run it against the same queue and the same run store.     *)
(*                                                                         *)
(* pc[w] is the next statement of process_once that touches shared state.  *)
(* The body of the try statement begins once the run is marked running;    *)
(* while inTry[w] holds, an exception goes to _fail (StepRaises), later it *)
(* leaves process_once and ends the process (Dies), as a kill at any point *)
(* does; a new task takes its place.  _mark is two statements, "mark" and  *)
(* "markDoc".                                                              *)
(*                                                                         *)
(* The runs here are uploads, whose source has no sync state, so           *)
(* _refresh_source_sync_parent returns at once and is left out.            *)
(***************************************************************************)
EXTENDS SqsTaskQueue, IngestionRunStore

CONSTANTS
    Workers,     \* worker tasks
    NoMsg,       \* a worker between messages
    VisualJobs   \* jobs the executor sends to the asynchronous analyzer

ASSUME VisualJobsAssumption == VisualJobs \subseteq Jobs
ASSUME NoMsgAssumption == NoMsg \notin Msgs

VARIABLES
    pc,        \* pc[w]: the statement worker w executes next
    msg,       \* msg[w]: the message of its envelope
    receipt,   \* receipt[w]: the envelope's handle and receive_count
    handle,    \* handle[w]: async_job_id of its run object, then of its result
    result,    \* result[w]: the status it is about to project
    inTry,     \* inTry[w]: is it inside the try statement?
    indexed,   \* jobs whose content some worker has written to the index
    verdict    \* verdict[h]: state of job h at the asynchronous analyzer

local == <<msg, receipt, handle, result, inTry>>
workerVars == <<pc, local, indexed, verdict>>

Pcs == {"idle", "register", "skip", "stamp", "mark", "markDoc", "execute",
        "submit", "poll", "async", "ack", "defer", "fail", "failDelete"}
Results == {"none", "running", "succeeded", "failed", "dead_letter"}
Verdicts == {"unused", "pending", "succeeded", "failed"}

WorkerInit ==
    /\ pc = [w \in Workers |-> "idle"]
    /\ msg = [w \in Workers |-> NoMsg]
    /\ receipt = [w \in Workers |-> 0]
    /\ handle = [w \in Workers |-> NoHandle]
    /\ result = [w \in Workers |-> "none"]
    /\ inTry = [w \in Workers |-> FALSE]
    /\ indexed = {}
    /\ verdict = [h \in Handles |-> "unused"]

JobOf(w) == body[msg[w]]

Goto(w, p) == pc' = [pc EXCEPT ![w] = p]

(* The worker drops its envelope: process_once returned, or the process ended. *)
Rest(w) ==
    /\ Goto(w, "idle")
    /\ msg' = [msg EXCEPT ![w] = NoMsg]
    /\ receipt' = [receipt EXCEPT ![w] = 0]
    /\ handle' = [handle EXCEPT ![w] = NoHandle]
    /\ result' = [result EXCEPT ![w] = "none"]
    /\ inTry' = [inTry EXCEPT ![w] = FALSE]

-------------------------------------------------------------------------------
(* Before the try statement. *)

Receive(w, m) ==
    /\ pc[w] = "idle"
    /\ ReceiveMessage(m)
    /\ Goto(w, "register")
    /\ msg' = [msg EXCEPT ![w] = m]
    /\ receipt' = [receipt EXCEPT ![w] = receives'[m]]
    /\ UNCHANGED <<storeVars, handle, result, inTry, indexed, verdict>>

(* Mutants: the duplicate check is missing; it also takes a running run for*)
(* a duplicate; the run object does not carry the stored job token.        *)
Register_NoSkip(w) ==
    /\ pc[w] = "register"
    /\ Goto(w, "stamp")
    /\ handle' = [handle EXCEPT ![w] = asyncJob[JobOf(w)]]
    /\ UNCHANGED <<queueVars, storeVars, msg, receipt, result, inTry, indexed, verdict>>

Register_SkipsRunning(w) ==
    /\ pc[w] = "register"
    /\ Goto(w, IF status[JobOf(w)] \in {"running", "succeeded"} THEN "skip" ELSE "stamp")
    /\ handle' = [handle EXCEPT ![w] = asyncJob[JobOf(w)]]
    /\ UNCHANGED <<queueVars, storeVars, msg, receipt, result, inTry, indexed, verdict>>

Register_ForgetsToken(w) ==
    /\ pc[w] = "register"
    /\ Goto(w, IF status[JobOf(w)] = "succeeded" THEN "skip" ELSE "stamp")
    /\ UNCHANGED <<queueVars, storeVars, local, indexed, verdict>>

(* create_queued finds the row the API inserted and returns a copy of it. *)
Register(w) ==
    /\ pc[w] = "register"
    /\ Goto(w, IF status[JobOf(w)] = "succeeded" THEN "skip" ELSE "stamp")
    /\ handle' = [handle EXCEPT ![w] = asyncJob[JobOf(w)]]
    /\ UNCHANGED <<queueVars, storeVars, msg, receipt, result, inTry, indexed, verdict>>

Skip(w) ==
    /\ pc[w] = "skip"
    /\ DeleteMessage(msg[w], receipt[w])
    /\ Rest(w)
    /\ UNCHANGED <<storeVars, indexed, verdict>>

Stamp(w) ==
    /\ pc[w] = "stamp"
    /\ StampMessageId(JobOf(w))
    /\ Goto(w, "mark")
    /\ result' = [result EXCEPT ![w] = "running"]
    /\ UNCHANGED <<queueVars, msg, receipt, handle, inTry, indexed, verdict>>

-------------------------------------------------------------------------------
(* _mark: the run row, then the document's row. *)

Mark(w) ==
    /\ pc[w] = "mark"
    /\ SetRunStatus(JobOf(w), result[w])
    /\ Goto(w, "markDoc")
    /\ UNCHANGED <<queueVars, local, indexed, verdict>>

(* The executor polls the job token of the run object if there is one. *)
FirstStep(w) ==
    IF JobOf(w) \notin VisualJobs THEN "execute"
    ELSE IF handle[w] = NoHandle THEN "submit" ELSE "poll"

MarkDoc(w) ==
    /\ pc[w] = "markDoc"
    /\ SetDocStatus(JobOf(w), result[w])
    /\ \/ /\ result[w] = "running"
          /\ Goto(w, FirstStep(w))
          /\ inTry' = [inTry EXCEPT ![w] = TRUE]
          /\ UNCHANGED <<msg, receipt, handle, result>>
       \/ /\ result[w] = "succeeded"
          /\ Goto(w, "ack")
          /\ UNCHANGED local
       \/ /\ result[w] \in {"failed", "dead_letter"}
          /\ Rest(w)
    /\ UNCHANGED <<queueVars, indexed, verdict>>

-------------------------------------------------------------------------------
(* execute_document. *)

(* The content of the job is written: chunks stored, registry updated. *)
Persist(w) == indexed' = indexed \cup {JobOf(w)}

Outcome(w, p, r, h) ==
    /\ Goto(w, p)
    /\ result' = [result EXCEPT ![w] = r]
    /\ handle' = [handle EXCEPT ![w] = h]
    /\ UNCHANGED <<msg, receipt, inTry>>

(* Structured or text content, parsed and indexed in the worker. *)
Execute(w) ==
    /\ pc[w] = "execute"
    /\ \/ Persist(w) /\ Outcome(w, "mark", "succeeded", NoHandle)
       \/ UNCHANGED indexed /\ Outcome(w, "fail", "failed", NoHandle)
    /\ UNCHANGED <<queueVars, storeVars, verdict>>

SubmitAnalysis(w, h) ==
    /\ pc[w] = "submit"
    /\ verdict[h] = "unused"
    /\ verdict' = [verdict EXCEPT ![h] = "pending"]
    /\ handle' = [handle EXCEPT ![w] = h]
    /\ Goto(w, "poll")
    /\ UNCHANGED <<queueVars, storeVars, msg, receipt, result, inTry, indexed>>

(* Mutant: a page of results (MORE_AVAILABLE) is taken for all of them. *)
Poll_PartialSuccess(w) ==
    /\ pc[w] = "poll"
    /\ verdict[handle[w]] = "pending"
    /\ Outcome(w, "async", "succeeded", handle[w])
    /\ UNCHANGED <<queueVars, storeVars, indexed, verdict>>

(* poll(): still pending; finished; or failed, and then the pages are      *)
(* rendered and indexed one by one, with no job token, if they can be.     *)
Poll(w) ==
    /\ pc[w] = "poll"
    /\ \/ /\ verdict[handle[w]] = "pending"
          /\ Outcome(w, "async", "running", handle[w])
          /\ UNCHANGED indexed
       \/ /\ verdict[handle[w]] = "succeeded"
          /\ Outcome(w, "async", "succeeded", handle[w])
          /\ Persist(w)
       \/ /\ verdict[handle[w]] = "failed"
          /\ Outcome(w, "async", "failed", handle[w])
          /\ UNCHANGED indexed
       \/ /\ verdict[handle[w]] = "failed"
          /\ Outcome(w, "async", "succeeded", NoHandle)
          /\ Persist(w)
    /\ UNCHANGED <<queueVars, storeVars, verdict>>

(* submit() or poll() raised: the same fallback, or a FAILED result that   *)
(* carries no job token, so the row keeps the one it has.                  *)
AnalyzerRaises(w) ==
    /\ pc[w] \in {"submit", "poll"}
    /\ \/ Persist(w) /\ Outcome(w, "async", "succeeded", NoHandle)
       \/ UNCHANGED indexed /\ Outcome(w, "fail", "failed", NoHandle)
    /\ UNCHANGED <<queueVars, storeVars, verdict>>

RecordAsync(w) ==
    /\ pc[w] = "async"
    /\ MarkAsyncJob(JobOf(w), handle[w])
    /\ Goto(w, CASE result[w] = "succeeded" -> "mark"
                 [] result[w] = "running"   -> "defer"
                 [] OTHER                   -> "fail")
    /\ UNCHANGED <<queueVars, local, indexed, verdict>>

-------------------------------------------------------------------------------
(* After the executor. *)

Ack(w) ==
    /\ pc[w] = "ack"
    /\ DeleteMessage(msg[w], receipt[w])
    /\ Rest(w)
    /\ UNCHANGED <<storeVars, indexed, verdict>>

Defer(w) ==
    /\ pc[w] = "defer"
    /\ MakeVisible(msg[w], receipt[w])
    /\ Rest(w)
    /\ UNCHANGED <<storeVars, indexed, verdict>>

LastReceive(w) == receipt[w] >= MaxReceiveCount

Project(w, r) ==
    /\ Goto(w, "mark")
    /\ result' = [result EXCEPT ![w] = r]
    /\ UNCHANGED <<msg, receipt, handle, inTry>>

(* Mutants: fail always answers "moved"; the last failure deletes the      *)
(* message without a copy.                                                 *)
FailRelease_AlwaysDead(w) ==
    /\ pc[w] = "fail"
    /\ ~(LastReceive(w) /\ HasDlqUrl)
    /\ MakeVisible(msg[w], receipt[w])
    /\ Project(w, "dead_letter")
    /\ UNCHANGED <<storeVars, indexed, verdict>>

(* SqsTaskQueue.fail, then mark_failed or mark_dead_letter by its answer. *)
FailCopy(w) ==
    /\ pc[w] = "fail"
    /\ LastReceive(w) /\ HasDlqUrl
    /\ CopyToDlq(msg[w])
    /\ Goto(w, "failDelete")
    /\ UNCHANGED <<storeVars, local, indexed, verdict>>

FailDelete(w) ==
    /\ pc[w] = "failDelete"
    /\ DeleteMessage(msg[w], receipt[w])
    /\ Project(w, "dead_letter")
    /\ UNCHANGED <<storeVars, indexed, verdict>>

FailRelease(w) ==
    /\ pc[w] = "fail"
    /\ ~(LastReceive(w) /\ HasDlqUrl)
    /\ MakeVisible(msg[w], receipt[w])
    /\ Project(w, IF LastReceive(w) THEN "dead_letter" ELSE "failed")
    /\ UNCHANGED <<storeVars, indexed, verdict>>

-------------------------------------------------------------------------------
(* Exceptions and ends of the process. *)

Dies(w) ==
    /\ pc[w] # "idle"
    /\ Rest(w)
    /\ UNCHANGED <<queueVars, storeVars, indexed, verdict>>

(* Mutant: the exception is logged and the run is projected as a success. *)
StepRaises_Swallowed(w) ==
    /\ inTry[w]
    /\ Goto(w, "mark")
    /\ result' = [result EXCEPT ![w] = "succeeded"]
    /\ UNCHANGED <<queueVars, storeVars, msg, receipt, handle, inTry, indexed, verdict>>

StepRaises(w) ==
    /\ inTry[w]
    /\ Goto(w, "fail")
    /\ result' = [result EXCEPT ![w] = "failed"]
    /\ inTry' = [inTry EXCEPT ![w] = FALSE]
    /\ UNCHANGED <<queueVars, storeVars, msg, receipt, handle, indexed, verdict>>

(* change_message_visibility refuses a handle that is no longer current. *)
ReleaseRefused(w) ==
    /\ \/ pc[w] = "defer"
       \/ pc[w] = "fail" /\ ~(LastReceive(w) /\ HasDlqUrl)
    /\ ~HandleAccepted(msg[w], receipt[w])
    /\ StepRaises(w) \/ (~inTry[w] /\ Dies(w))

-------------------------------------------------------------------------------
WorkerStep(w) ==
    \/ Register(w) \/ Skip(w) \/ Stamp(w) \/ Mark(w) \/ MarkDoc(w)
    \/ Execute(w) \/ (\E h \in Handles : SubmitAnalysis(w, h)) \/ Poll(w)
    \/ AnalyzerRaises(w) \/ RecordAsync(w) \/ Ack(w) \/ Defer(w)
    \/ FailCopy(w) \/ FailDelete(w) \/ FailRelease(w) \/ ReleaseRefused(w)

(* The analyzer finishes a job it was given. *)
AnalysisEnds(h) ==
    /\ verdict[h] = "pending"
    /\ \E v \in {"succeeded", "failed"} : verdict' = [verdict EXCEPT ![h] = v]
    /\ UNCHANGED <<queueVars, storeVars, pc, local, indexed>>

WorkerNext ==
    \/ \E w \in Workers :
        \/ \E m \in Msgs : Receive(w, m)
        \/ WorkerStep(w) \/ StepRaises(w) \/ Dies(w)
    \/ \E h \in Handles : AnalysisEnds(h)
===============================================================================
