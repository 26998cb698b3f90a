---------------------------- MODULE SourceSyncWorker ---------------------------
(***************************************************************************)
(* IngestionWorker.process_once over a queue that holds both sync messages *)
(* and child messages, with execute_source_sync, _enqueue_child_if_needed  *)
(* and _refresh_source_sync_parent.  pc[w] is the next call worker w makes *)
(* to the queue or the store; ctx[w] holds what it keeps in variables, the *)
(* rows it has read included.                                              *)
(***************************************************************************)
EXTENDS SourceSync

Goto(w, p) == pc' = [pc EXCEPT ![w] = p]
Set(w, c) == ctx' = [ctx EXCEPT ![w] = c]
Rest(w) == Goto(w, "idle") /\ Set(w, Blank)

JobOf(w) == body[ctx[w].msg]

Receive(w, m) ==
    /\ pc[w] = "idle"
    /\ ReceiveMessage(m)
    /\ Goto(w, IF body[m] \in Syncs THEN "sync" ELSE "register")
    /\ Set(w, [Blank EXCEPT !.msg = m, !.receipt = receives'[m]])
    /\ UNCHANGED <<storeVars, source, walked, requestVars>>

-------------------------------------------------------------------------------
(* execute_source_sync: open the sync. *)

SyncBegin(w) ==
    /\ pc[w] = "sync"
    /\ Goto(w, IF status[JobOf(w)] = "succeeded" /\ JobOf(w) \notin Forced
               THEN "ack" ELSE "open")
    /\ UNCHANGED <<queueVars, storeVars, source, walked, requestVars, ctx>>

SyncOpenRun(w) ==
    /\ pc[w] = "open"
    /\ MarkRun(JobOf(w), "running")
    /\ Goto(w, "openState")
    /\ UNCHANGED <<queueVars, source, walked, requestVars, ctx>>

SyncOpenState(w) ==
    /\ pc[w] = "openState"
    /\ source' = State("syncing", JobOf(w), 0, 0, 0)
    /\ Goto(w, "walk")
    /\ Set(w, [ctx[w] EXCEPT !.todo = Manifest[JobOf(w)]])
    /\ UNCHANGED <<queueVars, storeVars, walked, requestVars>>

-------------------------------------------------------------------------------
(* execute_source_sync: one document.  The order of a source's listing is  *)
(* the connector's, hence any.                                             *)

(* The status the walk keeps for document j; a later one is not noticed.   *)
Tally(c, j, s) ==
    [c EXCEPT !.todo = @ \ {j}, !.child = NoJob, !.row = NoRow,
              !.open = @ + (IF s \in {"queued", "running"} THEN 1 ELSE 0),
              !.failed = @ + (IF s \in {"failed", "dead_letter"} THEN 1 ELSE 0)]

(* What ingest_document does next with a child whose row it has read.      *)
ChildPath(j, s) ==
    IF j \notin PdfJobs THEN "ingest"
    ELSE IF s \in {"queued", "running"} THEN "send" ELSE "requeue"

(* Mutant: a row that already exists is taken for one already sent. *)
Visit_TrustsRow(w, j) ==
    /\ pc[w] = "walk"
    /\ j \in ctx[w].todo
    /\ \/ /\ CreateQueued(j)
          /\ Goto(w, ChildPath(j, "queued"))
          /\ Set(w, [ctx[w] EXCEPT !.child = j,
                                   !.row = [status |-> "queued", stamped |-> FALSE]])
       \/ /\ status[j] # "absent"
          /\ Set(w, Tally(ctx[w], j, status[j]))
          /\ UNCHANGED <<storeVars, pc>>
    /\ UNCHANGED <<queueVars, source, walked, requestVars>>

Visit(w, j) ==
    /\ pc[w] = "walk"
    /\ j \in ctx[w].todo
    /\ \/ /\ CreateQueued(j)
          /\ Goto(w, ChildPath(j, "queued"))
          /\ Set(w, [ctx[w] EXCEPT !.child = j,
                                   !.row = [status |-> "queued", stamped |-> FALSE]])
       \/ /\ status[j] \notin {"absent", "succeeded"}
          /\ Goto(w, ChildPath(j, status[j]))
          /\ Set(w, [ctx[w] EXCEPT !.child = j,
                                   !.row = [status |-> status[j], stamped |-> j \in stamped]])
          /\ UNCHANGED storeVars
       \/ /\ status[j] = "succeeded"
          /\ Set(w, Tally(ctx[w], j, "succeeded"))
          /\ UNCHANGED <<storeVars, pc>>
    /\ UNCHANGED <<queueVars, source, walked, requestVars>>

RequeueChild(w) ==
    /\ pc[w] = "requeue"
    /\ MarkQueued(ctx[w].child)
    /\ Goto(w, "send")
    /\ Set(w, [ctx[w] EXCEPT !.row = [status |-> "queued", stamped |-> FALSE]])
    /\ UNCHANGED <<queueVars, source, walked, requestVars>>

Owed(row) == row.status = "queued" /\ ~row.stamped

SendChild(w, m) ==
    /\ pc[w] = "send"
    /\ Owed(ctx[w].row)
    /\ EnqueueMessage(m, ctx[w].child)
    /\ Goto(w, "stampChild")
    /\ UNCHANGED <<storeVars, source, walked, requestVars, ctx>>

ChildAlreadySent(w) ==
    /\ pc[w] = "send"
    /\ ~Owed(ctx[w].row)
    /\ Goto(w, "walk")
    /\ Set(w, Tally(ctx[w], ctx[w].child, ctx[w].row.status))
    /\ UNCHANGED <<queueVars, storeVars, source, walked, requestVars>>

StampChild(w) ==
    /\ pc[w] = "stampChild"
    /\ StampMessageId(ctx[w].child)
    /\ Goto(w, "walk")
    /\ Set(w, Tally(ctx[w], ctx[w].child, "queued"))
    /\ UNCHANGED <<queueVars, source, walked, requestVars>>

(* Text: indexed here, between the two calls. *)
IngestText(w) ==
    /\ pc[w] = "ingest"
    /\ MarkRun(ctx[w].child, "running")
    /\ Goto(w, "ingested")
    /\ UNCHANGED <<queueVars, source, walked, requestVars, ctx>>

TextIngested(w) ==
    /\ pc[w] = "ingested"
    /\ \E s \in {"succeeded", "failed"} :
        /\ MarkRun(ctx[w].child, s)
        /\ Set(w, Tally(ctx[w], ctx[w].child, s))
    /\ Goto(w, "walk")
    /\ UNCHANGED <<queueVars, source, walked, requestVars>>

-------------------------------------------------------------------------------
(* execute_source_sync: close the sync. *)

(* Mutant: queued and running children are not held against the sync. *)
CloseWith_IgnoresOpen(w, c) ==
    LET n == Cardinality(Manifest[JobOf(w)])
    IN  State(Verdict(n, n - c.failed, c.failed), JobOf(w), n, n - c.failed, c.failed)

CloseWith(w, c) ==
    LET n == Cardinality(Manifest[JobOf(w)])
        changed == n - c.failed - c.open
    IN  State(Verdict(n, changed, c.failed), JobOf(w), n, changed, c.failed)

(* Mutant: the sync is closed before its last document. *)
SyncCloseRun_Early(w) ==
    /\ pc[w] = "walk"
    /\ walked' = IF ctx[w].todo = {} THEN walked \cup {JobOf(w)} ELSE walked
    /\ MarkRun(JobOf(w), RunOf(CloseWith(w, ctx[w]).status))
    /\ Goto(w, "closeState")
    /\ UNCHANGED <<queueVars, source, requestVars, ctx>>

SyncCloseRun(w) ==
    /\ pc[w] = "walk"
    /\ ctx[w].todo = {}
    /\ walked' = walked \cup {JobOf(w)}
    /\ MarkRun(JobOf(w), RunOf(CloseWith(w, ctx[w]).status))
    /\ Goto(w, "closeState")
    /\ UNCHANGED <<queueVars, source, requestVars, ctx>>

SyncCloseState(w) ==
    /\ pc[w] = "closeState"
    /\ source' = CloseWith(w, ctx[w])
    /\ Goto(w, "ack")
    /\ Set(w, [Blank EXCEPT !.msg = ctx[w].msg, !.receipt = ctx[w].receipt])
    /\ UNCHANGED <<queueVars, storeVars, walked, requestVars>>

-------------------------------------------------------------------------------
(* A child message. *)

Register(w) ==
    /\ pc[w] = "register"
    /\ Goto(w, IF status[JobOf(w)] = "succeeded" THEN "ack" ELSE "run")
    /\ UNCHANGED <<queueVars, storeVars, source, walked, requestVars, ctx>>

(* mark_message_id and mark_running. *)
RunChild(w) ==
    /\ pc[w] = "run"
    /\ status' = [status EXCEPT ![JobOf(w)] = "running"]
    /\ docStatus' = [docStatus EXCEPT ![DocOf[JobOf(w)]] = "running"]
    /\ stamped' = stamped \cup {JobOf(w)}
    /\ Goto(w, "work")
    /\ UNCHANGED <<queueVars, asyncJob, source, walked, requestVars, ctx>>

(* Mutant: a success does not reach the parent. *)
Work_NoRefresh(w) ==
    /\ pc[w] = "work"
    /\ \/ /\ MarkRun(JobOf(w), "succeeded")
          /\ Goto(w, "ack")
          /\ UNCHANGED ctx
       \/ /\ Goto(w, "fail")
          /\ UNCHANGED <<storeVars, ctx>>
    /\ UNCHANGED <<queueVars, source, walked, requestVars>>

(* The executor answers; only a success is recorded before the refresh.    *)
Work(w) ==
    /\ pc[w] = "work"
    /\ \/ /\ MarkRun(JobOf(w), "succeeded")
          /\ Goto(w, "refresh")
          /\ Set(w, [ctx[w] EXCEPT !.then = "ack"])
       \/ /\ Goto(w, "refresh")
          /\ Set(w, [ctx[w] EXCEPT !.then = "defer"])
          /\ UNCHANGED storeVars
       \/ /\ Goto(w, "fail")
          /\ UNCHANGED <<storeVars, ctx>>
    /\ UNCHANGED <<queueVars, source, walked, requestVars>>

(* Mutant: a failure does not reach the parent. *)
ChildFailed_NoRefresh(w) ==
    /\ pc[w] = "project"
    /\ MarkRun(JobOf(w), ctx[w].result)
    /\ Rest(w)
    /\ UNCHANGED <<queueVars, source, walked, requestVars>>

(* mark_failed or mark_dead_letter, by the answer of fail. *)
ChildFailed(w) ==
    /\ pc[w] = "project"
    /\ MarkRun(JobOf(w), ctx[w].result)
    /\ Goto(w, "refresh")
    /\ Set(w, [ctx[w] EXCEPT !.then = "idle"])
    /\ UNCHANGED <<queueVars, source, walked, requestVars>>

-------------------------------------------------------------------------------
(* _refresh_source_sync_parent. *)

(* process_once goes on behind the refresh, or has returned. *)
Continue(w) ==
    IF ctx[w].then = "idle" THEN Rest(w)
    ELSE Goto(w, ctx[w].then)
         /\ Set(w, [Blank EXCEPT !.msg = ctx[w].msg, !.receipt = ctx[w].receipt,
                                 !.then = ctx[w].then])

ReadSource(w) ==
    /\ pc[w] = "refresh"
    /\ \/ /\ source.run = NoJob
          /\ Continue(w)
       \/ /\ source.run # NoJob
          /\ Goto(w, "readDocs")
          /\ Set(w, [ctx[w] EXCEPT !.state = source])
    /\ UNCHANGED <<queueVars, storeVars, source, walked, requestVars>>

Known == {d \in ChildDocs : docStatus[d] # "absent"}
KnownIn(S) == Cardinality({d \in Known : docStatus[d] \in S})

(* The state of the source as its processing rows have it now. *)
Recomputed(old) ==
    LET observed == IF old.observed > Cardinality(Known) THEN old.observed
                    ELSE Cardinality(Known)
        changed == KnownIn({"succeeded"})
        failed == KnownIn({"failed", "dead_letter"})
    IN  State(Verdict(observed, changed, failed), old.run, observed, changed, failed)

ReadDocs(w) ==
    /\ pc[w] = "readDocs"
    /\ Goto(w, "markParent")
    /\ Set(w, [ctx[w] EXCEPT !.state = Recomputed(ctx[w].state)])
    /\ UNCHANGED <<queueVars, storeVars, source, walked, requestVars>>

MarkParent(w) ==
    /\ pc[w] = "markParent"
    /\ MarkRun(ctx[w].state.run, RunOf(ctx[w].state.status))
    /\ Goto(w, "writeSource")
    /\ UNCHANGED <<queueVars, source, walked, requestVars, ctx>>

WriteSource(w) ==
    /\ pc[w] = "writeSource"
    /\ source' = ctx[w].state
    /\ Continue(w)
    /\ UNCHANGED <<queueVars, storeVars, walked, requestVars>>

-------------------------------------------------------------------------------
(* The ends of a message. *)

Ack(w) ==
    /\ pc[w] = "ack"
    /\ DeleteMessage(ctx[w].msg, ctx[w].receipt)
    /\ Rest(w)
    /\ UNCHANGED <<storeVars, source, walked, requestVars>>

Defer(w) ==
    /\ pc[w] = "defer"
    /\ MakeVisible(ctx[w].msg, ctx[w].receipt)
    /\ Rest(w)
    /\ UNCHANGED <<storeVars, source, walked, requestVars>>

Parks(w) == ctx[w].receipt >= MaxReceiveCount /\ HasDlqUrl

(* A sync message has no status to project: its run is marked already.     *)
Project(w, r) ==
    IF JobOf(w) \in Syncs THEN Rest(w)
    ELSE Goto(w, "project") /\ Set(w, [ctx[w] EXCEPT !.result = r])

FailCopy(w) ==
    /\ pc[w] = "fail"
    /\ Parks(w)
    /\ CopyToDlq(ctx[w].msg)
    /\ Goto(w, "failDelete")
    /\ UNCHANGED <<storeVars, source, walked, requestVars, ctx>>

FailDelete(w) ==
    /\ pc[w] = "failDelete"
    /\ DeleteMessage(ctx[w].msg, ctx[w].receipt)
    /\ Project(w, "dead_letter")
    /\ UNCHANGED <<storeVars, source, walked, requestVars>>

FailRelease(w) ==
    /\ pc[w] = "fail"
    /\ ~Parks(w)
    /\ MakeVisible(ctx[w].msg, ctx[w].receipt)
    /\ Project(w, IF ctx[w].receipt >= MaxReceiveCount THEN "dead_letter" ELSE "failed")
    /\ UNCHANGED <<storeVars, source, walked, requestVars>>

-------------------------------------------------------------------------------
(* Exceptions and ends of the process. *)

InWalk == {"walk", "requeue", "send", "stampChild", "ingest", "ingested", "closeState"}

(* Reading the source, staging a document, or any call of the walk raises. *)
SyncRaises(w) ==
    /\ pc[w] \in InWalk
    /\ Goto(w, "syncFailed")
    /\ UNCHANGED <<queueVars, storeVars, source, walked, requestVars, ctx>>

SyncFailedRun(w) ==
    /\ pc[w] = "syncFailed"
    /\ MarkRun(JobOf(w), "failed")
    /\ Goto(w, "syncFailedState")
    /\ UNCHANGED <<queueVars, source, walked, requestVars, ctx>>

SyncFailedState(w) ==
    /\ pc[w] = "syncFailedState"
    /\ source' = State("failed", JobOf(w), 0, 0, 1)
    /\ Goto(w, "fail")
    /\ UNCHANGED <<queueVars, storeVars, walked, requestVars, ctx>>

(* Around the try statement of execute_source_sync the exception reaches   *)
(* process_once as it is; so does one of a child inside its try statement. *)
StepRaises(w) ==
    /\ \/ pc[w] \in {"sync", "open", "openState", "syncFailed", "syncFailedState", "work"}
       \/ pc[w] \in {"refresh", "readDocs", "markParent", "writeSource"}
          /\ ctx[w].then # "idle"
       \/ pc[w] = "defer"
    /\ Goto(w, "fail")
    /\ Set(w, [Blank EXCEPT !.msg = ctx[w].msg, !.receipt = ctx[w].receipt])
    /\ UNCHANGED <<queueVars, storeVars, source, walked, requestVars>>

(* The delete of a message raises after its work was recorded.             *)
AckRaises(w) ==
    /\ pc[w] = "ack"
    /\ JobOf(w) \in Syncs \/ ctx[w].then = "ack"
    /\ Goto(w, "fail")
    /\ Set(w, [Blank EXCEPT !.msg = ctx[w].msg, !.receipt = ctx[w].receipt])
    /\ UNCHANGED <<queueVars, storeVars, source, walked, requestVars>>

Dies(w) ==
    /\ pc[w] # "idle"
    /\ Rest(w)
    /\ UNCHANGED <<queueVars, storeVars, source, walked, requestVars>>

(* A release with a handle that is no longer current raises. *)
ReleaseRefused(w) ==
    /\ pc[w] = "defer" \/ (pc[w] = "fail" /\ ~Parks(w))
    /\ ~HandleAccepted(ctx[w].msg, ctx[w].receipt)
    /\ StepRaises(w) \/ (pc[w] = "fail" /\ Dies(w))

-------------------------------------------------------------------------------
WorkerStep(w) ==
    \/ SyncBegin(w) \/ SyncOpenRun(w) \/ SyncOpenState(w)
    \/ (\E j \in Children : Visit(w, j)) \/ RequeueChild(w)
    \/ (\E m \in Msgs : SendChild(w, m)) \/ ChildAlreadySent(w) \/ StampChild(w)
    \/ IngestText(w) \/ TextIngested(w) \/ SyncCloseRun(w) \/ SyncCloseState(w)
    \/ SyncFailedRun(w) \/ SyncFailedState(w)
    \/ Register(w) \/ RunChild(w) \/ Work(w) \/ ChildFailed(w)
    \/ ReadSource(w) \/ ReadDocs(w) \/ MarkParent(w) \/ WriteSource(w)
    \/ Ack(w) \/ Defer(w) \/ FailCopy(w) \/ FailDelete(w) \/ FailRelease(w)
    \/ ReleaseRefused(w)
===============================================================================
