---------------------------- MODULE SourceSyncSystem ---------------------------
(***************************************************************************)
(* Requests, workers and the queue of one data source together, and what a *)
(* reader of the sync state may conclude from it.  AutoSyncScheduler is    *)
(* the other user of the request side.                                     *)
(***************************************************************************)
EXTENDS SourceSyncWorker

RequestNext == \E r \in Requesters :
    (\E k \in Syncs : Request(r, k)) \/ RequestStep(r) \/ RequestDies(r)

WorkerMove(w) ==
    \/ \E m \in Msgs : Receive(w, m)
    \/ WorkerStep(w) \/ SyncRaises(w) \/ StepRaises(w) \/ Dies(w)

WorkerNext == \E w \in Workers : WorkerMove(w) \/ AckRaises(w)

Next ==
    \/ QueueNext /\ UNCHANGED <<storeVars, source, walked, requestVars, workerVars>>
    \/ RequestNext
    \/ WorkerNext

Spec == Init /\ [][Next]_vars

(* Nothing dies, raises or outlives its visibility timeout, and every sync *)
(* is requested once.  Children may still fail and be retried.             *)
CalmStep ==
    \/ (\E m \in Msgs : Redrive(m))
           /\ UNCHANGED <<storeVars, source, walked, requestVars, workerVars>>
    \/ \E r \in Requesters : RequestStep(r)
    \/ \E w \in Workers : WorkerStep(w) \/ \E m \in Msgs : Receive(w, m)

CalmNext ==
    CalmStep \/ \E r \in Requesters, k \in Syncs : status[k] = "absent" /\ Request(r, k)

CalmSpec == Init /\ [][CalmNext]_vars

(* The queue delivers and redrives; a request and a worker go on.          *)
CalmFairness ==
    /\ \A r \in Requesters : WF_vars(RequestStep(r))
    /\ \A m \in Msgs :
        /\ WF_vars(\E w \in Workers : Receive(w, m))
        /\ WF_vars(Redrive(m) /\ UNCHANGED <<storeVars, source, walked,
                                             requestVars, workerVars>>)
    /\ \A w \in Workers : WF_vars(WorkerStep(w))

FairCalmSpec == CalmSpec /\ CalmFairness

(* Anything happens, but an acknowledgement is never refused: the delete   *)
(* of a message whose work is recorded does not raise.                     *)
AcksNext ==
    \/ QueueNext /\ UNCHANGED <<storeVars, source, walked, requestVars, workerVars>>
    \/ RequestNext
    \/ \E w \in Workers : WorkerMove(w)
AcksSpec == Init /\ [][AcksNext]_vars

(* A calm day but for syncs whose connector fails. *)
ConnectorFailsNext ==
    CalmNext \/ \E w \in Workers : pc[w] = "walk" /\ SyncRaises(w)
ConnectorFailsSpec == Init /\ [][ConnectorFailsNext]_vars

-------------------------------------------------------------------------------
SourceStatus == {"none", "queued", "syncing", "succeeded", "partially_succeeded",
                 "failed"}
Counts == 0..Cardinality(Children)
SourceStates == [status : SourceStatus, run : Syncs \cup {NoJob},
                 observed : Counts, changed : Counts, failed : Counts]
Rows == [status : RunStatus, stamped : BOOLEAN]
Contexts ==
    [msg : Msgs \cup {NoMsg}, receipt : 0..MaxReceiveCount, todo : SUBSET Children,
     failed : Counts, open : Counts, child : Children \cup {NoJob}, row : Rows,
     state : SourceStates, result : {"none", "failed", "dead_letter"},
     then : {"none", "ack", "defer", "idle"}]

TypeOK ==
    /\ body \in [Msgs -> Jobs \cup {NoJob}]
    /\ place \in [Msgs -> Places]
    /\ receives \in [Msgs -> 0..MaxReceiveCount]
    /\ dlq \subseteq Msgs
    /\ status \in [Jobs -> RunStatus]
    /\ docStatus \in [Docs -> RunStatus]
    /\ stamped \subseteq Jobs
    /\ source \in SourceStates
    /\ walked \subseteq Syncs
    /\ reqSync \in [Requesters -> Syncs \cup {NoJob}]
    /\ ctx \in [Workers -> Contexts]

(* However often a sync is requested under one key, by however many tasks, *)
(* and wherever they die, its message is sent at most once.                *)
RequestedOnce ==
    \A m, n \in Msgs : body[m] = body[n] /\ body[m] \in Syncs => m = n

(* A child the sync registered is never orphaned: it has succeeded, or it  *)
(* is text and failed, or a message for it is in the queue or parked, or a *)
(* sync that owes it the message is itself still queued or parked.         *)
NoOrphanChild ==
    \A j \in Children : status[j] # "absent" =>
        \/ status[j] = "succeeded" \/ (status[j] = "failed" /\ j \notin PdfJobs)
        \/ \E m \in Msgs : body[m] = j /\ (Live(m) \/ m \in dlq)
        \/ \E m \in Msgs : /\ body[m] \in Syncs /\ j \in Manifest[body[m]]
                           /\ Live(m) \/ m \in dlq

(* The source never looks successful while one of its documents is still   *)
(* queued or running.                                                      *)
NeverLooksSuccessful ==
    source.status = "succeeded" =>
        \A d \in ChildDocs : docStatus[d] \notin {"queued", "running"}

(* A sync is shown as succeeded only if it reached the end of its listing. *)
SucceededWasWalked == \A k \in Syncs : status[k] = "succeeded" => k \in walked

(* When nothing is left in the queue and nobody is at work, the state of   *)
(* the source and the run it names say what the processing rows say.       *)
Quiet ==
    /\ \A m \in Msgs : ~Live(m)
    /\ \A r \in Requesters : reqPc[r] = "idle"
    /\ \A w \in Workers : pc[w] = "idle"

DocsWith(S) == {d \in ChildDocs : docStatus[d] \in S}
Verdicts(s) ==
    CASE s = "succeeded" -> DocsWith({"succeeded", "absent"}) = ChildDocs
      [] s = "failed"    -> DocsWith({"failed", "dead_letter", "absent"}) = ChildDocs
      [] s = "syncing"   -> DocsWith({"queued", "running"}) # {}
      [] OTHER           -> /\ DocsWith({"queued", "running"}) = {}
                            /\ DocsWith({"failed", "dead_letter"}) # {}

QuietAgrees ==
    Quiet /\ source.run # NoJob =>
        /\ source.changed = Cardinality(DocsWith({"succeeded"}))
        /\ source.failed = Cardinality(DocsWith({"failed", "dead_letter"}))
        /\ Verdicts(source.status)
        /\ status[source.run] = (IF source.status = "syncing" THEN "running"
                                 ELSE source.status)

(* A requested sync ends: its run reaches a final status, unless a message *)
(* of the source is parked for an operator.                                *)
Final == {"succeeded", "partially_succeeded", "failed"}
SyncEnds ==
    \A k \in Syncs : status[k] = "queued" ~> (status[k] \in Final \/ dlq # {})
===============================================================================
