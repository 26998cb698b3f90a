--------------------------- MODULE IngestionPipeline --------------------------
(***************************************************************************)
(* The upload path end to end: the answer service registers runs and sends *)
(* messages (UploadApi), workers receive them, index the content and       *)
(* project the outcome (IngestionWorker), over one SQS queue               *)
(* (SqsTaskQueue) and one run store (IngestionRunStore).  Nothing but the  *)
(* queue and the store is shared, and every statement of either side may   *)
(* fall between any two statements of the other.                           *)
(***************************************************************************)
EXTENDS UploadApi, IngestionWorker

vars == <<queueVars, storeVars, apiVars, workerVars>>

Init == QueueInit /\ StoreInit /\ ApiInit /\ WorkerInit

Next ==
    \/ QueueNext /\ UNCHANGED <<storeVars, apiVars, workerVars>>
    \/ ApiNext /\ UNCHANGED workerVars
    \/ WorkerNext /\ UNCHANGED apiVars

Spec == Init /\ [][Next]_vars

(* The same system on a good day: no request is aborted, no worker dies,   *)
(* nothing raises and no visibility timeout expires under a worker.        *)
CalmNext ==
    \/ (\E m \in Msgs : Redrive(m)) /\ UNCHANGED <<storeVars, apiVars, workerVars>>
    \/ (ApiStep \/ \E j \in Jobs : Submit(j)) /\ UNCHANGED workerVars
    \/ /\ \/ \E w \in Workers : WorkerStep(w) \/ \E m \in Msgs : Receive(w, m)
          \/ \E h \in Handles : AnalysisEnds(h)
       /\ UNCHANGED apiVars

CalmSpec == Init /\ [][CalmNext]_vars

(* The queue delivers and redrives, and a worker that runs goes on; nobody *)
(* has to submit anything, to fail, or to finish an analysis.              *)
Fairness ==
    /\ \A m \in Msgs :
        /\ WF_vars(VisibilityExpires(m) /\ UNCHANGED <<storeVars, apiVars, workerVars>>)
        /\ WF_vars(Redrive(m) /\ UNCHANGED <<storeVars, apiVars, workerVars>>)
        /\ WF_vars((\E w \in Workers : Receive(w, m)) /\ UNCHANGED apiVars)
    /\ \A w \in Workers : WF_vars(WorkerStep(w) /\ UNCHANGED apiVars)

FairSpec == Spec /\ Fairness

-------------------------------------------------------------------------------
TypeOK ==
    /\ body \in [Msgs -> Jobs \cup {NoJob}]
    /\ place \in [Msgs -> Places]
    /\ receives \in [Msgs -> 0..MaxReceiveCount]
    /\ dlq \in SUBSET Msgs
    /\ status \in [Jobs -> RunStatus]
    /\ docStatus \in [Docs -> RunStatus]
    /\ stamped \in SUBSET Jobs
    /\ asyncJob \in [Jobs -> Handles \cup {NoHandle}]
    /\ apiPc \in ApiPcs
    /\ apiJob \in Jobs \cup {NoJob}
    /\ pc \in [Workers -> Pcs]
    /\ msg \in [Workers -> Msgs \cup {NoMsg}]
    /\ receipt \in [Workers -> 0..MaxReceiveCount]
    /\ handle \in [Workers -> Handles \cup {NoHandle}]
    /\ result \in [Workers -> Results]
    /\ inTry \in [Workers -> BOOLEAN]
    /\ indexed \in SUBSET Jobs
    /\ verdict \in [Handles -> Verdicts]

(* A success shown to the operator is real: a run, or the processing row   *)
(* of its document, says "succeeded" only once content was indexed, however*)
(* many workers overlapped and whatever was re-queued in between.          *)
SuccessIsIndexed ==
    /\ \A j \in Jobs : status[j] = "succeeded" => j \in indexed
    /\ \A d \in Docs : docStatus[d] = "succeeded" =>
                           \E j \in indexed : DocOf[j] = d

(* A message leaves the queue only when its job is indexed or a copy is in *)
(* the dead-letter queue: no crash, expired visibility or raised step      *)
(* between the calls of ack and fail loses it.                             *)
GoneIsAccounted ==
    \A m \in Msgs : place[m] = "gone" => body[m] \in indexed \/ m \in dlq

(* A run is never orphaned: what is not indexed has a message in the queue *)
(* or in the dead-letter queue, or is queued without a message id, and then*)
(* the next request for it sends the message an aborted request owed.      *)
NoOrphanRun ==
    \A j \in Jobs : status[j] # "absent" =>
        \/ j \in indexed
        \/ \E m \in Msgs : body[m] = j /\ (Live(m) \/ m \in dlq)
        \/ status[j] = "queued" /\ j \notin stamped

(* "dead_letter" is never shown for work the operator cannot find: there   *)
(* is a copy, or (no SQS_DLQ_URL) the queue is about to redrive it.        *)
DeadLetterIsParked ==
    \A j \in Jobs : status[j] = "dead_letter" =>
        \E m \in Msgs : /\ body[m] = j
                        /\ m \in dlq \/ receives[m] = MaxReceiveCount

(* Past the read of the run that decides whether to skip, a worker acts on *)
(* what it read; so does a request that found the run failed.              *)
WorkerCommitted(w, j) ==
    msg[w] # NoMsg /\ JobOf(w) = j /\ pc[w] \notin {"register", "skip"}
ApiCommitted(j) == apiJob = j /\ apiPc \in {"requeue", "requeueDoc"}

Settled(j) ==
    /\ status[j] = "succeeded"
    /\ \A w \in Workers : ~WorkerCommitted(w, j)
    /\ ~ApiCommitted(j)

(* Redelivery is idempotent: once a run has succeeded and nobody is still  *)
(* acting on an older reading of it, duplicates, redriven receives and     *)
(* repeated requests leave it a success that no worker indexes again.      *)
SettledStaysSettled ==
    [][\A j \in Jobs : Settled(j) => Settled(j)']_vars

(* With one worker a recorded analysis is polled, never submitted again:   *)
(* the token that a deferred run stored is the one every later receive uses.*)
RecordedAnalysisIsPolled ==
    \A w \in Workers : pc[w] = "submit" => asyncJob[JobOf(w)] = NoHandle

(* A job whose messages are all in the dead-letter queue, and that nobody  *)
(* is working on, is shown as dead_letter (or was re-queued by a request). *)
(* docs/production-readiness/risk-register.md, PR-010, says it is.         *)
ParkedIsProjected ==
    \A m \in dlq :
        LET j == body[m] IN
        /\ j \notin indexed
        /\ apiJob # j
        /\ \A n \in Msgs : body[n] = j => ~Live(n)
        /\ \A w \in Workers : msg[w] # NoMsg => JobOf(w) # j
        => status[j] \in {"dead_letter", "queued"}

(* A run that is re-queued can get further than last time: it is not sent  *)
(* to poll again an analysis that has already failed.                      *)
(* specs/021-visual-pdf-understanding-prod/spec.md calls it retriable.     *)
RetryStartsAfresh ==
    apiPc = "enqueue" /\ asyncJob[apiJob] # NoHandle =>
        verdict[asyncJob[apiJob]] # "failed"

-------------------------------------------------------------------------------
Durable == INSTANCE DurableJobs WITH
    Requests <- Msgs,
    ask <- body,
    owed <- {m \in Msgs : Live(m)},
    done <- indexed,
    parked <- dlq,
    reported <- {j \in Jobs : status[j] = "succeeded"}

(* The pipeline keeps the promises of DurableJobs. *)
ImplementsDurable == Durable!DurableSpec
===============================================================================
