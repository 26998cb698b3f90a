------------------------ MODULE IngestionPipelineProofs -----------------------
(***************************************************************************)
(* Proofs about IngestionPipeline, for any number of workers, messages,    *)
(* jobs and analyzer jobs, any receive limit, with or without SQS_DLQ_URL. *)
(*                                                                         *)
(* The invariants TLC checks are not inductive: a run becomes succeeded    *)
(* because a worker says so, so what the worker has in hand must be known  *)
(* to be indexed; a message is deleted by a worker that is past the copy,  *)
(* so that worker's message must be known to have one.  IInv adds, for     *)
(* every place in the code between two statements, what the first          *)
(* established and the second relies on.                                   *)
(***************************************************************************)
EXTENDS IngestionPipeline, StructuredEvidence, TLAPS

(* The envelope of a worker is a message that was sent. *)
Envelopes ==
    \A w \in Workers :
        /\ pc[w] = "idle" <=> msg[w] = NoMsg
        /\ pc[w] # "idle" => /\ body[msg[w]] \in Jobs
                             /\ receipt[w] <= receives[msg[w]]
        /\ inTry[w] => pc[w] \notin {"idle", "register", "skip"}

(* Only sent messages have a body, and it is the only thing they never lose. *)
SentHaveBody ==
    \A m \in Msgs : /\ place[m] = "unsent" <=> body[m] = NoJob
                    /\ place[m] = "unsent" => m \notin dlq

(* A request is about one job, whose run exists. *)
RequestShape ==
    /\ apiPc = "idle" <=> apiJob = NoJob
    /\ apiPc # "idle" => status[apiJob] # "absent"

(* The status a worker is about to write is one a run can have. *)
ResultShape ==
    \A w \in Workers :
        /\ pc[w] \in {"mark", "markDoc"} => result[w] # "none"
        /\ pc[w] = "async" => result[w] \in {"running", "succeeded", "failed"}

(* What a worker reports, and what it acknowledges, is indexed. *)
WorkIsIndexed ==
    \A w \in Workers :
        \/ pc[w] \in {"mark", "markDoc", "async"} /\ result[w] = "succeeded"
        \/ pc[w] \in {"ack", "skip"}
        => JobOf(w) \in indexed

(* A message about to be deleted by fail has its copy; one about to be     *)
(* shown as dead-lettered has a copy or has used up its receives.          *)
CopyBeforeDelete ==
    \A w \in Workers :
        /\ pc[w] = "failDelete" => msg[w] \in dlq
        /\ pc[w] \in {"mark", "markDoc"} /\ result[w] = "dead_letter" =>
              msg[w] \in dlq \/ receives[msg[w]] = MaxReceiveCount

(* Every run has a message, or will get one from the next request. *)
RunHasMessage ==
    \A j \in Jobs :
        \/ \E m \in Msgs : body[m] = j
        \/ status[j] \in {"absent", "queued"} /\ j \notin stamped

(* A request that re-queues a run or has sent its message is about a run   *)
(* that has one.                                                           *)
RequestHasMessage ==
    apiPc \in {"requeue", "requeueDoc", "clearId", "stamp"} =>
        \E m \in Msgs : body[m] = apiJob

(* Messages are only ever about registered runs. *)
MessageHasRun ==
    \A m \in Msgs : body[m] \in Jobs => status[body[m]] # "absent"

IInv ==
    /\ TypeOK
    /\ Envelopes
    /\ SentHaveBody
    /\ RequestShape
    /\ ResultShape
    /\ WorkIsIndexed
    /\ CopyBeforeDelete
    /\ SuccessIsIndexed
    /\ GoneIsAccounted
    /\ DeadLetterIsParked
    /\ RunHasMessage
    /\ RequestHasMessage
    /\ MessageHasRun

USE MaxReceiveAssumption, DlqUrlAssumption, NoJobAssumption, DocOfAssumption,
    NoHandleAssumption, NoMsgAssumption

(* The initial states satisfy the invariant. *)
LEMMA InitIInv == Init => IInv
  BY DEF Init, QueueInit, StoreInit, ApiInit, WorkerInit, IInv, TypeOK,
     Envelopes, SentHaveBody, RequestShape, ResultShape, WorkIsIndexed,
     CopyBeforeDelete, SuccessIsIndexed, GoneIsAccounted, DeadLetterIsParked,
     RunHasMessage, RequestHasMessage, MessageHasRun, Places, RunStatus,
     ApiPcs, Pcs, Results, Verdicts

-------------------------------------------------------------------------------
(***************************************************************************)
(* Each step preserves IInv: one lemma per action, with one step for each  *)
(* conjunct that mentions a variable the action changes, and a last one    *)
(* for the conjuncts it cannot disturb.                                    *)
(***************************************************************************)

(* The queue hands message m to worker w. *)
LEMMA ReceiveStep ==
  ASSUME IInv, NEW w \in Workers, NEW m \in Msgs, Receive(w, m), UNCHANGED apiVars
  PROVE  IInv'
  <1> USE DEF Receive, ReceiveMessage, Goto, IInv, TypeOK, queueVars,
              storeVars, apiVars, workerVars, local
  <1>1. TypeOK'
    BY DEF Pcs, Places
  <1>2. Envelopes'
    BY DEF Envelopes, SentHaveBody
  <1>3. SentHaveBody'
    BY DEF SentHaveBody
  <1>4. ResultShape'
    BY DEF ResultShape
  <1>5. WorkIsIndexed'
    BY DEF WorkIsIndexed, JobOf
  <1>6. CopyBeforeDelete'
    BY DEF CopyBeforeDelete, Envelopes
  <1>7. GoneIsAccounted'
    BY DEF GoneIsAccounted
  <1>8. DeadLetterIsParked'
    BY DEF DeadLetterIsParked
  <1>9. /\ RequestShape' /\ SuccessIsIndexed' /\ RunHasMessage' /\
         RequestHasMessage' /\ MessageHasRun'
    BY DEF RequestShape, SuccessIsIndexed, RunHasMessage, RequestHasMessage,
           MessageHasRun
  <1> QED BY <1>1, <1>2, <1>3, <1>4, <1>5, <1>6, <1>7, <1>8, <1>9

(* Worker w reads the run of its message and decides whether to skip it. *)
LEMMA RegisterStep ==
  ASSUME IInv, NEW w \in Workers, Register(w), UNCHANGED apiVars
  PROVE  IInv'
  <1> USE DEF Register, Goto, JobOf, IInv, TypeOK, queueVars, storeVars,
              apiVars, workerVars, local
  <1>1. TypeOK'
    BY DEF Envelopes, Pcs
  <1>2. Envelopes'
    BY DEF Envelopes
  <1>3. ResultShape'
    BY DEF ResultShape
  <1>4. WorkIsIndexed'
    BY DEF WorkIsIndexed, SuccessIsIndexed, Envelopes
  <1>5. CopyBeforeDelete'
    BY DEF CopyBeforeDelete
  <1>6. /\ SentHaveBody' /\ RequestShape' /\ SuccessIsIndexed' /\
         GoneIsAccounted' /\ DeadLetterIsParked' /\ RunHasMessage' /\
         RequestHasMessage' /\ MessageHasRun'
    BY DEF SentHaveBody, RequestShape, SuccessIsIndexed, GoneIsAccounted,
           DeadLetterIsParked, RunHasMessage, RequestHasMessage, MessageHasRun
  <1> QED BY <1>1, <1>2, <1>3, <1>4, <1>5, <1>6

(* Worker w acknowledges a message whose run has succeeded. *)
LEMMA SkipStep ==
  ASSUME IInv, NEW w \in Workers, Skip(w), UNCHANGED apiVars
  PROVE  IInv'
  <1> USE DEF Skip, DeleteMessage, Rest, Goto, Live, IInv, TypeOK, queueVars,
              storeVars, apiVars, workerVars, local
  <1>1. TypeOK'
    BY DEF Envelopes, Pcs, Places, Results
  <1>2. Envelopes'
    BY DEF Envelopes
  <1>3. SentHaveBody'
    BY DEF SentHaveBody, Envelopes
  <1>4. ResultShape'
    BY DEF ResultShape
  <1>5. WorkIsIndexed'
    BY DEF WorkIsIndexed, JobOf
  <1>6. CopyBeforeDelete'
    BY DEF CopyBeforeDelete
  <1>7. GoneIsAccounted'
    BY DEF GoneIsAccounted, WorkIsIndexed, Envelopes, JobOf
  <1>8. /\ RequestShape' /\ SuccessIsIndexed' /\ DeadLetterIsParked' /\
         RunHasMessage' /\ RequestHasMessage' /\ MessageHasRun'
    BY DEF RequestShape, SuccessIsIndexed, DeadLetterIsParked, RunHasMessage,
           RequestHasMessage, MessageHasRun
  <1> QED BY <1>1, <1>2, <1>3, <1>4, <1>5, <1>6, <1>7, <1>8

(* Worker w records the message id. *)
LEMMA StampStep ==
  ASSUME IInv, NEW w \in Workers, Stamp(w), UNCHANGED apiVars
  PROVE  IInv'
  <1> USE DEF Stamp, StampMessageId, Goto, JobOf, IInv, TypeOK, queueVars,
              storeVars, apiVars, workerVars, local
  <1>1. TypeOK'
    BY DEF Envelopes, Pcs, Results
  <1>2. Envelopes'
    BY DEF Envelopes
  <1>3. ResultShape'
    BY DEF ResultShape
  <1>4. WorkIsIndexed'
    BY DEF WorkIsIndexed
  <1>5. CopyBeforeDelete'
    BY DEF CopyBeforeDelete
  <1>6. RunHasMessage'
    BY DEF RunHasMessage, Envelopes
  <1>7. /\ SentHaveBody' /\ RequestShape' /\ SuccessIsIndexed' /\
         GoneIsAccounted' /\ DeadLetterIsParked' /\ RequestHasMessage' /\
         MessageHasRun'
    BY DEF SentHaveBody, RequestShape, SuccessIsIndexed, GoneIsAccounted,
           DeadLetterIsParked, RequestHasMessage, MessageHasRun
  <1> QED BY <1>1, <1>2, <1>3, <1>4, <1>5, <1>6, <1>7

(* Worker w writes the run row. *)
LEMMA MarkStep ==
  ASSUME IInv, NEW w \in Workers, Mark(w), UNCHANGED apiVars
  PROVE  IInv'
  <1> USE DEF Mark, SetRunStatus, Goto, JobOf, IInv, TypeOK, queueVars,
              storeVars, apiVars, workerVars, local
  <1>1. TypeOK'
    BY DEF Envelopes, ResultShape, Pcs, RunStatus, Results
  <1>2. Envelopes'
    BY DEF Envelopes
  <1>3. RequestShape'
    BY DEF RequestShape, ResultShape, Results
  <1>4. ResultShape'
    BY DEF ResultShape
  <1>5. WorkIsIndexed'
    BY DEF WorkIsIndexed
  <1>6. CopyBeforeDelete'
    BY DEF CopyBeforeDelete
  <1>7. SuccessIsIndexed'
    BY DEF SuccessIsIndexed, WorkIsIndexed, Envelopes
  <1>8. DeadLetterIsParked'
    BY DEF DeadLetterIsParked, CopyBeforeDelete, Envelopes
  <1>9. RunHasMessage'
    BY DEF RunHasMessage, Envelopes
  <1>10. MessageHasRun'
    BY DEF MessageHasRun, ResultShape, Results
  <1>11. /\ SentHaveBody' /\ GoneIsAccounted' /\ RequestHasMessage'
    BY DEF SentHaveBody, GoneIsAccounted, RequestHasMessage
  <1> QED BY <1>1, <1>2, <1>3, <1>4, <1>5, <1>6, <1>7, <1>8, <1>9, <1>10, <1>11

(* Worker w writes the row of the document. *)
LEMMA MarkDocStep ==
  ASSUME IInv, NEW w \in Workers, MarkDoc(w), UNCHANGED apiVars
  PROVE  IInv'
  <1> USE DEF MarkDoc, SetDocStatus, Rest, FirstStep, Goto, JobOf, IInv,
              TypeOK, queueVars, storeVars, apiVars, workerVars, local
  <1>1. TypeOK'
    <2>1. docStatus' \in [Docs -> RunStatus]
      BY DEF Envelopes, ResultShape, Results, RunStatus
    <2>2. pc' \in [Workers -> Pcs]
      BY DEF Pcs
    <2>3. /\ msg' \in [Workers -> Msgs \cup {NoMsg}]
          /\ receipt' \in [Workers -> 0..MaxReceiveCount]
          /\ handle' \in [Workers -> Handles \cup {NoHandle}]
      OBVIOUS
    <2>4. result' \in [Workers -> Results] /\ inTry' \in [Workers -> BOOLEAN]
      BY DEF Results
    <2> QED BY <2>1, <2>2, <2>3, <2>4
  <1>2. Envelopes'
    BY DEF Envelopes
  <1>3. ResultShape'
    BY DEF ResultShape
  <1>4. WorkIsIndexed'
    BY DEF WorkIsIndexed
  <1>5. CopyBeforeDelete'
    BY DEF CopyBeforeDelete
  <1>6. SuccessIsIndexed'
    BY DEF SuccessIsIndexed, WorkIsIndexed, Envelopes
  <1>7. /\ SentHaveBody' /\ RequestShape' /\ GoneIsAccounted' /\
         DeadLetterIsParked' /\ RunHasMessage' /\ RequestHasMessage' /\
         MessageHasRun'
    BY DEF SentHaveBody, RequestShape, GoneIsAccounted, DeadLetterIsParked,
           RunHasMessage, RequestHasMessage, MessageHasRun
  <1> QED BY <1>1, <1>2, <1>3, <1>4, <1>5, <1>6, <1>7

(* Worker w parses and indexes structured content. *)
LEMMA ExecuteStep ==
  ASSUME IInv, NEW w \in Workers, Execute(w), UNCHANGED apiVars
  PROVE  IInv'
  <1> USE DEF Execute, Persist, Outcome, Goto, JobOf, IInv, TypeOK, queueVars,
              storeVars, apiVars, workerVars, local
  <1>1. TypeOK'
    BY DEF Envelopes, Pcs, Results
  <1>2. Envelopes'
    BY DEF Envelopes
  <1>3. ResultShape'
    BY DEF ResultShape
  <1>4. WorkIsIndexed'
    BY DEF WorkIsIndexed, Envelopes
  <1>5. CopyBeforeDelete'
    BY DEF CopyBeforeDelete
  <1>6. SuccessIsIndexed'
    BY DEF SuccessIsIndexed
  <1>7. GoneIsAccounted'
    BY DEF GoneIsAccounted
  <1>8. /\ SentHaveBody' /\ RequestShape' /\ DeadLetterIsParked' /\
         RunHasMessage' /\ RequestHasMessage' /\ MessageHasRun'
    BY DEF SentHaveBody, RequestShape, DeadLetterIsParked, RunHasMessage,
           RequestHasMessage, MessageHasRun
  <1> QED BY <1>1, <1>2, <1>3, <1>4, <1>5, <1>6, <1>7, <1>8

(* Worker w submits an analysis. *)
LEMMA SubmitAnalysisStep ==
  ASSUME IInv, NEW w \in Workers, NEW h \in Handles, SubmitAnalysis(w, h), UNCHANGED
         apiVars
  PROVE  IInv'
  <1> USE DEF SubmitAnalysis, Goto, IInv, TypeOK, queueVars, storeVars,
              apiVars, workerVars, local
  <1>1. TypeOK'
    BY DEF Pcs, Verdicts
  <1>2. Envelopes'
    BY DEF Envelopes
  <1>3. ResultShape'
    BY DEF ResultShape
  <1>4. WorkIsIndexed'
    BY DEF WorkIsIndexed, JobOf
  <1>5. CopyBeforeDelete'
    BY DEF CopyBeforeDelete
  <1>6. /\ SentHaveBody' /\ RequestShape' /\ SuccessIsIndexed' /\
         GoneIsAccounted' /\ DeadLetterIsParked' /\ RunHasMessage' /\
         RequestHasMessage' /\ MessageHasRun'
    BY DEF SentHaveBody, RequestShape, SuccessIsIndexed, GoneIsAccounted,
           DeadLetterIsParked, RunHasMessage, RequestHasMessage, MessageHasRun
  <1> QED BY <1>1, <1>2, <1>3, <1>4, <1>5, <1>6

(* Worker w polls its analysis and persists a finished one. *)
LEMMA PollStep ==
  ASSUME IInv, NEW w \in Workers, Poll(w), UNCHANGED apiVars
  PROVE  IInv'
  <1> USE DEF Poll, Persist, Outcome, Goto, JobOf, IInv, TypeOK, queueVars,
              storeVars, apiVars, workerVars, local
  <1>1. TypeOK'
    BY DEF Envelopes, Pcs, Results
  <1>2. Envelopes'
    BY DEF Envelopes
  <1>3. ResultShape'
    BY DEF ResultShape
  <1>4. WorkIsIndexed'
    BY DEF WorkIsIndexed, Envelopes
  <1>5. CopyBeforeDelete'
    BY DEF CopyBeforeDelete
  <1>6. SuccessIsIndexed'
    BY DEF SuccessIsIndexed
  <1>7. GoneIsAccounted'
    BY DEF GoneIsAccounted
  <1>8. /\ SentHaveBody' /\ RequestShape' /\ DeadLetterIsParked' /\
         RunHasMessage' /\ RequestHasMessage' /\ MessageHasRun'
    BY DEF SentHaveBody, RequestShape, DeadLetterIsParked, RunHasMessage,
           RequestHasMessage, MessageHasRun
  <1> QED BY <1>1, <1>2, <1>3, <1>4, <1>5, <1>6, <1>7, <1>8

(* The analyzer raises; worker w falls back to page images or fails. *)
LEMMA AnalyzerRaisesStep ==
  ASSUME IInv, NEW w \in Workers, AnalyzerRaises(w), UNCHANGED apiVars
  PROVE  IInv'
  <1> USE DEF AnalyzerRaises, Persist, Outcome, Goto, JobOf, IInv, TypeOK,
              queueVars, storeVars, apiVars, workerVars, local
  <1>1. TypeOK'
    BY DEF Envelopes, Pcs, Results
  <1>2. Envelopes'
    BY DEF Envelopes
  <1>3. ResultShape'
    BY DEF ResultShape
  <1>4. WorkIsIndexed'
    BY DEF WorkIsIndexed, Envelopes
  <1>5. CopyBeforeDelete'
    BY DEF CopyBeforeDelete
  <1>6. SuccessIsIndexed'
    BY DEF SuccessIsIndexed
  <1>7. GoneIsAccounted'
    BY DEF GoneIsAccounted
  <1>8. /\ SentHaveBody' /\ RequestShape' /\ DeadLetterIsParked' /\
         RunHasMessage' /\ RequestHasMessage' /\ MessageHasRun'
    BY DEF SentHaveBody, RequestShape, DeadLetterIsParked, RunHasMessage,
           RequestHasMessage, MessageHasRun
  <1> QED BY <1>1, <1>2, <1>3, <1>4, <1>5, <1>6, <1>7, <1>8

(* Worker w records the job token of the analysis. *)
LEMMA RecordAsyncStep ==
  ASSUME IInv, NEW w \in Workers, RecordAsync(w), UNCHANGED apiVars
  PROVE  IInv'
  <1> USE DEF RecordAsync, MarkAsyncJob, Goto, JobOf, IInv, TypeOK, queueVars,
              storeVars, apiVars, workerVars, local
  <1>1. TypeOK'
    BY DEF Envelopes, Pcs
  <1>2. Envelopes'
    BY DEF Envelopes
  <1>3. ResultShape'
    BY DEF ResultShape
  <1>4. WorkIsIndexed'
    BY DEF WorkIsIndexed
  <1>5. CopyBeforeDelete'
    BY DEF CopyBeforeDelete, ResultShape
  <1>6. /\ SentHaveBody' /\ RequestShape' /\ SuccessIsIndexed' /\
         GoneIsAccounted' /\ DeadLetterIsParked' /\ RunHasMessage' /\
         RequestHasMessage' /\ MessageHasRun'
    BY DEF SentHaveBody, RequestShape, SuccessIsIndexed, GoneIsAccounted,
           DeadLetterIsParked, RunHasMessage, RequestHasMessage, MessageHasRun
  <1> QED BY <1>1, <1>2, <1>3, <1>4, <1>5, <1>6

(* Worker w acknowledges a message it has processed. *)
LEMMA AckStep ==
  ASSUME IInv, NEW w \in Workers, Ack(w), UNCHANGED apiVars
  PROVE  IInv'
  <1> USE DEF Ack, DeleteMessage, Rest, Goto, Live, IInv, TypeOK, queueVars,
              storeVars, apiVars, workerVars, local
  <1>1. TypeOK'
    BY DEF Envelopes, Pcs, Places, Results
  <1>2. Envelopes'
    BY DEF Envelopes
  <1>3. SentHaveBody'
    BY DEF SentHaveBody, Envelopes
  <1>4. ResultShape'
    BY DEF ResultShape
  <1>5. WorkIsIndexed'
    BY DEF WorkIsIndexed, JobOf
  <1>6. CopyBeforeDelete'
    BY DEF CopyBeforeDelete
  <1>7. GoneIsAccounted'
    BY DEF GoneIsAccounted, WorkIsIndexed, Envelopes, JobOf
  <1>8. /\ RequestShape' /\ SuccessIsIndexed' /\ DeadLetterIsParked' /\
         RunHasMessage' /\ RequestHasMessage' /\ MessageHasRun'
    BY DEF RequestShape, SuccessIsIndexed, DeadLetterIsParked, RunHasMessage,
           RequestHasMessage, MessageHasRun
  <1> QED BY <1>1, <1>2, <1>3, <1>4, <1>5, <1>6, <1>7, <1>8

(* Worker w returns a message whose analysis is pending. *)
LEMMA DeferStep ==
  ASSUME IInv, NEW w \in Workers, Defer(w), UNCHANGED apiVars
  PROVE  IInv'
  <1> USE DEF Defer, MakeVisible, HandleAccepted, Rest, Goto, IInv, TypeOK,
              queueVars, storeVars, apiVars, workerVars, local
  <1>1. TypeOK'
    BY DEF Envelopes, Pcs, Places, Results
  <1>2. Envelopes'
    BY DEF Envelopes
  <1>3. SentHaveBody'
    BY DEF SentHaveBody, Envelopes
  <1>4. ResultShape'
    BY DEF ResultShape
  <1>5. WorkIsIndexed'
    BY DEF WorkIsIndexed, JobOf
  <1>6. CopyBeforeDelete'
    BY DEF CopyBeforeDelete
  <1>7. GoneIsAccounted'
    BY DEF GoneIsAccounted
  <1>8. /\ RequestShape' /\ SuccessIsIndexed' /\ DeadLetterIsParked' /\
         RunHasMessage' /\ RequestHasMessage' /\ MessageHasRun'
    BY DEF RequestShape, SuccessIsIndexed, DeadLetterIsParked, RunHasMessage,
           RequestHasMessage, MessageHasRun
  <1> QED BY <1>1, <1>2, <1>3, <1>4, <1>5, <1>6, <1>7, <1>8

(* Worker w copies a message to the dead-letter queue. *)
LEMMA FailCopyStep ==
  ASSUME IInv, NEW w \in Workers, FailCopy(w), UNCHANGED apiVars
  PROVE  IInv'
  <1> USE DEF FailCopy, CopyToDlq, Goto, IInv, TypeOK, queueVars, storeVars,
              apiVars, workerVars, local
  <1>1. TypeOK'
    BY DEF Envelopes, Pcs
  <1>2. Envelopes'
    BY DEF Envelopes
  <1>3. SentHaveBody'
    BY DEF SentHaveBody, Envelopes
  <1>4. ResultShape'
    BY DEF ResultShape
  <1>5. WorkIsIndexed'
    BY DEF WorkIsIndexed, JobOf
  <1>6. CopyBeforeDelete'
    BY DEF CopyBeforeDelete, Envelopes
  <1>7. GoneIsAccounted'
    BY DEF GoneIsAccounted
  <1>8. DeadLetterIsParked'
    BY DEF DeadLetterIsParked
  <1>9. /\ RequestShape' /\ SuccessIsIndexed' /\ RunHasMessage' /\
         RequestHasMessage' /\ MessageHasRun'
    BY DEF RequestShape, SuccessIsIndexed, RunHasMessage, RequestHasMessage,
           MessageHasRun
  <1> QED BY <1>1, <1>2, <1>3, <1>4, <1>5, <1>6, <1>7, <1>8, <1>9

(* Worker w deletes the message it has copied. *)
LEMMA FailDeleteStep ==
  ASSUME IInv, NEW w \in Workers, FailDelete(w), UNCHANGED apiVars
  PROVE  IInv'
  <1> USE DEF FailDelete, DeleteMessage, Project, Goto, Live, IInv, TypeOK,
              queueVars, storeVars, apiVars, workerVars, local
  <1>1. TypeOK'
    BY DEF Envelopes, Pcs, Places, Results
  <1>2. Envelopes'
    BY DEF Envelopes
  <1>3. SentHaveBody'
    BY DEF SentHaveBody, Envelopes
  <1>4. ResultShape'
    BY DEF ResultShape
  <1>5. WorkIsIndexed'
    BY DEF WorkIsIndexed, JobOf
  <1>6. CopyBeforeDelete'
    BY DEF CopyBeforeDelete
  <1>7. GoneIsAccounted'
    BY DEF GoneIsAccounted, CopyBeforeDelete
  <1>8. /\ RequestShape' /\ SuccessIsIndexed' /\ DeadLetterIsParked' /\
         RunHasMessage' /\ RequestHasMessage' /\ MessageHasRun'
    BY DEF RequestShape, SuccessIsIndexed, DeadLetterIsParked, RunHasMessage,
           RequestHasMessage, MessageHasRun
  <1> QED BY <1>1, <1>2, <1>3, <1>4, <1>5, <1>6, <1>7, <1>8

(* Worker w returns a message that failed. *)
LEMMA FailReleaseStep ==
  ASSUME IInv, NEW w \in Workers, FailRelease(w), UNCHANGED apiVars
  PROVE  IInv'
  <1> USE DEF FailRelease, MakeVisible, HandleAccepted, Project, LastReceive,
              Goto, IInv, TypeOK, queueVars, storeVars, apiVars, workerVars,
              local
  <1>1. TypeOK'
    BY DEF Envelopes, Pcs, Places, Results
  <1>2. Envelopes'
    BY DEF Envelopes
  <1>3. SentHaveBody'
    BY DEF SentHaveBody, Envelopes
  <1>4. ResultShape'
    BY DEF ResultShape
  <1>5. WorkIsIndexed'
    BY DEF WorkIsIndexed, JobOf
  <1>6. CopyBeforeDelete'
    BY DEF CopyBeforeDelete, Envelopes
  <1>7. GoneIsAccounted'
    BY DEF GoneIsAccounted
  <1>8. /\ RequestShape' /\ SuccessIsIndexed' /\ DeadLetterIsParked' /\
         RunHasMessage' /\ RequestHasMessage' /\ MessageHasRun'
    BY DEF RequestShape, SuccessIsIndexed, DeadLetterIsParked, RunHasMessage,
           RequestHasMessage, MessageHasRun
  <1> QED BY <1>1, <1>2, <1>3, <1>4, <1>5, <1>6, <1>7, <1>8

(* A statement of the try block raises. *)
LEMMA StepRaisesStep ==
  ASSUME IInv, NEW w \in Workers, StepRaises(w), UNCHANGED apiVars
  PROVE  IInv'
  <1> USE DEF StepRaises, Goto, IInv, TypeOK, queueVars, storeVars, apiVars,
              workerVars, local
  <1>1. TypeOK'
    BY DEF Pcs, Results
  <1>2. Envelopes'
    BY DEF Envelopes
  <1>3. ResultShape'
    BY DEF ResultShape
  <1>4. WorkIsIndexed'
    BY DEF WorkIsIndexed, JobOf
  <1>5. CopyBeforeDelete'
    BY DEF CopyBeforeDelete
  <1>6. /\ SentHaveBody' /\ RequestShape' /\ SuccessIsIndexed' /\
         GoneIsAccounted' /\ DeadLetterIsParked' /\ RunHasMessage' /\
         RequestHasMessage' /\ MessageHasRun'
    BY DEF SentHaveBody, RequestShape, SuccessIsIndexed, GoneIsAccounted,
           DeadLetterIsParked, RunHasMessage, RequestHasMessage, MessageHasRun
  <1> QED BY <1>1, <1>2, <1>3, <1>4, <1>5, <1>6

(* Worker w ends in the middle of a message. *)
LEMMA DiesStep ==
  ASSUME IInv, NEW w \in Workers, Dies(w), UNCHANGED apiVars
  PROVE  IInv'
  <1> USE DEF Dies, Rest, Goto, IInv, TypeOK, queueVars, storeVars, apiVars,
              workerVars, local
  <1>1. TypeOK'
    BY DEF Pcs, Results
  <1>2. Envelopes'
    BY DEF Envelopes
  <1>3. ResultShape'
    BY DEF ResultShape
  <1>4. WorkIsIndexed'
    BY DEF WorkIsIndexed, JobOf
  <1>5. CopyBeforeDelete'
    BY DEF CopyBeforeDelete
  <1>6. /\ SentHaveBody' /\ RequestShape' /\ SuccessIsIndexed' /\
         GoneIsAccounted' /\ DeadLetterIsParked' /\ RunHasMessage' /\
         RequestHasMessage' /\ MessageHasRun'
    BY DEF SentHaveBody, RequestShape, SuccessIsIndexed, GoneIsAccounted,
           DeadLetterIsParked, RunHasMessage, RequestHasMessage, MessageHasRun
  <1> QED BY <1>1, <1>2, <1>3, <1>4, <1>5, <1>6

(* The analyzer finishes. *)
LEMMA AnalysisEndsStep ==
  ASSUME IInv, NEW h \in Handles, AnalysisEnds(h), UNCHANGED apiVars
  PROVE  IInv'
  <1> USE DEF AnalysisEnds, IInv, TypeOK, queueVars, storeVars, apiVars,
              workerVars, local
  <1>1. TypeOK'
    BY DEF Verdicts
  <1>2. /\ Envelopes' /\ SentHaveBody' /\ RequestShape' /\ ResultShape' /\
         WorkIsIndexed' /\ CopyBeforeDelete' /\ SuccessIsIndexed' /\
         GoneIsAccounted' /\ DeadLetterIsParked' /\ RunHasMessage' /\
         RequestHasMessage' /\ MessageHasRun'
    BY DEF Envelopes, SentHaveBody, RequestShape, ResultShape, WorkIsIndexed,
           CopyBeforeDelete, SuccessIsIndexed, GoneIsAccounted,
           DeadLetterIsParked, RunHasMessage, RequestHasMessage, MessageHasRun,
           JobOf
  <1> QED BY <1>1, <1>2

(* A message in flight becomes visible again. *)
LEMMA VisibilityExpiresStep ==
  ASSUME IInv, NEW m \in Msgs, VisibilityExpires(m), UNCHANGED <<storeVars, apiVars,
         workerVars>>
  PROVE  IInv'
  <1> USE DEF VisibilityExpires, IInv, TypeOK, queueVars, storeVars, apiVars,
              workerVars, local
  <1>1. TypeOK'
    BY DEF Places
  <1>2. SentHaveBody'
    BY DEF SentHaveBody
  <1>3. GoneIsAccounted'
    BY DEF GoneIsAccounted
  <1>4. /\ Envelopes' /\ RequestShape' /\ ResultShape' /\ WorkIsIndexed' /\
         CopyBeforeDelete' /\ SuccessIsIndexed' /\ DeadLetterIsParked' /\
         RunHasMessage' /\ RequestHasMessage' /\ MessageHasRun'
    BY DEF Envelopes, RequestShape, ResultShape, WorkIsIndexed,
           CopyBeforeDelete, SuccessIsIndexed, DeadLetterIsParked,
           RunHasMessage, RequestHasMessage, MessageHasRun, JobOf
  <1> QED BY <1>1, <1>2, <1>3, <1>4

(* The redrive policy moves a message to the dead-letter queue. *)
LEMMA RedriveStep ==
  ASSUME IInv, NEW m \in Msgs, Redrive(m), UNCHANGED <<storeVars, apiVars,
         workerVars>>
  PROVE  IInv'
  <1> USE DEF Redrive, IInv, TypeOK, queueVars, storeVars, apiVars, workerVars,
              local
  <1>1. TypeOK'
    BY DEF Places
  <1>2. SentHaveBody'
    BY DEF SentHaveBody
  <1>3. CopyBeforeDelete'
    BY DEF CopyBeforeDelete
  <1>4. GoneIsAccounted'
    BY DEF GoneIsAccounted
  <1>5. DeadLetterIsParked'
    BY DEF DeadLetterIsParked
  <1>6. /\ Envelopes' /\ RequestShape' /\ ResultShape' /\ WorkIsIndexed' /\
         SuccessIsIndexed' /\ RunHasMessage' /\ RequestHasMessage' /\
         MessageHasRun'
    BY DEF Envelopes, RequestShape, ResultShape, WorkIsIndexed,
           SuccessIsIndexed, RunHasMessage, RequestHasMessage, MessageHasRun,
           JobOf
  <1> QED BY <1>1, <1>2, <1>3, <1>4, <1>5, <1>6

(* A request arrives. *)
LEMMA SubmitStep ==
  ASSUME IInv, NEW j \in Jobs, Submit(j), UNCHANGED workerVars
  PROVE  IInv'
  <1> USE DEF Submit, InsertRun, IInv, TypeOK, queueVars, storeVars, apiVars,
              workerVars, local
  <1>1. TypeOK'
    BY DEF ApiPcs, RunStatus
  <1>2. RequestShape'
    BY DEF RequestShape
  <1>3. SuccessIsIndexed'
    BY DEF SuccessIsIndexed
  <1>4. DeadLetterIsParked'
    BY DEF DeadLetterIsParked
  <1>5. RunHasMessage'
    BY DEF RunHasMessage
  <1>6. RequestHasMessage'
    BY DEF RequestHasMessage, RunHasMessage
  <1>7. MessageHasRun'
    BY DEF MessageHasRun
  <1>8. /\ Envelopes' /\ SentHaveBody' /\ ResultShape' /\ WorkIsIndexed' /\
         CopyBeforeDelete' /\ GoneIsAccounted'
    BY DEF Envelopes, SentHaveBody, ResultShape, WorkIsIndexed,
           CopyBeforeDelete, GoneIsAccounted, JobOf
  <1> QED BY <1>1, <1>2, <1>3, <1>4, <1>5, <1>6, <1>7, <1>8

(* The request inserts the row of the document. *)
LEMMA InsertedStateStep ==
  ASSUME IInv, InsertedState, UNCHANGED workerVars
  PROVE  IInv'
  <1> USE DEF InsertedState, InsertState, ApiGoto, IInv, TypeOK, queueVars,
              storeVars, apiVars, workerVars, local
  <1>1. TypeOK'
    BY DEF ApiPcs, RunStatus, RequestShape
  <1>2. RequestShape'
    BY DEF RequestShape
  <1>3. SuccessIsIndexed'
    BY DEF SuccessIsIndexed
  <1>4. RequestHasMessage'
    BY DEF RequestHasMessage
  <1>5. /\ Envelopes' /\ SentHaveBody' /\ ResultShape' /\ WorkIsIndexed' /\
         CopyBeforeDelete' /\ GoneIsAccounted' /\ DeadLetterIsParked' /\
         RunHasMessage' /\ MessageHasRun'
    BY DEF Envelopes, SentHaveBody, ResultShape, WorkIsIndexed,
           CopyBeforeDelete, GoneIsAccounted, DeadLetterIsParked,
           RunHasMessage, MessageHasRun, JobOf
  <1> QED BY <1>1, <1>2, <1>3, <1>4, <1>5

(* The request sets the run row to queued. *)
LEMMA RequeueStep ==
  ASSUME IInv, Requeue, UNCHANGED workerVars
  PROVE  IInv'
  <1> USE DEF Requeue, SetRunStatus, ApiGoto, IInv, TypeOK, queueVars,
              storeVars, apiVars, workerVars, local
  <1>1. TypeOK'
    BY DEF ApiPcs, RunStatus
  <1>2. RequestShape'
    BY DEF RequestShape
  <1>3. SuccessIsIndexed'
    BY DEF SuccessIsIndexed
  <1>4. DeadLetterIsParked'
    BY DEF DeadLetterIsParked
  <1>5. RunHasMessage'
    BY DEF RunHasMessage, RequestHasMessage
  <1>6. RequestHasMessage'
    BY DEF RequestHasMessage
  <1>7. MessageHasRun'
    BY DEF MessageHasRun
  <1>8. /\ Envelopes' /\ SentHaveBody' /\ ResultShape' /\ WorkIsIndexed' /\
         CopyBeforeDelete' /\ GoneIsAccounted'
    BY DEF Envelopes, SentHaveBody, ResultShape, WorkIsIndexed,
           CopyBeforeDelete, GoneIsAccounted, JobOf
  <1> QED BY <1>1, <1>2, <1>3, <1>4, <1>5, <1>6, <1>7, <1>8

(* The request sets the row of the document to queued. *)
LEMMA RequeueDocStep ==
  ASSUME IInv, RequeueDoc, UNCHANGED workerVars
  PROVE  IInv'
  <1> USE DEF RequeueDoc, SetDocStatus, ApiGoto, IInv, TypeOK, queueVars,
              storeVars, apiVars, workerVars, local
  <1>1. TypeOK'
    BY DEF ApiPcs, RunStatus, RequestShape
  <1>2. RequestShape'
    BY DEF RequestShape
  <1>3. SuccessIsIndexed'
    BY DEF SuccessIsIndexed
  <1>4. RequestHasMessage'
    BY DEF RequestHasMessage
  <1>5. /\ Envelopes' /\ SentHaveBody' /\ ResultShape' /\ WorkIsIndexed' /\
         CopyBeforeDelete' /\ GoneIsAccounted' /\ DeadLetterIsParked' /\
         RunHasMessage' /\ MessageHasRun'
    BY DEF Envelopes, SentHaveBody, ResultShape, WorkIsIndexed,
           CopyBeforeDelete, GoneIsAccounted, DeadLetterIsParked,
           RunHasMessage, MessageHasRun, JobOf
  <1> QED BY <1>1, <1>2, <1>3, <1>4, <1>5

(* The request clears the message id. *)
LEMMA RequeueClearIdStep ==
  ASSUME IInv, RequeueClearId, UNCHANGED workerVars
  PROVE  IInv'
  <1> USE DEF RequeueClearId, ClearMessageId, ApiGoto, IInv, TypeOK, queueVars,
              storeVars, apiVars, workerVars, local
  <1>1. TypeOK'
    BY DEF ApiPcs
  <1>2. RequestShape'
    BY DEF RequestShape
  <1>3. RunHasMessage'
    BY DEF RunHasMessage
  <1>4. RequestHasMessage'
    BY DEF RequestHasMessage
  <1>5. /\ Envelopes' /\ SentHaveBody' /\ ResultShape' /\ WorkIsIndexed' /\
         CopyBeforeDelete' /\ SuccessIsIndexed' /\ GoneIsAccounted' /\
         DeadLetterIsParked' /\ MessageHasRun'
    BY DEF Envelopes, SentHaveBody, ResultShape, WorkIsIndexed,
           CopyBeforeDelete, SuccessIsIndexed, GoneIsAccounted,
           DeadLetterIsParked, MessageHasRun, JobOf
  <1> QED BY <1>1, <1>2, <1>3, <1>4, <1>5

(* The request sends a message. *)
LEMMA EnqueueStep ==
  ASSUME IInv, NEW m \in Msgs, Enqueue(m), UNCHANGED workerVars
  PROVE  IInv'
  <1> USE DEF Enqueue, EnqueueMessage, ApiGoto, IInv, TypeOK, queueVars,
              storeVars, apiVars, workerVars, local
  <1>1. TypeOK'
    BY DEF ApiPcs, Places, RequestShape
  <1>2. Envelopes'
    BY DEF Envelopes, SentHaveBody
  <1>3. SentHaveBody'
    BY DEF SentHaveBody, RequestShape
  <1>4. RequestShape'
    BY DEF RequestShape
  <1>5. WorkIsIndexed'
    BY DEF WorkIsIndexed, Envelopes, SentHaveBody, JobOf
  <1>6. GoneIsAccounted'
    BY DEF GoneIsAccounted, SentHaveBody
  <1>7. DeadLetterIsParked'
    BY DEF DeadLetterIsParked, SentHaveBody
  <1>8. RunHasMessage'
    BY DEF RunHasMessage, SentHaveBody
  <1>9. RequestHasMessage'
    BY DEF RequestHasMessage
  <1>10. MessageHasRun'
    BY DEF MessageHasRun, RequestShape
  <1>11. /\ ResultShape' /\ CopyBeforeDelete' /\ SuccessIsIndexed'
    BY DEF ResultShape, CopyBeforeDelete, SuccessIsIndexed
  <1> QED BY <1>1, <1>2, <1>3, <1>4, <1>5, <1>6, <1>7, <1>8, <1>9, <1>10, <1>11

(* The request records the id of the message it sent. *)
LEMMA StampEnqueuedStep ==
  ASSUME IInv, StampEnqueued, UNCHANGED workerVars
  PROVE  IInv'
  <1> USE DEF StampEnqueued, StampMessageId, ApiReturn, IInv, TypeOK,
              queueVars, storeVars, apiVars, workerVars, local
  <1>1. TypeOK'
    BY DEF ApiPcs, RequestShape
  <1>2. RequestShape'
    BY DEF RequestShape
  <1>3. RunHasMessage'
    BY DEF RunHasMessage, RequestHasMessage
  <1>4. RequestHasMessage'
    BY DEF RequestHasMessage
  <1>5. /\ Envelopes' /\ SentHaveBody' /\ ResultShape' /\ WorkIsIndexed' /\
         CopyBeforeDelete' /\ SuccessIsIndexed' /\ GoneIsAccounted' /\
         DeadLetterIsParked' /\ MessageHasRun'
    BY DEF Envelopes, SentHaveBody, ResultShape, WorkIsIndexed,
           CopyBeforeDelete, SuccessIsIndexed, GoneIsAccounted,
           DeadLetterIsParked, MessageHasRun, JobOf
  <1> QED BY <1>1, <1>2, <1>3, <1>4, <1>5

(* The request is aborted. *)
LEMMA ApiAbortsStep ==
  ASSUME IInv, ApiAborts, UNCHANGED workerVars
  PROVE  IInv'
  <1> USE DEF ApiAborts, ApiReturn, IInv, TypeOK, queueVars, storeVars,
              apiVars, workerVars, local
  <1>1. TypeOK'
    BY DEF ApiPcs
  <1>2. RequestShape'
    BY DEF RequestShape
  <1>3. RequestHasMessage'
    BY DEF RequestHasMessage
  <1>4. /\ Envelopes' /\ SentHaveBody' /\ ResultShape' /\ WorkIsIndexed' /\
         CopyBeforeDelete' /\ SuccessIsIndexed' /\ GoneIsAccounted' /\
         DeadLetterIsParked' /\ RunHasMessage' /\ MessageHasRun'
    BY DEF Envelopes, SentHaveBody, ResultShape, WorkIsIndexed,
           CopyBeforeDelete, SuccessIsIndexed, GoneIsAccounted,
           DeadLetterIsParked, RunHasMessage, MessageHasRun, JobOf
  <1> QED BY <1>1, <1>2, <1>3, <1>4

(* Nothing changes. *)
LEMMA StutterStep ==
  ASSUME IInv, UNCHANGED vars
  PROVE  IInv'
  <1> USE DEF vars, IInv, TypeOK, queueVars, storeVars, apiVars, workerVars,
              local
  <1>1. TypeOK'
    OBVIOUS
  <1>2. /\ Envelopes' /\ SentHaveBody' /\ RequestShape' /\ ResultShape' /\
         WorkIsIndexed' /\ CopyBeforeDelete' /\ SuccessIsIndexed' /\
         GoneIsAccounted' /\ DeadLetterIsParked' /\ RunHasMessage' /\
         RequestHasMessage' /\ MessageHasRun'
    BY DEF Envelopes, SentHaveBody, RequestShape, ResultShape, WorkIsIndexed,
           CopyBeforeDelete, SuccessIsIndexed, GoneIsAccounted,
           DeadLetterIsParked, RunHasMessage, RequestHasMessage, MessageHasRun,
           JobOf
  <1> QED BY <1>1, <1>2

-------------------------------------------------------------------------------
(* Every step of the specification preserves the invariant. *)
LEMMA NextIInv ==
  ASSUME IInv, [Next]_vars
  PROVE  IInv'
  <1>1. CASE QueueNext /\ UNCHANGED <<storeVars, apiVars, workerVars>>
    BY <1>1, VisibilityExpiresStep, RedriveStep DEF QueueNext
  <1>2. CASE ApiNext /\ UNCHANGED workerVars
    BY <1>2, SubmitStep, InsertedStateStep, RequeueStep, RequeueDocStep,
       RequeueClearIdStep, EnqueueStep, StampEnqueuedStep, ApiAbortsStep
       DEF ApiNext, ApiStep
  <1>3. CASE WorkerNext /\ UNCHANGED apiVars
    <2>1. ASSUME NEW w \in Workers, WorkerStep(w)
          PROVE  IInv'
      BY <1>3, <2>1, RegisterStep, SkipStep, StampStep, MarkStep, MarkDocStep,
         ExecuteStep, SubmitAnalysisStep, PollStep, AnalyzerRaisesStep,
         RecordAsyncStep, AckStep, DeferStep, FailCopyStep, FailDeleteStep,
         FailReleaseStep, StepRaisesStep, DiesStep
         DEF WorkerStep, ReleaseRefused
    <2> QED
      BY <1>3, <2>1, ReceiveStep, StepRaisesStep, DiesStep, AnalysisEndsStep
         DEF WorkerNext
  <1>4. CASE UNCHANGED vars
    BY <1>4, StutterStep
  <1> QED BY <1>1, <1>2, <1>3, <1>4 DEF Next

(* IInv holds in every reachable state, for every value of the constants. *)
THEOREM Invariance == Spec => []IInv
  BY InitIInv, NextIInv, PTL DEF Spec

(* The types of all variables of the queue, the store, the API and the     *)
(* workers; in particular no message is received more than MaxReceiveCount *)
(* times.                                                                  *)
THEOREM TypeCorrectness == Spec => []TypeOK
  <1>1. IInv => TypeOK
    BY DEF IInv
  <1> QED BY <1>1, Invariance, PTL

(* A run or a document shown as succeeded is indexed. *)
THEOREM SuccessIsReal == Spec => []SuccessIsIndexed
  <1>1. IInv => SuccessIsIndexed
    BY DEF IInv
  <1> QED BY <1>1, Invariance, PTL

(* A message leaves the queue only indexed or copied. *)
THEOREM GoneIsSafe == Spec => []GoneIsAccounted
  <1>1. IInv => GoneIsAccounted
    BY DEF IInv
  <1> QED BY <1>1, Invariance, PTL

(* A run shown as dead-lettered can be found by the operator. *)
THEOREM DeadLetterIsReal == Spec => []DeadLetterIsParked
  <1>1. IInv => DeadLetterIsParked
    BY DEF IInv
  <1> QED BY <1>1, Invariance, PTL

(* No registered run is lost: indexed, in the queue, in the dead-letter    *)
(* queue, or going to be sent by the next request for it.                  *)
THEOREM NothingIsLost == Spec => []NoOrphanRun
  <1>1. IInv => NoOrphanRun
    <2> SUFFICES ASSUME IInv, NEW j \in Jobs, status[j] # "absent", j \notin indexed,
                        NEW m \in Msgs, body[m] = j
                 PROVE  Live(m) \/ m \in dlq
      BY DEF IInv, RunHasMessage, NoOrphanRun
    <2>1. place[m] # "unsent"
      BY DEF IInv, SentHaveBody
    <2>2. CASE place[m] = "gone"
      BY <2>2 DEF IInv, GoneIsAccounted
    <2> QED BY <2>1, <2>2 DEF IInv, TypeOK, Places, Live
  <1> QED BY <1>1, Invariance, PTL

-------------------------------------------------------------------------------
(* The analysis a run recorded is polled, as long as no two workers have a *)
(* message of the same job: then nobody replaces the token between the     *)
(* read of the run and the step that looks at it.                          *)
OneAtATime ==
    \A v, w \in Workers :
        msg[v] # NoMsg /\ msg[w] # NoMsg /\ JobOf(v) = JobOf(w) => v = w

(* A worker on its way to the executor has the token of the row. *)
TokenIsCurrent ==
    \A w \in Workers :
        /\ pc[w] = "stamp" \/ (pc[w] \in {"mark", "markDoc"} /\ result[w] = "running")
               => handle[w] = asyncJob[JobOf(w)]
        /\ pc[w] = "submit" => asyncJob[JobOf(w)] = NoHandle

(* Only recording a result changes a token, and then no other worker is    *)
(* past the read of the run.                                               *)
LEMMA TokenStaysCurrent ==
  ASSUME IInv, OneAtATime, TokenIsCurrent, [Next]_vars
  PROVE  TokenIsCurrent'
  <1> USE DEF IInv, TypeOK, JobOf, queueVars, storeVars, apiVars, workerVars, local
  <1>b. \A w \in Workers : pc[w] # "idle" => msg[w] \in Msgs /\ place[msg[w]] # "unsent"
    BY DEF Envelopes, SentHaveBody
  <1>1. CASE UNCHANGED vars
    BY <1>1 DEF vars, TokenIsCurrent
  <1>2. CASE QueueNext /\ UNCHANGED <<storeVars, apiVars, workerVars>>
    BY <1>2 DEF QueueNext, VisibilityExpires, Redrive, TokenIsCurrent
  <1>3. CASE ApiNext /\ UNCHANGED workerVars
    <2>1. UNCHANGED asyncJob
      BY <1>3 DEF ApiNext, ApiStep, ApiAborts, Submit, InsertedState, Requeue, RequeueDoc,
         RequeueClearId, Enqueue, StampEnqueued, InsertRun, InsertState, SetRunStatus,
         SetDocStatus, ClearMessageId, StampMessageId
    <2>2. \A m \in Msgs : place[m] # "unsent" => body'[m] = body[m]
      BY <1>3 DEF ApiNext, ApiStep, ApiAborts, Submit, InsertedState, Requeue, RequeueDoc,
         RequeueClearId, Enqueue, StampEnqueued, EnqueueMessage
    <2> QED BY <1>3, <1>b, <2>1, <2>2 DEF TokenIsCurrent
  <1>4. CASE WorkerNext /\ UNCHANGED apiVars
    <2>1. ASSUME NEW h \in Handles, AnalysisEnds(h)
          PROVE  TokenIsCurrent'
      BY <2>1 DEF AnalysisEnds, TokenIsCurrent
    <2>2. ASSUME NEW w \in Workers, NEW m \in Msgs, Receive(w, m)
          PROVE  TokenIsCurrent'
      BY <2>2 DEF Receive, ReceiveMessage, Goto, TokenIsCurrent
    <2>3. ASSUME NEW w \in Workers,
                 \/ Skip(w) \/ Ack(w) \/ Defer(w) \/ Dies(w) \/ StepRaises(w)
                 \/ FailCopy(w) \/ FailDelete(w) \/ FailRelease(w)
          PROVE  TokenIsCurrent'
      BY <2>3 DEF Skip, Ack, Defer, Dies, StepRaises, FailCopy, FailDelete, FailRelease,
         Rest, Goto, Project, DeleteMessage, MakeVisible, CopyToDlq, TokenIsCurrent
    <2>4. ASSUME NEW w \in Workers,
                 Register(w) \/ Stamp(w) \/ Mark(w) \/ MarkDoc(w)
          PROVE  TokenIsCurrent'
      <3>1. CASE Register(w) BY <3>1 DEF Register, Goto, TokenIsCurrent
      <3>2. CASE Stamp(w) BY <3>2 DEF Stamp, StampMessageId, Goto, TokenIsCurrent
      <3>3. CASE Mark(w) BY <3>3 DEF Mark, SetRunStatus, Goto, TokenIsCurrent
      <3>4. CASE MarkDoc(w)
        BY <3>4 DEF MarkDoc, SetDocStatus, FirstStep, Rest, Goto, TokenIsCurrent
      <3> QED BY <2>4, <3>1, <3>2, <3>3, <3>4
    <2>5. ASSUME NEW w \in Workers,
                 \/ Execute(w) \/ Poll(w) \/ AnalyzerRaises(w)
                 \/ \E h \in Handles : SubmitAnalysis(w, h)
          PROVE  TokenIsCurrent'
      BY <2>5 DEF Execute, Poll, AnalyzerRaises, SubmitAnalysis, Outcome, Goto,
         TokenIsCurrent
    <2>6. ASSUME NEW w \in Workers, RecordAsync(w)
          PROVE  TokenIsCurrent'
      <3>1. /\ asyncJob' = [asyncJob EXCEPT ![JobOf(w)] = handle[w]]
            /\ \A v \in Workers \ {w} : pc'[v] = pc[v]
            /\ pc'[w] \in {"mark", "defer", "fail"}
            /\ pc'[w] = "mark" => result[w] = "succeeded"
            /\ UNCHANGED <<queueVars, local>>
        BY <2>6 DEF RecordAsync, MarkAsyncJob, Goto
      <3>2. \A v \in Workers \ {w} : pc[v] # "idle" => JobOf(v) # JobOf(w)
        BY <2>6 DEF OneAtATime, Envelopes, RecordAsync
      <3> QED BY <3>1, <3>2 DEF TokenIsCurrent, Envelopes
    <2> QED BY <1>4, <2>1, <2>2, <2>3, <2>4, <2>5, <2>6
            DEF WorkerNext, WorkerStep, ReleaseRefused
  <1> QED BY <1>1, <1>2, <1>3, <1>4 DEF Next

(* A run whose analysis was submitted and recorded is never submitted      *)
(* again, for any number of workers and however often its message comes    *)
(* back, if deliveries of one job do not overlap.                          *)
THEOREM RecordedIsPolled == Spec /\ []OneAtATime => []RecordedAnalysisIsPolled
  <1>1. Init => TokenIsCurrent
    BY DEF Init, WorkerInit, TokenIsCurrent
  <1>2. TokenIsCurrent => RecordedAnalysisIsPolled
    BY DEF TokenIsCurrent, RecordedAnalysisIsPolled
  <1> QED BY <1>1, <1>2, TokenStaysCurrent, Invariance, PTL DEF Spec

-------------------------------------------------------------------------------
(* A settled run stays settled: whoever changes a run, or commits to work  *)
(* on it, had read it before it settled, and then it was not settled.      *)
LEMMA SettledStep ==
  ASSUME IInv, [Next]_vars, NEW j0 \in Jobs, Settled(j0)
  PROVE  Settled(j0)'
  <1> USE DEF IInv, TypeOK, Settled, WorkerCommitted, ApiCommitted, JobOf,
              queueVars, storeVars, apiVars, workerVars, local
  <1>1. ASSUME NEW w \in Workers, NEW m \in Msgs, Receive(w, m), UNCHANGED
               apiVars
        PROVE  Settled(j0)'
    BY <1>1 DEF Receive, ReceiveMessage, Goto, Envelopes
  <1>2. ASSUME NEW w \in Workers, Register(w), UNCHANGED apiVars
        PROVE  Settled(j0)'
    BY <1>2 DEF Register, Goto, Envelopes
  <1>3. ASSUME NEW w \in Workers, Skip(w), UNCHANGED apiVars
        PROVE  Settled(j0)'
    BY <1>3 DEF Skip, DeleteMessage, Rest, Goto, Live, Envelopes
  <1>4. ASSUME NEW w \in Workers, Stamp(w), UNCHANGED apiVars
        PROVE  Settled(j0)'
    BY <1>4 DEF Stamp, StampMessageId, Goto, Envelopes
  <1>5. ASSUME NEW w \in Workers, Mark(w), UNCHANGED apiVars
        PROVE  Settled(j0)'
    BY <1>5 DEF Mark, SetRunStatus, Goto, Envelopes
  <1>6. ASSUME NEW w \in Workers, MarkDoc(w), UNCHANGED apiVars
        PROVE  Settled(j0)'
    BY <1>6 DEF MarkDoc, SetDocStatus, Rest, FirstStep, Goto, Envelopes
  <1>7. ASSUME NEW w \in Workers, Execute(w), UNCHANGED apiVars
        PROVE  Settled(j0)'
    BY <1>7 DEF Execute, Persist, Outcome, Goto, Envelopes
  <1>8. ASSUME NEW w \in Workers, NEW h \in Handles, SubmitAnalysis(w, h),
               UNCHANGED apiVars
        PROVE  Settled(j0)'
    BY <1>8 DEF SubmitAnalysis, Goto, Envelopes
  <1>9. ASSUME NEW w \in Workers, Poll(w), UNCHANGED apiVars
        PROVE  Settled(j0)'
    BY <1>9 DEF Poll, Persist, Outcome, Goto, Envelopes
  <1>10. ASSUME NEW w \in Workers, AnalyzerRaises(w), UNCHANGED apiVars
        PROVE  Settled(j0)'
    BY <1>10 DEF AnalyzerRaises, Persist, Outcome, Goto, Envelopes
  <1>11. ASSUME NEW w \in Workers, RecordAsync(w), UNCHANGED apiVars
        PROVE  Settled(j0)'
    BY <1>11 DEF RecordAsync, MarkAsyncJob, Goto, Envelopes
  <1>12. ASSUME NEW w \in Workers, Ack(w), UNCHANGED apiVars
        PROVE  Settled(j0)'
    BY <1>12 DEF Ack, DeleteMessage, Rest, Goto, Live, Envelopes
  <1>13. ASSUME NEW w \in Workers, Defer(w), UNCHANGED apiVars
        PROVE  Settled(j0)'
    BY <1>13 DEF Defer, MakeVisible, HandleAccepted, Rest, Goto, Envelopes
  <1>14. ASSUME NEW w \in Workers, FailCopy(w), UNCHANGED apiVars
        PROVE  Settled(j0)'
    BY <1>14 DEF FailCopy, CopyToDlq, Goto, Envelopes
  <1>15. ASSUME NEW w \in Workers, FailDelete(w), UNCHANGED apiVars
        PROVE  Settled(j0)'
    BY <1>15 DEF FailDelete, DeleteMessage, Project, Goto, Live, Envelopes
  <1>16. ASSUME NEW w \in Workers, FailRelease(w), UNCHANGED apiVars
        PROVE  Settled(j0)'
    BY <1>16 DEF FailRelease, MakeVisible, HandleAccepted, Project,
                 LastReceive, Goto, Envelopes
  <1>17. ASSUME NEW w \in Workers, StepRaises(w), UNCHANGED apiVars
        PROVE  Settled(j0)'
    BY <1>17 DEF StepRaises, Goto, Envelopes
  <1>18. ASSUME NEW w \in Workers, Dies(w), UNCHANGED apiVars
        PROVE  Settled(j0)'
    BY <1>18 DEF Dies, Rest, Goto, Envelopes
  <1>19. ASSUME NEW h \in Handles, AnalysisEnds(h), UNCHANGED apiVars
        PROVE  Settled(j0)'
    BY <1>19 DEF AnalysisEnds
  <1>20. ASSUME NEW m \in Msgs, VisibilityExpires(m), UNCHANGED <<storeVars,
                apiVars, workerVars>>
        PROVE  Settled(j0)'
    BY <1>20 DEF VisibilityExpires
  <1>21. ASSUME NEW m \in Msgs, Redrive(m), UNCHANGED <<storeVars, apiVars,
                workerVars>>
        PROVE  Settled(j0)'
    BY <1>21 DEF Redrive
  <1>22. ASSUME NEW j \in Jobs, Submit(j), UNCHANGED workerVars
        PROVE  Settled(j0)'
    BY <1>22 DEF Submit, InsertRun
  <1>23. ASSUME InsertedState, UNCHANGED workerVars
        PROVE  Settled(j0)'
    BY <1>23 DEF InsertedState, InsertState, ApiGoto
  <1>24. ASSUME Requeue, UNCHANGED workerVars
        PROVE  Settled(j0)'
    BY <1>24 DEF Requeue, SetRunStatus, ApiGoto
  <1>25. ASSUME RequeueDoc, UNCHANGED workerVars
        PROVE  Settled(j0)'
    BY <1>25 DEF RequeueDoc, SetDocStatus, ApiGoto
  <1>26. ASSUME RequeueClearId, UNCHANGED workerVars
        PROVE  Settled(j0)'
    BY <1>26 DEF RequeueClearId, ClearMessageId, ApiGoto
  <1>27. ASSUME NEW m \in Msgs, Enqueue(m), UNCHANGED workerVars
        PROVE  Settled(j0)'
    BY <1>27 DEF Enqueue, EnqueueMessage, ApiGoto, Envelopes, SentHaveBody
  <1>28. ASSUME StampEnqueued, UNCHANGED workerVars
        PROVE  Settled(j0)'
    BY <1>28 DEF StampEnqueued, StampMessageId, ApiReturn
  <1>29. ASSUME ApiAborts, UNCHANGED workerVars
        PROVE  Settled(j0)'
    BY <1>29 DEF ApiAborts, ApiReturn
  <1>30. ASSUME UNCHANGED vars
        PROVE  Settled(j0)'
    BY <1>30 DEF vars
  <1> QED
    <2>1. CASE QueueNext /\ UNCHANGED <<storeVars, apiVars, workerVars>>
      BY <2>1, <1>20, <1>21 DEF QueueNext
    <2>2. CASE ApiNext /\ UNCHANGED workerVars
      BY <2>2, <1>22, <1>23, <1>24, <1>25, <1>26, <1>27, <1>28, <1>29
         DEF ApiNext, ApiStep
    <2>3. CASE WorkerNext /\ UNCHANGED apiVars
      <3>1. ASSUME NEW w \in Workers, WorkerStep(w)
            PROVE  Settled(j0)'
        BY <2>3, <3>1, <1>2, <1>3, <1>4, <1>5, <1>6, <1>7, <1>8, <1>9, <1>10,
           <1>11, <1>12, <1>13, <1>14, <1>15, <1>16, <1>17, <1>18
           DEF WorkerStep, ReleaseRefused
      <3> QED
        BY <2>3, <3>1, <1>1, <1>17, <1>18, <1>19
           DEF WorkerNext
    <2>4. CASE UNCHANGED vars
      BY <2>4, <1>30
    <2> QED BY <2>1, <2>2, <2>3, <2>4 DEF Next

(* Redelivered and redriven messages and repeated requests never undo or   *)
(* repeat a settled run.                                                   *)
THEOREM RedeliveryIsIdempotent == Spec => SettledStaysSettled
  <1>1. IInv /\ [Next]_vars => \A j \in Jobs : Settled(j) => Settled(j)'
    BY SettledStep
  <1> QED BY <1>1, Invariance, PTL DEF Spec, SettledStaysSettled

-------------------------------------------------------------------------------
(* The pipeline implements DurableJobs.  Most steps change nothing that    *)
(* DurableJobs speaks of; the others are one of its actions.               *)
LEMMA InitRefines == Init => Durable!DurableInit
  BY DEF Init, QueueInit, StoreInit, WorkerInit, Live, Durable!DurableInit

LEMMA StepRefines ==
  ASSUME IInv, [Next]_vars
  PROVE  [Durable!DurableNext]_(Durable!durableVars)
  <1> USE DEF IInv, TypeOK, JobOf, Live, queueVars, storeVars, apiVars,
              workerVars, local, Durable!durableVars
  <1>0. /\ \A w \in Workers : pc[w] # "idle" => msg[w] \in Msgs /\ JobOf(w) \in Jobs
        /\ apiPc # "idle" => apiJob \in Jobs
    BY DEF Envelopes, RequestShape
  <1>1. ASSUME NEW w \in Workers, NEW m \in Msgs, Receive(w, m), UNCHANGED
               apiVars
        PROVE  UNCHANGED Durable!durableVars
    BY <1>1 DEF Receive, ReceiveMessage, Goto
  <1>2. ASSUME NEW w \in Workers, Register(w), UNCHANGED apiVars
        PROVE  UNCHANGED Durable!durableVars
    BY <1>2 DEF Register, Goto
  <1>3. ASSUME NEW w \in Workers, Skip(w), UNCHANGED apiVars
        PROVE  [Durable!DurableNext]_(Durable!durableVars)
    <2>1. Durable!Drop(msg[w]) \/ UNCHANGED Durable!durableVars
      BY <1>3 DEF Skip, DeleteMessage, Rest, Goto, Envelopes, WorkIsIndexed,
                    Durable!Drop
    <2>2. msg[w] \in Msgs
      BY <1>0, <1>3 DEF Skip
    <2> QED BY <1>3, <2>1, <2>2 DEF Durable!DurableNext, Durable!Drop
  <1>4. ASSUME NEW w \in Workers, Stamp(w), UNCHANGED apiVars
        PROVE  UNCHANGED Durable!durableVars
    BY <1>4 DEF Stamp, StampMessageId, Goto
  <1>5. ASSUME NEW w \in Workers, Mark(w), UNCHANGED apiVars
        PROVE  [Durable!DurableNext]_(Durable!durableVars)
    <2>1. Durable!Report(JobOf(w)) \/ Durable!Withdraw(JobOf(w))
      BY <1>5 DEF Mark, SetRunStatus, Goto, Envelopes, WorkIsIndexed,
                    Durable!Report, Durable!Withdraw
    <2>2. JobOf(w) \in Jobs
      BY <1>0, <1>5 DEF Mark
    <2> QED BY <1>5, <2>1, <2>2 DEF Durable!DurableNext, Durable!Report, Durable!Withdraw
  <1>6. ASSUME NEW w \in Workers, MarkDoc(w), UNCHANGED apiVars
        PROVE  UNCHANGED Durable!durableVars
    BY <1>6 DEF MarkDoc, SetDocStatus, Rest, FirstStep, Goto
  <1>7. ASSUME NEW w \in Workers, Execute(w), UNCHANGED apiVars
        PROVE  [Durable!DurableNext]_(Durable!durableVars)
    <2>1. Durable!Complete(JobOf(w)) \/ UNCHANGED Durable!durableVars
      BY <1>7 DEF Execute, Persist, Outcome, Goto, Envelopes,
                    Durable!Complete
    <2>2. JobOf(w) \in Jobs
      BY <1>0, <1>7 DEF Execute
    <2> QED BY <1>7, <2>1, <2>2 DEF Durable!DurableNext, Durable!Complete
  <1>8. ASSUME NEW w \in Workers, NEW h \in Handles, SubmitAnalysis(w, h),
               UNCHANGED apiVars
        PROVE  UNCHANGED Durable!durableVars
    BY <1>8 DEF SubmitAnalysis, Goto
  <1>9. ASSUME NEW w \in Workers, Poll(w), UNCHANGED apiVars
        PROVE  [Durable!DurableNext]_(Durable!durableVars)
    <2>1. Durable!Complete(JobOf(w)) \/ UNCHANGED Durable!durableVars
      BY <1>9 DEF Poll, Persist, Outcome, Goto, Envelopes, Durable!Complete
    <2>2. JobOf(w) \in Jobs
      BY <1>0, <1>9 DEF Poll
    <2> QED BY <1>9, <2>1, <2>2 DEF Durable!DurableNext, Durable!Complete
  <1>10. ASSUME NEW w \in Workers, AnalyzerRaises(w), UNCHANGED apiVars
        PROVE  [Durable!DurableNext]_(Durable!durableVars)
    <2>1. Durable!Complete(JobOf(w)) \/ UNCHANGED Durable!durableVars
      BY <1>10 DEF AnalyzerRaises, Persist, Outcome, Goto, Envelopes,
                    Durable!Complete
    <2>2. JobOf(w) \in Jobs
      BY <1>0, <1>10 DEF AnalyzerRaises
    <2> QED BY <1>10, <2>1, <2>2 DEF Durable!DurableNext, Durable!Complete
  <1>11. ASSUME NEW w \in Workers, RecordAsync(w), UNCHANGED apiVars
        PROVE  UNCHANGED Durable!durableVars
    BY <1>11 DEF RecordAsync, MarkAsyncJob, Goto
  <1>12. ASSUME NEW w \in Workers, Ack(w), UNCHANGED apiVars
        PROVE  [Durable!DurableNext]_(Durable!durableVars)
    <2>1. Durable!Drop(msg[w]) \/ UNCHANGED Durable!durableVars
      BY <1>12 DEF Ack, DeleteMessage, Rest, Goto, Envelopes, WorkIsIndexed,
                    Durable!Drop
    <2>2. msg[w] \in Msgs
      BY <1>0, <1>12 DEF Ack
    <2> QED BY <1>12, <2>1, <2>2 DEF Durable!DurableNext, Durable!Drop
  <1>13. ASSUME NEW w \in Workers, Defer(w), UNCHANGED apiVars
        PROVE  UNCHANGED Durable!durableVars
    BY <1>13 DEF Defer, MakeVisible, HandleAccepted, Rest, Goto
  <1>14. ASSUME NEW w \in Workers, FailCopy(w), UNCHANGED apiVars
        PROVE  [Durable!DurableNext]_(Durable!durableVars)
    <2>1. Durable!Park(msg[w])
      BY <1>14 DEF FailCopy, CopyToDlq, Goto, Envelopes, Durable!Park
    <2>2. msg[w] \in Msgs
      BY <1>0, <1>14 DEF FailCopy
    <2> QED BY <1>14, <2>1, <2>2 DEF Durable!DurableNext, Durable!Park
  <1>15. ASSUME NEW w \in Workers, FailDelete(w), UNCHANGED apiVars
        PROVE  [Durable!DurableNext]_(Durable!durableVars)
    <2>1. Durable!Drop(msg[w]) \/ UNCHANGED Durable!durableVars
      BY <1>15 DEF FailDelete, DeleteMessage, Project, Goto, Envelopes,
                    CopyBeforeDelete, Durable!Drop
    <2>2. msg[w] \in Msgs
      BY <1>0, <1>15 DEF FailDelete
    <2> QED BY <1>15, <2>1, <2>2 DEF Durable!DurableNext, Durable!Drop
  <1>16. ASSUME NEW w \in Workers, FailRelease(w), UNCHANGED apiVars
        PROVE  UNCHANGED Durable!durableVars
    BY <1>16 DEF FailRelease, MakeVisible, HandleAccepted, Project,
                 LastReceive, Goto
  <1>17. ASSUME NEW w \in Workers, StepRaises(w), UNCHANGED apiVars
        PROVE  UNCHANGED Durable!durableVars
    BY <1>17 DEF StepRaises, Goto
  <1>18. ASSUME NEW w \in Workers, Dies(w), UNCHANGED apiVars
        PROVE  UNCHANGED Durable!durableVars
    BY <1>18 DEF Dies, Rest, Goto
  <1>19. ASSUME NEW h \in Handles, AnalysisEnds(h), UNCHANGED apiVars
        PROVE  UNCHANGED Durable!durableVars
    BY <1>19 DEF AnalysisEnds
  <1>20. ASSUME NEW m \in Msgs, VisibilityExpires(m), UNCHANGED <<storeVars,
                apiVars, workerVars>>
        PROVE  UNCHANGED Durable!durableVars
    BY <1>20 DEF VisibilityExpires
  <1>21. ASSUME NEW m \in Msgs, Redrive(m), UNCHANGED <<storeVars, apiVars,
                workerVars>>
        PROVE  [Durable!DurableNext]_(Durable!durableVars)
    <2>1. Durable!ParkAndDrop(m)
      BY <1>21 DEF Redrive, SentHaveBody, Durable!ParkAndDrop
    <2> QED BY <1>21, <2>1 DEF Durable!DurableNext
  <1>22. ASSUME NEW j \in Jobs, Submit(j), UNCHANGED workerVars
        PROVE  UNCHANGED Durable!durableVars
    BY <1>22 DEF Submit, InsertRun
  <1>23. ASSUME InsertedState, UNCHANGED workerVars
        PROVE  UNCHANGED Durable!durableVars
    BY <1>23 DEF InsertedState, InsertState, ApiGoto
  <1>24. ASSUME Requeue, UNCHANGED workerVars
        PROVE  [Durable!DurableNext]_(Durable!durableVars)
    <2>1. Durable!Withdraw(apiJob)
      BY <1>24 DEF Requeue, SetRunStatus, ApiGoto, RequestShape,
                    Durable!Withdraw
    <2>2. apiJob \in Jobs
      BY <1>0, <1>24 DEF Requeue
    <2> QED BY <1>24, <2>1, <2>2 DEF Durable!DurableNext, Durable!Withdraw
  <1>25. ASSUME RequeueDoc, UNCHANGED workerVars
        PROVE  UNCHANGED Durable!durableVars
    BY <1>25 DEF RequeueDoc, SetDocStatus, ApiGoto
  <1>26. ASSUME RequeueClearId, UNCHANGED workerVars
        PROVE  UNCHANGED Durable!durableVars
    BY <1>26 DEF RequeueClearId, ClearMessageId, ApiGoto
  <1>27. ASSUME NEW m \in Msgs, Enqueue(m), UNCHANGED workerVars
        PROVE  [Durable!DurableNext]_(Durable!durableVars)
    <2>0. {n \in Msgs : Live(n)}' = {n \in Msgs : Live(n)} \cup {m}
      BY <1>27 DEF Enqueue, EnqueueMessage
    <2>1. Durable!Accept(m, apiJob)
      BY <2>0, <1>27 DEF Enqueue, EnqueueMessage, ApiGoto, SentHaveBody,
                    RequestShape, Durable!Accept
    <2>2. apiJob \in Jobs
      BY <1>0, <1>27 DEF Enqueue
    <2> QED BY <1>27, <2>1, <2>2 DEF Durable!DurableNext, Durable!Accept
  <1>28. ASSUME StampEnqueued, UNCHANGED workerVars
        PROVE  UNCHANGED Durable!durableVars
    BY <1>28 DEF StampEnqueued, StampMessageId, ApiReturn
  <1>29. ASSUME ApiAborts, UNCHANGED workerVars
        PROVE  UNCHANGED Durable!durableVars
    BY <1>29 DEF ApiAborts, ApiReturn
  <1>30. ASSUME UNCHANGED vars
        PROVE  UNCHANGED Durable!durableVars
    BY <1>30 DEF vars
  <1> QED
    <2>1. CASE QueueNext /\ UNCHANGED <<storeVars, apiVars, workerVars>>
      BY <2>1, <1>20, <1>21 DEF QueueNext
    <2>2. CASE ApiNext /\ UNCHANGED workerVars
      BY <2>2, <1>22, <1>23, <1>24, <1>25, <1>26, <1>27, <1>28, <1>29
         DEF ApiNext, ApiStep
    <2>3. CASE WorkerNext /\ UNCHANGED apiVars
      <3>1. ASSUME NEW w \in Workers, WorkerStep(w)
            PROVE  [Durable!DurableNext]_(Durable!durableVars)
        BY <2>3, <3>1, <1>2, <1>3, <1>4, <1>5, <1>6, <1>7, <1>8, <1>9, <1>10,
           <1>11, <1>12, <1>13, <1>14, <1>15, <1>16, <1>17, <1>18
           DEF WorkerStep, ReleaseRefused
      <3> QED
        BY <2>3, <3>1, <1>1, <1>17, <1>18, <1>19
           DEF WorkerNext
    <2>4. CASE UNCHANGED vars
      BY <2>4, <1>30
    <2> QED BY <2>1, <2>2, <2>3, <2>4 DEF Next

(* Every behaviour of the pipeline, seen through what is owed, done,       *)
(* parked and reported, is a behaviour of DurableJobs (its safety part; the*)
(* liveness part of DurableSpec is model-checked).                         *)
THEOREM PipelineIsDurable == Spec => Durable!DurableSafety
  BY InitRefines, StepRefines, Invariance, PTL DEF Spec, Durable!DurableSafety

----
(* What the worker makes of tables, scans and crops (StructuredEvidence).   *)

(* A table answer cites only rows of live documents the asker may read, in the            *)
(* collection asked for, whatever the question (_visible_rows).                          *)
LEMMA CitedIsInView ==
  ASSUME NEW t, NEW q, NEW reason, NEW max
  PROVE  Result(t, q, reason, max).cited \subseteq t.rows
<1>1. Nothing.cited \subseteq t.rows
  BY DEF Nothing
<1>2. Aggregate(t, q, max).cited \subseteq t.rows
  BY <1>1 DEF Aggregate
<1>3. Rank(t, q, max).cited \subseteq t.rows
  BY <1>1 DEF Rank
<1>4. Latest(t, q).cited \subseteq t.rows
  BY <1>1 DEF Latest
<1>5. NumericFilter(t, q, max).cited \subseteq t.rows
  BY <1>1 DEF NumericFilter, Top
<1>6. PeriodFilter(t, q, max).cited \subseteq t.rows
  BY <1>1 DEF PeriodFilter, Top
<1>7. Result(t, q, reason, max) \in {Nothing, Aggregate(t, q, max), Rank(t, q, max), Latest(t, q),
                                    NumericFilter(t, q, max), PeriodFilter(t, q, max)}
  BY DEF Result
<1> QED  BY <1>1, <1>2, <1>3, <1>4, <1>5, <1>6, <1>7

(* A table answer rests on nothing the asker may not read: each of its citations is of a   *)
(* live document of the collection asked for (TableManifestStructuredTool._visible_rows).*)
THEOREM TableAnswerRestsOnVisibleRows ==
  ASSUME NEW docs, NEW reader, NEW collection, NEW q, NEW reason, NEW max,
         NEW c \in TableAnswer(docs, reader, collection, q, reason, max).citations
  PROVE  \E d \in Visible(docs, reader, collection) : c.document = docs[d].id
<1> DEFINE t == [docs |-> docs, rows |-> VisibleRows(docs, reader, collection)]
<1>1. PICK p \in Result(t, q, reason, max).cited : c.document = docs[p[1]].id
  BY DEF TableAnswer
<1>2. p \in VisibleRows(docs, reader, collection)
  <2>1. Result(t, q, reason, max).cited \subseteq t.rows
    BY CitedIsInView
  <2> QED  BY <1>1, <2>1
<1>3. \E d \in Visible(docs, reader, collection) : \E s, k : p = <<d, s, k>>
  BY <1>2 DEF VisibleRows, RowsOf
<1> QED  BY <1>1, <1>3

(* A question recognised by its Japanese wording gets no answer: the tool does not know    *)
(* the reasons these patterns give, and its refusal is final (_run, AnswerService.answer). *)
THEOREM JapaneseIntentIsUnanswered ==
  ASSUME NEW docs, NEW reader, NEW q, NEW found, NEW max,
         Intent(found) \in {"aggregation_ja", "ranking_ja", "latest_ja", "numeric_comparison_ja",
                           "period_filter_ja"}
  PROVE  RoutedAnswer(docs, reader, q, found, max) = "insufficient_evidence"
<1> DEFINE t == [docs |-> docs, rows |-> VisibleRows(docs, reader, "")]
<1>1. Result(t, q, Intent(found), max) = Nothing
  BY DEF Result
<1>2. TableAnswer(docs, reader, "", q, Intent(found), max).status = "insufficient_evidence"
  <2>1. TableAnswer(docs, reader, "", q, Intent(found), max).status
          = IF Result(t, q, Intent(found), max).rows = {} THEN "insufficient_evidence" ELSE "ok"
    BY DEF TableAnswer
  <2>2. Nothing.rows = {}
    BY DEF Nothing
  <2>3. Result(t, q, Intent(found), max).rows = {}
    <3> HIDE DEF t
    <3> QED  BY <1>1, <2>2
  <2> QED  BY <2>1, <2>3
<1>3. QueryRoute(found, TRUE) = "structured_tool"
  BY DEF QueryRoute
<1> QED  BY <1>2, <1>3 DEF RoutedAnswer

(* Every visual document with a confidence in it is held for review, however sure the      *)
(* engine was, unless the threshold is set to one percent of its range or less: the        *)
(* engines report fractions of one (aws_visual._confidence), the threshold is a percentage *)
(* (_ocr_quality_review_threshold).                                                       *)
THEOREM MeasuredScanIsHeld ==
  ASSUME NEW results, NEW configured, configured \notin 1..100,
         \E c \in Confidences(results) : c \in 0..100,
         NEW chunk \in VisualChunks(results, configured)
  PROVE  chunk.status = "review_required" /\ ~chunk.retrievable
<1>1. Threshold(configured) \in Int /\ Threshold(configured) > 100
  <2>1. CASE configured \in 1..10000
    <3>1. configured \in Int /\ configured > 100
      BY <2>1
    <3> QED  BY <2>1, <3>1 DEF Threshold
  <2>2. CASE configured \notin 1..10000
    BY <2>2 DEF Threshold, DefaultThreshold
  <2> QED  BY <2>1, <2>2
<1>2. OcrVerdict(results, configured) = "review_required"
  <2>1. PICK c \in Confidences(results) : c \in 0..100
    OBVIOUS
  <2>2. c < Threshold(configured)
    BY <1>1, <2>1
  <2> QED  BY <2>1, <2>2 DEF OcrVerdict
<1>3. \E region : chunk = VisualChunk(region, OcrVerdict(results, configured))
  BY DEF VisualChunks
<1>4. PICK region : chunk = VisualChunk(region, "review_required")
  BY <1>2, <1>3
<1> QED  BY <1>4 DEF VisualChunk

(* What is sensitive on a page is marked on the page: the region of the whole page          *)
(* requires redaction, and so do its crop and its chunk, if one of its regions does         *)
(* (_append_page_aggregate_regions, create_region_crop).                                   *)
THEOREM SensitivePageIsMarked ==
  ASSUME NEW regions, NEW p, NEW n \in OfPage(regions, p),
         regions[n].required \/ regions[n].labels # {},
         NEW document, NEW asset, NEW k, NEW state
  PROVE  /\ Crop(document, asset, k, Aggregated(regions, p)).required
         /\ Crop(document, asset, k, Aggregated(regions, p)).policy
              = "visual-region-redaction-required"
         /\ VisualChunk(Aggregated(regions, p), state).required
<1> DEFINE page == Aggregated(regions, p)
<1>1. regions[n].labels # {} => PageLabels(regions, p) # {}
  BY DEF PageLabels
<1>2. page.required
  BY <1>1 DEF Aggregated
<1> HIDE DEF page
<1>3. Crop(document, asset, k, page).required /\ VisualChunk(page, state).required
  BY <1>2 DEF Crop, VisualChunk
<1>4. Crop(document, asset, k, page).policy = "visual-region-redaction-required"
  BY <1>2 DEF Crop
<1> QED  BY <1>3, <1>4 DEF page

(* A crop lies inside its image and has a pixel, as long as its region starts inside it     *)
(* (_pixel_box).                                                                           *)
THEOREM CropHasAPixel ==
  ASSUME NEW x \in Int, NEW length \in Int, NEW size \in Nat \ {0}
  PROVE  /\ 0 <= PixelFrom(x, size) /\ PixelFrom(x, size) <= size
         /\ PixelFrom(x, size) <= PixelTo(x, length, size) /\ PixelTo(x, length, size) <= size
         /\ x < Unit => PixelFrom(x, size) < PixelTo(x, length, size)
<1>1. \A y \in Int : Clamped(y) \in 0..1000 /\ (y < 1000 => Clamped(y) <= 999)
  BY DEF Clamped, Unit
<1>2. \A y \in 0..1000 : (y * size) \div 1000 \in 0..size /\ (y <= 999 => (y * size) \div 1000 < size)
  <2>1. SUFFICES ASSUME NEW y \in 0..1000
                 PROVE  /\ (y * size) \div 1000 \in 0..size
                        /\ y <= 999 => (y * size) \div 1000 < size
    OBVIOUS
  <2>2. y * size \in Nat /\ y * size <= 1000 * size /\ (y <= 999 => y * size <= 999 * size)
    OBVIOUS
  <2> QED  BY <2>2
<1> DEFINE to == (Clamped(x + length) * size) \div 1000
<1>3. PixelFrom(x, size) \in 0..size /\ (x < 1000 => PixelFrom(x, size) < size)
  <2>1. PixelFrom(x, size) = (Clamped(x) * size) \div 1000
    BY DEF PixelFrom, Unit
  <2> DEFINE y == Clamped(x)
  <2>2. y \in 0..1000 /\ (x < 1000 => y <= 999)
    BY <1>1
  <2>3. PixelFrom(x, size) = (y * size) \div 1000
    BY <2>1
  <2> HIDE DEF y
  <2>4. /\ (y * size) \div 1000 \in 0..size
        /\ y <= 999 => (y * size) \div 1000 < size
    BY <1>2, <2>2
  <2> QED  BY <2>2, <2>3, <2>4
<1>4. to \in 0..size
  <2>1. x + length \in Int
    OBVIOUS
  <2>2. Clamped(x + length) \in 0..1000
    BY <1>1, <2>1
  <2> QED  BY <1>2, <2>2
<1>5. PixelTo(x, length, size)
        = IF to > PixelFrom(x, size) THEN to
          ELSE IF PixelFrom(x, size) + 1 < size THEN PixelFrom(x, size) + 1 ELSE size
  BY DEF PixelTo, Unit
<1> HIDE DEF to
<1> QED  BY <1>3, <1>4, <1>5 DEF Unit
===============================================================================
