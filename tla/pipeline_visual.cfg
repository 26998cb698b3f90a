\* One worker, one job sent to the asynchronous analyzer; no SQS_DLQ_URL, so only the redrive policy parks.
\* The refinement of DurableJobs is checked here with its liveness.
CONSTANTS
    m1 = m1  m2 = m2  w1 = w1  w2 = w2  j1 = j1  d1 = d1
    h1 = h1  h2 = h2
    Msgs = {m1}
    Workers = {w1}
    Jobs = {j1}
    Docs = {d1}
    DocOf <- OneJobOneDoc
    Handles = {h1, h2}
    VisualJobs = {j1}
    NoJob = NoJob  NoMsg = NoMsg  NoHandle = NoHandle
    MaxReceiveCount = 2
    HasDlqUrl = FALSE
SPECIFICATION FairSpec
INVARIANTS
    RecordedAnalysisIsPolled
PROPERTIES ImplementsDurable
CHECK_DEADLOCK FALSE
