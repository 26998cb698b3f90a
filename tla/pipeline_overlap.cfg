\* Two workers, one job, two messages: overlapping deliveries.
CONSTANTS
    m1 = m1  m2 = m2  w1 = w1  w2 = w2  j1 = j1  d1 = d1
    h1 = h1  h2 = h2
    Msgs = {m1, m2}
    Workers = {w1, w2}
    Jobs = {j1}
    Docs = {d1}
    DocOf <- OneJobOneDoc
    Handles = {h1}
    VisualJobs = {}
    NoJob = NoJob  NoMsg = NoMsg  NoHandle = NoHandle
    MaxReceiveCount = 2
    HasDlqUrl = TRUE
SYMMETRY WorkerSymmetry
SPECIFICATION Spec
INVARIANTS
    TypeOK
    SuccessIsIndexed
    GoneIsAccounted
    
    DeadLetterIsParked
 
CHECK_DEADLOCK FALSE
