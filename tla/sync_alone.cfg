\* One worker, two PDFs and a text, a day without failures of the system: children may fail.
CONSTANTS
    m1 = m1  m2 = m2  m3 = m3  m4 = m4  w1 = w1  w2 = w2  r1 = r1  r2 = r2
    k1 = k1  k2 = k2  pdf1 = pdf1  pdf2 = pdf2  txt = txt
    p = p  d1 = d1  d2 = d2  d3 = d3
    Msgs = {m1, m2, m3}
    Jobs = {k1, pdf1, pdf2, txt}
    Syncs = {k1}
    PdfJobs = {pdf1, pdf2}
    Requesters = {r1}
    Workers = {w1}
    Docs = {p, d1, d2, d3}
    MaxReceiveCount = 3
    Forced = {}
    DocOf <- DocsOfJobs
    Manifest <- WholeSource
    ParentDoc = p
    Handles = {}
    NoJob = NoJob  NoMsg = NoMsg  NoHandle = NoHandle
    HasDlqUrl = TRUE
SPECIFICATION FairCalmSpec
INVARIANTS  QuietAgrees
PROPERTIES SyncEnds
CHECK_DEADLOCK FALSE
