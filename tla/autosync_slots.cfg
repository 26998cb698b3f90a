\* Two answer services that may restart, two slots, one PDF.
CONSTANTS
    m1 = m1  m2 = m2  m3 = m3  m4 = m4  w1 = w1  r1 = r1  r2 = r2
    k1 = k1  k2 = k2  txt = txt  p = p  d1 = d1
    Msgs = {m1, m2, m3, m4}
    Jobs = {k1, k2, txt}
    Syncs = {k1, k2}
    PdfJobs = {txt}
    Requesters = {r1, r2}
    Workers = {w1}
    Docs = {p, d1}
    MaxReceiveCount = 2
    Forced = {}
    DocOf <- DocsOfJobs
    Manifest <- WholeSource
    KeyOf <- SlotKeys
    ParentDoc = p
    Handles = {}
    NoJob = NoJob  NoMsg = NoMsg  NoHandle = NoHandle  Never = Never
    Daily = TRUE
    At = 1
    Period = 2
    Horizon = 2
    HasDlqUrl = TRUE
SPECIFICATION RestartSpec
INVARIANTS SlotEnqueuedOnce DueMeansNewSlot
SYMMETRY Symmetry
CHECK_DEADLOCK FALSE
