\* One answer service and one worker that may die at any statement; nobody works on a document another one works on.
CONSTANTS
    s1 = s1  s2 = s2  w1 = w1  doc1 = doc1  pub = pub  text1 = text1  text2 = text2
    Docs = {doc1, pub}
    Artifacts = {pub}
    Contents = {text1, text2}
    Pieces <- TwoAndOne
    Quality <- BIsDoubtful
    DraftText = text1
    NoDoc = NoDoc  NoMeta = NoMeta  NoChunk = NoChunk
    Procs = {s1, w1}
    Servers = {s1}
    MaxOps = 4
    Metas = {"approved", "obsolete"}
    Kinds = {"ingest", "visual", "delete", "approval", "review", "update", "draft"}
    Overlapping = FALSE
SPECIFICATION Spec
INVARIANTS DeletedStaysGone ServedIsRegistered ObsoleteIsKept  
CHECK_DEADLOCK FALSE
