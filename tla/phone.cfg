\* Two answer services that may die at any statement; requests on one call, or on the scenario, one at a time.
CONSTANTS
    c1 = c1  c2 = c2  s1 = s1  s2 = s2  o1 = o1  o2 = o2  plain = plain  strict = strict
    Scripts = {plain, strict}
    SlotsOf <- Slots
    ReasonsOf <- Reasons
    DefaultScript = plain
    MaxVersions = 2
    NoVersion = NoVersion
    Calls = {c1}
    Servers = {s1, s2}
    Operators = {o1}
    MaxPackages = 2
    MaxRequests = 6
    MaxScript = 2
    MaxLow = 2
    MaxClarifications = 3
    NoCall = NoCall  NoPackage = NoPackage
    Events <- AllEvents
    Kinds = {"simulate", "turn", "accept", "delete", "scenario"}
    Overlapping = FALSE
SYMMETRY ServerSymmetry
SPECIFICATION Spec
INVARIANTS HandoffIsKept  ActiveIsPublished
PROPERTIES EndedStaysEnded 
CHECK_DEADLOCK FALSE
