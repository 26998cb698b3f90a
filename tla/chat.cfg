\* Two answer services that may die at any statement and overlap freely.
CONSTANTS
    s1 = s1  s2 = s2  c1 = c1  c2 = c2  d1 = d1  d2 = d2  p1 = p1  p2 = p2  manuals = manuals
    Version = {1}
    SeedVersion = 1
    Slot = {"email", "company_name"}
    None = None
    PolicyId = {p1}
    Collection = {manuals}
    Unset = Unset
    Session = {c1}
    Document = {d1}
    MaxTurns = 2
    Server = {s1, s2}
    Level = "L0"
    UserMessage <- Talk
    RequiredBody = {{"email"}}
    PolicyBody <- Bodies
    CollectionOf <- Manuals
    MaxRequests = 5
SYMMETRY ServerSymmetry
SPECIFICATION Spec
INVARIANTS HandoffIsLinked TicketWasOffered 
CHECK_DEADLOCK FALSE
