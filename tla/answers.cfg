SPECIFICATION Spec
CONSTANTS
  Document <- MCDocument
  Piece <- MCPiece
  DocOf <- MCDocOf
  KindOf <- MCKindOf
  Clean <- MCPiece
  Hazardous = {}
  Matching = {"manual"}
  Verifier = {"v1"}
  FamilyOf <- MCFamilyOf
  VisualPromotion = TRUE
  VerifierQuorum = 1
  MaxRows = 1
  MaxVersion = 2
  Server = {"s1"}
  AskedQuestion <- Questions
  LeastEvidence = 1
  MaxContext = 2
  Budget = {1}
  MaxRequests = 1
  MaxChanges = 2
INVARIANTS
  HighRiskRestsOnApproved
  GoneIsNotCited
  ObsoleteIsNotTheBasis
CHECK_DEADLOCK FALSE
