\* One answer service, two tenants, four requests of any kind on two days, with restarts.
SPECIFICATION Spec
CONSTANTS
  Unset = Unset
  RetentionDays = 3
  Tenant = {"alpha", "beta"}
  User = {"u1"}
  RunBody <- Bodies
  CreateBody <- Created
  ReviewBody <- Reviews
  LastDay = 2
  MaxRequests = 4
  HomeTenant = "alpha"
  Material <- Statements
  ImportBody <- Imports
  AskedWorkflow = {"checklist_draft", "contract_question", "rfp_response_draft"}
  AskedType = {"faq", "rfp_response"}
INVARIANTS  ReviewedUnderItsPolicy RestsOnEvidence ComplianceFollowsApproval
CHECK_DEADLOCK FALSE
