------------------------------ MODULE IndustryPacks ----------------------------
(* The real-estate and investment solutions built on the industry framework: their *)
(* seeded documents and who may see them, the questions and drafts they serve, and  *)
(* the review of those drafts.  Like the framework they live in one process.        *)
EXTENDS IndustryWorkflows

CONSTANTS
  HomeTenant,      \* the tenant of the seeded documents
  Material,        \* lists of statements submitted to the marketing check
  ImportBody,      \* records of a metadata import, each the metadata it carries
  AskedWorkflow, AskedType   \* the workflows and draft types named in requests

VARIABLES
  estateDrafts, fundDrafts,   \* the drafts stored by each API
  disclosed,                  \* _disclosure_evidence: did the sources meet the policy
  estateTally, fundTally,     \* the counters and logs behind each dashboard
  served                      \* the API the requests go to: the three share nothing

packVars == <<estateDrafts, fundDrafts, disclosed, estateTally, fundTally, served>>
vars == <<workflowVars, packVars>>

(* Who asks: the roles of the request select one of three people of the tenant. *)
Level == {"admin", "operator", "restricted"}

----
(* Real estate. *)
InUnit(type, approval, personal, cited) ==
  [type |-> type, approval |-> approval, scope |-> {"P001", "U305"}, personal |-> personal,
   cited |-> cited]
InProperty(type, approval) ==
  [type |-> type, approval |-> approval, scope |-> {"P001"}, personal |-> FALSE, cited |-> TRUE]

EstateDocument ==
  [lease |-> InUnit("lease_contract", "approved", FALSE, TRUE),
   rules |-> InProperty("management_rule", "approved"),
   oldRules |-> InProperty("management_rule", "obsolete"),
   moveOut |-> InUnit("move_out_document", "approved", FALSE, TRUE),
   memo |-> InUnit("internal_manual", "draft", FALSE, FALSE),
   repairs |-> InUnit("repair_history", "approved", FALSE, TRUE),
   inquiries |-> InUnit("tenant_inquiry", "approved", TRUE, TRUE),
   estimate |-> InUnit("estimate", "approved", FALSE, TRUE),
   invoice |-> InUnit("invoice", "approved", FALSE, TRUE),
   guarantor |-> InUnit("occupant_personal_data", "approved", TRUE, FALSE),
   payments |-> InUnit("payment_history", "approved", TRUE, FALSE)]

EstateUser(tenant, level) ==
  [tenant |-> tenant, scope |-> {"P001", "U305"}, personal |-> level # "restricted"]

EstateAccessible(user, doc) ==
  LET d == EstateDocument[doc] IN
    /\ user.tenant = HomeTenant
    /\ d.scope \subseteq user.scope
    /\ d.personal => user.personal

EstateCitations(user, docs) ==
  {x \in docs : /\ EstateAccessible(user, x) /\ EstateDocument[x].approval = "approved"
                /\ EstateDocument[x].cited}

(* Drafts, and the documents each is made from. *)
EstateSources ==
  [occupant_reply |-> {"repairs", "rules"},
   owner_report |-> {"repairs", "estimate", "invoice"},
   move_out_checklist |-> {"lease", "moveOut"},
   restoration_explanation |-> {"lease", "moveOut"}]

StoredDraft(type, cites, sources) ==
  [type |-> type, status |-> "draft", compliance |-> "pending", cites |-> cites,
   sources |-> sources, reviewer |-> None, wasApproved |-> FALSE]

Bump(tally, names) == [n \in DOMAIN tally |-> IF n \in names THEN tally[n] + 1 ELSE tally[n]]

Answer(kind, status, cites) == [Refusal(kind, status) EXCEPT !.cites = cites]

FundUnchanged == UNCHANGED <<fundDrafts, fundTally, disclosed>>
EstateUnchanged == UNCHANGED <<estateDrafts, estateTally>>
ServePack == Serve /\ UNCHANGED <<drafts, events, day, startedOn, served>>

ContractQuestion(tenant, level) ==
  LET cites == EstateCitations(EstateUser(tenant, level), {"lease", "rules"})
      evidence == Cardinality(cites) >= MinimumCitations
      blocked == Cardinality(cites) < 2 \/ ~evidence
  IN /\ ServePack /\ FundUnchanged /\ UNCHANGED estateDrafts
     /\ estateTally' = Bump(estateTally, {"highRisk"} \cup IF blocked THEN {"blocks"} ELSE {})
     /\ reply' = IF blocked
                 THEN Refusal("contract", IF evidence THEN "ok" ELSE "insufficient_evidence")
                 ELSE Answer("contract", "ok", cites)

RepairInvestigation(tenant, level) ==
  /\ ServePack /\ FundUnchanged /\ UNCHANGED estateDrafts
  /\ estateTally' = Bump(estateTally, {"repairs"})
  /\ reply' = Answer("repairs", "ok",
                EstateCitations(EstateUser(tenant, level),
                                {"repairs", "estimate", "invoice", "inquiries"}))

(* The two drafts the system makes itself are in the list its dashboard counts. *)
EstateDraft(tenant, level, type) ==
  LET cites == EstateCitations(EstateUser(tenant, level), EstateSources[type])
  IN /\ ServePack /\ FundUnchanged
     /\ estateDrafts' = Append(estateDrafts, StoredDraft(type, cites, EstateSources[type]))
     /\ estateTally' = Bump(estateTally, {type} \cap {"occupant_reply", "owner_report"})
     /\ reply' = [Answer("estate draft", "draft", cites) EXCEPT !.draft = Len(estateDrafts) + 1]

(* An action leads to a status whatever the draft's own is; only approving a fresh    *)
(* draft submits it instead.                                                           *)
ReviewAction == {"assign", "submit", "approve", "reject", "archive", "other"}
StatusAfter(action, status) ==
  IF action = "approve" THEN (IF status = "draft" THEN "in_review" ELSE "approved")
  ELSE IF action = "reject" THEN "rejected"
  ELSE IF action = "archive" THEN "archived" ELSE "in_review"

Reviewed(d, action, reviewer) ==
  LET to == StatusAfter(action, d.status) IN
    [d EXCEPT !.status = to, !.reviewer = IF reviewer = None THEN @ ELSE reviewer,
              !.wasApproved = @ \/ to = "approved"]

EstateReview(id, action, reviewer) ==
  /\ ServePack /\ FundUnchanged /\ UNCHANGED estateTally
  /\ estateDrafts' = [estateDrafts EXCEPT ![id] = Reviewed(@, action, reviewer)]
  /\ reply' = [Refusal("estate review", StatusAfter(action, estateDrafts[id].status))
                 EXCEPT !.draft = id]

(* The documents of a property or a unit that the asker may see. *)
EstateKnowledge(tenant, level, place) ==
  LET shown == {x \in DOMAIN EstateDocument :
                  place \in EstateDocument[x].scope
                    /\ EstateAccessible(EstateUser(tenant, level), x)}
  IN /\ ServePack /\ FundUnchanged /\ EstateUnchanged
     /\ reply' = [Answer("estate knowledge", "ok", {x \in shown : EstateDocument[x].cited})
                    EXCEPT !.count = Cardinality(shown)]

EstateDashboard(level) ==
  /\ ServePack /\ FundUnchanged /\ UNCHANGED estateDrafts
  /\ estateTally' = IF level = "admin" THEN estateTally ELSE Bump(estateTally, {"denied"})
  /\ reply' = IF level = "admin"
              THEN [Refusal("estate dashboard", "shown") EXCEPT !.count = estateTally.owner_report]
              ELSE Refusal("estate dashboard", "denied")

EstateImport(records) ==
  LET accepted == {r \in records : ValidMetadata("real_estate_pm", Enriched(r))}
  IN /\ ServePack /\ FundUnchanged /\ UNCHANGED estateDrafts
     /\ estateTally' = Bump(estateTally, {"imports"})
     /\ reply' = [Refusal("import", IF accepted = records THEN "accepted" ELSE "partial")
                    EXCEPT !.count = Cardinality(accepted)]

----
(* Investment management. *)
OfFund(fund, type, approval, confidential, cited) ==
  [fund |-> fund, type |-> type, approval |-> approval, confidential |-> confidential,
   cited |-> cited]
Usual(type) == OfFund("FUND-001", type, "approved", None, TRUE)

FundDocument ==
  [prospectus |-> Usual("prospectus"), requested |-> Usual("prospectus"),
   monthly |-> Usual("monthly_report"),
   oldMaterial |-> OfFund("FUND-001", "marketing_material", "obsolete", None, FALSE),
   ddq |-> Usual("ddq"), setup |-> Usual("product_summary"), esg |-> Usual("esg_report"),
   riskControl |-> Usual("risk_report"),
   newMaterial |-> OfFund("FUND-001", "marketing_material", "draft", None, FALSE),
   attribution |-> Usual("risk_report"),
   minutes |-> OfFund("FUND-001", "investment_committee_minutes", "approved",
                      "internal_minutes", TRUE),
   complianceRules |-> Usual("compliance_rule"), adRules |-> Usual("internal_policy"),
   minutes2 |-> OfFund("FUND-002", "investment_committee_minutes", "approved",
                       "investment_team_only", FALSE),
   memo2 |-> OfFund("FUND-002", "research_memo", "approved", "research_memo", FALSE)]

FundUser(tenant, level) ==
  [tenant |-> tenant, funds |-> {"FUND-001"}, memos |-> level = "admin",
   team |-> level = "admin"]

FundAccessible(user, doc) ==
  LET d == FundDocument[doc] IN
    /\ user.tenant = HomeTenant
    /\ d.fund \in user.funds
    /\ d.type = "research_memo" => user.memos
    /\ d.confidential = "investment_team_only" => user.team

FundCitations(user, docs) ==
  {x \in docs : /\ FundAccessible(user, x) /\ FundDocument[x].approval = "approved"
                /\ FundDocument[x].cited}

(* A question: a prohibited action is refused, advice is withheld, a fact needs       *)
(* evidence.                                                                           *)
ProhibitedActions == {"advice_finalization", "order_execution"}

FundQuestion(tenant, level, hits, aiAction) ==
  LET user == FundUser(tenant, level)
      advice == "advice_boundary" \in Evaluate("investment_management", hits, FALSE).categories
      facts == FundCitations(user, {"prospectus", "requested"})
  IN /\ ServePack /\ EstateUnchanged /\ UNCHANGED <<fundDrafts, disclosed>>
     /\ IF aiAction \in ProhibitedActions
        THEN reply' = Refusal("fund", "blocked") /\ UNCHANGED fundTally
        ELSE IF advice
        THEN /\ fundTally' = Bump(fundTally, {"regulated", "advice", "blocks"})
             /\ reply' = Answer("fund", "blocked", FundCitations(user, {"prospectus", "monthly"}))
        ELSE /\ fundTally' = Bump(fundTally, {"regulated"})
             /\ reply' = IF Cardinality(facts) >= MinimumCitations
                         THEN Answer("fund", "ok", facts)
                         ELSE Refusal("fund", "insufficient_evidence")

ComplianceRuleQuestion(tenant, level) ==
  /\ ServePack /\ EstateUnchanged /\ UNCHANGED <<fundDrafts, disclosed>>
  /\ fundTally' = Bump(fundTally, {"regulated"})
  /\ reply' = Answer("compliance", "ok",
                FundCitations(FundUser(tenant, level), {"complianceRules", "adRules"}))

(* Drafts: what each cites, and what it says it is made from. *)
RfpSources == {"ddq", "setup", "esg", "riskControl"}
DdqSources == {"ddq", "esg", "riskControl"}
InquirySources == {"prospectus", "monthly"}
MonthlySources == {"monthly", "attribution", "riskControl"}
MonthlyCited == MonthlySources \cup {"minutes"}

RequiredTypes == {"prospectus", "monthly_report", "compliance_rule"}
DisclosurePasses(sources) == RequiredTypes \subseteq {FundDocument[x].type : x \in sources}

(* Every draft is stored with its disclosure evidence; the dashboard counts those the  *)
(* system made itself.                                                                  *)
StoreFundDraft(type, cites, sources, counted) ==
  /\ fundDrafts' = Append(fundDrafts, StoredDraft(type, cites, sources))
  /\ disclosed' = Append(disclosed, DisclosurePasses(sources))
  /\ fundTally' = Bump(fundTally, counted)

FundDraft(user, type, cited, sources, counted) ==
  LET cites == FundCitations(user, cited) IN
    /\ ServePack /\ EstateUnchanged
    /\ StoreFundDraft(type, cites, sources, counted)
    /\ reply' = [Answer("fund draft", "draft", cites) EXCEPT !.draft = Len(fundDrafts) + 1]

RfpDraft(user) == FundDraft(user, "rfp_response", RfpSources, RfpSources, {"pending"})
DdqDraft(user) == FundDraft(user, "ddq_response", DdqSources, DdqSources, {})
InquiryDraft(user) == FundDraft(user, "inquiry_reply", InquirySources, InquirySources, {})
MonthlyDraft(user) ==
  FundDraft(user, "monthly_commentary", MonthlyCited, MonthlySources, {"pending"})

(* The marketing check: a statement is the set of marks found in it. *)
Mark == {"prohibited", "performance", "disclosure"}

MarketingSources(user) ==
  {x \in DOMAIN FundDocument :
     /\ FundDocument[x].fund \in user.funds /\ FundAccessible(user, x)
     /\ FundDocument[x].approval = "approved" /\ FundDocument[x].type \in RequiredTypes}

ClaimSources(statement) ==
  IF "performance" \in statement THEN {"prospectus", "monthly_report"}
  ELSE IF "disclosure" \in statement THEN {"prospectus", "compliance_rule"} ELSE {}

Contradiction(statement, types) ==
  IF "prohibited" \in statement THEN "prohibited_expression"
  ELSE IF "performance" \in statement /\ "disclosure" \notin statement
  THEN "risk_disclosure_missing"
  ELSE IF ClaimSources(statement) # {} /\ ClaimSources(statement) \cap types = {}
  THEN "unsupported_claim" ELSE None

MarketingCheck(user, statements) ==
  LET sources == MarketingSources(user)
      types == {FundDocument[x].type : x \in sources}
      found == {i \in DOMAIN statements : Contradiction(statements[i], types) # None}
      inconsistent == IF found = {} THEN {} ELSE {"inconsistent"}
  IN /\ ServePack /\ EstateUnchanged
     /\ StoreFundDraft("marketing_material_comment", {x \in sources : FundDocument[x].cited},
                       sources, {"regulated", "marketing", "pending"} \cup inconsistent)
     /\ reply' = [Refusal("marketing", IF found = {} THEN "ok" ELSE "review_required")
                    EXCEPT !.draft = Len(fundDrafts) + 1, !.count = Cardinality(found)]

FundReview(id, action, reviewer) ==
  /\ ServePack /\ EstateUnchanged /\ UNCHANGED <<fundTally, disclosed>>
  /\ fundDrafts' = [fundDrafts EXCEPT ![id] = Reviewed(@, action, reviewer)]
  /\ reply' = [Refusal("fund review", StatusAfter(action, fundDrafts[id].status))
                 EXCEPT !.draft = id]

(* The compliance decision looks at the draft's status when it is taken. *)
ComplianceAction == {"assign", "request_changes", "approve", "compliance_approve", "reject"}

ComplianceStatusAfter_AnyDraft(action, status) ==
  IF action \in {"approve", "compliance_approve"} THEN "approved"
  ELSE IF action = "request_changes" THEN "changes_required"
  ELSE IF action = "reject" THEN "rejected" ELSE "in_review"

ComplianceStatusAfter(action, status) ==
  IF action \in {"approve", "compliance_approve"}
  THEN (IF status = "approved" THEN "approved" ELSE "pending")
  ELSE IF action = "request_changes" THEN "changes_required"
  ELSE IF action = "reject" THEN "rejected" ELSE "in_review"

ComplianceReview(id, action, reviewer) ==
  LET to == ComplianceStatusAfter(action, fundDrafts[id].status) IN
    /\ ServePack /\ EstateUnchanged /\ UNCHANGED <<fundTally, disclosed>>
    /\ fundDrafts' = [fundDrafts EXCEPT
                        ![id].compliance = to,
                        ![id].reviewer = IF reviewer = None THEN @ ELSE reviewer]
    /\ reply' = [Refusal("compliance review", to) EXCEPT !.draft = id]

FundKnowledge(tenant, level, fund) ==
  LET shown == {x \in DOMAIN FundDocument :
                  FundDocument[x].fund = fund /\ FundAccessible(FundUser(tenant, level), x)}
  IN /\ ServePack /\ EstateUnchanged /\ UNCHANGED <<fundDrafts, disclosed, fundTally>>
     /\ reply' = [Answer("fund knowledge", "ok", {x \in shown : FundDocument[x].cited})
                    EXCEPT !.count = Cardinality(shown)]

DisclosureEvidence(id) ==
  /\ ServePack /\ EstateUnchanged /\ UNCHANGED <<fundDrafts, disclosed, fundTally>>
  /\ reply' = IF id \in DOMAIN disclosed
              THEN Refusal("disclosure", IF disclosed[id] THEN "passed" ELSE "missing")
              ELSE Refusal("disclosure", "not found")

FundDashboard(level) ==
  /\ ServePack /\ EstateUnchanged /\ UNCHANGED <<fundDrafts, disclosed, fundTally>>
  /\ reply' = IF level = "admin"
              THEN [Refusal("fund dashboard", "shown") EXCEPT !.count = fundTally.pending]
              ELSE Refusal("fund dashboard", "denied")

(* Customer names of fields are accepted beside the canonical ones. *)
AliasOf == [fund_code |-> "association_code", currency_hedge_policy |-> "currency_hedge",
            risk_category |-> "risk_classification", distribution_partner_id |-> "distributor_id"]
WithAliases(metadata) ==
  LET says(f) == f \in DOMAIN metadata /\ metadata[f] # Blank
      filled == {f \in DOMAIN AliasOf : says(AliasOf[f]) /\ ~says(f)}
  IN [f \in DOMAIN metadata \cup filled |->
        IF f \in filled THEN metadata[AliasOf[f]] ELSE metadata[f]]

FundImport(records) ==
  LET accepted == {r \in records :
                     ValidMetadata("investment_management", Enriched(WithAliases(r)))}
  IN /\ ServePack /\ EstateUnchanged /\ UNCHANGED <<fundDrafts, disclosed>>
     /\ fundTally' = Bump(fundTally, {"imports"})
     /\ reply' = [Refusal("import", IF accepted = records THEN "accepted" ELSE "partial")
                    EXCEPT !.count = Cardinality(accepted)]

----
NoEstateTally ==
  [n \in {"highRisk", "blocks", "repairs", "denied", "imports"} \cup {"occupant_reply", "owner_report"} |-> 0]
NoFundTally ==
  [n \in {"regulated", "advice", "blocks", "inconsistent", "marketing", "pending", "imports"} |-> 0]

PackInit ==
  /\ estateDrafts = <<>> /\ fundDrafts = <<>> /\ disclosed = <<>>
  /\ estateTally = NoEstateTally /\ fundTally = NoFundTally
  /\ served \in {"framework", "estate", "fund"}

PackRestart ==
  /\ estateDrafts' = <<>> /\ fundDrafts' = <<>> /\ disclosed' = <<>>
  /\ estateTally' = NoEstateTally /\ fundTally' = NoFundTally
  /\ UNCHANGED served

FrameworkStep ==
  /\ \/ \E n \in Industry, w \in AskedWorkflow, b \in RunBody :
          RunWorkflow(n, w, b)
     \/ \E t \in Tenant, n \in Industry, y \in AskedType, b \in CreateBody : CreateDraft(t, n, y, b)
     \/ \E t \in Tenant, u \in User, n \in Industry, b \in ReviewBody :
          \E i \in DOMAIN drafts : ReviewDraft(t, u, n, i, b)
     \/ \E n \in Industry, i \in 1..MaxRequests : GetDraft(n, i)
     \/ \E n \in Industry, r \in UNION ImportBody, e \in {NoDate, SeedDate}, h \in BOOLEAN :
          EnrichDocument(n, r, e, h)
     \/ \E n \in Industry, t \in Tenant \cup {Blank}, r \in {{}, {"admin"}} : ShowDashboard(n, t, r)
     \/ NextDay
  /\ UNCHANGED packVars

EstateStep(tenant, level) ==
  \/ ContractQuestion(tenant, level)
  \/ RepairInvestigation(tenant, level)
  \/ \E y \in DOMAIN EstateSources : EstateDraft(tenant, level, y)
  \/ \E i \in DOMAIN estateDrafts, a \in ReviewAction, u \in User \cup {None} : EstateReview(i, a, u)
  \/ \E p \in {"P001", "U305"} : EstateKnowledge(tenant, level, p)
  \/ EstateDashboard(level)
  \/ \E b \in ImportBody : EstateImport(b)

FundStep(tenant, level) ==
  \/ \E h \in SUBSET {"im_advice"}, a \in {None, "order_execution"} : FundQuestion(tenant, level, h, a)
  \/ ComplianceRuleQuestion(tenant, level)
  \/ RfpDraft(FundUser(tenant, level))
  \/ DdqDraft(FundUser(tenant, level))
  \/ InquiryDraft(FundUser(tenant, level))
  \/ MonthlyDraft(FundUser(tenant, level))
  \/ \E m \in Material : MarketingCheck(FundUser(tenant, level), m)
  \/ \E i \in DOMAIN fundDrafts, u \in User \cup {None} :
       \/ \E a \in ReviewAction : FundReview(i, a, u)
       \/ \E a \in ComplianceAction : ComplianceReview(i, a, u)
  \/ \E f \in {"FUND-001", "FUND-002"} : FundKnowledge(tenant, level, f)
  \/ \E i \in 1..MaxRequests : DisclosureEvidence(i)
  \/ FundDashboard(level)
  \/ \E b \in ImportBody : FundImport(b)

Next ==
  \/ served = "framework" /\ FrameworkStep
  \/ served = "estate" /\ \E t \in Tenant, l \in Level : EstateStep(t, l)
  \/ served = "fund" /\ \E t \in Tenant, l \in Level : FundStep(t, l)
  \/ Restart /\ PackRestart

Init == WorkflowInit /\ PackInit

Spec == Init /\ [][Next]_vars

----
DraftFields(d) ==
  /\ d.industry \in Industry /\ d.status \in DraftStatus /\ d.type \in DraftTypesOf(d.industry)
  /\ d.reviewer \in User \cup {None} /\ d.cites # {} /\ d.fromWorkflow \in BOOLEAN

StoredFields(d, docs) ==
  /\ d.status \in DraftStatus /\ d.cites \subseteq docs /\ d.sources \subseteq docs
  /\ d.compliance \in {"pending", "in_review", "changes_required", "approved", "rejected"}
  /\ d.reviewer \in User \cup {None} /\ d.wasApproved \in BOOLEAN

TypeOK ==
  /\ \A i \in DOMAIN drafts : DraftFields(drafts[i])
  /\ \A i \in DOMAIN estateDrafts : StoredFields(estateDrafts[i], DOMAIN EstateDocument)
  /\ \A i \in DOMAIN fundDrafts : StoredFields(fundDrafts[i], DOMAIN FundDocument)
  /\ disclosed \in Seq(BOOLEAN) /\ Len(disclosed) = Len(fundDrafts)
  /\ day \in 1..LastDay /\ startedOn \in 1..day
  /\ requests \in 0..MaxRequests

(* A draft with a compliance approval has passed the business review before, whatever  *)
(* order the two reviews were sent in (_compliance_review_status).                      *)
ComplianceFollowsApproval ==
  \A i \in DOMAIN fundDrafts : fundDrafts[i].compliance = "approved" => fundDrafts[i].wasApproved
===============================================================================
