---------------------------- MODULE IndustryWorkflows --------------------------
(* The generic industry API of an answer service: workflows answered from the      *)
(* citations their caller supplies, the drafts they leave and their review, and    *)
(* the dashboards.  Everything is in the memory of one process: drafts and events  *)
(* are gone when it restarts, and the services know the day it started on.         *)
EXTENDS Integers, FiniteSets, Sequences

CONSTANTS
  RetentionDays,  \* retention_days of every seeded profile
  Tenant, User,
  RunBody,        \* bodies of workflow requests
  CreateBody,     \* citations and reviewer of a draft created directly
  ReviewBody,     \* target status, reviewer and role of a review
  LastDay, MaxRequests

(* The three seeded industry profiles and the policies every workflow of them     *)
(* consults: which metadata is valid, how risky a question is, which citations     *)
(* are evidence, how a draft may move, how long a record is kept, what the         *)
(* dashboards count.  A date is a day number; a query is the set of rules whose    *)
(* keywords it contains.                                                           *)
None == "none"
NoDate == -1     \* a date that is not one
Unsaid == -2     \* a date the caller left out
SeedDate == 0     \* "2026-01-10", before every day the model runs on

(* A date is a number; a reviewer that a body names is a user of the service. *)
ASSUME BodiesAssumption ==
  /\ \A b \in RunBody \cup CreateBody : \A i \in b.citations : i.effective \in Int
  /\ \A b \in CreateBody \cup ReviewBody : b.reviewer \in User \cup {None}
  /\ LastDay \in Nat \ {0} /\ MaxRequests \in Nat

Industry == {"manufacturing", "real_estate_pm", "investment_management"}

(* Metadata: the common fields are required of every document, the others are not. *)
CommonFields ==
  {"tenant_id", "collection_id", "document_id", "approval_status", "effective_date",
   "access_scope", "acl_tags", "no_train_policy_ref", "retention_policy_ref"}
ManufacturingFields ==
  {"factory_id", "line_id", "process_id", "equipment_id", "alarm_code", "product_id",
   "part_number", "defect_type", "failure_mode"}
RealEstateFields ==
  {"property_id", "building_id", "unit_id", "lease_contract_id", "owner_id", "occupant_id",
   "repair_category", "personal_data_category"}
InvestmentFields ==
  {"fund_id", "share_class_id", "asset_class", "strategy", "distribution_partner_id",
   "regulated_activity_category", "confidential_data_category", "personal_data_category"}
SchemaFields ==
  [manufacturing |-> CommonFields \cup ManufacturingFields,
   real_estate_pm |-> CommonFields \cup RealEstateFields,
   investment_management |-> CommonFields \cup InvestmentFields]

Blank == ""
Text == "text"
NotText == "not text"  \* every seeded field is a string
MetadataValue == {Blank, Text, NotText}

ValidMetadata(industry, metadata) ==
  /\ \A f \in CommonFields : f \in DOMAIN metadata /\ metadata[f] # Blank
  /\ \A f \in DOMAIN metadata \cap SchemaFields[industry] : metadata[f] # NotText

(* What enriching a document writes over the metadata it came with. *)
Enriched(metadata) ==
  [f \in DOMAIN metadata \cup CommonFields |->
     IF f \in CommonFields THEN Text ELSE metadata[f]]

(* What a workflow request does not say about itself is filled in. *)
ForValidation(metadata) ==
  [f \in DOMAIN metadata \cup CommonFields |->
     IF f \in DOMAIN metadata THEN metadata[f] ELSE Text]

(* Workflows, and the draft each one produces. *)
Workflows ==
  [manufacturing |-> {"trouble_investigation", "similar_quality_issues", "checklist_draft"},
   real_estate_pm |-> {"contract_question", "repair_investigation", "occupant_reply_draft",
                       "owner_report_draft"},
   investment_management |->
     {"fund_question", "rfp_response_draft", "ddq_response_draft", "marketing_material_check",
      "monthly_commentary_draft", "compliance_rule_question"}]

ArtifactOfWorkflow ==
  [checklist_draft |-> "maintenance_checklist", occupant_reply_draft |-> "occupant_reply",
   owner_report_draft |-> "owner_report", rfp_response_draft |-> "rfp_response",
   ddq_response_draft |-> "ddq_response", monthly_commentary_draft |-> "monthly_commentary"]

ManufacturingDrafts == {"maintenance_checklist", "trouble_report", "quality_report", "faq"}
RealEstateDrafts == {"occupant_reply", "owner_report", "repair_report", "move_out_checklist"}
InvestmentDrafts ==
  {"rfp_response", "ddq_response", "marketing_material_comment", "monthly_commentary"}

DraftTypesOf_SharedReport(industry) ==
  IF industry = "manufacturing" THEN ManufacturingDrafts
  ELSE IF industry = "real_estate_pm" THEN RealEstateDrafts \cup {"rfp_response"}
  ELSE InvestmentDrafts

DraftTypesOf(industry) ==
  IF industry = "manufacturing" THEN ManufacturingDrafts
  ELSE IF industry = "real_estate_pm" THEN RealEstateDrafts ELSE InvestmentDrafts

DraftType(industry, workflow, asked) ==
  IF asked # None THEN asked
  ELSE IF workflow \in DOMAIN ArtifactOfWorkflow THEN ArtifactOfWorkflow[workflow] ELSE None

(* Risk: the category of each rule.  A rule's own decision is review_required. *)
ManufacturingRules == [mfg_dangerous_work |-> "dangerous_work", mfg_quality |-> "quality_judgment"]
RealEstateRules ==
  [re_contract |-> "contract_condition", re_restoration |-> "cost_responsibility",
   re_personal_data |-> "personal_data", re_legal |-> "legal_risk"]
InvestmentRules ==
  [im_advice |-> "advice_boundary", im_disclosure |-> "disclosure_evidence",
   im_regulated |-> "regulated_activity"]
RulesOf(industry) ==
  IF industry = "manufacturing" THEN ManufacturingRules
  ELSE IF industry = "real_estate_pm" THEN RealEstateRules ELSE InvestmentRules

Evaluate(industry, hits, uncertain) ==
  LET rules == RulesOf(industry)
      matched == hits \cap DOMAIN rules
  IN [categories |-> IF matched # {} THEN {rules[r] : r \in matched}
                     ELSE IF uncertain THEN {"uncertain"} ELSE {},
      decision |-> IF matched # {} \/ uncertain THEN "review_required" ELSE "allow"]

HighRisk(risk) ==
  \/ risk.categories # {}
  \/ risk.decision \in {"high_risk", "review_required", "blocked", "insufficient_evidence"}

(* Evidence: an approved document, effective on the day the service knows.  The    *)
(* seeded policies ask for one citation of any type.                               *)
EffectiveDateValid_Future(date, day) == date # NoDate

EffectiveDateValid(date, day) == date # NoDate /\ date <= day

MinimumCitations == 1

ValidCitations(citations, day) ==
  {c \in citations : c.approval = "approved" /\ EffectiveDateValid(c.effective, day)}

CheckEvidence(citations, day) ==
  LET valid == ValidCitations(citations, day)
  IN [passed |-> Cardinality(valid) >= MinimumCitations, valid |-> valid]

(* What a caller leaves out of a citation is assumed in its favour. *)
CitationOf(item) ==
  [doc |-> item.doc,
   approval |-> IF item.approval = Blank THEN "approved" ELSE item.approval,
   effective |-> IF item.effective = Unsaid THEN SeedDate ELSE item.effective]

(* Drafts move along these edges, by one of these roles. *)
DraftStatus == {"draft", "in_review", "approved", "rejected", "archived"}
AllowedTransitions_Direct ==
  {<<"draft", "in_review">>, <<"draft", "approved">>, <<"in_review", "approved">>,
   <<"in_review", "rejected">>, <<"approved", "archived">>, <<"rejected", "archived">>}

AllowedTransitions ==
  {<<"draft", "in_review">>, <<"in_review", "approved">>, <<"in_review", "rejected">>,
   <<"approved", "archived">>, <<"rejected", "archived">>}
ReviewerRoles == {"reviewer", "admin"}

(* Retention: counted from the effective date, from today if there is none. *)
RetentionDecision(effective, day, hold) ==
  [retainUntil |-> (IF effective = NoDate THEN day ELSE effective) + RetentionDays,
   deleteAllowed |-> ~hold]

(* Dashboards: the draft events of the tenant, the drafts of everybody. *)
KpiCount(industry, tenant, events, drafts) ==
  Cardinality({i \in DOMAIN events : events[i].industry = industry
                                       /\ (tenant = Blank \/ events[i].tenant = tenant)})
    + Cardinality({i \in DOMAIN drafts : drafts[i].industry = industry})

RoleAllowed(roles) == "admin" \in roles   \* required_role of every seeded widget

RenderedDashboard(industry, tenant, roles, events, drafts) ==
  [widgets |-> IF RoleAllowed(roles) THEN {"overview"} ELSE {},
   kpi |-> KpiCount(industry, tenant, events, drafts)]

----
VARIABLES
  drafts,         \* DraftArtifactService._artifacts, in the order of creation
  events,         \* DraftArtifactService._audit_events
  day,            \* today
  startedOn,      \* the day RequiredEvidencePolicyService took for today
  reply,          \* the last response
  requests        \* how many requests were served

workflowVars == <<drafts, events, day, startedOn, reply, requests>>

Quiet == [kind |-> "none", status |-> None, cites |-> {}, draft |-> 0, count |-> 0]
Refusal(kind, status) == [Quiet EXCEPT !.kind = kind, !.status = status]

(* A draft; trail (history) is every status it was moved to and under whose policy. *)
NewDraft(industry, type, cites, reviewer, fromWorkflow) ==
  [industry |-> industry, type |-> type, status |-> "draft", cites |-> cites,
   reviewer |-> reviewer, fromWorkflow |-> fromWorkflow, bornOn |-> day, trail |-> <<>>]

Event(tenant, industry, action) == [tenant |-> tenant, industry |-> industry, action |-> action]

WorkflowInit ==
  /\ drafts = <<>> /\ events = <<>>
  /\ day = 1 /\ startedOn = 1
  /\ reply = Quiet /\ requests = 0

Serve == requests < MaxRequests /\ requests' = requests + 1

----
(* A workflow: metadata, risk and evidence are checked in turn; a draft or an       *)
(* answer comes only of evidence, since every seeded workflow requires review.      *)
ReviewRequired(workflow) == TRUE

WithoutEvidenceBlocked(risk, workflow) == HighRisk(risk) \/ ReviewRequired(workflow)

RunWorkflow(industry, workflow, body) ==
  LET cites == {CitationOf(i) : i \in body.citations}
      risk == Evaluate(industry, body.hits, body.uncertain)
      evidence == CheckEvidence(cites, startedOn)
      type == DraftType(industry, workflow, body.type)
      ends(r) == reply' = r /\ UNCHANGED <<drafts, events>>
  IN /\ Serve /\ UNCHANGED <<day, startedOn>>
     /\ IF industry = "manufacturing" \/ workflow \notin Workflows[industry]
        THEN ends(Refusal("workflow", "refused"))
        ELSE IF ~ValidMetadata(industry, ForValidation(body.metadata))
        THEN ends(Refusal("workflow", "validation_error"))
        ELSE IF ~evidence.passed /\ WithoutEvidenceBlocked(risk, workflow)
        THEN ends([Refusal("workflow", "insufficient_evidence") EXCEPT !.cites = evidence.valid])
        ELSE IF type = None
        THEN ends([Refusal("workflow", "ok") EXCEPT !.cites = evidence.valid])
        ELSE IF type \notin DraftTypesOf(industry) \/ evidence.valid = {}
        THEN ends(Refusal("workflow", "refused"))
        ELSE /\ drafts' = Append(drafts, NewDraft(industry, type, evidence.valid, None, TRUE))
             /\ events' = Append(events, Event(Blank, industry, "draft.generated"))
             /\ reply' = [kind |-> "workflow", status |-> "draft", cites |-> evidence.valid,
                          draft |-> Len(drafts) + 1, count |-> 0]

(* A draft made directly rests on whatever its caller cites. *)
CreateDraft(tenant, industry, type, body) ==
  LET cites == {CitationOf(i) : i \in body.citations}
      refused == type \notin DraftTypesOf(industry) \/ cites = {}
      assigned == IF body.reviewer = None THEN <<>>
                  ELSE <<Event(tenant, industry, "draft.assigned")>>
  IN /\ Serve /\ UNCHANGED <<day, startedOn>>
     /\ IF refused
        THEN reply' = Refusal("create", "refused") /\ UNCHANGED <<drafts, events>>
        ELSE /\ drafts' = Append(drafts, NewDraft(industry, type, cites, body.reviewer, FALSE))
             /\ events' = Append(events, Event(tenant, industry, "draft.generated")) \o assigned
             /\ reply' = [kind |-> "create", status |-> "draft", cites |-> cites,
                          draft |-> Len(drafts) + 1, count |-> 0]

(* A review names its industry in the path; the draft's own is not compared with it. *)
MayMove(d, industry, to, role) ==
  /\ d.type \in DraftTypesOf(industry)
  /\ role \in ReviewerRoles
  /\ <<d.status, to>> \in AllowedTransitions

Moved(d, industry, to, reviewer) ==
  [d EXCEPT !.status = to, !.reviewer = reviewer, !.trail = Append(@, <<to, industry>>)]

ReviewEvents(d, tenant, industry, to, reviewer) ==
  (IF reviewer = d.reviewer THEN <<>> ELSE <<Event(tenant, industry, "draft.assigned")>>)
    \o <<Event(tenant, industry, "draft.review_transition")>>
    \o (IF to = "archived" THEN <<Event(tenant, industry, "draft.archived")>> ELSE <<>>)

ReviewDraft(tenant, user, industry, id, body) ==
  LET d == drafts[id]
      reviewer == IF body.reviewer = None THEN user ELSE body.reviewer
      role == IF body.role = None THEN "reviewer" ELSE body.role
  IN /\ Serve /\ UNCHANGED <<day, startedOn>>
     /\ IF ~MayMove(d, industry, body.to, role)
        THEN reply' = Refusal("review", "refused") /\ UNCHANGED <<drafts, events>>
        ELSE /\ drafts' = [drafts EXCEPT ![id] = Moved(d, industry, body.to, reviewer)]
             /\ events' = events \o ReviewEvents(d, tenant, industry, body.to, reviewer)
             /\ reply' = [kind |-> "review", status |-> body.to, cites |-> d.cites,
                          draft |-> id, count |-> 0]

GetDraft(industry, id) ==
  /\ Serve /\ UNCHANGED <<drafts, events, day, startedOn>>
  /\ reply' = IF id \in DOMAIN drafts /\ drafts[id].industry = industry
              THEN [kind |-> "get", status |-> drafts[id].status, cites |-> drafts[id].cites,
                    draft |-> id, count |-> 0]
              ELSE Refusal("get", "not found")

EnrichDocument(industry, metadata, effective, hold) ==
  LET valid == ValidMetadata(industry, Enriched(metadata))
  IN /\ Serve /\ UNCHANGED <<drafts, events, day, startedOn>>
     /\ reply' = [Refusal("enrich", IF valid THEN "valid" ELSE "invalid")
                    EXCEPT !.count = RetentionDecision(effective, startedOn, hold).retainUntil]

ShowDashboard(industry, tenant, roles) ==
  LET board == RenderedDashboard(industry, tenant, roles, events, drafts)
  IN /\ Serve /\ UNCHANGED <<drafts, events, day, startedOn>>
     /\ reply' = [Refusal("dashboard", IF board.widgets = {} THEN "denied" ELSE "shown")
                    EXCEPT !.count = board.kpi]

----
NextDay ==
  /\ day < LastDay /\ day' = day + 1
  /\ UNCHANGED <<drafts, events, startedOn, reply, requests>>

Restart ==
  /\ drafts' = <<>> /\ events' = <<>> /\ startedOn' = day /\ reply' = Quiet
  /\ UNCHANGED <<day, requests>>

----
(* A draft is approved only by a named person, out of a review, whatever route it    *)
(* was moved by (DraftArtifactService.transition, review_draft).                     *)
ApprovedWasReviewed ==
  \A i \in DOMAIN drafts :
    LET d == drafts[i] IN
      d.status = "approved" =>
        /\ d.reviewer \in User
        /\ Len(d.trail) >= 2 /\ d.trail[Len(d.trail) - 1][1] = "in_review"

(* A draft is only ever moved under the review policy of its own industry, though     *)
(* review_draft takes the industry from the path: its type decides.                    *)
ReviewedUnderItsPolicy ==
  \A i \in DOMAIN drafts : \A k \in DOMAIN drafts[i].trail :
    drafts[i].trail[k][2] = drafts[i].industry

(* What a workflow answers or drafts rests on citations that were given as approved    *)
(* and effective that day, even in a process that has run for days.                    *)
Formal(c, today) == c.approval = "approved" /\ c.effective # NoDate /\ c.effective <= today

RestsOnEvidence ==
  /\ \A i \in DOMAIN drafts :
       drafts[i].fromWorkflow =>
         drafts[i].cites # {} /\ \A c \in drafts[i].cites : Formal(c, drafts[i].bornOn)
  /\ reply.kind = "workflow" /\ reply.status \in {"ok", "draft"} =>
       reply.cites # {} /\ \A c \in reply.cites : Formal(c, day)
===============================================================================
