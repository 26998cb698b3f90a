----------------------------- MODULE IndustryProofs ----------------------------
(* Proofs about the industry API and its two solutions, for every set of tenants,  *)
(* users and request bodies, any number of requests and days.  A request is one     *)
(* step, so the inductive invariant says only what a stored draft looks like: its   *)
(* type decides its industry, its history ends in its status, a fund draft's        *)
(* approval is remembered.                                                          *)
EXTENDS IndustryPacks, OperationsReports, FiniteSetTheorems, TLAPS

CitedItem == {CitationOf(i) : i \in UNION {b.citations : b \in RunBody \cup CreateBody}}
DraftTypes == ManufacturingDrafts \cup RealEstateDrafts \cup InvestmentDrafts
ArtifactDraft ==
  [industry : Industry, type : DraftTypes, status : DraftStatus, cites : SUBSET CitedItem,
   reviewer : User \cup {None}, fromWorkflow : BOOLEAN, bornOn : Nat,
   trail : Seq(DraftStatus \X Industry)]

(* What holds of each draft. *)
OfItsIndustry(d) == d.type \in DraftTypesOf(d.industry) /\ d.cites # {}
HistoryEndsInStatus(d) ==
  /\ d.status = "draft" => d.trail = <<>>
  /\ d.status # "draft" => Len(d.trail) >= 1 /\ d.trail[Len(d.trail)][1] = d.status
OutOfReview(d) ==
  d.status = "approved" => /\ d.reviewer \in User
                           /\ Len(d.trail) >= 2 /\ d.trail[Len(d.trail) - 1][1] = "in_review"
OwnPolicy(d) == \A k \in DOMAIN d.trail : d.trail[k][2] = d.industry
OnEvidence(d) ==
  d.fromWorkflow => d.cites # {} /\ \A c \in d.cites : Formal(c, d.bornOn)

DraftInv(d) ==
  OfItsIndustry(d) /\ HistoryEndsInStatus(d) /\ OutOfReview(d) /\ OwnPolicy(d) /\ OnEvidence(d)

ReplyOnEvidence ==
  reply.kind = "workflow" /\ reply.status \in {"ok", "draft"} =>
    reply.cites # {} /\ \A c \in reply.cites : c \in CitedItem /\ Formal(c, day)

FrameworkInv ==
  /\ drafts \in Seq(ArtifactDraft)
  /\ \A i \in DOMAIN drafts : DraftInv(drafts[i])
  /\ day \in 1..LastDay /\ startedOn \in 1..day
  /\ ReplyOnEvidence

(* A stored draft of either solution. *)
ComplianceStatus == {"pending", "in_review", "changes_required", "approved", "rejected"}
PackType ==
  {"occupant_reply", "owner_report", "move_out_checklist", "restoration_explanation",
   "rfp_response", "ddq_response", "inquiry_reply", "monthly_commentary",
   "marketing_material_comment"}
Stored(docs) ==
  [type : PackType, status : DraftStatus, compliance : ComplianceStatus, cites : SUBSET docs,
   sources : SUBSET docs, reviewer : User \cup {None}, wasApproved : BOOLEAN]

ApprovalRemembered(d) ==
  d.status = "approved" \/ d.compliance = "approved" => d.wasApproved

EstateInv == estateDrafts \in Seq(Stored(DOMAIN EstateDocument))
FundInv ==
  /\ fundDrafts \in Seq(Stored(DOMAIN FundDocument))
  /\ disclosed \in Seq(BOOLEAN) /\ Len(disclosed) = Len(fundDrafts)
  /\ \A i \in DOMAIN fundDrafts : ApprovalRemembered(fundDrafts[i])

IInv == FrameworkInv /\ EstateInv /\ FundInv /\ requests \in 0..MaxRequests

----
(* The types of drafts of one industry are not those of another. *)
LEMMA TypeDecidesIndustry ==
  ASSUME NEW n \in Industry, NEW m \in Industry, NEW y \in DraftTypesOf(n),
         y \in DraftTypesOf(m)
  PROVE  n = m
BY DEF Industry, DraftTypesOf, ManufacturingDrafts, RealEstateDrafts, InvestmentDrafts

LEMMA TypesOfIndustry ==
  ASSUME NEW n \in Industry
  PROVE  DraftTypesOf(n) \subseteq DraftTypes
BY DEF DraftTypesOf, DraftTypes

(* What an evidence check lets through was given as approved and effective by then. *)
LEMMA PassedIsFormal ==
  ASSUME NEW cites, NEW today, CheckEvidence(cites, today).passed
  PROVE  LET valid == CheckEvidence(cites, today).valid
         IN valid # {} /\ valid \subseteq cites /\ \A c \in valid : Formal(c, today)
<1>1. CheckEvidence(cites, today).valid = ValidCitations(cites, today)
  BY DEF CheckEvidence
<1>2. Cardinality(ValidCitations(cites, today)) >= 1
  BY DEF CheckEvidence, MinimumCitations
<1>3. ValidCitations(cites, today) # {}
  BY <1>2, FS_EmptySet
<1>4. \A c \in ValidCitations(cites, today) : c \in cites /\ Formal(c, today)
  BY DEF ValidCitations, EffectiveDateValid, Formal
<1> QED
  BY <1>1, <1>3, <1>4

(* Evidence of one day is evidence of every later one. *)
LEMMA FormalLasts ==
  ASSUME NEW c \in CitedItem, NEW d \in Nat, NEW e \in Nat, d <= e, Formal(c, d)
  PROVE  Formal(c, e)
<1>1. c.effective \in Int
  BY BodiesAssumption DEF CitedItem, CitationOf, SeedDate
<1> QED
  BY <1>1 DEF Formal

(* Reviewing keeps what holds of a draft: only an industry it belongs to may move it. *)
LEMMA MovedKeeps ==
  ASSUME NEW d \in ArtifactDraft, DraftInv(d), NEW n \in Industry, NEW to, NEW role,
         NEW u \in User, MayMove(d, n, to, role)
  PROVE  Moved(d, n, to, u) \in ArtifactDraft /\ DraftInv(Moved(d, n, to, u))
<1> DEFINE e == Moved(d, n, to, u)
<1>1. /\ to \in DraftStatus /\ to # "draft" /\ d.type \in DraftTypesOf(n)
      /\ to = "approved" => d.status = "in_review"
  BY DEF MayMove, AllowedTransitions, DraftStatus
<1>2. n = d.industry
  BY <1>1, TypeDecidesIndustry DEF DraftInv, OfItsIndustry, ArtifactDraft
<1>3. d.trail \in Seq(DraftStatus \X Industry) /\ <<to, n>> \in DraftStatus \X Industry
  BY <1>1 DEF ArtifactDraft
<1>4. /\ e.trail = Append(d.trail, <<to, n>>) /\ e.status = to /\ e.reviewer = u
      /\ e.type = d.type /\ e.industry = d.industry /\ e.cites = d.cites
      /\ e.fromWorkflow = d.fromWorkflow /\ e.bornOn = d.bornOn
  BY DEF Moved, ArtifactDraft
<1>5. e \in ArtifactDraft
  <2>1. Append(d.trail, <<to, n>>) \in Seq(DraftStatus \X Industry)
    BY <1>3
  <2>2. e = [d EXCEPT !.status = to, !.reviewer = u, !.trail = Append(d.trail, <<to, n>>)]
    BY DEF Moved
  <2> QED
    BY <1>1, <2>1, <2>2 DEF ArtifactDraft
<1>6. /\ Len(e.trail) = Len(d.trail) + 1 /\ Len(d.trail) \in Nat
      /\ e.trail[Len(d.trail) + 1] = <<to, n>>
      /\ \A k \in 1..Len(d.trail) : e.trail[k] = d.trail[k]
      /\ DOMAIN e.trail = 1..(Len(d.trail) + 1) /\ DOMAIN d.trail = 1..Len(d.trail)
  BY <1>3, <1>4
<1> HIDE DEF e
<1>7. OfItsIndustry(e) /\ OnEvidence(e)
  BY <1>4 DEF DraftInv, OfItsIndustry, OnEvidence
<1>8. HistoryEndsInStatus(e)
  BY <1>1, <1>4, <1>6 DEF HistoryEndsInStatus
<1>9. OutOfReview(e)
  BY <1>1, <1>4, <1>6 DEF DraftInv, OutOfReview, HistoryEndsInStatus
<1>10. OwnPolicy(e)
  BY <1>2, <1>4, <1>6 DEF DraftInv, OwnPolicy
<1> QED
  BY <1>5, <1>7, <1>8, <1>9, <1>10 DEF e, DraftInv

(* A fresh draft is as it should be. *)
LEMMA NewDraftKeeps ==
  ASSUME NEW n \in Industry, NEW y \in DraftTypesOf(n), NEW cites \in SUBSET CitedItem,
         cites # {}, NEW u \in User \cup {None}, NEW w \in BOOLEAN, day \in Nat,
         w => \A c \in cites : Formal(c, day)
  PROVE  NewDraft(n, y, cites, u, w) \in ArtifactDraft /\ DraftInv(NewDraft(n, y, cites, u, w))
<1> DEFINE e == NewDraft(n, y, cites, u, w)
<1>1. e \in ArtifactDraft
  BY TypesOfIndustry DEF NewDraft, ArtifactDraft, DraftStatus
<1>2. DraftInv(e)
  BY DEF NewDraft, DraftInv, OfItsIndustry, HistoryEndsInStatus, OutOfReview, OwnPolicy, OnEvidence
<1> QED
  BY <1>1, <1>2

(* Adding a draft, or changing one, keeps what holds of all of them. *)
LEMMA AppendKeeps ==
  ASSUME FrameworkInv, NEW e \in ArtifactDraft, DraftInv(e), drafts' = Append(drafts, e)
  PROVE  drafts' \in Seq(ArtifactDraft) /\ \A i \in DOMAIN drafts' : DraftInv(drafts'[i])
BY DEF FrameworkInv

LEMMA ReplaceKeeps ==
  ASSUME FrameworkInv, NEW id \in DOMAIN drafts, NEW e \in ArtifactDraft, DraftInv(e),
         drafts' = [drafts EXCEPT ![id] = e]
  PROVE  drafts' \in Seq(ArtifactDraft) /\ \A i \in DOMAIN drafts' : DraftInv(drafts'[i])
BY DEF FrameworkInv

----
(* The framework's requests. *)
LEMMA RefusalSays ==
  ASSUME NEW k, NEW st
  PROVE  /\ DOMAIN Refusal(k, st) = {"kind", "status", "cites", "draft", "count"}
         /\ Refusal(k, st).kind = k /\ Refusal(k, st).status = st
         /\ \A c : /\ [Refusal(k, st) EXCEPT !.cites = c].kind = k
                   /\ [Refusal(k, st) EXCEPT !.cites = c].status = st
                   /\ [Refusal(k, st) EXCEPT !.cites = c].cites = c
         /\ \A c : [Refusal(k, st) EXCEPT !.count = c].kind = k
<1>1. DOMAIN Quiet = {"kind", "status", "cites", "draft", "count"}
  BY DEF Quiet
<1>2. /\ DOMAIN Refusal(k, st) = {"kind", "status", "cites", "draft", "count"}
      /\ Refusal(k, st).kind = k /\ Refusal(k, st).status = st
  BY <1>1 DEF Refusal
<1> QED
  BY <1>2

LEMMA ReplyLasts ==
  ASSUME FrameworkInv, day' \in Nat, day <= day', reply' = reply
  PROVE  ReplyOnEvidence'
<1>1. day \in Nat
  BY BodiesAssumption DEF FrameworkInv
<1>2. \A c \in CitedItem : Formal(c, day) => Formal(c, day')
  BY <1>1, FormalLasts
<1> QED
  BY <1>2 DEF FrameworkInv, ReplyOnEvidence

LEMMA RunWorkflowKeeps ==
  ASSUME FrameworkInv, NEW n \in Industry, NEW w, NEW b \in RunBody, RunWorkflow(n, w, b)
  PROVE  FrameworkInv'
<1> DEFINE cites == {CitationOf(i) : i \in b.citations}
           evidence == CheckEvidence(cites, startedOn)
           type == DraftType(n, w, b.type)
<1>1. day' = day /\ startedOn' = startedOn
  BY DEF RunWorkflow
<1>2. /\ day \in Nat /\ startedOn \in Nat /\ startedOn <= day
      /\ day \in 1..LastDay /\ startedOn \in 1..day
  BY BodiesAssumption DEF FrameworkInv
<1>3. cites \subseteq CitedItem
  BY DEF CitedItem
<1>4. ASSUME evidence.passed
      PROVE  /\ evidence.valid # {} /\ evidence.valid \subseteq CitedItem
             /\ \A c \in evidence.valid : Formal(c, day)
  <2>1. /\ evidence.valid # {} /\ evidence.valid \subseteq cites
        /\ \A c \in evidence.valid : Formal(c, startedOn)
    BY <1>4, PassedIsFormal
  <2> QED
    BY <2>1, <1>2, <1>3, FormalLasts
<1>5. \/ /\ drafts' = drafts
         /\ \E st \in {"refused", "validation_error"} : reply' = Refusal("workflow", st)
      \/ /\ drafts' = drafts
         /\ reply' = [Refusal("workflow", "insufficient_evidence") EXCEPT !.cites = evidence.valid]
      \/ /\ drafts' = drafts /\ evidence.passed
         /\ reply' = [Refusal("workflow", "ok") EXCEPT !.cites = evidence.valid]
      \/ /\ evidence.passed /\ type \in DraftTypesOf(n)
         /\ drafts' = Append(drafts, NewDraft(n, type, evidence.valid, None, TRUE))
         /\ reply' = [kind |-> "workflow", status |-> "draft", cites |-> evidence.valid,
                      draft |-> Len(drafts) + 1, count |-> 0]
  BY DEF RunWorkflow, WithoutEvidenceBlocked, ReviewRequired
<1> HIDE DEF evidence, type
<1>6. ReplyOnEvidence'
  <2>1. \/ reply'.status \notin {"ok", "draft"}
        \/ evidence.passed /\ reply'.cites = evidence.valid
    <3>1. ASSUME NEW st \in {"refused", "validation_error"}, reply' = Refusal("workflow", st)
          PROVE  reply'.status \notin {"ok", "draft"}
      BY <3>1, RefusalSays
    <3>2. CASE reply' = [Refusal("workflow", "insufficient_evidence") EXCEPT !.cites = evidence.valid]
      BY <3>2, RefusalSays
    <3>3. CASE /\ evidence.passed
               /\ reply' = [Refusal("workflow", "ok") EXCEPT !.cites = evidence.valid]
      BY <3>3, RefusalSays
    <3>4. CASE /\ evidence.passed
               /\ reply' = [kind |-> "workflow", status |-> "draft", cites |-> evidence.valid,
                            draft |-> Len(drafts) + 1, count |-> 0]
      BY <3>4
    <3> QED
      BY <1>5, <3>1, <3>2, <3>3, <3>4
  <2> QED
    BY <2>1, <1>1, <1>4 DEF ReplyOnEvidence
<1>7. drafts' \in Seq(ArtifactDraft) /\ \A i \in DOMAIN drafts' : DraftInv(drafts'[i])
  <2>1. CASE drafts' = drafts
    BY <2>1 DEF FrameworkInv
  <2>2. CASE /\ evidence.passed /\ type \in DraftTypesOf(n)
             /\ drafts' = Append(drafts, NewDraft(n, type, evidence.valid, None, TRUE))
    BY <2>2, <1>2, <1>4, NewDraftKeeps, AppendKeeps
  <2> QED
    BY <1>5, <2>1, <2>2
<1> QED
  BY <1>1, <1>2, <1>6, <1>7 DEF FrameworkInv

LEMMA CreateDraftKeeps ==
  ASSUME FrameworkInv, NEW t, NEW n \in Industry, NEW y, NEW b \in CreateBody,
         CreateDraft(t, n, y, b)
  PROVE  FrameworkInv'
<1> DEFINE cites == {CitationOf(i) : i \in b.citations}
<1>1. day' = day /\ startedOn' = startedOn /\ day \in Nat /\ b.reviewer \in User \cup {None}
  BY BodiesAssumption DEF CreateDraft, FrameworkInv
<1>2. cites \in SUBSET CitedItem
  BY DEF CitedItem
<1>3. reply'.kind # "workflow"
  <2>1. \/ reply' = Refusal("create", "refused")
        \/ reply' = [kind |-> "create", status |-> "draft", cites |-> cites,
                     draft |-> Len(drafts) + 1, count |-> 0]
    BY DEF CreateDraft
  <2> QED
    BY <2>1, RefusalSays
<1>4. drafts' \in Seq(ArtifactDraft) /\ \A i \in DOMAIN drafts' : DraftInv(drafts'[i])
  <2>1. CASE y \notin DraftTypesOf(n) \/ cites = {}
    BY <2>1 DEF CreateDraft, FrameworkInv
  <2>2. CASE y \in DraftTypesOf(n) /\ cites # {}
    <3>1. drafts' = Append(drafts, NewDraft(n, y, cites, b.reviewer, FALSE))
      BY <2>2 DEF CreateDraft
    <3> HIDE DEF cites
    <3> QED
      BY <2>2, <3>1, <1>1, <1>2, NewDraftKeeps, AppendKeeps
  <2> QED
    BY <2>1, <2>2
<1> QED
  BY <1>1, <1>3, <1>4 DEF FrameworkInv, ReplyOnEvidence

LEMMA ReviewDraftKeeps ==
  ASSUME FrameworkInv, NEW t, NEW u \in User, NEW n \in Industry, NEW id \in DOMAIN drafts,
         NEW b \in ReviewBody, ReviewDraft(t, u, n, id, b)
  PROVE  FrameworkInv'
<1> DEFINE d == drafts[id]
           reviewer == IF b.reviewer = None THEN u ELSE b.reviewer
           role == IF b.role = None THEN "reviewer" ELSE b.role
<1>1. /\ d \in ArtifactDraft /\ DraftInv(d) /\ day' = day /\ startedOn' = startedOn
      /\ reviewer \in User
  BY BodiesAssumption DEF FrameworkInv, ReviewDraft
<1>2. reply'.kind # "workflow"
  BY RefusalSays DEF ReviewDraft
<1>3. \/ drafts' = drafts
      \/ MayMove(d, n, b.to, role) /\ drafts' = [drafts EXCEPT ![id] = Moved(d, n, b.to, reviewer)]
  BY DEF ReviewDraft
<1>4. drafts' \in Seq(ArtifactDraft) /\ \A i \in DOMAIN drafts' : DraftInv(drafts'[i])
  <2>1. CASE drafts' = drafts
    BY <2>1 DEF FrameworkInv
  <2>2. CASE /\ MayMove(d, n, b.to, role)
             /\ drafts' = [drafts EXCEPT ![id] = Moved(d, n, b.to, reviewer)]
    <3> HIDE DEF d, reviewer, role
    <3> QED
      BY <2>2, <1>1, MovedKeeps, ReplaceKeeps
  <2> QED
    BY <1>3, <2>1, <2>2
<1> QED
  BY <1>1, <1>2, <1>4 DEF FrameworkInv, ReplyOnEvidence

(* Requests that only read, the next day, a restart. *)
LEMMA ReadingKeeps ==
  ASSUME FrameworkInv, drafts' = drafts, day' = day, startedOn' = startedOn,
         reply'.kind # "workflow"
  PROVE  FrameworkInv'
BY DEF FrameworkInv, ReplyOnEvidence

LEMMA GetDraftSays ==
  ASSUME NEW n, NEW i, GetDraft(n, i)
  PROVE  reply'.kind = "get"
<1>1. CASE reply' = Refusal("get", "not found")
  BY <1>1, RefusalSays
<1>2. CASE reply' = [kind |-> "get", status |-> drafts[i].status, cites |-> drafts[i].cites,
                     draft |-> i, count |-> 0]
  BY <1>2
<1> QED
  BY <1>1, <1>2 DEF GetDraft

LEMMA NextDayKeeps ==
  ASSUME FrameworkInv, NextDay
  PROVE  FrameworkInv'
<1>1. day \in Nat /\ day' = day + 1 /\ day' \in 1..LastDay /\ startedOn' \in 1..day'
  BY BodiesAssumption DEF FrameworkInv, NextDay
<1>2. ReplyOnEvidence'
  BY <1>1, ReplyLasts DEF NextDay
<1> QED
  BY <1>1, <1>2 DEF FrameworkInv, NextDay

LEMMA RestartKeeps ==
  ASSUME IInv, Restart, PackRestart
  PROVE  IInv'
BY BodiesAssumption DEF IInv, FrameworkInv, EstateInv, FundInv, ReplyOnEvidence, Restart,
   PackRestart, Quiet

LEMMA FrameworkStepKeeps ==
  ASSUME FrameworkInv, FrameworkStep
  PROVE  FrameworkInv'
<1>1. CASE \E n \in Industry, w \in AskedWorkflow, b \in RunBody : RunWorkflow(n, w, b)
  BY <1>1, RunWorkflowKeeps
<1>2. CASE \E t \in Tenant, n \in Industry, y \in AskedType, b \in CreateBody :
             CreateDraft(t, n, y, b)
  BY <1>2, CreateDraftKeeps
<1>3. CASE \E t \in Tenant, u \in User, n \in Industry, b \in ReviewBody :
             \E i \in DOMAIN drafts : ReviewDraft(t, u, n, i, b)
  BY <1>3, ReviewDraftKeeps
<1>4. CASE \E n \in Industry, i \in 1..MaxRequests : GetDraft(n, i)
  BY <1>4, ReadingKeeps, GetDraftSays DEF GetDraft
<1>5. CASE \E n \in Industry, r \in UNION ImportBody, e \in {NoDate, SeedDate}, h \in BOOLEAN :
             EnrichDocument(n, r, e, h)
  BY <1>5, ReadingKeeps, RefusalSays DEF EnrichDocument
<1>6. CASE \E n \in Industry, t \in Tenant \cup {Blank}, r \in {{}, {"admin"}} :
             ShowDashboard(n, t, r)
  BY <1>6, ReadingKeeps, RefusalSays DEF ShowDashboard
<1> QED
  BY <1>1, <1>2, <1>3, <1>4, <1>5, <1>6, NextDayKeeps DEF FrameworkStep

----
(* The drafts of the two solutions. *)
LEMMA StoredDraftIsStored ==
  ASSUME NEW docs, NEW y \in PackType, NEW cites \in SUBSET docs, NEW sources \in SUBSET docs
  PROVE  /\ StoredDraft(y, cites, sources) \in Stored(docs)
         /\ ApprovalRemembered(StoredDraft(y, cites, sources))
BY DEF StoredDraft, Stored, ApprovalRemembered, DraftStatus, ComplianceStatus

LEMMA ReviewedIsStored ==
  ASSUME NEW docs, NEW d \in Stored(docs), NEW action \in ReviewAction, NEW u \in User \cup {None}
  PROVE  /\ Reviewed(d, action, u) \in Stored(docs)
         /\ ApprovalRemembered(d) => ApprovalRemembered(Reviewed(d, action, u))
<1>1. StatusAfter(action, d.status) \in DraftStatus
  BY DEF StatusAfter, DraftStatus
<1> QED
  BY <1>1 DEF Reviewed, Stored, ApprovalRemembered

(* A compliance approval needs the business approval at that moment. *)
LEMMA ComplianceKeeps ==
  ASSUME FundInv, NEW id \in DOMAIN fundDrafts, NEW action \in ComplianceAction,
         NEW u \in User \cup {None}, ComplianceReview(id, action, u)
  PROVE  FundInv'
<1> DEFINE d == fundDrafts[id]
           to == ComplianceStatusAfter(action, d.status)
           e == [d EXCEPT !.compliance = to, !.reviewer = IF u = None THEN @ ELSE u]
<1>1. d \in Stored(DOMAIN FundDocument) /\ ApprovalRemembered(d)
  BY DEF FundInv
<1>2. to \in ComplianceStatus /\ (to = "approved" => d.status = "approved")
  BY DEF ComplianceStatusAfter, ComplianceStatus
<1>3. /\ fundDrafts' = [fundDrafts EXCEPT ![id] = e]
      /\ disclosed' = disclosed
  BY DEF ComplianceReview
<1>4. e \in Stored(DOMAIN FundDocument) /\ ApprovalRemembered(e)
  BY <1>1, <1>2 DEF Stored, ApprovalRemembered
<1> HIDE DEF d, e
<1> QED
  BY <1>3, <1>4 DEF FundInv

LEMMA FundReviewKeeps ==
  ASSUME FundInv, NEW id \in DOMAIN fundDrafts, NEW action \in ReviewAction,
         NEW u \in User \cup {None}, FundReview(id, action, u)
  PROVE  FundInv'
<1> DEFINE e == Reviewed(fundDrafts[id], action, u)
<1>1. fundDrafts' = [fundDrafts EXCEPT ![id] = e] /\ disclosed' = disclosed
  BY DEF FundReview
<1>2. e \in Stored(DOMAIN FundDocument) /\ ApprovalRemembered(e)
  BY ReviewedIsStored DEF FundInv
<1> HIDE DEF e
<1> QED
  BY <1>1, <1>2 DEF FundInv

LEMMA StoreKeeps ==
  ASSUME FundInv, NEW y \in PackType, NEW cites \in SUBSET DOMAIN FundDocument,
         NEW sources \in SUBSET DOMAIN FundDocument, NEW counted,
         StoreFundDraft(y, cites, sources, counted)
  PROVE  FundInv'
<1> DEFINE e == StoredDraft(y, cites, sources)
           b == DisclosurePasses(sources)
<1>1. /\ fundDrafts' = Append(fundDrafts, e) /\ disclosed' = Append(disclosed, b)
      /\ b \in BOOLEAN
  BY DEF StoreFundDraft, DisclosurePasses
<1>2. e \in Stored(DOMAIN FundDocument) /\ ApprovalRemembered(e)
  BY StoredDraftIsStored
<1> HIDE DEF e, b
<1> QED
  BY <1>1, <1>2 DEF FundInv

LEMMA FundDraftKeeps ==
  ASSUME FundInv, NEW user, NEW y \in PackType, NEW cited \in SUBSET DOMAIN FundDocument,
         NEW sources \in SUBSET DOMAIN FundDocument, NEW counted,
         FundDraft(user, y, cited, sources, counted)
  PROVE  FundInv'
<1>1. FundCitations(user, cited) \in SUBSET DOMAIN FundDocument
  BY DEF FundCitations
<1>2. StoreFundDraft(y, FundCitations(user, cited), sources, counted)
  BY DEF FundDraft
<1> QED
  BY <1>1, <1>2, StoreKeeps

LEMMA FundSources ==
  /\ RfpSources \subseteq DOMAIN FundDocument /\ DdqSources \subseteq DOMAIN FundDocument
  /\ InquirySources \subseteq DOMAIN FundDocument
  /\ MonthlySources \subseteq DOMAIN FundDocument /\ MonthlyCited \subseteq DOMAIN FundDocument
BY DEF RfpSources, DdqSources, InquirySources, MonthlySources, MonthlyCited, FundDocument

LEMMA MarketingKeeps ==
  ASSUME FundInv, NEW user, NEW m, MarketingCheck(user, m)
  PROVE  FundInv'
<1> DEFINE sources == MarketingSources(user)
           cites == {x \in sources : FundDocument[x].cited}
<1>1. sources \in SUBSET DOMAIN FundDocument /\ cites \in SUBSET DOMAIN FundDocument
  BY DEF MarketingSources
<1>2. \E counted : StoreFundDraft("marketing_material_comment", cites, sources, counted)
  BY DEF MarketingCheck
<1>3. "marketing_material_comment" \in PackType
  BY DEF PackType
<1> HIDE DEF sources, cites
<1> QED
  BY <1>1, <1>2, <1>3, StoreKeeps

LEMMA FundStepKeeps ==
  ASSUME FundInv, NEW t, NEW l, FundStep(t, l)
  PROVE  FundInv'
<1> DEFINE user == FundUser(t, l)
<1>1. ASSUME fundDrafts' = fundDrafts, disclosed' = disclosed
      PROVE  FundInv'
  BY <1>1 DEF FundInv
<1>2. CASE \/ \E h \in SUBSET {"im_advice"}, a \in {None, "order_execution"} : FundQuestion(t, l, h, a)
           \/ ComplianceRuleQuestion(t, l)
           \/ \E f \in {"FUND-001", "FUND-002"} : FundKnowledge(t, l, f)
           \/ \E i \in 1..MaxRequests : DisclosureEvidence(i)
           \/ FundDashboard(l)
           \/ \E b \in ImportBody : FundImport(b)
  BY <1>1, <1>2 DEF FundQuestion, ComplianceRuleQuestion, FundKnowledge, DisclosureEvidence,
     FundDashboard, FundImport
<1>3. CASE RfpDraft(user) \/ DdqDraft(user) \/ InquiryDraft(user) \/ MonthlyDraft(user)
  <2>1. PICK y \in PackType, cited \in SUBSET DOMAIN FundDocument,
             sources \in SUBSET DOMAIN FundDocument :
          \E counted : FundDraft(user, y, cited, sources, counted)
    BY <1>3, FundSources DEF RfpDraft, DdqDraft, InquiryDraft, MonthlyDraft, PackType
  <2> QED
    BY <2>1, FundDraftKeeps
<1>4. CASE \E m \in Material : MarketingCheck(user, m)
  BY <1>4, MarketingKeeps
<1>5. CASE \E i \in DOMAIN fundDrafts, u \in User \cup {None}, a \in ReviewAction : FundReview(i, a, u)
  BY <1>5, FundReviewKeeps
<1>6. CASE \E i \in DOMAIN fundDrafts, u \in User \cup {None}, a \in ComplianceAction :
             ComplianceReview(i, a, u)
  BY <1>6, ComplianceKeeps
<1> QED
  BY <1>2, <1>3, <1>4, <1>5, <1>6 DEF FundStep

LEMMA EstateDraftKeeps ==
  ASSUME EstateInv, NEW t, NEW l, NEW y \in DOMAIN EstateSources, EstateDraft(t, l, y)
  PROVE  EstateInv'
<1> DEFINE cites == EstateCitations(EstateUser(t, l), EstateSources[y])
           e == StoredDraft(y, cites, EstateSources[y])
<1>1. y \in PackType /\ EstateSources[y] \in SUBSET DOMAIN EstateDocument
  <2>1. y \in {"occupant_reply", "owner_report", "move_out_checklist", "restoration_explanation"}
    BY DEF EstateSources
  <2>2. {"repairs", "rules", "estimate", "invoice", "lease", "moveOut"} \subseteq DOMAIN EstateDocument
    BY DEF EstateDocument
  <2>3. EstateSources[y] \subseteq {"repairs", "rules", "estimate", "invoice", "lease", "moveOut"}
    BY <2>1 DEF EstateSources
  <2> QED
    BY <2>1, <2>2, <2>3 DEF PackType
<1>2. cites \in SUBSET DOMAIN EstateDocument
  BY <1>1 DEF EstateCitations
<1>3. estateDrafts' = Append(estateDrafts, e)
  BY DEF EstateDraft
<1>4. e \in Stored(DOMAIN EstateDocument)
  BY <1>1, <1>2, StoredDraftIsStored
<1> HIDE DEF e
<1> QED
  BY <1>3, <1>4 DEF EstateInv

LEMMA EstateReviewKeeps ==
  ASSUME EstateInv, NEW id \in DOMAIN estateDrafts, NEW action \in ReviewAction,
         NEW u \in User \cup {None}, EstateReview(id, action, u)
  PROVE  EstateInv'
<1> DEFINE e == Reviewed(estateDrafts[id], action, u)
<1>1. estateDrafts' = [estateDrafts EXCEPT ![id] = e]
  BY DEF EstateReview
<1>2. e \in Stored(DOMAIN EstateDocument)
  BY ReviewedIsStored DEF EstateInv
<1> HIDE DEF e
<1> QED
  BY <1>1, <1>2 DEF EstateInv

LEMMA EstateStepKeeps ==
  ASSUME EstateInv, NEW t, NEW l, EstateStep(t, l)
  PROVE  EstateInv'
<1>1. CASE \E y \in DOMAIN EstateSources : EstateDraft(t, l, y)
  BY <1>1, EstateDraftKeeps
<1>2. CASE \E i \in DOMAIN estateDrafts, a \in ReviewAction, u \in User \cup {None} : EstateReview(i, a, u)
  BY <1>2, EstateReviewKeeps
<1>3. CASE estateDrafts' = estateDrafts
  BY <1>3 DEF EstateInv
<1> QED
  BY <1>1, <1>2, <1>3 DEF EstateStep, ContractQuestion, RepairInvestigation, EstateKnowledge,
     EstateDashboard, EstateImport, EstateUnchanged

----
(* A request to either solution leaves the framework's and the other's drafts alone. *)
LEMMA EstateLeavesFund ==
  ASSUME NEW t, NEW l, EstateStep(t, l)
  PROVE  FundUnchanged
BY DEF EstateStep, ContractQuestion, RepairInvestigation, EstateDraft, EstateReview,
   EstateKnowledge, EstateDashboard, EstateImport

LEMMA FundLeavesEstate ==
  ASSUME NEW t, NEW l, FundStep(t, l)
  PROVE  EstateUnchanged
BY DEF FundStep, FundQuestion, ComplianceRuleQuestion, RfpDraft, DdqDraft, InquiryDraft,
   MonthlyDraft, FundDraft, MarketingCheck, FundReview, ComplianceReview, FundKnowledge,
   DisclosureEvidence, FundDashboard, FundImport

PackReplyKind ==
  {"contract", "repairs", "estate draft", "estate review", "estate knowledge",
   "estate dashboard", "import", "fund", "compliance", "fund draft", "marketing",
   "fund review", "compliance review", "fund knowledge", "disclosure", "fund dashboard"}

(* A reply of kind k in one of the forms the requests fill in. *)
Replies(k) ==
  \E st, c, id, n :
    \/ reply' = Refusal(k, st) \/ reply' = Answer(k, st, c)
    \/ reply' = [Refusal(k, st) EXCEPT !.draft = id] \/ reply' = [Refusal(k, st) EXCEPT !.count = n]
    \/ reply' = [Refusal(k, st) EXCEPT !.draft = id, !.count = n]
    \/ reply' = [Answer(k, st, c) EXCEPT !.draft = id] \/ reply' = [Answer(k, st, c) EXCEPT !.count = n]

LEMMA RepliesSayTheirKind ==
  ASSUME NEW k \in PackReplyKind, Replies(k)
  PROVE  reply'.kind \in PackReplyKind
<1>1. PICK st, c, id, n :
        \/ reply' = Refusal(k, st) \/ reply' = Answer(k, st, c)
        \/ reply' = [Refusal(k, st) EXCEPT !.draft = id]
        \/ reply' = [Refusal(k, st) EXCEPT !.count = n]
        \/ reply' = [Refusal(k, st) EXCEPT !.draft = id, !.count = n]
        \/ reply' = [Answer(k, st, c) EXCEPT !.draft = id]
        \/ reply' = [Answer(k, st, c) EXCEPT !.count = n]
  BY Zenon DEF Replies
<1> DEFINE fields == {"kind", "status", "cites", "draft", "count"}
<1>2. DOMAIN Refusal(k, st) = fields /\ Refusal(k, st).kind = k
  BY RefusalSays
<1>3. DOMAIN Answer(k, st, c) = fields /\ Answer(k, st, c).kind = k
  BY <1>2 DEF Answer
<1>4. /\ [Refusal(k, st) EXCEPT !.draft = id].kind = k
      /\ [Refusal(k, st) EXCEPT !.count = n].kind = k
      /\ [Refusal(k, st) EXCEPT !.draft = id, !.count = n].kind = k
  BY <1>2
<1>5. /\ [Answer(k, st, c) EXCEPT !.draft = id].kind = k
      /\ [Answer(k, st, c) EXCEPT !.count = n].kind = k
  BY <1>3
<1> QED
  BY <1>1, <1>2, <1>3, <1>4, <1>5, Zenon

LEMMA EstateRequestServes ==
  ASSUME NEW t, NEW l, EstateStep(t, l)
  PROVE  ServePack /\ \E k \in PackReplyKind : Replies(k)
<1>1. ASSUME ContractQuestion(t, l)
      PROVE  ServePack /\ Replies("contract")
  BY <1>1, Zenon DEF ContractQuestion, Replies
<1>2. ASSUME RepairInvestigation(t, l)
      PROVE  ServePack /\ Replies("repairs")
  BY <1>2, Zenon DEF RepairInvestigation, Replies
<1>3. ASSUME NEW y, EstateDraft(t, l, y)
      PROVE  ServePack /\ Replies("estate draft")
  BY <1>3, Zenon DEF EstateDraft, Replies
<1>4. ASSUME NEW i, NEW a, NEW u, EstateReview(i, a, u)
      PROVE  ServePack /\ Replies("estate review")
  BY <1>4, Zenon DEF EstateReview, Replies
<1>5. ASSUME NEW p, EstateKnowledge(t, l, p)
      PROVE  ServePack /\ Replies("estate knowledge")
  BY <1>5, Zenon DEF EstateKnowledge, Replies
<1>6. ASSUME EstateDashboard(l)
      PROVE  ServePack /\ Replies("estate dashboard")
  BY <1>6, Zenon DEF EstateDashboard, Replies
<1>7. ASSUME NEW b, EstateImport(b)
      PROVE  ServePack /\ Replies("import")
  BY <1>7, Zenon DEF EstateImport, Replies
<1>8. \A k \in {"contract", "repairs", "estate draft", "estate review", "estate knowledge", "estate dashboard", "import"} : k \in PackReplyKind
  BY DEF PackReplyKind
<1> QED
  BY <1>1, <1>2, <1>3, <1>4, <1>5, <1>6, <1>7, <1>8
     DEF EstateStep

LEMMA FundRequestServes ==
  ASSUME NEW t, NEW l, FundStep(t, l)
  PROVE  ServePack /\ \E k \in PackReplyKind : Replies(k)
<1>1. ASSUME NEW h, NEW a, FundQuestion(t, l, h, a)
      PROVE  ServePack /\ Replies("fund")
  BY <1>1, Zenon DEF FundQuestion, Replies
<1>2. ASSUME ComplianceRuleQuestion(t, l)
      PROVE  ServePack /\ Replies("compliance")
  BY <1>2, Zenon DEF ComplianceRuleQuestion, Replies
<1>3. ASSUME NEW user, NEW y, NEW cited, NEW sources, NEW counted, FundDraft(user, y, cited, sources, counted)
      PROVE  ServePack /\ Replies("fund draft")
  BY <1>3, Zenon DEF FundDraft, Replies
<1>4. ASSUME NEW user, NEW m, MarketingCheck(user, m)
      PROVE  ServePack /\ Replies("marketing")
  BY <1>4, Zenon DEF MarketingCheck, Replies
<1>5. ASSUME NEW i, NEW a, NEW u, FundReview(i, a, u)
      PROVE  ServePack /\ Replies("fund review")
  BY <1>5, Zenon DEF FundReview, Replies
<1>6. ASSUME NEW i, NEW a, NEW u, ComplianceReview(i, a, u)
      PROVE  ServePack /\ Replies("compliance review")
  BY <1>6, Zenon DEF ComplianceReview, Replies
<1>7. ASSUME NEW f, FundKnowledge(t, l, f)
      PROVE  ServePack /\ Replies("fund knowledge")
  BY <1>7, Zenon DEF FundKnowledge, Replies
<1>8. ASSUME NEW i, DisclosureEvidence(i)
      PROVE  ServePack /\ Replies("disclosure")
  BY <1>8, Zenon DEF DisclosureEvidence, Replies
<1>9. ASSUME FundDashboard(l)
      PROVE  ServePack /\ Replies("fund dashboard")
  BY <1>9, Zenon DEF FundDashboard, Replies
<1>10. ASSUME NEW b, FundImport(b)
      PROVE  ServePack /\ Replies("import")
  BY <1>10, Zenon DEF FundImport, Replies
<1>11. \A k \in {"fund", "compliance", "fund draft", "marketing", "fund review", "compliance review", "fund knowledge", "disclosure", "fund dashboard", "import"} : k \in PackReplyKind
  BY DEF PackReplyKind
<1> QED
  BY <1>1, <1>2, <1>3, <1>4, <1>5, <1>6, <1>7, <1>8, <1>9, <1>10, <1>11
     DEF FundStep, RfpDraft, DdqDraft, InquiryDraft, MonthlyDraft

LEMMA PackRequestServes ==
  ASSUME NEW t, NEW l, EstateStep(t, l) \/ FundStep(t, l)
  PROVE  Serve /\ UNCHANGED <<drafts, day, startedOn>> /\ reply'.kind # "workflow"
<1>1. "workflow" \notin PackReplyKind
  BY DEF PackReplyKind
<1> QED
  BY <1>1, EstateRequestServes, FundRequestServes, RepliesSayTheirKind DEF ServePack

----
(* Every step keeps the inductive invariant. *)
LEMMA InitEstablishes ==
  Init => IInv
BY BodiesAssumption DEF Init, WorkflowInit, PackInit, IInv, FrameworkInv, EstateInv, FundInv,
   ReplyOnEvidence, Quiet

LEMMA StepKeeps ==
  IInv /\ [Next]_vars => IInv'
<1> SUFFICES ASSUME IInv, [Next]_vars
             PROVE  IInv'
  OBVIOUS
<1>0. requests \in Nat /\ MaxRequests \in Nat
  BY BodiesAssumption DEF IInv
<1>1. CASE FrameworkStep
  <2>1. requests' \in 0..MaxRequests
    <3>1. Serve \/ requests' = requests
      BY <1>1 DEF FrameworkStep, RunWorkflow, CreateDraft, ReviewDraft, GetDraft,
         EnrichDocument, ShowDashboard, NextDay
    <3> QED
      BY <1>0, <3>1 DEF IInv, Serve
  <2>2. FrameworkInv'
    BY <1>1, FrameworkStepKeeps DEF IInv
  <2>3. EstateInv' /\ FundInv'
    BY <1>1 DEF FrameworkStep, IInv, EstateInv, FundInv, packVars
  <2> QED
    BY <2>1, <2>2, <2>3 DEF IInv
<1>2. CASE Restart /\ PackRestart
  BY <1>2, RestartKeeps
<1>4. ASSUME NEW t, NEW l, EstateStep(t, l) \/ FundStep(t, l)
      PROVE  IInv'
  <2>1. Serve /\ UNCHANGED <<drafts, day, startedOn>> /\ reply'.kind # "workflow"
    BY <1>4, PackRequestServes
  <2>2. requests' \in 0..MaxRequests
    BY <1>0, <2>1 DEF IInv, Serve
  <2>3. FrameworkInv'
    BY <2>1, ReadingKeeps DEF IInv
  <2>4. EstateInv' /\ FundInv'
    <3>1. CASE EstateStep(t, l)
      BY <3>1, EstateStepKeeps, EstateLeavesFund DEF IInv, FundInv, FundUnchanged
    <3>2. CASE FundStep(t, l)
      BY <3>2, FundStepKeeps, FundLeavesEstate DEF IInv, EstateInv, EstateUnchanged
    <3> QED
      BY <1>4, <3>1, <3>2
  <2> QED
    BY <2>2, <2>3, <2>4 DEF IInv
<1>3. CASE UNCHANGED vars
  BY <1>3 DEF vars, workflowVars, packVars, IInv, FrameworkInv, EstateInv, FundInv, ReplyOnEvidence
<1> QED
  BY <1>1, <1>2, <1>3, <1>4 DEF Next

----
LEMMA InvHolds == Spec => []IInv
BY InitEstablishes, StepKeeps, PTL DEF Spec

(* Stored drafts are well formed, the disclosure evidence is one entry per draft of    *)
(* the investment solution, and the services never know a day that has not come.       *)
THEOREM TypeCorrect == Spec => []TypeOK
<1>1. IInv => TypeOK
  <2> SUFFICES ASSUME IInv
               PROVE  TypeOK
    OBVIOUS
  <2>1. \A i \in DOMAIN drafts : drafts[i] \in ArtifactDraft /\ DraftInv(drafts[i])
    BY DEF IInv, FrameworkInv
  <2>2. \A d \in ArtifactDraft : DraftInv(d) => DraftFields(d)
    BY DEF DraftInv, OfItsIndustry, ArtifactDraft, DraftFields
  <2>3. \A i \in DOMAIN estateDrafts : estateDrafts[i] \in Stored(DOMAIN EstateDocument)
    BY DEF IInv, EstateInv
  <2>4. \A i \in DOMAIN fundDrafts : fundDrafts[i] \in Stored(DOMAIN FundDocument)
    BY DEF IInv, FundInv
  <2>5. \A docs : \A d \in Stored(docs) : StoredFields(d, docs)
    BY DEF Stored, StoredFields, ComplianceStatus
  <2> QED
    BY <2>1, <2>2, <2>3, <2>4, <2>5 DEF IInv, FrameworkInv, FundInv, TypeOK
<1> QED
  BY <1>1, InvHolds, PTL

(* A draft is approved only by a named person and out of a review, whichever routes      *)
(* created and moved it.                                                              *)
THEOREM DraftsAreReviewed == Spec => []ApprovedWasReviewed
<1>1. IInv => ApprovedWasReviewed
  BY DEF IInv, FrameworkInv, DraftInv, OutOfReview, ApprovedWasReviewed
<1> QED
  BY <1>1, InvHolds, PTL

(* A draft is never moved under the review policy of another industry, though the        *)
(* request names the industry freely.                                                 *)
THEOREM OwnPolicyOnly == Spec => []ReviewedUnderItsPolicy
<1>1. IInv => ReviewedUnderItsPolicy
  BY DEF IInv, FrameworkInv, DraftInv, OwnPolicy, ReviewedUnderItsPolicy
<1> QED
  BY <1>1, InvHolds, PTL

(* What a workflow drafted or answered rested on approved citations that were effective  *)
(* on that day, also in a process that took an earlier day for today.                    *)
THEOREM WorkflowsRestOnEvidence == Spec => []RestsOnEvidence
<1>1. IInv => RestsOnEvidence
  BY DEF IInv, FrameworkInv, DraftInv, OnEvidence, ReplyOnEvidence, RestsOnEvidence
<1> QED
  BY <1>1, InvHolds, PTL

(* A compliance approval is given only to a draft the business review approved before,   *)
(* in whatever order and however often the two reviews act.                              *)
THEOREM ComplianceComesSecond == Spec => []ComplianceFollowsApproval
<1>1. IInv => ComplianceFollowsApproval
  BY DEF IInv, FundInv, ApprovalRemembered, ComplianceFollowsApproval
<1> QED
  BY <1>1, InvHolds, PTL

----
(* The operators of the reports and of the gate before a release, for every log, run    *)
(* and baseline.                                                                         *)

(* The reasons of the blocked answers add up to their number, in every scope.        *)
THEOREM BreakdownAddsUp ==
  ASSUME NEW log, IsFiniteSet(DOMAIN log), NEW s,
         \A i \in DOMAIN log : log[i].block \in BlockReason \cup {Nothing},
         Nothing \notin BlockReason
  PROVE  Telemetry(log, s).blocked =
           Cardinality(BlockedFor(log, s, "approved_citation_missing"))
             + Cardinality(BlockedFor(log, s, "insufficient_evidence"))
             + Cardinality(BlockedFor(log, s, "other_block"))
<1> DEFINE A == BlockedFor(log, s, "approved_citation_missing")
           B == BlockedFor(log, s, "insufficient_evidence")
           C == BlockedFor(log, s, "other_block")
<1>1. BlockedIn(log, s) = (A \cup B) \cup C
  BY DEF BlockedIn, BlockedFor, BlockReason
<1>2. /\ A \subseteq DOMAIN log /\ B \subseteq DOMAIN log /\ C \subseteq DOMAIN log
      /\ A \cap B = {} /\ (A \cup B) \cap C = {}
  BY DEF BlockedIn, BlockedFor
<1> HIDE DEF A, B, C
<1>3. IsFiniteSet(A) /\ IsFiniteSet(B) /\ IsFiniteSet(C)
  BY <1>2, FS_Subset
<1>4. /\ Cardinality({}) = 0 /\ IsFiniteSet(A \cup B)
      /\ Cardinality(A) \in Nat /\ Cardinality(B) \in Nat
      /\ Cardinality(C) \in Nat /\ Cardinality(A \cup B) \in Nat
  <2>1. IsFiniteSet(A \cup B)
    BY <1>3, FS_Union
  <2> QED
    BY <2>1, <1>3, FS_EmptySet, FS_CardinalityType
<1>5. Cardinality(A \cup B) = Cardinality(A) + Cardinality(B) - Cardinality(A \cap B)
  BY <1>3, FS_Union
<1>6. Cardinality((A \cup B) \cup C)
        = Cardinality(A \cup B) + Cardinality(C) - Cardinality((A \cup B) \cap C)
  BY <1>3, <1>4, FS_Union
<1>7. Cardinality(A \cap B) = 0 /\ Cardinality((A \cup B) \cap C) = 0
  BY <1>2, <1>4, Zenon
<1>8. /\ Cardinality(A \cup B) = Cardinality(A) + Cardinality(B)
      /\ Cardinality((A \cup B) \cup C) = Cardinality(A \cup B) + Cardinality(C)
  <2> DEFINE ab == Cardinality(A \cap B)
             abc == Cardinality((A \cup B) \cap C)
  <2>1. ab = 0 /\ abc = 0
    BY <1>7
  <2>2. /\ Cardinality(A \cup B) = Cardinality(A) + Cardinality(B) - ab
        /\ Cardinality((A \cup B) \cup C) = Cardinality(A \cup B) + Cardinality(C) - abc
    BY <1>5, <1>6
  <2> HIDE DEF ab, abc
  <2> QED
    BY <2>1, <2>2, <1>4
<1> QED
  BY <1>1, <1>8 DEF Telemetry, A, B, C

(* A narrower scope counts no more than everything does.                             *)
THEOREM ScopeCountsNoMore ==
  ASSUME NEW log, IsFiniteSet(DOMAIN log), NEW s
  PROVE  /\ Telemetry(log, s).blocked <= Telemetry(log, Everything).blocked
         /\ Telemetry(log, s).highRisk <= Telemetry(log, Everything).highRisk
<1>1. /\ BlockedIn(log, s) \subseteq BlockedIn(log, Everything)
      /\ HighRiskIn(log, s) \subseteq HighRiskIn(log, Everything)
  BY DEF BlockedIn, HighRiskIn, InScope, Everything
<1>2. IsFiniteSet(BlockedIn(log, Everything)) /\ IsFiniteSet(HighRiskIn(log, Everything))
  BY FS_Subset DEF BlockedIn, HighRiskIn
<1> QED
  BY <1>1, <1>2, FS_Subset DEF Telemetry

(* An entry added to a log is its last one, and those before it stay. *)
LEMMA Appended ==
  ASSUME NEW S, NEW log \in Seq(S), NEW e
  PROVE  /\ DOMAIN log = 1..Len(log) /\ Len(log) \in Nat
         /\ DOMAIN Append(log, e) = 1..(Len(log) + 1)
         /\ Append(log, e)[Len(log) + 1] = e
         /\ \A i \in 1..Len(log) : Append(log, e)[i] = log[i]
<1>1. log \in Seq(S \cup {e})
  OBVIOUS
<1> QED
  BY <1>1

(* What an answer leaves in the log. *)
LEMMA AnswerIsRecorded ==
  ASSUME NEW S, NEW log \in Seq(S), NEW a, NEW who, NEW factory, NEW time,
         a.block \in BlockReason \cup {Nothing}
  PROVE  \E e : /\ RecordAnswer(log, a, who, factory, time) = Append(log, e)
               /\ e.action = AnswerAction /\ e.decision = a.status /\ e.block = a.block
<1> DEFINE plain == [Entry(AnswerAction, a.status, a.id, time) EXCEPT
                       !.reasons = a.reasons, !.highRisk = a.highRisk,
                       !.block = a.block, !.docs = a.docs, !.cites = a.cites,
                       !.collection = a.collection, !.obsolete = a.obsolete]
           e == Stamped(plain, who, factory)
<1>1. /\ plain.action = AnswerAction /\ plain.decision = a.status /\ plain.block = a.block
      /\ {"factory", "department", "action", "decision", "block"} \subseteq DOMAIN plain
  BY DEF Entry
<1> HIDE DEF plain
<1>2. e.action = AnswerAction /\ e.decision = a.status /\ e.block = a.block
  BY <1>1 DEF Stamped
<1>3. RecordAnswer(log, a, who, factory, time) = Append(log, e)
  BY DEF RecordAnswer, plain
<1> QED
  BY <1>2, <1>3

(* An answer that was refused or blocked is in the queue as soon as it is recorded.   *)
THEOREM RefusalIsQueued ==
  ASSUME NEW S, NEW log \in Seq(S), NEW a, NEW who, NEW factory, NEW time,
         a.block \in BlockReason \cup {Nothing},
         a.status = "insufficient_evidence" \/ (a.block # Nothing /\ a.status # "ok")
  PROVE  Len(log) + 1 \in Improvements(RecordAnswer(log, a, who, factory, time))
<1>1. PICK e : /\ RecordAnswer(log, a, who, factory, time) = Append(log, e)
               /\ e.action = AnswerAction /\ e.decision = a.status /\ e.block = a.block
  BY AnswerIsRecorded
<1> DEFINE after == Append(log, e)
<1>2. Len(log) + 1 \in DOMAIN after /\ after[Len(log) + 1] = e
  BY Appended
<1> HIDE DEF after
<1>3. Len(log) + 1 \in Refusals(after)
  BY <1>1, <1>2 DEF Refusals, AnswerEntries, With
<1> QED
  BY <1>1, <1>3 DEF Improvements, after

(* The evidence pack of a period counts no more questions for an answer recorded in    *)
(* it: what is counted is an action nobody records.                                 *)
THEOREM PackCountsNoAnswer ==
  ASSUME NEW S, NEW log \in Seq(S), NEW a, NEW who, NEW factory, NEW time,
         NEW from, NEW to, NEW holds
  PROVE  EvidencePack(RecordAnswer(log, a, who, factory, time), from, to, holds).questions
           = EvidencePack(log, from, to, holds).questions
<1> DEFINE counted(l) == {i \in {j \in DOMAIN l : InPeriod(l[j], from, to)} :
                            l[i].action \in {PackAnswerAction}}
           after == RecordAnswer(log, a, who, factory, time)
<1>1. \A l : EvidencePack(l, from, to, holds).questions = Cardinality(counted(l))
  BY DEF EvidencePack
<1>2. counted(after) = counted(log)
  <2>1. CASE a.block \notin BlockReason \cup {Nothing}
    BY <2>1 DEF RecordAnswer
  <2>2. CASE a.block \in BlockReason \cup {Nothing}
    <3>1. PICK e : after = Append(log, e) /\ e.action = AnswerAction
      BY <2>2, AnswerIsRecorded
    <3>2. /\ DOMAIN log = 1..Len(log) /\ Len(log) \in Nat
          /\ DOMAIN after = 1..(Len(log) + 1) /\ after[Len(log) + 1] = e
          /\ \A i \in 1..Len(log) : after[i] = log[i]
      BY <3>1, Appended
    <3>3. e.action # PackAnswerAction
      BY <3>1 DEF AnswerAction, PackAnswerAction
    <3> HIDE DEF after
    <3>4. \A i \in DOMAIN after : i \in DOMAIN log \/ i = Len(log) + 1
      BY <3>2
    <3>5. \A i : i \in counted(after) <=> i \in counted(log)
      BY <3>2, <3>3, <3>4
    <3> QED
      BY <3>5
  <2> QED
    BY <2>1, <2>2
<1> QED
  BY <1>1, <1>2

(* Every trouble shown was reported by a document the reader's search had found and   *)
(* the filters let through, and proposes nothing as more than a candidate.           *)
THEOREM TroublesAreFoundCandidates ==
  ASSUME NEW retrieved, NEW cases, NEW meta, NEW filters,
         NEW m \in TroubleMatches(retrieved, cases, meta, filters)
  PROVE  /\ \E i \in DOMAIN retrieved :
               /\ m.citation.doc = retrieved[i].doc
               /\ MatchesFilters(meta[retrieved[i].doc], filters)
               /\ cases[retrieved[i].doc].name = m.case
         /\ \A class \in {"provisional", "permanent"} :
               \A x \in m.measures[class] : x.type = "candidate" /\ x.class = class
<1>1. PICK i \in SimilarCases(retrieved, cases, meta, filters) :
        m = Assembled(retrieved[i], cases[retrieved[i].doc], meta[retrieved[i].doc])
  BY DEF TroubleMatches
<1>2. i \in DOMAIN retrieved /\ MatchesFilters(meta[retrieved[i].doc], filters)
  BY DEF SimilarCases, Reporting, MfgSearch
<1>3. /\ m.citation.doc = retrieved[i].doc /\ m.case = cases[retrieved[i].doc].name
      /\ m.measures = SplitMeasures(cases[retrieved[i].doc].measures)
  BY <1>1 DEF Assembled
<1>4. \A measures : \A class \in {"provisional", "permanent"} :
        \A x \in SplitMeasures(measures)[class] : x.type = "candidate" /\ x.class = class
  BY DEF SplitMeasures, Normalized
<1> QED
  BY <1>2, <1>3, <1>4

(* A scope without a subject lets nobody read anything, and no grant of one tenant       *)
(* opens a document of another.                                                     *)
THEOREM ScopesStayInTheirTenant ==
  ASSUME NEW grants, NEW scope, NEW who, NEW chunk,
         \/ scope.roles = {} /\ scope.department = Nothing
         \/ scope.tenant # chunk.tenant
         \/ who.tenant # chunk.tenant
  PROVE  CanRead(ApplyScope(grants, scope), who, chunk) <=> CanRead(grants, who, chunk)
<1>1. \A g \in GrantsForScope(scope) : g.tenant = scope.tenant
  BY DEF GrantsForScope
<1>2. scope.roles = {} /\ scope.department = Nothing => GrantsForScope(scope) = {}
  BY DEF GrantsForScope, Subjects
<1> QED
  BY <1>1, <1>2 DEF CanRead, ApplyScope

(* What is not allowed is the last entry of the log afterwards, named as denied.        *)
THEOREM DenialIsRecorded ==
  ASSUME NEW S, NEW log \in Seq(S), NEW grants, NEW who, NEW chunk, NEW time,
         who # Nothing,
         ~CanRead(grants, who, chunk)
  PROVE  LET after == AuditedRead(log, grants, who, chunk, time)
         IN /\ ~after.allowed
            /\ Len(after.log) = Len(log) + 1
            /\ after.log[Len(log) + 1].action = "acl.denied"
            /\ after.log[Len(log) + 1].resource = chunk.doc
<1> DEFINE denial(reason) == RecordDenial(log, who, chunk.doc, reason, time)
<1>1. \A reason : /\ Len(denial(reason)) = Len(log) + 1
                  /\ denial(reason)[Len(log) + 1].action = "acl.denied"
                  /\ denial(reason)[Len(log) + 1].resource = chunk.doc
  <2> TAKE reason
  <2> DEFINE plain == [Entry("acl.denied", "denied", chunk.doc, time) EXCEPT !.reasons = {reason}]
             e == Stamped(plain, who, Nothing)
  <2>1. /\ plain.action = "acl.denied" /\ plain.resource = chunk.doc
        /\ {"factory", "department", "action", "resource"} \subseteq DOMAIN plain
    BY DEF Entry
  <2> HIDE DEF plain
  <2>2. e.action = "acl.denied" /\ e.resource = chunk.doc
    BY <2>1 DEF Stamped
  <2>3. denial(reason) = Append(log, e)
    BY DEF RecordDenial, plain
  <2> HIDE DEF e
  <2>4. /\ DOMAIN Append(log, e) = 1..(Len(log) + 1) /\ Len(log) \in Nat
        /\ Append(log, e)[Len(log) + 1] = e
    BY Appended
  <2>5. Len(Append(log, e)) = Len(log) + 1
    <3>1. log \in Seq(S \cup {e})
      OBVIOUS
    <3> QED
      BY <3>1
  <2> QED
    BY <2>2, <2>3, <2>4, <2>5
<1>2. \/ AuditedRead(log, grants, who, chunk, time) =
            [allowed |-> FALSE, raised |-> TRUE, log |-> denial("tenant_isolation_denied")]
      \/ AuditedRead(log, grants, who, chunk, time) =
            [allowed |-> FALSE, raised |-> FALSE, log |-> denial("acl_denied")]
  BY DEF AuditedRead
<1> HIDE DEF denial
<1> QED
  BY <1>1, <1>2

(* A run whose gate passed ran every probe it had and none of the known ones found      *)
(* anything, whatever counts the caller gave.                                       *)
THEOREM CallersCannotClear ==
  ASSUME NEW metrics, NEW results, NEW counts, NEW baseline, NEW versions,
         \A p \in DOMAIN results : results[p].leaks \in Nat,
         \A k \in DOMAIN counts : counts[k] \in Int,
         RunEvaluation(metrics, results, counts, baseline, versions).gate = "passed"
  PROVE  /\ DOMAIN results # {} /\ \A p \in DOMAIN results : results[p].executed
         /\ \A p \in DOMAIN results \cap Probe : results[p].leaks = 0
<1>1. ProbesExecuted(results) /\ AllPassed(SecurityChecks(results, counts))
  BY DEF RunEvaluation
<1>2. ASSUME NEW p \in DOMAIN results \cap Probe
      PROVE  results[p].leaks = 0
  <2>1. EffectiveCount(results, counts, p) = 0
    BY <1>1, <1>2 DEF AllPassed, SecurityChecks
  <2>2. CountOf(counts, p) \in Int
    BY DEF CountOf
  <2>3. results[p].leaks \in Nat
    OBVIOUS
  <2>4. EffectiveCount(results, counts, p) =
          IF results[p].leaks < CountOf(counts, p) THEN CountOf(counts, p) ELSE results[p].leaks
    BY DEF EffectiveCount
  <2> QED
    BY <2>1, <2>2, <2>3, <2>4
<1> QED
  BY <1>1, <1>2 DEF ProbesExecuted

(* Joining the key figures never opens a gate that was closed, and closes one when a    *)
(* count of theirs is not 0.                                                        *)
THEOREM AttachNeverUnblocks ==
  ASSUME NEW run, NEW kpis, NEW counts, NEW baseline,
         {"metrics", "comparison", "checks", "gate"} \subseteq DOMAIN run
  PROVE  /\ run.gate # "passed" => AttachKpis(run, kpis, counts, baseline).gate # "passed"
         /\ (\E k \in KpiChecks : CountOf(counts, k) # 0)
              => AttachKpis(run, kpis, counts, baseline).gate = "blocked"
<1> DEFINE checks == [name \in DOMAIN run.checks \cup KpiChecks |->
                        IF name \in KpiChecks
                        THEN [passed |-> CountOf(counts, name) = 0, count |-> CountOf(counts, name)]
                        ELSE run.checks[name]]
<1>1. AttachKpis(run, kpis, counts, baseline).gate = IF AllPassed(checks) THEN run.gate ELSE "blocked"
  BY DEF AttachKpis
<1>2. \A k \in KpiChecks : k \in DOMAIN checks /\ checks[k].passed = (CountOf(counts, k) = 0)
  OBVIOUS
<1> HIDE DEF checks
<1>3. (\E k \in KpiChecks : CountOf(counts, k) # 0) => ~AllPassed(checks)
  BY <1>2 DEF AllPassed
<1> QED
  BY <1>1, <1>3

(* A check that a run does not have is never a reason to stop it, however many the      *)
(* baseline asks for.                                                               *)
THEOREM DroppedCheckIsNoFailure ==
  ASSUME NEW run, NEW baseline, NEW minima, NEW maxima, NEW kept,
         {"metrics", "checks", "versions", "gate"} \subseteq DOMAIN run,
         NEW fewer, fewer = [run EXCEPT !.checks = [k \in DOMAIN run.checks \cap kept |->
                                                      run.checks[k]]]
  PROVE  GateFailures(fewer, baseline, minima, maxima)
           \subseteq GateFailures(run, baseline, minima, maxima)
<1>1. /\ fewer.metrics = run.metrics /\ fewer.versions = run.versions /\ fewer.gate = run.gate
      /\ fewer.checks = [k \in DOMAIN run.checks \cap kept |-> run.checks[k]]
  OBVIOUS
<1>2. {k \in baseline.checks \cap DOMAIN fewer.checks : ~fewer.checks[k].passed}
        \subseteq {k \in baseline.checks \cap DOMAIN run.checks : ~run.checks[k].passed}
  BY <1>1
<1> QED
  BY <1>1, <1>2 DEF GateFailures
=============================================================================
