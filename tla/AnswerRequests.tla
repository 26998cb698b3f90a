----------------------------- MODULE AnswerRequests ----------------------------
(* A question through the manufacturing answer path: retrieval, the safety gate,  *)
(* the base answer service it reuses, and the checks of what was cited.  Every    *)
(* read of the store is a statement of its own, and between two of them another   *)
(* process may approve, withdraw, hide or re-ingest a document.                   *)
EXTENDS Integers, FiniteSets, SequencesExt

----
(* What an answer may rest on: the approval state of a document, the risk of a    *)
(* question, the safety gate over the candidates, the vote that admits a picture  *)
(* as evidence and the cells a table answer is computed from.                     *)
CONSTANTS
  Document,        \* documents of the tenant
  Piece,           \* their indexed pieces
  DocOf,           \* the document of each piece
  KindOf,          \* "text", "line" or "page" of a picture, "row" of a table
  Clean,           \* pieces whose extraction quality lets a high-risk answer cite them
  Hazardous,       \* documents whose metadata names a hazard, a machine or a process
  Matching,        \* documents the metadata filters of a question keep
  Verifier,        \* models that check a picture against a sentence
  FamilyOf,        \* the provider of each
  VisualPromotion, \* setting: a verified picture may be primary evidence
  VerifierQuorum,  \* setting: models that must agree
  MaxRows,         \* rows a table answer cites
  MaxVersion       \* bound: versions of a document

ASSUME GatesAssumption ==
  /\ IsFiniteSet(Piece)
  /\ DocOf \in [Piece -> Document]
  /\ KindOf \in [Piece -> {"text", "line", "page", "row"}]
  /\ Clean \subseteq Piece /\ Hazardous \subseteq Document /\ Matching \subseteq Document
  /\ VisualPromotion \in BOOLEAN
  /\ VerifierQuorum \in Nat /\ MaxRows \in Nat \ {0} /\ MaxVersion \in Nat \ {0}

Approval == {"unclassified", "draft", "pending_review", "approved", "obsolete"}

(* The row of a document: what is indexed of it and its manufacturing metadata. *)
DocumentRow ==
  [version: 1..MaxVersion, approval: Approval, effective: BOOLEAN,
   tombstone: BOOLEAN, readable: BOOLEAN]

(* A question, by what the classifiers and the identifier rules see in it. *)
Question ==
  [danger: BOOLEAN,          \* a danger word
   plain: BOOLEAN,           \* long enough to rule danger out without a model
   lookup: BOOLEAN,          \* asks for a field of an equipment record
   table: BOOLEAN,           \* aggregates, ranks or compares numbers
   filtered: BOOLEAN,        \* carries metadata filters
   names: SUBSET Document]   \* documents whose identifiers it names

IsVisual(p) == KindOf[p] \in {"line", "page"}

-------------------------------------------------------------------------------
(* A tombstoned document has no metadata for the resolver. *)
MetaOf(d) == IF d.tombstone THEN "unclassified" ELSE d.approval

(* is_approved_effective. *)
ApprovedEffective(d) == MetaOf(d) = "approved" /\ d.effective

(* citation_is_approved_effective: quality, then text, then provenance and votes. *)
Admissible_AnyPicture(p, d, verified) == ApprovedEffective(d) /\ p \in Clean

Admissible(p, d, verified) ==
  /\ ApprovedEffective(d)
  /\ p \in Clean
  /\ IsVisual(p) => VisualPromotion /\ verified

UsablePrimary(d) == MetaOf(d) \notin {"draft", "obsolete"}

(* The verdicts classify can return: concrete signals decide alone; otherwise a   *)
(* model may, whose silence or doubt counts as danger.                            *)
RiskVerdicts(q, docs) ==
  IF q.danger \/ docs \cap Hazardous # {} THEN {TRUE}
  ELSE IF q.plain THEN {FALSE} ELSE BOOLEAN

(* ManufacturingSafetyGate.evaluate over the candidates, none of them verified. *)
GateBlock(highRisk, pieces, documents) ==
  IF highRisk
  THEN IF \E p \in pieces : Admissible(p, documents[DocOf[p]], FALSE)
       THEN "none" ELSE "approved_citation_missing"
  ELSE IF \E p \in pieces : UsablePrimary(documents[DocOf[p]])
       THEN "none" ELSE "insufficient_evidence"

(* _should_defer_visual_promotion: let the picture be verified after generation. *)
Defers(block, pieces, documents) ==
  /\ VisualPromotion
  /\ block = "approved_citation_missing"
  /\ \E p \in pieces : IsVisual(p) /\ ApprovedEffective(documents[DocOf[p]])

(* The query names identifiers the evidence does not hold. *)
MissingIdentifiers(q, pieces) == ~(q.names \subseteq {DocOf[p] : p \in pieces})

-------------------------------------------------------------------------------
(* verify_visual_primary_evidence: the words are in the OCR text, the crop is     *)
(* real, enough models of different providers passed it and none failed it.       *)
VoteAdmits(lexical, crop, verdict) ==
  LET passed == {v \in Verifier : verdict[v]}
      needed == IF VerifierQuorum > 1 THEN VerifierQuorum ELSE 1
  IN /\ VisualPromotion /\ lexical /\ crop
     /\ Cardinality({FamilyOf[v] : v \in passed}) >= needed
     /\ passed = Verifier

(* A vote over a piece may end either way; without promotion it never admits. *)
VoteOutcomes ==
  {VoteAdmits(l, c, verdict) : l \in BOOLEAN, c \in BOOLEAN, verdict \in [Verifier -> BOOLEAN]}

(* The parts of a sequence without repetitions, in its order. *)
Parts(s) ==
  {part \in SeqOf(ToSet(s), Len(s)) : \A i, j \in DOMAIN part : i < j =>
     \E a, b \in DOMAIN s : a < b /\ s[a] = part[i] /\ s[b] = part[j]}

(* The one that keeps the elements of S: what a filter leaves. *)
Keeping(s, S) == {part \in Parts(s) : ToSet(part) = ToSet(s) \cap S}

(* _collapse_visual_page_citations: lines on a page whose crop was verified go. *)
OnVerifiedPage(c, cites) ==
  /\ KindOf[c.piece] = "line"
  /\ \E x \in ToSet(cites) : KindOf[x.piece] = "page" /\ x.verified /\ DocOf[x.piece] = DocOf[c.piece]

Collapsed(cites) == Keeping(cites, {c \in ToSet(cites) : ~OnVerifiedPage(c, cites)})

(* _visible_rows: every row of every live, readable table of the tenant. *)
VisibleRows(documents) ==
  {p \in Piece : KindOf[p] = "row" /\ ~documents[DocOf[p]].tombstone
                                   /\ documents[DocOf[p]].readable}

(* The rows retrieval can return: the search drops tombstones and hidden pieces. *)
Retrievable(documents) ==
  {p \in Piece : KindOf[p] # "row" /\ ~documents[DocOf[p]].tombstone
                                   /\ documents[DocOf[p]].readable}

(* pre_gate keeps what scores enough, in rank order: any sequence of the          *)
(* retrievable pieces may be left, and too few are none.                          *)
Rankings(pieces, least) ==
  {s \in SetToAllKPermutations(pieces) : s = <<>> \/ Len(s) >= least}

----
CONSTANTS
  Server,          \* answer-service processes; each serves one request at a time
  AskedQuestion,   \* questions users ask
  LeastEvidence,   \* profile: minimum_evidence_count
  MaxContext,      \* profile: max_context_chunks
  Budget,          \* limits an administrator sets, and Unlimited
  MaxRequests,     \* bound: questions asked
  MaxChanges       \* bound: changes to the documents

Unlimited == -1

ASSUME RequestsAssumption ==
  /\ AskedQuestion \subseteq Question /\ AskedQuestion # {}
  /\ LeastEvidence \in Nat \ {0} /\ MaxContext \in Nat
  /\ Budget \subseteq Nat \cup {Unlimited}

VARIABLES
  documents,   \* the registry rows, with who may read them
  request,     \* per server: the request it handles
  spent,       \* per server: CostService._spent of the tenant
  budget,      \* per server: CostService._budgets of the tenant
  asked,       \* questions so far
  changes      \* changes to the documents so far

vars == <<documents, request, spent, budget, asked, changes>>

Hit == [piece: Piece, version: 1..MaxVersion]
Cite == [piece: Piece, text: 1..MaxVersion, version: 1..MaxVersion, verified: BOOLEAN,
         approval: Approval]
AnswerStatus ==
  {"ok", "insufficient_evidence", "budget_exceeded", "temporarily_unavailable", "failed"}

(* vetted, gone, standing: what was true of the documents when evidence was       *)
(* selected, when the text was written, and when the answer was let through.      *)
Request ==
  [at: {"idle", "surveying", "selecting", "answering", "revalidating", "generating",
        "citing", "decorating", "deciding", "done"},
   ask: Question, found: Seq(Hit), preselected: BOOLEAN, highRisk: BOOLEAN,
   deferred: BOOLEAN, context: Seq(Hit), cites: Seq(Cite), status: AnswerStatus,
   vetted: SUBSET Document, gone: SUBSET (Document \X (1..MaxVersion)), standing: [Document -> Approval]]

Blank(q, hits) ==
  [at |-> "surveying", ask |-> q, found |-> hits, preselected |-> FALSE,
   highRisk |-> FALSE, deferred |-> FALSE, context |-> <<>>, cites |-> <<>>,
   status |-> "insufficient_evidence", vetted |-> {}, gone |-> {},
   standing |-> [d \in Document |-> "unclassified"]]

IdleRequest ==
  [Blank(CHOOSE q \in AskedQuestion : TRUE, <<>>) EXCEPT !.at = "idle"]

Init ==
  /\ documents \in [Document ->
       [version: {1}, approval: Approval \ {"unclassified"}, effective: {TRUE},
        tombstone: {FALSE}, readable: {TRUE}]]
  /\ request = [s \in Server |-> IdleRequest]
  /\ spent = [s \in Server |-> 0]
  /\ budget = [s \in Server |-> Unlimited]
  /\ asked = 0
  /\ changes = 0

-------------------------------------------------------------------------------
Pieces(hits) == {h.piece : h \in ToSet(hits)}
Docs(hits) == {DocOf[p] : p \in Pieces(hits)}

(* The stored text of each piece, as a query returns it. *)
Read(ps) == [i \in DOMAIN ps |-> [piece |-> ps[i], version |-> documents[DocOf[ps[i]]].version]]

(* The row of a live document this user may read; the chunk in hand is not re-read. *)
StillVisible_AnyRow(d) == documents[d].readable
StillVisible(d) == ~documents[d].tombstone /\ documents[d].readable

(* The versions that are withdrawn now. *)
GoneNow == {<<d, documents[d].version>> : d \in {x \in Document : documents[x].tombstone}}

(* _with_visual_page_aggregate_candidates: the page of a line goes before it. *)
Widened(ps) ==
  LET PagesOf(p) == {x \in Piece : KindOf[p] = "line" /\ KindOf[x] = "page" /\ DocOf[x] = DocOf[p]}
      pieces == ToSet(ps) \cup UNION {PagesOf(p) : p \in ToSet(ps)}
      Place(x) == Min({i \in DOMAIN ps : x = ps[i] \/ x \in PagesOf(ps[i])})
      Ahead(x, y) == \/ Place(x) < Place(y)
                     \/ Place(x) = Place(y) /\ KindOf[x] = "page" /\ KindOf[y] = "line"
  IN IF VisualPromotion
     THEN {s \in SetToSeqs(pieces) : \A i, j \in DOMAIN s : i < j => ~Ahead(s[j], s[i])}
     ELSE {ps}

Step(s, r) == request' = [request EXCEPT ![s] = r]
At(s, stage) == request[s].at = stage
Ends(s, r, status) == Step(s, [r EXCEPT !.at = "done", !.status = status])

(* What a retrieval returns to this user now. *)
Retrieval(least) == {Read(ps) : ps \in Rankings(Retrievable(documents), least)}

-------------------------------------------------------------------------------
(* ManufacturingAnswerService.answer: retrieve, filter by metadata, pre-gate. *)
Ask(s, q) ==
  /\ At(s, "idle")
  /\ asked < MaxRequests
  /\ asked' = asked + 1
  /\ \E ps \in Rankings(Retrievable(documents), LeastEvidence) :
     \E kept \in Keeping(ps, {p \in Piece : q.filtered => DocOf[p] \in Matching}) :
     \E evidence \in Widened(kept) :
       Step(s, Blank(q, IF Len(evidence) >= LeastEvidence THEN Read(evidence) ELSE <<>>))
  /\ UNCHANGED <<documents, spent, budget, changes>>

(* Read the metadata of the candidates, classify, gate. *)
Survey(s) ==
  /\ At(s, "surveying")
  /\ LET r == request[s]
         known == {d \in Docs(r.found) : MetaOf(documents[d]) # "unclassified"}
     IN \E risky \in RiskVerdicts(r.ask, known) :
          LET block == GateBlock(risky, Pieces(r.found), documents)
              later == Defers(block, Pieces(r.found), documents)
              next == [r EXCEPT !.highRisk = risky, !.deferred = later]
          IN IF MissingIdentifiers(r.ask, Pieces(r.found)) \/ (block # "none" /\ ~later)
             THEN Ends(s, next, "insufficient_evidence")
             ELSE Step(s, [next EXCEPT !.at =
                             IF risky \/ r.ask.lookup THEN "selecting" ELSE "answering"])
  /\ UNCHANGED <<documents, spent, budget, asked, changes>>

(* _answer_service_for_metadata_lookup: approved evidence only; a high-risk       *)
(* question without any is answered from nothing, a look-up from a new search.    *)
Select(s) ==
  /\ At(s, "selecting")
  /\ LET r == request[s]
         Approved(h) == IF r.highRisk THEN ApprovedEffective(documents[DocOf[h.piece]])
                        ELSE MetaOf(documents[DocOf[h.piece]]) = "approved"
     IN \E kept \in Keeping(r.found, {h \in Hit : Approved(h)}) :
          LET enough == Len(kept) >= LeastEvidence
              next == [r EXCEPT !.at = "answering", !.preselected = r.highRisk \/ enough,
                                !.found = IF enough THEN kept ELSE <<>>,
                                !.vetted = {d \in Document : ApprovedEffective(documents[d])}]
          IN IF enough /\ MissingIdentifiers(r.ask, Pieces(kept))
             THEN Ends(s, next, "insufficient_evidence") ELSE Step(s, next)
  /\ UNCHANGED <<documents, spent, budget, asked, changes>>

-------------------------------------------------------------------------------
(* AnswerService.answer.  A question for a table goes to the structured tool,     *)
(* which computes over every visible row and cites the first of them.             *)
AnswerFromTable(s) ==
  /\ At(s, "answering")
  /\ request[s].ask.table
  /\ LET r == request[s]
     IN \/ \E rows \in SetToAllKPermutations(VisibleRows(documents)) \ {<<>>} :
             LET read == Read(rows)
                 cited == SubSeq(read, 1, IF Len(read) < MaxRows THEN Len(read) ELSE MaxRows)
             IN Step(s, [r EXCEPT !.at = "decorating", !.status = "ok", !.context = read,
                                  !.gone = GoneNow,
                                  !.cites = [i \in DOMAIN cited |->
                                    [piece |-> cited[i].piece, text |-> cited[i].version,
                                     version |-> cited[i].version, verified |-> FALSE,
                                     approval |-> "unclassified"]]])
        \/ Ends(s, r, "insufficient_evidence")
        \/ Ends(s, r, "temporarily_unavailable")
  /\ UNCHANGED <<documents, spent, budget, asked, changes>>

(* The budget, then evidence: the preselected, or a second search of its own,     *)
(* without the filters of the first, cut to the context limits.                   *)
Gather(s) ==
  /\ At(s, "answering")
  /\ ~request[s].ask.table
  /\ LET r == request[s]
         over == budget[s] # Unlimited /\ spent[s] + 1 > budget[s]
     IN IF over THEN Ends(s, r, "budget_exceeded")
        ELSE \E hits \in IF r.preselected THEN {r.found} ELSE Retrieval(LeastEvidence) :
             \E kept \in {k \in Parts(hits) : Len(k) <= MaxContext} :
               IF Len(kept) < LeastEvidence THEN Ends(s, r, "insufficient_evidence")
               ELSE Step(s, [r EXCEPT !.at = "revalidating", !.context = kept])
  /\ UNCHANGED <<documents, spent, budget, asked, changes>>

(* _revalidate_evidence and _narrow_evidence_to_query_identifiers. *)
Revalidate(s) ==
  /\ At(s, "revalidating")
  /\ LET r == request[s]
         live == {h \in ToSet(r.context) : StillVisible(DocOf[h.piece])}
         named == {h \in live : DocOf[h.piece] \in r.ask.names}
     IN \E kept \in Keeping(r.context, IF named = {} THEN live ELSE named) :
          IF Len(kept) < LeastEvidence THEN Ends(s, r, "insufficient_evidence")
          ELSE Step(s, [r EXCEPT !.at = "generating", !.context = kept])
  /\ UNCHANGED <<documents, spent, budget, asked, changes>>

(* The model writes the text from the whole context; the post-checks and the      *)
(* guardrail may refuse it, and a failing model fails the request.                *)
Generate(s) ==
  /\ At(s, "generating")
  /\ LET r == request[s]
     IN \/ Step(s, [r EXCEPT !.at = "citing", !.gone = GoneNow])
        \/ \E status \in {"insufficient_evidence", "temporarily_unavailable", "failed"} :
             Ends(s, r, status)
  /\ UNCHANGED <<documents, spent, budget, asked, changes>>

(* Cite the pieces the text rests on whose documents are still there, have the    *)
(* pictures verified, and charge the answer.                                      *)
WriteCitations(s) ==
  /\ At(s, "citing")
  /\ LET r == request[s]
     IN \E support \in Parts(r.context) :
        \E live \in Keeping(support, {h \in Hit : StillVisible(DocOf[h.piece])}) :
           IF Len(live) < LeastEvidence
           THEN Ends(s, r, "insufficient_evidence") /\ UNCHANGED spent
           ELSE \E vote \in [DOMAIN live -> VoteOutcomes] :
                  /\ \A i \in DOMAIN live : ~IsVisual(live[i].piece) => ~vote[i]
                  /\ Step(s, [r EXCEPT !.at = "decorating", !.status = "ok",
                       !.cites = [i \in DOMAIN live |->
                         [piece |-> live[i].piece, text |-> live[i].version,
                          version |-> documents[DocOf[live[i].piece]].version,
                          verified |-> vote[i], approval |-> "unclassified"]]])
                  /\ spent' = [spent EXCEPT ![s] = @ + 1]
  /\ UNCHANGED <<documents, budget, asked, changes>>

(* The citations take the approval status of their documents. *)
Decorate(s) ==
  /\ At(s, "decorating")
  /\ LET r == request[s]
     IN Step(s, [r EXCEPT !.at = "deciding",
          !.cites = [i \in DOMAIN r.cites |->
            [r.cites[i] EXCEPT !.approval = MetaOf(documents[DocOf[r.cites[i].piece]])]]])
  /\ UNCHANGED <<documents, spent, budget, asked, changes>>

(* Demotion: every source of a high-risk answer must be approved and effective;   *)
(* an obsolete primary source needs an approved companion.                        *)
Fit(c) == Admissible(c.piece, documents[DocOf[c.piece]], c.verified)

Demoted_HighRiskOnly(r, cites) == r.highRisk /\ \E c \in ToSet(cites) : ~Fit(c)

Demoted(r, cites) ==
  \/ r.highRisk /\ \E c \in ToSet(cites) : ~Fit(c)
  \/ cites[1].approval = "obsolete" /\ \A c \in ToSet(cites) : ~Fit(c)

Release(s) ==
  /\ At(s, "deciding")
  /\ LET r == request[s]
         next == [r EXCEPT !.standing = [d \in Document |-> MetaOf(documents[d])]]
     IN \E shown \in IF r.highRisk /\ VisualPromotion THEN Collapsed(r.cites) ELSE {r.cites} :
          IF shown # <<>> /\ Demoted(r, shown)
          THEN Ends(s, [next EXCEPT !.cites = <<>>], "insufficient_evidence")
          ELSE Ends(s, [next EXCEPT !.cites = shown], "ok")
  /\ UNCHANGED <<documents, spent, budget, asked, changes>>

Return(s) ==
  /\ At(s, "done")
  /\ Step(s, IdleRequest)
  /\ UNCHANGED <<documents, spent, budget, asked, changes>>

(* The cost service lives in the process: a restart forgets both. *)
Restart(s) ==
  /\ changes < MaxChanges
  /\ changes' = changes + 1
  /\ Step(s, IdleRequest)
  /\ spent' = [spent EXCEPT ![s] = 0]
  /\ budget' = [budget EXCEPT ![s] = Unlimited]
  /\ UNCHANGED <<documents, asked>>

(* update_budgets reaches the process that serves the route. *)
UpdateBudget(s, b) ==
  /\ At(s, "idle")
  /\ changes < MaxChanges
  /\ changes' = changes + 1
  /\ budget' = [budget EXCEPT ![s] = b]
  /\ UNCHANGED <<documents, request, spent, asked>>

-------------------------------------------------------------------------------
(* What the rest of the system does to a document meanwhile. *)
Changes(d, row) ==
  /\ changes < MaxChanges
  /\ changes' = changes + 1
  /\ row # documents[d]
  /\ documents' = [documents EXCEPT ![d] = row]
  /\ UNCHANGED <<request, spent, budget, asked>>

TransitionApproval(d) ==
  /\ ~documents[d].tombstone
  /\ \E status \in Approval, current \in BOOLEAN :
       Changes(d, [documents[d] EXCEPT !.approval = status, !.effective = current])

Reingest(d) ==
  /\ documents[d].version < MaxVersion
  /\ Changes(d, [documents[d] EXCEPT !.version = @ + 1, !.tombstone = FALSE])

DeleteDocument(d) == Changes(d, [documents[d] EXCEPT !.tombstone = TRUE])

ChangeGrant(d) == Changes(d, [documents[d] EXCEPT !.readable = ~@])

Next ==
  \/ \E s \in Server :
       \/ \E q \in AskedQuestion : Ask(s, q)
       \/ Survey(s) \/ Select(s) \/ AnswerFromTable(s) \/ Gather(s) \/ Revalidate(s)
       \/ Generate(s) \/ WriteCitations(s) \/ Decorate(s) \/ Release(s) \/ Return(s)
       \/ Restart(s) \/ \E b \in Budget : UpdateBudget(s, b)
  \/ \E d \in Document :
       TransitionApproval(d) \/ Reingest(d) \/ DeleteDocument(d) \/ ChangeGrant(d)

Spec == Init /\ [][Next]_vars

-------------------------------------------------------------------------------
(* Every value has its type; a released answer cites something. *)
TypeOK ==
  /\ documents \in [Document -> DocumentRow]
  /\ request \in [Server -> Request]
  /\ spent \in [Server -> Nat]
  /\ budget \in [Server -> Nat \cup {Unlimited}]
  /\ \A s \in Server : (At(s, "done") /\ request[s].status = "ok") => request[s].cites # <<>>

Released(s) == At(s, "done") /\ request[s].status = "ok"

(* A high-risk answer written from retrieved text rests entirely on approved      *)
(* evidence: every document in the model's context was approved and in force when *)
(* the evidence was selected, every cited one still is when it is released, and a *)
(* cited picture was verified.                                                    *)
HighRiskRestsOnApproved ==
  \A s \in Server :
    LET r == request[s]
    IN Released(s) /\ r.highRisk /\ ~r.ask.table =>
         /\ Docs(r.context) \subseteq r.vetted
         /\ \A c \in ToSet(r.cites) :
              r.standing[DocOf[c.piece]] = "approved" /\ (IsVisual(c.piece) => c.verified)

(* A document withdrawn while the answer was being written is not cited by it,    *)
(* though its chunks were read before (SC-003), unless it was ingested anew since. *)
GoneIsNotCited ==
  \A s \in Server :
    Released(s) =>
      \A c \in ToSet(request[s].cites) : <<DocOf[c.piece], c.version>> \notin request[s].gone

(* Obsolete documents alone never carry an answer, however the status changed     *)
(* between the survey of the candidates and the release (FR-MFG-006).             *)
ObsoleteIsNotTheBasis ==
  \A s \in Server :
    LET r == request[s]
    IN Released(s) => \E c \in ToSet(r.cites) :
                        c.approval # "obsolete" \/ r.standing[DocOf[c.piece]] # "obsolete"

(* What specs/002-manufacturing-field-knowledge-rag/spec.md:219 asks of drafts    *)
(* too: they are never the formal evidence of an asserted answer.                 *)
DraftIsNotTheBasis ==
  \A s \in Server :
    LET r == request[s]
    IN Released(s) => \E c \in ToSet(r.cites) :
                        c.approval # "draft" \/ r.standing[DocOf[c.piece]] # "draft"

(* What manufacturing/api/answer_ext.py:795-801 says of every high-risk answer,   *)
(* the ones computed from tables included.                                        *)
HighRiskTablesRestOnApproved ==
  \A s \in Server :
    LET r == request[s]
    IN Released(s) /\ r.highRisk /\ r.ask.table =>
         \A d \in Docs(r.context) : r.standing[d] = "approved"

(* The version a citation names is the version its text was read from. *)
CitationNamesItsText ==
  \A s \in Server : Released(s) => \A c \in ToSet(request[s].cites) : c.version = c.text
===============================================================================
