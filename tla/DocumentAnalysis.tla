--------------------------- MODULE DocumentAnalysis ---------------------------
(* What the structured ingestion makes of a file: the parser that takes it, the    *)
(* pages OCR has to read, the verdicts on pages, document and chunks, and what of   *)
(* it becomes evidence, waits for a reviewer or does neither. A text is its counts  *)
(* of characters, replacement characters and control characters; confidences are    *)
(* whole percents, -1 when the provider reported none.                              *)
EXTENDS Integers, Sequences, FiniteSets

CONSTANT Bar   \* quality_thresholds(): the bars of the gate, all tunable by environment

(* quality_thresholds with nothing set in the environment. *)
DefaultBar == [mojibake |-> 2, control |-> 5, emptyBytes |-> 512, overall |-> 35,
               layout |-> 30, table |-> 40, low |-> 40, emptyPages |-> 20, disorder |-> 25]

NoText == [chars |-> 0, lost |-> 0, control |-> 0, cid |-> FALSE]
Blocking == {"review_required", "rejected", "draft_visual"}
NoPage == 0

-----
(* classify_text_extraction_quality: the raw size matters only to a text that is empty. *)
Garbled(t) == t.chars > 0 /\ \/ t.lost * 100 >= Bar.mojibake * t.chars
                             \/ t.control * 100 >= Bar.control * t.chars

TextStatus(t, rawBytes) ==
  IF \/ rawBytes >= Bar.emptyBytes /\ t.chars = 0
     \/ t.cid
     \/ Garbled(t)
    THEN "review_required"
    ELSE IF t.lost > 0 THEN "accepted_with_warnings" ELSE "accepted"

-----
(* The route of a page: the most particular signal decides. *)
PageTypes == <<"seal", "handwriting", "drawing", "vertical", "table_heavy", "scanned",
               "mojibake">>

PageType(signals) ==
  LET found == {n \in DOMAIN PageTypes : PageTypes[n] \in signals}
  IN  IF found = {} THEN "clean" ELSE PageTypes[CHOOSE n \in found : \A k \in found : n <= k]

Routes == [clean |-> <<"native_text_or_docling", "ocr_compare">>,
           mojibake |-> <<"docling_plus_ocr_compare", "review_required">>,
           table_heavy |-> <<"docling_tableformer", "cloud_di_or_textract_tables">>,
           scanned |-> <<"jp_ocr", "alternate_ocr_or_review">>,
           vertical |-> <<"jp_ocr_vertical", "vlm_draft_hitl">>,
           handwriting |-> <<"ocr_if_supported", "vlm_draft_hitl">>,
           seal |-> <<"visual_marker_detection", "hitl">>,
           drawing |-> <<"ocr_visible_text_plus_vlm_draft", "hitl">>]

PageRoute(signals) == Routes[PageType(signals)]

-----
(* Docling's output, normalised: an item becomes a block when it has text or is a    *)
(* table, in the order it came.                                                     *)
KindOf(label) ==
  CASE label = "title" -> "title"
    [] label = "section_header" -> "heading"
    [] label \in {"text", "paragraph", "code", "formula"} -> "paragraph"
    [] label \in {"list_item", "caption", "table"} -> label
    [] label \in {"page_footer", "footnote"} -> "footer"
    [] label = "page_header" -> "header"
    [] OTHER -> "unknown"

Kept(items) == SelectSeq(items, LAMBDA i : i.label = "table" \/ i.text.chars > 0)

Normalized(kept) ==
  [n \in DOMAIN kept |->
     [kind |-> KindOf(kept[n].label), page |-> kept[n].page, text |-> kept[n].text,
      order |-> n - 1, status |-> "accepted", anchored |-> kept[n].page # NoPage]]

(* _quality_from_confidence: a low score of the worst regions is a warning, no more. *)
Confident(c) == IF c.low >= 0 /\ c.low < 30 THEN "accepted_with_warnings" ELSE "accepted"

(* table_structure_confidence in thousandths: readable cells, shape and header. *)
TableConfidence(cells) ==
  LET rows == {c.row : c \in cells}
      cols == {c.col : c \in cells}
      declared == Cardinality(rows) * Cardinality(cols)
      filled == Cardinality({c \in cells : c.text})
      fill == IF filled >= declared THEN 550 ELSE (1100 * filled + declared) \div (2 * declared)
      shape == IF Cardinality(rows) >= 2 /\ Cardinality(cols) >= 2 THEN 250 ELSE 75
      header == IF \E c \in cells : c.header THEN 200 ELSE 100
  IN  IF cells = {} THEN 0 ELSE fill + shape + header

-----
(* The signals of a page before any OCR: the text layer of a PDF, the figures and    *)
(* tables Docling saw, the letters it could not decode, what the vision model found. *)
Preflight(file, p) == IF file.type = "pdf" /\ ~file.layer[p] THEN {"scanned"} ELSE {}

PageChars(blocks, p, field) ==
  LET upTo[n \in 0..Len(blocks)] ==
        IF n = 0 THEN 0
        ELSE upTo[n - 1] + (IF blocks[n].page = p THEN blocks[n].text[field] ELSE 0)
  IN  upTo[Len(blocks)]

DrawingLike(hasFigures, chars) == hasFigures /\ chars <= 24

Detected(file, p) ==
  IF file.type \in {"pdf", "image"} /\ file.vision THEN file.marks[p] ELSE {}

Signals(file, blocks, p) ==
  LET chars == PageChars(blocks, p, "chars")
      lost == PageChars(blocks, p, "lost")
  IN  Preflight(file, p) \union Detected(file, p)
        \union {s \in {"drawing"} :
                  DrawingLike(\E f \in file.figures : f.page = p, chars)}
        \union {s \in {"table_heavy"} : \E t \in file.tables : t.page = p}
        \union {s \in {"mojibake"} : chars > 0 /\ lost * 100 >= 2 * chars}

(* The route written to the trace is chosen before the last four are known. *)
TracedRoute(file, p) == PageRoute(Preflight(file, p))
StoredRoute(file, blocks, p) == PageRoute(Signals(file, blocks, p))

-----
(* The pages without text go to the OCR of the deployment, then to the vision draft, *)
(* and a page neither reads leaves a block that says so. `eyes` is the two           *)
(* providers, each only when its policy allows it, and what they make of a page.     *)
Empty(blocks, pages) ==
  {p \in pages : \A n \in DOMAIN blocks : blocks[n].page = p => blocks[n].text.chars = 0}

Reading(eyes, p) ==
  IF eyes.ocr /\ eyes.image[p] /\ eyes.seen[p].chars > 0 THEN "ocr_filled"
  ELSE IF eyes.vlm /\ eyes.image[p] /\ eyes.draft[p].chars > 0 THEN "draft_visual"
  ELSE "review_required"

Placeholder == [NoText EXCEPT !.chars = 40]   \* the note that the page was not read

ReadBlock(eyes, p, order) ==
  LET how == Reading(eyes, p)
  IN  [kind |-> CASE how = "ocr_filled" -> "paragraph"
                  [] how = "draft_visual" -> "visual_summary"
                  [] OTHER -> "unknown",
       page |-> p, order |-> order, anchored |-> TRUE,
       text |-> CASE how = "ocr_filled" -> eyes.seen[p]
                  [] how = "draft_visual" -> eyes.draft[p]
                  [] OTHER -> Placeholder,
       status |-> IF how = "ocr_filled" THEN "accepted" ELSE how]

(* Its blocks follow all others, one for each page of `toRead`, in the order of pages. *)
WithOcr(blocks, toRead, eyes) ==
  blocks \o [k \in DOMAIN toRead |-> ReadBlock(eyes, toRead[k], Len(blocks) + k - 1)]

ToRead(file, blocks) ==
  IF file.type = "pdf" THEN SelectSeq(file.pages, LAMBDA p : p \in Empty(blocks, {p})) ELSE <<>>

Results(toRead, eyes) == {Reading(eyes, toRead[k]) : k \in DOMAIN toRead}

-----
(* The parsers, and the one that takes a content type: the first that supports it, *)
(* so Docling takes its types whether or not it is installed.                      *)
Supports == [docling |-> {"pdf", "pptx", "docx", "html", "image"},
             text_parser |-> {"text", "markdown", "html"},
             spreadsheet_parser |-> {"xlsx", "csv"},
             docx_parser |-> {"docx"}]
ParserOrder == <<"docling", "text_parser", "spreadsheet_parser", "docx_parser">>

ParserFor(type) ==
  LET able == {n \in DOMAIN ParserOrder : type \in Supports[ParserOrder[n]]}
  IN  IF able = {} THEN "unsupported"
      ELSE ParserOrder[CHOOSE n \in able : \A k \in able : n <= k]

(* A document as parsed: the blocks, the page signals and what the route trace says. *)
Parsed(provider, blocks, file, results, status) ==
  [provider |-> provider, blocks |-> blocks, pages |-> file.pages,
   signals |-> [p \in {file.pages[k] : k \in DOMAIN file.pages} |-> {}],
   figures |-> {}, tables |-> {}, confidence |-> [overall |-> -1, layout |-> -1, low |-> -1],
   results |-> results, status |-> status]

Plain(items, anchored) ==
  [n \in DOMAIN items |->
     [kind |-> items[n].kind, page |-> NoPage, text |-> items[n].text, order |-> n - 1,
      status |-> "accepted", anchored |-> anchored]]

(* Docling missing or raising: the bytes decoded as text, and never accepted. *)
Fallback(file, result) ==
  Parsed("docling", Plain(file.decoded, FALSE), file, {result}, "review_required")

Docling(file, eyes) ==
  LET blocks == Normalized(Kept(file.items))
      toRead == ToRead(file, blocks)
      pages == {file.pages[k] : k \in DOMAIN file.pages}
  IN  [Parsed("docling", WithOcr(blocks, toRead, eyes), file,
              {"accepted"} \union Results(toRead, eyes), Confident(file.confidence))
         EXCEPT !.signals = [p \in pages |-> Signals(file, blocks, p)],
                !.figures = file.figures,
                !.tables = {[t EXCEPT !.confidence = TableConfidence(t.cells)] : t \in file.tables},
                !.confidence = file.confidence]

Parse(file, eyes) ==
  LET parser == ParserFor(file.type)
  IN  IF parser # "docling"
        THEN Parsed(parser, Plain(file.decoded, parser = "spreadsheet_parser"), file, {},
                    "accepted")
        ELSE IF ~file.installed THEN Fallback(file, "unavailable")
        ELSE IF ~file.converts THEN Fallback(file, "error")
        ELSE Docling(file, eyes)

-----
(* The verdict on a page: its worst block, or else what was seen on it. *)
Rank == [accepted |-> 0, accepted_with_warnings |-> 1, review_required |-> 2,
         draft_visual |-> 2, rejected |-> 3]

OnPage(blocks, p) == {n \in DOMAIN blocks : blocks[n].page = p}

WorstOnPage(blocks, p) ==
  LET here == OnPage(blocks, p)
      worst == {n \in here : \A k \in here : Rank[blocks[k].status] <= Rank[blocks[n].status]}
  IN  IF here = {} THEN "accepted"
      ELSE blocks[CHOOSE n \in worst : \A k \in worst : n <= k].status

PageVerdict(doc, p) ==
  LET worst == WorstOnPage(doc.blocks, p)
  IN  IF worst = "accepted" /\ doc.signals[p] \cap {"seal", "handwriting", "drawing"} # {}
        THEN "review_required" ELSE worst

-----
(* The dimensions the gate reads: blocks out of order, pages with nothing on them, *)
(* and whether a step of the route failed.                                         *)
Inversions(blocks) ==
  {n \in DOMAIN blocks : n + 1 \in DOMAIN blocks /\ blocks[n + 1].order < blocks[n].order}

Disordered(blocks) ==
  Len(blocks) >= 2 /\ Cardinality(Inversions(blocks)) * 100 > Bar.disorder * (Len(blocks) - 1)

Bare(blocks, pages) ==
  {p \in pages : \A n \in OnPage(blocks, p) : blocks[n].text.chars = 0}

MostlyBare(blocks, pages) ==
  pages # {} /\ Cardinality(Bare(blocks, pages)) * 100 > Bar.emptyPages * Cardinality(pages)

ProviderFailed(results) ==
  results \cap {"error", "unavailable", "review_required", "rejected"} # {}

Below(value, bar) == value >= 0 /\ value < bar

(* classify_parsed_document_quality: why a document as a whole goes to review.      *)
(* Only Docling's output carries the dimensions. `foreign` is an extraction in the   *)
(* wrong language, tested only where the deployment expects one.                     *)
Reasons(doc, foreign) ==
  LET marks == UNION {doc.signals[p] : p \in DOMAIN doc.signals}
      measured == doc.provider = "docling" /\ doc.results \cap {"error", "unavailable"} = {}
  IN  {r \in {"low_overall_confidence", "low_layout_confidence", "low_ocr_confidence_p10",
               "low_table_structure_confidence", "handwriting_or_seal_detected",
               "drawing_only_page", "high_empty_page_risk", "high_reading_order_risk",
               "provider_error", "language_mismatch"} :
         CASE r = "low_overall_confidence" -> Below(doc.confidence.overall, Bar.overall)
           [] r = "low_layout_confidence" -> Below(doc.confidence.layout, Bar.layout)
           [] r = "low_ocr_confidence_p10" -> Below(doc.confidence.low, Bar.low)
           [] r = "low_table_structure_confidence" ->
                \E t \in doc.tables : Below(t.confidence, 10 * Bar.table)
           [] r = "handwriting_or_seal_detected" -> marks \cap {"handwriting", "seal"} # {}
           [] r = "drawing_only_page" -> "drawing" \in marks
           [] r = "high_empty_page_risk" -> measured /\ MostlyBare(doc.blocks, DOMAIN doc.signals)
           [] r = "high_reading_order_risk" -> measured /\ Disordered(doc.blocks)
           [] r = "provider_error" -> measured /\ ProviderFailed(doc.results)
           [] r = "language_mismatch" -> foreign}

Floor(doc, foreign) ==
  IF Reasons(doc, foreign) # {} THEN "review_required" ELSE doc.status

-----
(* Chunks: one for each block with text that is no heading, and one for each figure *)
(* with a caption. A title starts the path of headings anew, a heading extends it,   *)
(* and nothing ever shortens it.                                                    *)
IsHeading(b) == b.kind \in {"title", "heading"}
Content(b) == b.text.chars > 0 /\ ~IsHeading(b)

HeadingPath(blocks, n) ==
  LET path[k \in 0..Len(blocks)] ==
        IF k = 0 THEN <<>>
        ELSE IF blocks[k].text.chars = 0 \/ ~IsHeading(blocks[k]) THEN path[k - 1]
        ELSE IF blocks[k].kind = "title" THEN <<k>> ELSE Append(path[k - 1], k)
  IN  path[n]

ChunkKind(kind) ==
  CASE kind = "cell" -> "cell_chunk"
    [] kind \in {"table", "table_row"} -> "table_chunk"
    [] kind = "list_item" -> "list_chunk"
    [] kind = "form_field" -> "form_chunk"
    [] OTHER -> "paragraph_chunk"

BlockChunk(doc, n) ==
  [from |-> <<"block", n>>, kind |-> ChunkKind(doc.blocks[n].kind), text |-> doc.blocks[n].text,
   page |-> doc.blocks[n].page, status |-> doc.blocks[n].status,
   anchored |-> doc.blocks[n].anchored, headings |-> HeadingPath(doc.blocks, n)]

FigureChunk(f) ==
  [from |-> <<"figure", f.id>>, kind |-> "figure_chunk", text |-> f.caption, page |-> f.page,
   status |-> "accepted", anchored |-> TRUE, headings |-> <<>>]

Chunks(doc) ==
  {BlockChunk(doc, n) : n \in {k \in DOMAIN doc.blocks : Content(doc.blocks[k])}}
    \union {FigureChunk(f) : f \in {g \in doc.figures : g.caption.chars > 0}}

-----
(* The verdict on a chunk: the document's, the block's, the text's, in that order; *)
(* warnings only when none of them blocks.                                         *)
ChunkStatus(chunk, floor) ==
  IF floor \in Blocking THEN floor
  ELSE IF chunk.status \in Blocking THEN chunk.status
  ELSE IF TextStatus(chunk.text, 3 * chunk.text.chars) \in Blocking THEN "review_required"
  ELSE IF "accepted_with_warnings" \in {chunk.status, floor} THEN "accepted_with_warnings"
  ELSE TextStatus(chunk.text, 3 * chunk.text.chars)

(* The quality fields a status stands for. *)
QualityRecord(status) ==
  [status |-> status, retrievable |-> status \notin Blocking,
   highRisk |-> status \in {"accepted", "manual_approved"}, review |-> status \in Blocking]

(* _build_chunks: what the caller's metadata says comes last and replaces the verdict. *)
Stored(chunk, floor, given) ==
  LET verdict == QualityRecord(ChunkStatus(chunk, floor))
  IN  [f \in DOMAIN verdict |-> IF f \in DOMAIN given THEN given[f] ELSE verdict[f]]

ReviewStatus(q) ==
  IF q.status \in {"review_required", "draft_visual"} THEN q.status
  ELSE IF q.status = "" /\ q.review THEN "review_required" ELSE ""

Quarantined(q) == (IF ReviewStatus(q) # "" THEN ReviewStatus(q) ELSE q.status) \in Blocking

RetrievalEligible(q) ==
  /\ q.retrievable
  /\ q.status \in {"", "accepted", "accepted_with_warnings", "manual_approved"}

(* High-risk evidence needs an anchor, but of the parsers that have none by nature. *)
HighRiskEligible(q, chunk, provider) ==
  /\ RetrievalEligible(q)
  /\ q.highRisk
  /\ provider \in {"text_parser", "docx_parser"} \/ chunk.anchored

ExclusionReason(q) ==
  IF q.status # "" THEN q.status ELSE IF q.retrievable THEN "" ELSE "retrieval_ineligible"

-----
(* The review queue reads the stored fields; what it suggests follows the reason that *)
(* speaks loudest, but a draft is always there to be approved.                        *)
Reprocess == {"empty_extraction", "cid_artifacts", "mojibake_suspected", "low_ocr_confidence",
              "language_mismatch"}
Escalate == {"drawing_only_page", "handwriting_or_seal_detected"}
Edit == {"low_overall_confidence", "low_layout_confidence", "low_table_structure_confidence",
         "minor_mojibake"}

SuggestedAction(status, reasons) ==
  IF status = "draft_visual" THEN "approve"
  ELSE IF reasons \cap Reprocess # {} THEN "reprocess"
  ELSE IF reasons \cap Escalate # {} THEN "escalate"
  ELSE IF reasons \cap Edit # {} THEN "edit_and_approve" ELSE "review"

(* extraction_review_queue: a store that can select the review statuses looks into both *)
(* of its partitions; of one that cannot, only the retrievable partition is walked.     *)
ReviewQueue(primary, quarantine, selects) ==
  {c \in (IF selects THEN primary \union quarantine ELSE primary) : ReviewStatus(c.quality) # ""}

(* extraction_quality_stats over every chunk: how many of each status are held back. *)
CountedStatus(q) == IF q.status = "" THEN "accepted" ELSE q.status
HeldBack(chunks) == {c \in chunks : CountedStatus(c.quality) \in Blocking}

(* The provider the statistics name is the last one of the trace. *)
WinningProvider(trace) ==
  LET named == {n \in DOMAIN trace : trace[n].provider # ""}
  IN  IF named = {} THEN "" ELSE trace[CHOOSE n \in named : \A k \in named : k <= n].provider

(* review_overturn_stats: a chunk that was approved and rejected, in either order. *)
Overturned(decisions) ==
  /\ Len(decisions) >= 2
  /\ {"manual_approved", "rejected"} \subseteq {decisions[n] : n \in DOMAIN decisions}

(* answer_citation_quality_signals: the cited chunks that may carry a high-risk answer. *)
EvidenceGrade(cited) == {c \in cited : HighRiskEligible(c.quality, c, c.provider)}
MissingApproved(highRisk, blocked, reason) ==
  highRisk /\ blocked /\ reason = "APPROVED_CITATION_MISSING"

-----
(* The tenant's provider policy. A mode is the set of clouds it names. *)
AwsOrOwn == {"aws", "oss", "customer_managed"}
Clouds == {"aws", "azure", "google"}

Objections(policy, operation, provider) ==
  LET parsing == operation \in {"parse", "ocr", "layout", "structured"}
      optedIn == IF provider.family \in DOMAIN policy.optIns
                   THEN policy.optIns[provider.family] ELSE policy.optIn
  IN  {o \in {"unsupported", "not_allowed", "aws_only", "mode", "cross_cloud", "region",
               "retention", "training", "opt_in"} :
         CASE o = "unsupported" -> operation \notin DOMAIN policy.allowed
           [] o = "not_allowed" -> /\ operation \in DOMAIN policy.allowed
                                   /\ provider.id \notin policy.allowed[operation]
           [] o = "aws_only" -> /\ parsing /\ policy.mode = {"aws"}
                                /\ provider.family \notin AwsOrOwn
           [] o = "mode" -> /\ parsing
                            /\ provider.id \in {"azure_document_intelligence", "azure_docintel",
                                               "google_document_ai", "google_docai"}
                            /\ provider.family \notin policy.mode
           [] o = "cross_cloud" -> /\ provider.family \notin AwsOrOwn /\ ~provider.own
                                   /\ ~policy.crossCloud
           [] o = "region" -> /\ policy.regions # {} /\ provider.region # ""
                              /\ provider.region \notin policy.regions
           [] o = "retention" -> policy.zeroRetention /\ ~provider.zeroRetention
           [] o = "training" -> policy.noTrain /\ ~provider.noTrain
           [] o = "opt_in" -> policy.needsOptIn /\ ~provider.own /\ optedIn # "granted"}

PolicyAllows(policy, operation, provider) == Objections(policy, operation, provider) = {}

(* Where a refused operation falls back to. *)
FallbackProvider(policy, operation) ==
  IF operation \in DOMAIN policy.fallbacks THEN policy.fallbacks[operation]
  ELSE IF operation \in {"parse", "ocr"}
    THEN IF "aws_textract" \in policy.allowed["parse"] THEN "aws_textract" ELSE "customer_managed"
  ELSE IF operation \in {"layout", "structured"}
    THEN IF "aws_textract" \in policy.allowed[operation]
           THEN "aws_textract" ELSE "customer_managed"
  ELSE IF operation \in DOMAIN policy.allowed THEN "bedrock" ELSE "customer_managed"

(* provider_policy_allows: outside a tenant, and for providers of no known cloud, the *)
(* policy is not asked. One of the names of the provider is enough.                   *)
RuntimeAllows(scoped, policy, operation, names) ==
  ~scoped \/ \E n \in names : n.family \notin Clouds \/ PolicyAllows(policy, operation, n)

(* The providers as the parser sees them: there, and allowed. *)
Guarded(eyes, allowsOcr, allowsVlm) ==
  [eyes EXCEPT !.ocr = eyes.ocr /\ allowsOcr, !.vlm = eyes.vlm /\ allowsVlm]

-----
(* StructuredIngestionService.ingest as one operator: what the document becomes. *)
Ingested(file, eyes, foreign, given) ==
  LET doc == Parse(file, eyes)
      floor == Floor(doc, foreign)
      chunks == {[from |-> c.from, anchored |-> c.anchored, provider |-> doc.provider,
                  quality |-> Stored(c, floor, given)] : c \in Chunks(doc)}
  IN  [primary |-> {c \in chunks : ~Quarantined(c.quality)},
       quarantine |-> {c \in chunks : Quarantined(c.quality)},
       reviewCount |-> Cardinality({c \in chunks : c.quality.status \in Blocking})]

Unsupported(file) == ParserFor(file.type) = "unsupported"
================================================================================
