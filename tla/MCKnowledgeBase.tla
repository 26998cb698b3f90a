--------------------------- MODULE MCKnowledgeBase ----------------------------
(* Instances of KnowledgeBase for TLC: a text of two pieces, and one of one  *)
(* piece the quality gate holds back.                                      *)
EXTENDS KnowledgeBase, TLC

CONSTANTS s1, s2, w1, doc1, pub, text1, text2

TwoAndOne == text1 :> 2 @@ text2 :> 1
BIsDoubtful == text1 :> "accepted" @@ text2 :> "review_required"

-----
(* The structured ingestion, checked over small files: two pages, up to two items of *)
(* Docling's, at most one figure, with every way the pages can be read.              *)
Defaults == INSTANCE DocumentAnalysis WITH Bar <- 0
D == INSTANCE DocumentAnalysis WITH Bar <- Defaults!DefaultBar

Chars(n) == [D!NoText EXCEPT !.chars = n]
ItemSet == [label : {"title", "section_header", "text"}, page : {1, 2},
            text : {D!NoText, Chars(20), [Chars(60) EXCEPT !.lost = 1]}]
ItemSeqs == {<<>>} \union {<<i>> : i \in ItemSet} \union {<<i, j>> : i, j \in ItemSet}
FigureSets == {{}} \union {{[id |-> 1, page |-> p, caption |-> Chars(9)]} : p \in {1, 2}}
FileOf(type, items, layer, figures) ==
  [type |-> type, items |-> items, decoded |-> <<>>, pages |-> <<1, 2>>, layer |-> layer,
   figures |-> figures, tables |-> {}, vision |-> FALSE, marks |-> <<{}, {}>>,
   confidence |-> [overall |-> 80, layout |-> 80, low |-> 60],
   installed |-> TRUE, converts |-> TRUE]
Pdfs == {FileOf("pdf", s, <<TRUE, TRUE>>, f) : s \in ItemSeqs, f \in FigureSets}
EyesSet == {[ocr |-> o, vlm |-> v, image |-> <<TRUE, g>>, seen |-> <<t, Chars(30)>>,
             draft |-> <<Chars(30), Chars(30)>>] :
              o, v, g \in BOOLEAN, t \in {D!NoText, Chars(30)}}
BlocksOf(file) == D!Normalized(D!Kept(file.items))
Unread(file, eyes) ==
  {p \in {1, 2} : D!Empty(BlocksOf(file), {p}) # {} /\ D!Reading(eyes, p) = "review_required"}
NothingGiven == [x \in {} |-> 0]

ASSUME
  \A file \in Pdfs, eyes \in EyesSet :
    LET doc == D!Parse(file, eyes)
        floor == D!Floor(doc, FALSE)
        toRead == D!ToRead(file, BlocksOf(file))
    IN  /\ {toRead[k] : k \in DOMAIN toRead} = D!Empty(BlocksOf(file), {1, 2})
        /\ ~D!MostlyBare(doc.blocks, {1, 2}) /\ ~D!Disordered(doc.blocks)
        /\ floor \in {"accepted", "review_required"}
        /\ (Unread(file, eyes) # {} => floor = "review_required")
        /\ \A c \in D!Chunks(doc) :
             LET q == D!Stored(c, floor, NothingGiven)
             IN  /\ D!Quarantined(q) <=> ~D!RetrievalEligible(q)
                 /\ D!RetrievalEligible(q) =>
                      c.status = "accepted" /\ Unread(file, eyes) = {}
                 /\ (q.status = "accepted_with_warnings" <=>
                        D!RetrievalEligible(q) /\ c.text.lost > 0)
                 /\ (c.page # 0 /\ D!PageVerdict(doc, c.page) \in D!Blocking
                        /\ D!RetrievalEligible(q) => c.kind = "figure_chunk")

(* A page that was read from a scan keeps the signal of its picture, and the document *)
(* goes to review though every page was read.                                         *)
ASSUME
  \E file \in Pdfs, eyes \in EyesSet :
    /\ Unread(file, eyes) = {} /\ \A p \in {1, 2} : eyes.seen[p].chars > 24
    /\ D!Reasons(D!Parse(file, eyes), FALSE) = {"drawing_only_page"}
    /\ \A p \in D!Empty(BlocksOf(file), {1, 2}) : D!Reading(eyes, p) = "ocr_filled"

(* A draft holds back itself alone; an unread page holds back every other page. *)
ASSUME
  \E file \in Pdfs, eyes \in EyesSet :
    /\ \E p \in D!Empty(BlocksOf(file), {1, 2}) : D!Reading(eyes, p) = "draft_visual"
    /\ D!Floor(D!Parse(file, eyes), FALSE) = "accepted"
    /\ D!Ingested(file, eyes, FALSE, NothingGiven).primary # {}
    /\ D!Ingested(file, eyes, FALSE, NothingGiven).reviewCount = 1

(* Text read from a scan comes after everything else: page 1 gets the heading of page 2. *)
ASSUME
  \E file \in Pdfs, eyes \in EyesSet :
    \E c \in D!Chunks(D!Parse(file, eyes)) :
      c.page = 1 /\ Len(c.headings) = 1 /\ file.items[c.headings[1]].page = 2

(* The route the trace names and the one the chunks carry are two different ones. *)
ASSUME
  \E f \in Pdfs : LET file == [f EXCEPT !.layer = <<FALSE, TRUE>>]
                  IN  /\ D!TracedRoute(file, 1) = D!Routes.scanned
                      /\ D!StoredRoute(file, BlocksOf(file), 1) = D!Routes.drawing

(* The route of a page is that of its most particular signal, and no detector ever   *)
(* reports vertical writing.                                                         *)
ASSUME
  \A marks \in SUBSET {"seal", "handwriting", "drawing"} :
    LET file == [FileOf("pdf", <<>>, <<FALSE, TRUE>>, {}) EXCEPT
                   !.vision = TRUE, !.marks = <<marks, {}>>]
        signals == D!Signals(file, <<>>, 1)
    IN  /\ D!PageType(signals) = IF "seal" \in marks THEN "seal"
                                 ELSE IF "handwriting" \in marks THEN "handwriting"
                                 ELSE IF "drawing" \in marks THEN "drawing" ELSE "scanned"
        /\ "vertical" \notin signals

(* Metadata of the caller that names a status wins over the verdict, but not over the *)
(* other fields: the chunk is neither retrieved nor waiting for anybody.              *)
ASSUME
  LET c == [from |-> <<"block", 1>>, kind |-> "paragraph_chunk", text |-> Chars(9), page |-> 1,
            status |-> "review_required", anchored |-> TRUE, headings |-> <<>>]
      q == D!Stored(c, "accepted", [status |-> "accepted"])
  IN  /\ ~D!Quarantined(q) /\ ~D!RetrievalEligible(q)
      /\ D!ReviewQueue({[quality |-> q]}, {}, TRUE) = {}
      /\ D!HeldBack({[quality |-> q]}) = {} /\ D!ExclusionReason(q) = "accepted"

(* Docling is asked first and for good: a DOCX waits for review where it is missing,   *)
(* though the DOCX parser would read it, and where it is there its text, which has no  *)
(* pages, never carries a high-risk answer; a plain text does.                         *)
ASSUME
  LET blind == [ocr |-> FALSE, vlm |-> FALSE, image |-> <<FALSE, FALSE>>,
                seen |-> <<D!NoText, D!NoText>>, draft |-> <<D!NoText, D!NoText>>]
      clean == [kind |-> "paragraph", label |-> "text", page |-> 0, text |-> Chars(60)]
      docx == [FileOf("docx", <<clean>>, <<TRUE, TRUE>>, {}) EXCEPT
                 !.decoded = <<clean>>, !.pages = <<>>]
      text == [docx EXCEPT !.type = "text"]
      Grade(file) ==
        LET all == D!Ingested(file, blind, FALSE, NothingGiven)
        IN  D!EvidenceGrade(all.primary \union all.quarantine)
  IN  /\ D!ParserFor("docx") = "docling" /\ D!ParserFor("csv") = "spreadsheet_parser"
      /\ D!Unsupported([docx EXCEPT !.type = "zip"])
      /\ D!Ingested([docx EXCEPT !.installed = FALSE], blind, FALSE, NothingGiven).primary = {}
      /\ D!Ingested(docx, blind, FALSE, NothingGiven).primary # {}
      /\ Grade(docx) = {} /\ Grade(text) # {}

(* A detected header lifts a grid of unread cells over the bar of the gate. *)
ASSUME
  LET Grid(header) == [row : {1, 2}, col : {1, 2}, text : {FALSE}, header : {header}]
      Bars == 10 * Defaults!DefaultBar.table
  IN  /\ D!TableConfidence(Grid(TRUE)) >= Bars /\ D!TableConfidence(Grid(FALSE)) < Bars
      /\ D!TableConfidence({}) = 0

(* The last bad letter: one in fifty goes to review, one in fifty-one is a warning. *)
ASSUME
  \A n \in 1..200 :
    D!TextStatus([Chars(n) EXCEPT !.lost = 1], 0)
      = IF n <= 50 THEN "review_required" ELSE "accepted_with_warnings"
ASSUME D!TextStatus(D!NoText, 511) = "accepted" /\ D!TextStatus(D!NoText, 512) # "accepted"

(* The default policy refuses Textract until the customer opts in, and then offers it  *)
(* as the fallback of what it refused; a provider of no known cloud passes at run time *)
(* whatever the policy says of it.                                                     *)
ASSUME
  LET Aws == [id |-> "aws_textract", family |-> "aws", region |-> "tokyo",
              zeroRetention |-> TRUE, noTrain |-> TRUE, own |-> FALSE]
      Azure == [Aws EXCEPT !.id = "azure_docintel", !.family = "azure", !.zeroRetention = FALSE,
                           !.noTrain = FALSE]
      Unknown == [Azure EXCEPT !.id = "rapidocr", !.family = "unknown", !.region = ""]
      policy == [allowed |-> [op \in {"parse", "ocr", "layout", "structured", "vlm"} |->
                                {"aws_textract", "tesseract", "customer_managed"}],
                 mode |-> {"aws"}, regions |-> {}, crossCloud |-> FALSE, zeroRetention |-> TRUE,
                 noTrain |-> TRUE, needsOptIn |-> TRUE, optIn |-> "pending",
                 optIns |-> NothingGiven, fallbacks |-> NothingGiven]
      granted == [policy EXCEPT !.optIn = "granted"]
  IN  /\ D!Objections(policy, "ocr", Aws) = {"opt_in"} /\ D!PolicyAllows(granted, "ocr", Aws)
      /\ D!FallbackProvider(policy, "ocr") = Aws.id
      /\ D!Objections(granted, "ocr", Azure)
           = {"not_allowed", "aws_only", "mode", "cross_cloud", "retention", "training"}
      /\ ~D!RuntimeAllows(TRUE, granted, "ocr", {Azure})
      /\ D!RuntimeAllows(TRUE, policy, "ocr", {Unknown}) /\ ~D!PolicyAllows(policy, "ocr", Unknown)
      /\ D!RuntimeAllows(FALSE, policy, "ocr", {Aws}) /\ "unsupported" \in D!Objections(policy, "x", Aws)

(* What a reviewer is told to do, and which verdicts count as reversed. *)
ASSUME
  /\ D!SuggestedAction("draft_visual", {"mojibake_suspected"}) = "approve"
  /\ D!SuggestedAction("review_required", {"drawing_only_page", "mojibake_suspected"}) = "reprocess"
  /\ D!SuggestedAction("review_required", {"drawing_only_page", "minor_mojibake"}) = "escalate"
  /\ D!SuggestedAction("review_required", {"provider_error"}) = "review"
  /\ D!Overturned(<<"rejected", "escalated", "manual_approved">>) /\ ~D!Overturned(<<"rejected">>)
  /\ D!WinningProvider(<<[provider |-> "docling"], [provider |-> "tesseract"], [provider |-> ""]>>)
       = "tesseract"
================================================================================
