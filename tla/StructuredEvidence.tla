-------------------------- MODULE StructuredEvidence --------------------------
(* Evidence that is not prose: the rows of tables, which a question about numbers  *)
(* is answered from without retrieval, and the regions of images and scanned        *)
(* pages, with their verdict, their crops and what is stored of them.               *)
(* A column is a record of its name and the terms of the name; a cell one of its    *)
(* text, the number read from it (a set, empty when there is none) and its date.    *)
EXTENDS Integers, FiniteSets, Sequences, SequencesExt

Least(S) == CHOOSE i \in S : \A j \in S : i <= j
Greatest(S) == CHOOSE i \in S : \A j \in S : j <= i

-----
(* extract_structured_table_manifests: cells of columns with one name collapse into *)
(* the last one that is not blank; a row of blanks is no row.                       *)
Blank == [text |-> "", number |-> {}, date |-> 0]
Unnamed(i) == [name |-> "column_", index |-> i, terms |-> {"column_n"}, dateName |-> FALSE]
NoColumn == Unnamed(0)

ColumnAt(sheet, i) ==
  IF i \in DOMAIN sheet.header /\ sheet.header[i].name # "" THEN sheet.header[i] ELSE Unnamed(i)

Filled(sheet, k) == {i \in DOMAIN sheet.rows[k] : sheet.rows[k][i].text # ""}
At(sheet, k, c) == {i \in Filled(sheet, k) : ColumnAt(sheet, i) = c}
ColumnsOf(sheet, k) == {ColumnAt(sheet, i) : i \in Filled(sheet, k)}

Value(sheet, k, c) ==
  IF At(sheet, k, c) = {} THEN Blank ELSE sheet.rows[k][Greatest(At(sheet, k, c))]

(* _refs_for_rows: the cell of the column, or the first cell of the row without one. *)
Anchor(sheet, k, c) ==
  LET column == IF c \in ColumnsOf(sheet, k) THEN c ELSE ColumnAt(sheet, Least(Filled(sheet, k)))
  IN  <<sheet.name, k + 1, Greatest(At(sheet, k, column))>>

(* redact_table_manifest_values: a value the policy masks is no number and no date. *)
Masked(cell) == IF cell.text = "" THEN cell ELSE [text |-> "***", number |-> {}, date |-> 0]
Redacted(sheet, sensitive) ==
  [sheet EXCEPT !.rows = [k \in DOMAIN sheet.rows |->
     [i \in DOMAIN sheet.rows[k] |->
        IF sheet.rows[k][i] \in sensitive THEN Masked(sheet.rows[k][i]) ELSE sheet.rows[k][i]]]]

-----
(* _visible_rows: of every document the reader may read, all sheets in one list.    *)
(* A row is its place: document, sheet, row.                                        *)
Visible(docs, reader, collection) ==
  {d \in DOMAIN docs : /\ ~docs[d].tombstone
                       /\ collection \in {"", docs[d].collection}
                       /\ reader \in docs[d].readers}

RowsOf(docs, d, s) ==
  {<<d, s, k>> : k \in {k \in DOMAIN docs[d].sheets[s].rows : Filled(docs[d].sheets[s], k) # {}}}

VisibleRows(docs, reader, collection) ==
  UNION {UNION {RowsOf(docs, d, s) : s \in DOMAIN docs[d].sheets} :
         d \in Visible(docs, reader, collection)}

Earlier(p, q) == \/ p[1] < q[1]
                 \/ p[1] = q[1] /\ p[2] < q[2]
                 \/ p[1] = q[1] /\ p[2] = q[2] /\ p[3] < q[3]
FirstOf(S) == CHOOSE p \in S : \A q \in S \ {p} : Earlier(p, q)
Top(S, n) == {p \in S : Cardinality({q \in S : Earlier(q, p)}) < n}

(* A table is the documents and the rows of them in view. *)
SheetOf(t, p) == t.docs[p[1]].sheets[p[2]]
Cell(t, p, c) == Value(SheetOf(t, p), p[3], c)

Columns(t) == UNION {ColumnsOf(SheetOf(t, p), p[3]) : p \in t.rows}
FirstRow(t, c) == FirstOf({p \in t.rows : c \in ColumnsOf(SheetOf(t, p), p[3])})
Sooner(t, c, e) ==
  LET p == FirstRow(t, c)
      q == FirstRow(t, e)
  IN  \/ Earlier(p, q)
      \/ p = q /\ Least(At(SheetOf(t, p), p[3], c)) < Least(At(SheetOf(t, p), p[3], e))
FirstColumn(t, S) ==
  IF S = {} THEN NoColumn ELSE CHOOSE c \in S : \A e \in S \ {c} : Sooner(t, c, e)

-----
(* The column a question names: most terms in common, then the longer name, then    *)
(* the first. Without a term in common there is none, or the first.                  *)
Better(t, terms, c, e) ==
  LET m == Cardinality(terms \cap c.terms)
      n == Cardinality(terms \cap e.terms)
      x == Cardinality(c.terms)
      y == Cardinality(e.terms)
  IN  \/ m > n
      \/ m = n /\ x > y
      \/ m = n /\ x = y /\ Sooner(t, c, e)

Named(t, terms, S) ==
  LET named == {c \in S : c.terms \cap terms # {}}
  IN  IF named = {} THEN NoColumn
                    ELSE CHOOSE c \in named : \A e \in named \ {c} : Better(t, terms, c, e)

Numeric(t) == {c \in Columns(t) : \E p \in t.rows : Cell(t, p, c).number # {}}
Dated(t) == {c \in Columns(t) : \E p \in t.rows : Cell(t, p, c).date # 0}

ValueColumn(t, q) == Named(t, q.terms, Numeric(t))
GroupColumn(t, q, value) ==
  LET asked == Named(t, q.by, Columns(t) \ {value})
  IN  IF asked # NoColumn THEN asked ELSE Named(t, q.terms, (Columns(t) \ Numeric(t)) \ {value})
LabelColumn(t, value) ==
  LET texts == (Columns(t) \ Numeric(t)) \ {value}
  IN  FirstColumn(t, IF texts # {} THEN texts ELSE Columns(t) \ {value})
DateColumn(t) ==
  LET named == {c \in Dated(t) : c.dateName}
  IN  FirstColumn(t, IF named # {} THEN named ELSE Dated(t))

-----
(* What a question is answered with: the rows it rests on, those of them it cites,  *)
(* the column the cells are cited in, and the parts of the text.                     *)
Nothing == [rows |-> {}, cited |-> {}, column |-> NoColumn, parts |-> {}]

(* _apply_aggregate, as a fraction. *)
Nth(n, value, S) == CHOOSE v \in {value[p] : p \in S} :
  /\ Cardinality({p \in S : value[p] < v}) < n
  /\ Cardinality({p \in S : value[p] <= v}) >= n
Applied(op, value, S) ==
  LET n == Cardinality(S)
  IN  CASE op = "count" -> <<n, 1>>
        [] op = "sum" -> <<MapThenSumSet(LAMBDA p : value[p], S), 1>>
        [] op = "average" -> <<MapThenSumSet(LAMBDA p : value[p], S), n>>
        [] op = "median" -> <<Nth((n + 1) \div 2, value, S) + Nth(n \div 2 + 1, value, S), 2>>

NumberIn(cell) == CHOOSE n \in cell.number : TRUE

Aggregate(t, q, max) ==
  LET value == ValueColumn(t, q)
      group == GroupColumn(t, q, value)
      used  == {p \in t.rows : /\ q.op # "count" => Cell(t, p, value).number # {}
                               /\ group # NoColumn => Cell(t, p, group).text # ""}
      amount == [p \in used |-> IF q.op = "count" THEN 1 ELSE NumberIn(Cell(t, p, value))]
      key(p) == Cell(t, p, group).text
      members(p) == {o \in used : key(o) = key(p)}
      before(o, p) == \/ Earlier(FirstOf(members(o)), FirstOf(members(p)))
                      \/ key(o) = key(p) /\ Earlier(o, p)
  IN  IF used = {} \/ (value = NoColumn /\ q.op # "count") THEN Nothing
      ELSE [rows |-> used,
            cited |-> {p \in used : Cardinality({o \in used : before(o, p)}) < max},
            column |-> IF value # NoColumn THEN value ELSE group,
            parts |-> {<<key(p), Applied(q.op, amount, members(p))>> : p \in used}]

(* _rank: the extreme rows; the label is the first column without a number. *)
Rank(t, q, max) ==
  LET value == ValueColumn(t, q)
      found == {p \in t.rows : Cell(t, p, value).number # {}}
      n(p)  == NumberIn(Cell(t, p, value))
      above(o, p) == \/ IF q.ascending THEN n(o) < n(p) ELSE n(o) > n(p)
                     \/ n(o) = n(p) /\ Earlier(o, p)
      top   == IF q.top = {} THEN max ELSE Least({max} \union q.top)
      best  == {p \in found : Cardinality({o \in found : above(o, p)}) < top}
  IN  IF value = NoColumn \/ best = {} THEN Nothing
      ELSE [rows |-> best, cited |-> best, column |-> value,
            parts |-> {<<Cell(t, p, LabelColumn(t, value)).text, <<n(p), 1>> >> : p \in best}]

(* _latest: the row of the last date, whether or not it has the column asked for. *)
Latest(t, q) ==
  LET date  == DateColumn(t)
      dated == {p \in t.rows : Cell(t, p, date).date # 0}
      last  == {p \in dated : \A o \in dated :
                  \/ Cell(t, o, date).date < Cell(t, p, date).date
                  \/ Cell(t, o, date).date = Cell(t, p, date).date /\ ~Earlier(o, p)}
      asked == Named(t, q.terms, Columns(t) \ {date})
  IN  IF dated = {} \/ asked = NoColumn THEN Nothing
      ELSE [rows |-> last, cited |-> last, column |-> asked,
            parts |-> {<<Cell(t, p, asked).text, <<Cell(t, p, date).date, 1>> >> : p \in last}]

(* _numeric_filter: every comparison is strict, and what is not less is greater. *)
NumericFilter(t, q, max) ==
  LET value == ValueColumn(t, q)
      bound == NumberIn([number |-> q.bound])
      fits(p) == \E n \in Cell(t, p, value).number : IF q.below THEN n < bound ELSE n > bound
      found == Top({p \in t.rows : fits(p)}, max)
  IN  IF value = NoColumn \/ q.bound = {} \/ found = {} THEN Nothing
      ELSE [rows |-> found, cited |-> found, column |-> value,
            parts |-> {<<Cell(t, p, LabelColumn(t, value)).text, Cell(t, p, value).number>> :
                       p \in found}]

(* _period_filter: a lower bound, also for "until". *)
PeriodFilter(t, q, max) ==
  LET date  == DateColumn(t)
      found == Top({p \in t.rows : Cell(t, p, date).date # 0 /\ Cell(t, p, date).date >= q.since},
                   max)
  IN  IF q.since = 0 \/ found = {} THEN Nothing
      ELSE [rows |-> found, cited |-> found, column |-> date,
            parts |-> {<<Cell(t, p, LabelColumn(t, date)).text, <<Cell(t, p, date).date, 1>> >> :
                       p \in found}]

Result(t, q, reason, max) ==
  CASE reason = "aggregation" -> Aggregate(t, q, max)
    [] reason = "ranking" -> Rank(t, q, max)
    [] reason = "latest_value" -> Latest(t, q)
    [] reason = "numeric_comparison" -> NumericFilter(t, q, max)
    [] reason = "period_filter" -> PeriodFilter(t, q, max)
    [] OTHER -> Nothing

TableAnswer(docs, reader, collection, q, reason, max) ==
  LET t == [docs |-> docs, rows |-> VisibleRows(docs, reader, collection)]
      r == Result(t, q, reason, max)
  IN  [status |-> IF r.rows = {} THEN "insufficient_evidence" ELSE "ok",
       rows |-> r.rows, parts |-> r.parts,
       citations |-> {[document |-> docs[p[1]].id, row |-> p,
                       cell |-> Anchor(SheetOf(t, p), p[3], r.column)] : p \in r.cited}]

-----
(* classify_structured_query: aggregation first, then the first pattern that is     *)
(* found. The Japanese patterns give reasons of their own.                           *)
Patterns == <<"ranking", "latest_value", "numeric_comparison", "period_filter", "aggregation_ja",
              "ranking_ja", "latest_ja", "numeric_comparison_ja", "period_filter_ja">>

Intent(found) ==
  LET hits == {n \in DOMAIN Patterns : Patterns[n] \in found}
  IN  IF "aggregation" \in found \/ {"total", "across"} \subseteq found THEN "aggregation"
      ELSE IF hits = {} THEN "" ELSE Patterns[Least(hits)]

QueryRoute(found, toolAvailable) ==
  IF Intent(found) = "" THEN "rag"
  ELSE IF toolAvailable THEN "structured_tool" ELSE "refused_structured_tool_required"

(* AnswerService.answer: with a tool its answer is final, whatever it says. *)
RoutedAnswer(docs, reader, q, found, max) ==
  IF QueryRoute(found, TRUE) = "rag" THEN "rag"
                                     ELSE TableAnswer(docs, reader, "", q, Intent(found), max).status

(* ReadOnlySqlTool.execute: the first check that fails names the refusal. *)
SqlRefusal(r) ==
  IF ~r.allowlisted THEN "datasource_not_allowlisted"
  ELSE IF ~r.template THEN "trusted_template_required"
  ELSE IF ~r.select THEN "select_only"
  ELSE IF r.statements > 1 THEN "single_statement_only"
  ELSE IF ~r.tenantScoped THEN "tenant_scope_required" ELSE ""

-----
(* Visual ingestion. A text is the set of its words and the set of the sensitive     *)
(* labels found in it; confidences are hundredths, -1 for none.                      *)
Text(words, labels) == [words |-> words, labels |-> labels]
NoWords == Text({}, {})
Redact(text) == [text EXCEPT !.labels = {}]     \* Redactor.redact_visual_text

(* _visual_region_redaction_metadata *)
Region(page, text, labels, confidence, source) ==
  [page |-> page, text |-> text, caption |-> NoWords, confidence |-> confidence,
   labels |-> labels, required |-> labels # {}, secret |-> "api_key" \in labels,
   source |-> source, captionSource |-> "", aggregate |-> FALSE, count |-> 0, fallback |-> "",
   assetPage |-> page]

(* textract_ocr_regions, _collect_textract_pages: the lines with text of every         *)
(* response up to the first without a token for the next.                              *)
Responses(responses) ==
  LET last == {n \in DOMAIN responses : ~responses[n].more}
  IN  IF last = {} THEN responses ELSE SubSeq(responses, 1, Least(last))
IsLine(block) == block.type = "LINE" /\ block.text.words # {}
Lines(responses) ==
  LET taken == Responses(responses)
  IN  SelectSeq(FlattenSeq([n \in DOMAIN taken |-> taken[n].blocks]), IsLine)

(* TextractAsyncDocumentAnalyzer.poll: a partial success hands over no page, and a     *)
(* status it does not know is a success. A file without a line is one page without     *)
(* regions.                                                                            *)
Polled(responses) ==
  LET status == responses[1].status
      lines  == Lines(responses)
      pages  == {lines[n].page : n \in DOMAIN lines}
  IN  CASE status = "IN_PROGRESS" -> [status |-> "pending", pages |-> {}, lines |-> <<>>]
        [] status = "FAILED" -> [status |-> "failed", pages |-> {}, lines |-> <<>>]
        [] status = "PARTIAL_SUCCESS" -> [status |-> "partial_failure", pages |-> {}, lines |-> <<>>]
        [] OTHER -> [status |-> "succeeded", pages |-> IF pages = {} THEN {1} ELSE pages,
                     lines |-> lines]

-----
(* _append_page_aggregate_regions: a page with two regions or more gets one of all      *)
(* its text, unless it has one or has no text. The mean is rounded down.               *)
OfPage(regions, p) == {n \in DOMAIN regions : regions[n].page = p}
Worded(regions, p) == {n \in OfPage(regions, p) : regions[n].text.words # {}}
Sources(regions, p) == {n \in OfPage(regions, p) : regions[n].source # ""}
Captioned(regions, p) == {n \in OfPage(regions, p) : regions[n].caption.words # {}}
Measured(regions, S) == {n \in S : regions[n].confidence >= 0}

NeedsAggregate(regions, p) ==
  /\ Cardinality(OfPage(regions, p)) >= 2
  /\ \A n \in OfPage(regions, p) : ~regions[n].aggregate
  /\ Worded(regions, p) # {}

Mean(regions, S) ==
  IF S = {} THEN -1
  ELSE MapThenSumSet(LAMBDA n : regions[n].confidence, S) \div Cardinality(S)

PageLabels(regions, p) == UNION {regions[n].labels : n \in OfPage(regions, p)}

Aggregated(regions, p) ==
  [page |-> p,
   text |-> Text(UNION {regions[n].text.words : n \in OfPage(regions, p)},
                 UNION {regions[n].text.labels : n \in OfPage(regions, p)}),
   caption |-> IF Captioned(regions, p) = {} THEN NoWords
               ELSE regions[Least(Captioned(regions, p))].caption,
   confidence |-> Mean(regions, Measured(regions, OfPage(regions, p))),
   labels |-> PageLabels(regions, p),
   required |-> \/ \E n \in OfPage(regions, p) : regions[n].required
                \/ PageLabels(regions, p) # {},
   secret |-> \E n \in OfPage(regions, p) : regions[n].secret,
   source |-> IF Sources(regions, p) = {} THEN ""
              ELSE regions[Least(Sources(regions, p))].source,
   captionSource |-> IF Captioned(regions, p) = {} THEN ""
                     ELSE regions[Least(Captioned(regions, p))].captionSource,
   aggregate |-> TRUE, count |-> Cardinality(OfPage(regions, p)), fallback |-> "",
   assetPage |-> p]

(* In the order in which the pages first occur. *)
PagesInOrder(regions) ==
  LET firsts == SelectSeq([n \in DOMAIN regions |-> n],
                          LAMBDA n : n = Least(OfPage(regions, regions[n].page)))
  IN  [k \in DOMAIN firsts |-> regions[firsts[k]].page]

WithAggregates(regions) ==
  LET pages == SelectSeq(PagesInOrder(regions), LAMBDA p : NeedsAggregate(regions, p))
  IN  regions \o [k \in DOMAIN pages |-> Aggregated(regions, pages[k])]

-----
(* execute_image: one region for every line read, all of page 1; the labels are those   *)
(* of the line and of the caption, which every region carries.                          *)
ImageRegion(line, caption) ==
  LET read == Region(1, Redact(line.text), line.text.labels \union caption.labels,
                     line.confidence, line.source)
  IN  IF caption.status = "succeeded"
        THEN [read EXCEPT !.caption = caption.text, !.captionSource = caption.source]
        ELSE read

ImageRegions(lines, caption) ==
  WithAggregates([n \in DOMAIN lines |-> ImageRegion(lines[n], caption)])

(* execute_document_analysis, _normalize_analyzed_region: the regions of one page.      *)
AnalyzedRegion(line, page) ==
  Region(page, Redact(line.text), line.text.labels, line.confidence, line.source)

AnalyzedPage(analysis, page) ==
  LET lines == SelectSeq(analysis.lines, LAMBDA line : line.page = page)
  IN  WithAggregates([n \in DOMAIN lines |-> AnalyzedRegion(lines[n], page)])

(* _safe_failure_code *)
FailureCode(reason) ==
  CASE reason = "" -> ""
    [] reason = "invalids3object" -> "textract_s3_object_unavailable"
    [] reason = "not configured" -> "async_analyzer_not_configured"
    [] reason = "access" -> "async_analyzer_access_denied"
    [] OTHER -> "async_analyzer_failed"

(* _with_pdf_page_number: the page is set after the crops were cut, whose page stays 1. *)
OnPdfPage(regions, page, reason) ==
  [n \in DOMAIN regions |-> [regions[n] EXCEPT !.page = page, !.fallback = FailureCode(reason)]]

(* _execute_visual_pdf_page_fallback: every page that could be rendered, as an image;   *)
(* no result when nothing was rendered or nothing found on any page.                    *)
PageFallback(rendered, read, reason) ==
  LET pages == [p \in rendered |-> OnPdfPage(ImageRegions(read[p].lines, read[p].caption), p,
                                             reason)]
  IN  IF \A p \in rendered : pages[p] = <<>> THEN <<>> ELSE pages

-----
(* _ocr_quality_metadata: the engines report confidences from 0 to 1, the threshold is  *)
(* one from 0 to 100; both in hundredths here.                                          *)
DefaultThreshold == 9000
Threshold(configured) == IF configured \in 1..10000 THEN configured ELSE DefaultThreshold

Confidences(results) ==
  UNION {{r[n].confidence : n \in {n \in DOMAIN r : r[n].confidence >= 0 /\ ~r[n].aggregate}} :
         r \in results}

OcrVerdict(results, configured) ==
  IF \E c \in Confidences(results) : c < Threshold(configured) THEN "review_required"
                                                               ELSE "accepted"

(* visual_chunks_from_ingestion, _persist_visual_results: a chunk for every region,     *)
(* caption and all; what is evidence is the text that was read. One verdict for all.    *)
VisualChunk(region, status) ==
  [text |-> Text(region.text.words \union region.caption.words,
                 region.text.labels \union region.caption.labels),
   evidence |-> region.text, page |-> region.page, status |-> status,
   retrievable |-> status = "accepted", aggregate |-> region.aggregate,
   required |-> region.required \/ region.labels # {}, fallback |-> region.fallback]

VisualChunks(results, configured) ==
  UNION {{VisualChunk(r[n], OcrVerdict(results, configured)) : n \in DOMAIN r} : r \in results}

-----
(* CropService. The store keeps crops by the asset, which is named after the image, and *)
(* by the region: the document is not part of the name.                                 *)
CropId(asset, n) == <<asset, n>>

Crop(document, asset, n, region) ==
  LET required == region.required \/ region.labels # {}
  IN  [id |-> CropId(asset, n), document |-> document, page |-> region.assetPage,
       required |-> required, redactedUri |-> required,
       policy |-> IF required THEN "visual-region-redaction-required" ELSE "inherit",
       tombstone |-> FALSE]

(* create_region_crop, _materialize_crops: an analysis without the page's image cuts     *)
(* no crop.                                                                             *)
PutCrops(store, document, asset, regions, image, imageRequired) ==
  LET ids == IF imageRequired /\ ~image THEN {} ELSE {CropId(asset, n) : n \in DOMAIN regions}
  IN  [id \in ids \union DOMAIN store |->
         IF id \in ids THEN Crop(document, asset, id[2], regions[id[2]]) ELSE store[id]]

TombstoneDocument(store, document) ==
  [id \in DOMAIN store |->
     IF store[id].document = document THEN [store[id] EXCEPT !.tombstone = TRUE] ELSE store[id]]

AuthorizedCrop(store, id, documentVisible) ==
  IF documentVisible /\ id \in DOMAIN store /\ ~store[id].tombstone THEN {store[id]} ELSE {}

(* _pixel_box, one axis: from and to in thousandths of the image's size. *)
Unit == 1000
Clamped(x) == IF x < 0 THEN 0 ELSE IF x > Unit THEN Unit ELSE x
PixelFrom(x, size) == (Clamped(x) * size) \div Unit
PixelTo(x, length, size) ==
  LET to == (Clamped(x + length) * size) \div Unit
  IN  IF to > PixelFrom(x, size) THEN to
      ELSE IF PixelFrom(x, size) + 1 < size THEN PixelFrom(x, size) + 1 ELSE size
===============================================================================
