-------------------------- MODULE MCIngestionPipeline -------------------------
(* Instances of IngestionPipeline for TLC, and StructuredEvidence on small tables and *)
(* pages: what its operators give is compared with a definition of its own.            *)
EXTENDS IngestionPipeline, Integers, FiniteSets, Sequences, TLC

CONSTANTS m1, m2, w1, w2, j1, d1, h1, h2

OneJobOneDoc == [j \in {j1} |-> d1]

WorkerSymmetry == Permutations(Msgs) \cup Permutations(Workers)

-----
E == INSTANCE StructuredEvidence

Area  == [name |-> "area", index |-> 0, terms |-> {"area"}, dateName |-> FALSE]
Sales == [name |-> "sales", index |-> 0, terms |-> {"sales"}, dateName |-> FALSE]
Month == [name |-> "month", index |-> 0, terms |-> {"month"}, dateName |-> TRUE]
Word(w) == [text |-> w, number |-> {}, date |-> 0]
Num(n) == [text |-> "n", number |-> {n}, date |-> 0]
Day(m) == [text |-> "d", number |-> {2024}, date |-> m]

Table(header, rows) == [name |-> "s", header |-> header, rows |-> rows]
Doc(id, readers, sheet) == [id |-> id, collection |-> "c", tombstone |-> FALSE,
                            readers |-> readers, sheets |-> <<sheet>>]
Question == [terms |-> {"sales"}, by |-> {}, op |-> "sum", ascending |-> FALSE, top |-> {},
             bound |-> {}, below |-> FALSE, since |-> 0]
Ask(docs, q, reason, max) == E!TableAnswer(docs, "ann", "", q, reason, max)
One(rows) == <<Doc("x", {"ann"}, Table(<<Area, Sales>>, rows))>>

Amounts == {<<Word(a), n>> : a \in {"north", "south"}, n \in {E!Blank, Num(10), Num(30)}}
Triples == [1..3 -> Amounts]

(* Totals by area are those of the rows that have a number, however many are cited. *)
ASSUME
  \A rows \in Triples :
    LET q == [Question EXCEPT !.terms = {"sales", "area"}]
        Tens(a) == {k \in 1..3 : rows[k] = <<Word(a), Num(10)>>}
        Thirties(a) == {k \in 1..3 : rows[k] = <<Word(a), Num(30)>>}
        total(a) == 10 * Cardinality(Tens(a)) + 30 * Cardinality(Thirties(a))
        answer == Ask(One(rows), q, "aggregation", 2)
    IN  /\ answer.parts = {<<a, <<total(a), 1>> >> :
                           a \in {a \in {"north", "south"} : total(a) > 0}}
        /\ Cardinality(answer.citations) = E!Least({2, Cardinality(answer.rows)})

(* The median lies in the middle, a count needs no number, and a ranking gives the     *)
(* extremes and no more than asked for.                                                *)
ASSUME
  \A rows \in Triples :
    LET numbered == {k \in 1..3 : rows[k][2] # E!Blank}
        of(k) == E!NumberIn(rows[k][2])
        Q(op) == [Question EXCEPT !.op = op]
        median == Ask(One(rows), Q("median"), "aggregation", 10).parts
        low == Ask(One(rows), [Question EXCEPT !.ascending = TRUE, !.top = {2}], "ranking", 10)
    IN  /\ \A part \in median :
             /\ 2 * Cardinality({k \in numbered : 2 * of(k) < part[2][1]}) <= Cardinality(numbered)
             /\ 2 * Cardinality({k \in numbered : 2 * of(k) > part[2][1]}) <= Cardinality(numbered)
        /\ (median = {}) = (numbered = {})
        /\ Ask(One(rows), Q("count"), "aggregation", 10).parts # {}
        /\ Cardinality(low.rows) = E!Least({2, Cardinality(numbered)})
        /\ \A p \in low.rows, k \in numbered : <<1, 1, k>> \in low.rows \/ of(p[3]) <= of(k)

(* Two columns of one name are one, and the last value that is not blank is cited.     *)
ASSUME
  LET twice == Table(<<Area, Sales, Sales>>, <<<<Word("north"), Num(10), Num(30)>>,
                                               <<Word("south"), Num(20), E!Blank>>,
                                               <<E!Blank, E!Blank, E!Blank>> >>)
      answer == Ask(<<Doc("x", {"ann"}, twice)>>, Question, "aggregation", 10)
  IN  /\ answer.parts = {<<"", <<50, 1>> >>}
      /\ {c.cell : c \in answer.citations} = {<<"s", 2, 3>>, <<"s", 3, 2>>}

(* Documents the question does not name are added up with the one it does; the ones    *)
(* the asker cannot read are not; a value the policy masked does not count.             *)
ASSUME
  LET sheet == Table(<<Area, Sales>>, <<<<Word("north"), Num(10)>> >>)
      Total(docs) == Ask(docs, Question, "aggregation", 10).parts
  IN  /\ Total(<<Doc("x", {"ann"}, sheet), Doc("y", {"ann"}, sheet)>>) = {<<"", <<20, 1>> >>}
      /\ Total(<<Doc("x", {"ann"}, sheet), Doc("y", {"bob"}, sheet)>>) = {<<"", <<10, 1>> >>}
      /\ Total(<<[Doc("x", {"ann"}, sheet) EXCEPT !.tombstone = TRUE]>>) = {}
      /\ Total(<<Doc("x", {"ann"}, E!Redacted(sheet, {Num(10)}))>>) = {}

(* A bound is never met by the value that equals it; "until" is read as "since"; the    *)
(* latest row answers also when it lacks the column asked for, and cites another cell.  *)
ASSUME
  LET rows == <<<<Word("north"), Num(10)>>, <<Word("south"), Num(30)>> >>
      dated == Table(<<Area, Month, Sales>>, <<<<Word("north"), Day(202401), Num(10)>>,
                                               <<Word("south"), Day(202402), E!Blank>> >>)
      docs == <<Doc("x", {"ann"}, dated)>>
      latest == Ask(docs, Question, "latest_value", 10)
      Bound(n, below) == Ask(One(rows), [Question EXCEPT !.bound = {n}, !.below = below],
                             "numeric_comparison", 10).rows
  IN  /\ Bound(10, TRUE) = {} /\ Bound(30, FALSE) = {} /\ Bound(10, FALSE) = {<<1, 1, 2>>}
      /\ Ask(docs, [Question EXCEPT !.since = 202402], "period_filter", 10).rows = {<<1, 1, 2>>}
      /\ latest.status = "ok" /\ latest.parts = {<<"", <<202402, 1>> >>}
      /\ {c.cell : c \in latest.citations} = {<<"s", 3, 1>>}

(* The first pattern decides; a route needs a tool to be more than a refusal, and SQL   *)
(* needs every one of its conditions.                                                   *)
ASSUME
  LET Sql == [allowlisted : BOOLEAN, template : BOOLEAN, select : BOOLEAN, statements : 1..2,
              tenantScoped : BOOLEAN]
      docs == One(<<<<Word("north"), Num(10)>> >>)
  IN  /\ E!Intent({"ranking_ja", "period_filter"}) = "period_filter"
      /\ E!Intent({"total"}) = "" /\ E!Intent({"total", "across"}) = "aggregation"
      /\ E!QueryRoute({"ranking"}, FALSE) = "refused_structured_tool_required"
      /\ E!RoutedAnswer(docs, "ann", Question, {"ranking"}, 10) = "ok"
      /\ E!RoutedAnswer(docs, "ann", Question, {"ranking_ja"}, 10) = "insufficient_evidence"
      /\ E!RoutedAnswer(docs, "ann", Question, {}, 10) = "rag"
      /\ Cardinality({r \in Sql : E!SqlRefusal(r) = ""}) = 1

-----
Line(page, words, labels, confidence) ==
  [type |-> "LINE", page |-> page, text |-> E!Text(words, labels), confidence |-> confidence,
   source |-> "textract"]
Reply(outcome, blocks, more) == [status |-> outcome, blocks |-> blocks, more |-> more]
Caption(outcome, labels) == [status |-> outcome, text |-> E!Text({"cap"}, {}), labels |-> labels,
                            source |-> "vlm"]
ReadLines == {Line(1, words, labels, 100) : words \in {{"w"}, {"v"}}, labels \in {{}, {"phone"}}}

(* However lines are read, an image of two or more has one region of the whole page; it *)
(* is marked when anything on it is, and so are its crop and chunk. With a caption that *)
(* is sensitive every region is.                                                        *)
ASSUME
  \A n \in 0..3 : \A lines \in [1..n -> ReadLines] :
    \A caption \in {Caption("succeeded", {}), Caption("failed", {"phone"})} :
      LET regions == E!ImageRegions(lines, caption)
          marked == {k \in 1..n : lines[k].text.labels # {}}
      IN  /\ Len(regions) = IF n >= 2 THEN n + 1 ELSE n
          /\ \A k \in DOMAIN regions :
               /\ regions[k].text.labels = {}
               /\ E!Crop("x", "a", k, regions[k]).required
                    = \/ k \in marked
                      \/ k > n /\ marked # {}
                      \/ caption.labels # {}
               /\ E!VisualChunk(regions[k], "accepted").required = regions[k].required
               /\ E!VisualChunk(regions[k], "accepted").evidence = regions[k].text

(* A scan read with full confidence is held, and one without a confidence is not; only  *)
(* a threshold of one or less on the scale of 0 to 100 lets any through.                 *)
ASSUME
  LET Page(c) == {E!WithAggregates(<<E!AnalyzedRegion(Line(1, {"w"}, {}, c), 1)>>)}
  IN  /\ \A c \in 0..100 : E!OcrVerdict(Page(c), 0) = "review_required"
      /\ E!OcrVerdict(Page(-1), 0) = "accepted" /\ E!OcrVerdict({<<>>}, 0) = "accepted"
      /\ E!OcrVerdict(Page(97), 95) = "accepted" /\ E!OcrVerdict(Page(97), 98) = "review_required"

(* Further responses are read to the last; a partial success has no page, an unknown    *)
(* status counts as success, and a file without a line is one page without chunks.      *)
ASSUME
  LET line == Line(2, {"w"}, {}, 90)
      word == [line EXCEPT !.type = "WORD"]
      two == <<Reply("SUCCEEDED", <<line, word>>, TRUE), Reply("", <<line>>, FALSE),
               Reply("", <<line>>, FALSE)>>
  IN  /\ E!Polled(two).pages = {2} /\ Len(E!Polled(two).lines) = 2
      /\ Len(E!AnalyzedPage(E!Polled(two), 2)) = 3
      /\ E!Polled(<<Reply("PARTIAL_SUCCESS", <<line>>, FALSE)>>).pages = {}
      /\ E!Polled(<<Reply("", <<>>, FALSE)>>) = [status |-> "succeeded", pages |-> {1}, lines |-> <<>>]
      /\ E!VisualChunks({E!AnalyzedPage(E!Polled(<<Reply("", <<>>, FALSE)>>), 1)}, 0) = {}

(* Pages read one by one after a failed analysis: nothing found is no result, and a     *)
(* region of page 2 has a crop that says page 1.                                        *)
ASSUME
  LET blank == [lines |-> <<>>, caption |-> Caption("failed", {})]
      read == [blank EXCEPT !.lines = <<Line(1, {"w"}, {}, 90)>>]
      pages == E!PageFallback({1, 2}, <<blank, read>>, "access")
  IN  /\ E!PageFallback({1}, <<blank>>, "") = <<>> /\ E!PageFallback({}, <<>>, "") = <<>>
      /\ pages[1] = <<>> /\ pages[2][1].page = 2
      /\ pages[2][1].fallback = "async_analyzer_access_denied"
      /\ E!Crop("x", "a", 1, pages[2][1]).page = 1

(* The same image in two documents has one set of crops: the second document takes      *)
(* them over, and when it is deleted the first has none.                                *)
ASSUME
  LET regions == E!ImageRegions(<<Line(1, {"w"}, {}, 90)>>, Caption("failed", {}))
      id == E!CropId("image", 1)
      first == E!PutCrops(<<>>, "x", "image", regions, TRUE, FALSE)
      second == E!PutCrops(first, "y", "image", regions, TRUE, FALSE)
  IN  /\ {c.document : c \in E!AuthorizedCrop(first, id, TRUE)} = {"x"}
      /\ {c.document : c \in E!AuthorizedCrop(second, id, TRUE)} = {"y"}
      /\ E!AuthorizedCrop(E!TombstoneDocument(second, "y"), id, TRUE) = {}
      /\ E!TombstoneDocument(second, "x") = second
      /\ E!PutCrops(<<>>, "x", "image", regions, FALSE, TRUE) = <<>>

(* A region at the right edge has no pixel; one before it has, however thin. *)
ASSUME
  /\ \A x \in {-5, 0, 500, 998, 999}, size \in 1..3 : E!PixelFrom(x, size) < E!PixelTo(x, 0, size)
  /\ \A size \in 1..3 : E!PixelFrom(1000, size) = E!PixelTo(1000, 5, size)
===============================================================================
