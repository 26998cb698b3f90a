------------------------------- MODULE MCAnswers -------------------------------
(* Two documents with a table each: one has a text piece, one is a scanned page   *)
(* with a line cut out of it; questions that are dangerous, unclear and filtered,  *)
(* a look-up of one document, and a dangerous one computed from tables.            *)
EXTENDS AnswerRequests

TextDoc == "manual"
ScanDoc == "scan"
MCDocument == {TextDoc, ScanDoc}
MCPiece == {"text", "row", "line", "page", "scan row"}
MCDocOf == [p \in MCPiece |-> IF p \in {"text", "row"} THEN TextDoc ELSE ScanDoc]
MCKindOf == [p \in MCPiece |-> IF p = "scan row" THEN "row" ELSE p]
MCFamilyOf == [v \in Verifier |-> v]

Plain == [danger |-> FALSE, plain |-> TRUE, lookup |-> FALSE, table |-> FALSE,
          filtered |-> FALSE, names |-> {}]
Questions ==
  {[Plain EXCEPT !.danger = TRUE], [Plain EXCEPT !.plain = FALSE, !.filtered = TRUE],
   [Plain EXCEPT !.lookup = TRUE, !.names = {TextDoc}], [Plain EXCEPT !.danger = TRUE, !.table = TRUE]}

-------------------------------------------------------------------------------
(* Retrieval over five chunks: one names the machine of the query, two have its    *)
(* words and one a synonym of a word, one is near and refused for its quality.     *)
R == INSTANCE HybridRetrieval

Synonym == [words |-> {"halt"}]
Phrase == [words |-> {"stop"}]

C(id, dist) ==
  [id |-> id, document |-> "d", collection |-> "line", position |-> id, live |-> TRUE,
   documentLive |-> TRUE, hasVector |-> TRUE, distance |-> dist, fields |-> {},
   machine |-> {}, compacts |-> {}, compacted |-> TRUE, hashed |-> TRUE, words |-> {},
   phrases |-> {}, named |-> {}, dense |-> 0, fresh |-> 0, kind |-> "other", risky |-> FALSE,
   quality |-> "none"]

Named == [C(1, 6000) EXCEPT !.fields = {"m1"}, !.compacts = {"m1"}]
Worded == [C(2, 5000) EXCEPT !.words = {"stop", "press"}, !.phrases = {Phrase}]
Halting == [C(3, 5000) EXCEPT !.words = {"halt", "press"}, !.phrases = {Synonym}]
Blocked == [C(4, 1000) EXCEPT !.quality = "blocked", !.words = {"press"}]
Other == [C(5, 3000) EXCEPT !.document = "e", !.collection = "site"]
Chunks == {Named, Worded, Halting, Blocked, Other}

Words == [terms |-> {"stop", "press"}, identifiers |-> {"m1"}, phrases |-> {Phrase},
          expansions |-> {}, marks |-> {"procedure"}]
Asked == [Words EXCEPT !.expansions = R!Expansions({{Phrase, Synonym}}, Words)]

Grant(scope, of) == [scope |-> scope, of |-> of, permission |-> "read", subject |-> "u"]
GrantSets == {{}, {Grant("tenant", "t")}, {Grant("collection", "line")}, {Grant("document", "e")}}
Profiles == [topK: {1, 3}, rerank: BOOLEAN, rerankTopN: {0, 2}, model: BOOLEAN]
Wide == [pool |-> 2, vector |-> 2]

(* The legs find what an unbounded scan of the visible chunks would. *)
ASSUME \A S \in SUBSET Chunks, visible \in SUBSET Chunks, k \in 1..2, w \in 1..3 :
  /\ R!VectorLeg(S, visible, k, w)
       = R!First(R!VectorRows(S) \cap visible, R!Nearer(R!VectorRows(S)), k)
  /\ R!PoolContract(S, visible, Asked, w) \subseteq R!Pool(S, visible, Asked, w)

(* A result is readable, eligible, never longer than asked and names a chunk once. *)
ASSUME \A grants \in GrantSets, profile \in Profiles :
  \A result \in R!Results(Chunks, grants, {"u"}, Asked, profile, Wide) :
    /\ \A c \in R!ToSet(result) : R!CanRead(grants, {"u"}, c) /\ R!Eligible(c)
    /\ Len(result) <= profile.topK /\ R!IsInjective(result)
    /\ grants = {} => result = <<>>

(* A covered synonym never outranks the word itself, until recency decides. *)
Fresh(c) == [c EXCEPT !.fresh = 1]
ASSUME R!LexicalScore(Worded, Asked) > R!LexicalScore(Halting, Asked)
ASSUME R!LexicalScore(Worded, Asked) < R!LexicalScore(Fresh(Halting), Asked)

(* Text never outscores a matched identifier, until the plan of the query boosts it. *)
ASSUME \A d, o, e, r \in 0..2, i \in 0..3 : R!Score(d, o, e, r, i, 2) < R!MetadataExact
Safe == [Worded EXCEPT !.kind = "safety", !.risky = TRUE, !.named = {"m1"}, !.dense = 1]
Safety == [Asked EXCEPT !.marks = {"hazard"}]
LegsOf(S, query, k) == R!Legs(S, S, query, k, Wide)
ASSUME LET legs == LegsOf({Named, Safe}, Safety, 2)
       IN /\ R!BestScore(legs, Safety, Safe) < R!BestScore(legs, Safety, Named)
          /\ R!Ranked(legs, Safety) = <<Safe, Named>>

(* A refused chunk takes a place of the cut, and the one behind it is not found. *)
Plainly == [Asked EXCEPT !.identifiers = {}, !.terms = {}, !.expansions = {}]
ASSUME R!Ranked(LegsOf({Blocked, Other}, Plainly, 1), Plainly) = <<>>
ASSUME R!Ranked(LegsOf({Other}, Plainly, 1), Plainly) = <<Other>>

(* A reranker that reads fewer than asked shortens the answer. *)
ASSUME \E result \in R!Results(Chunks, {Grant("tenant", "t")}, {"u"}, Asked,
         [topK |-> 3, rerank |-> TRUE, rerankTopN |-> 2, model |-> FALSE], Wide) : Len(result) = 2

(* No sequence of look-ups and deletions makes the cache larger than its limit,       *)
(* repeats a key or keeps what a deleted document was read from.                     *)
Entry(k, ds) == [key |-> <<"e", k>>, documents |-> ds, artifacts |-> ds]
CacheSteps(cache) ==
  {R!EmbedQuery(cache, "e", t, 2) : t \in {"q1", "q2"}}
    \cup {R!CachePut(cache, Entry(t, {"d"}), 2) : t \in {"q2", "q3"}}
    \cup {R!InvalidateDocument(cache, "d"), R!InvalidateVisual(cache, {"d"})}
CacheAfter[n \in 0..5] ==
  IF n = 0 THEN {<<>>} ELSE UNION {CacheSteps(x) : x \in CacheAfter[n - 1]}
ASSUME \A n \in 0..5 : \A cache \in CacheAfter[n] :
  /\ Len(cache) <= 2 /\ R!IsInjective([i \in DOMAIN cache |-> cache[i].key])
  /\ \A e \in R!ToSet(R!InvalidateDocument(cache, "d")) : "d" \notin e.documents
  /\ \A t \in {"q1", "q2"} : R!Last(R!EmbedQuery(cache, "e", t, 2)).key = <<"e", t>>
===============================================================================
