---------------------------- MODULE HybridRetrieval ----------------------------
(* One retrieval: three legs over the live chunks of a tenant (vector distance,   *)
(* identifiers of the metadata, words of the text), their fusion, the boosts of    *)
(* the query plan and the cut. Legs are sets with a strict order of their chunks;  *)
(* scores are whole ten-thousandths.                                              *)
EXTENDS Integers, FiniteSets, Sequences, SequencesExt

Most(m, n) == IF m < n THEN n ELSE m
Least(m, n) == IF m < n THEN m ELSE n

(* The first k of S in the order `before`, a set of pairs. *)
Ahead(S, before, x) == {y \in S : <<y, x>> \in before}
First(S, before, k) == {x \in S : Cardinality(Ahead(S, before, x)) < k}

-----
(* AclPolicy.can_read: nothing is readable without a grant that covers it. *)
Covers(grant, c) ==
  \/ grant.scope = "tenant"
  \/ grant.scope = "collection" /\ grant.of = c.collection
  \/ grant.scope = "document" /\ grant.of = c.document

CanRead(grants, subjects, c) ==
  \E g \in grants : g.permission = "read" /\ g.subject \in subjects /\ Covers(g, c)

Readable(grants, subjects, chunks) == {c \in chunks : CanRead(grants, subjects, c)}

(* What parsed content may be evidence: blocked, unknown and refused qualities not. *)
Eligible(c) == c.quality \in {"none", "accepted", "accepted_with_warnings", "manual_approved"}

-----
(* The vector leg reads the nearest rows, as many as the over-fetch window, drops   *)
(* what the reader may not see, and scans everything when too few are left.         *)
VectorRows(chunks) == {c \in chunks : c.live /\ c.hasVector}

Nearer(S) == {p \in S \X S : \/ p[1].distance < p[2].distance
                             \/ p[1].distance = p[2].distance /\ p[1].id < p[2].id}

Window(k, factor, floor) == Most(k * factor, floor)

Windowed(rows, before, visible, k, w) ==
  LET found == First(rows, before, w) \cap visible
  IN First(IF Cardinality(found) < k THEN rows \cap visible ELSE found, before, k)

VectorLeg(chunks, visible, k, w) ==
  LET rows == VectorRows(chunks) IN Windowed(rows, Nearer(rows), visible, k, w)

-----
(* The metadata leg: chunks whose hot fields, or their document's, name an           *)
(* identifier of the query. `compacts` are the columns written with the two rows,   *)
(* `compacted` whether they are there; without them the fields are read instead.     *)
JoinedRows(chunks) == {c \in chunks : c.live /\ c.documentLive}

Matched(c, query) == c.fields \cap query.identifiers

Uncompacted(chunks) == \E c \in chunks : c.live /\ ~c.compacted

Names(chunks, c, query) ==
  IF Uncompacted(chunks) THEN Matched(c, query) # {}
  ELSE c.compacts \cap query.identifiers # {}

MoreMatched(S, query) ==
  {p \in S \X S :
     LET m == Cardinality(Matched(p[1], query))
         n == Cardinality(Matched(p[2], query))
     IN \/ m > n
        \/ m = n /\ p[1].position < p[2].position
        \/ m = n /\ p[1].position = p[2].position /\ p[1].id < p[2].id}

MetadataLeg(chunks, visible, query, k) ==
  LET rows == {c \in JoinedRows(chunks) : Names(chunks, c, query)} \cap visible
  IN First(rows, MoreMatched(rows, query), k)

-----
(* The lexical leg. Words of the query absent from a text may be covered by an       *)
(* alternative of an approved synonym group, for nine tenths of a word.              *)
MetadataExact == 12500
LexicalBase == 7000
LexicalMost == 12000
CoverageWeight == 3500
DensityWeight == 600
RecencyMost == 200
IdentifierWeight == 1800

Direct(c, query) == c.words \cap query.terms

(* synonym_expansions: the groups of which the query has some members, not all. The   *)
(* words it accounts for may be covered by the phrases of the others.                *)
Expansions(groups, query) ==
  {[source |-> {t \in query.terms : \E m \in g \cap query.phrases : t \in m.words},
    others |-> g \ query.phrases,
    tokens |-> UNION {m.words : m \in g \ query.phrases}] :
   g \in {x \in groups : x \cap query.phrases # {} /\ ~(x \subseteq query.phrases)
                          /\ \E m \in x \cap query.phrases : m.words \cap query.terms # {}}}

ByGroup(c, query) ==
  UNION {e.source \ c.words : e \in {x \in query.expansions : x.others \cap c.phrases # {}}}

(* _score: nothing without a covered word, never above LexicalMost. *)
Score(direct, covered, dense, fresh, named, terms) ==
  IF direct = 0 /\ covered = 0 THEN 0
  ELSE Least(LexicalMost,
             LexicalBase + (CoverageWeight * (10 * direct + 9 * covered)) \div (10 * terms)
               + DensityWeight * dense + RecencyMost * fresh + IdentifierWeight * named)

LexicalScore(c, query) ==
  LET direct == Direct(c, query)
  IN Score(Cardinality(direct), Cardinality((ByGroup(c, query) \cap query.terms) \ direct),
           IF direct = {} THEN 0 ELSE c.dense, c.fresh,
           Cardinality(c.named \cap query.identifiers), Cardinality(query.terms))

(* The pool: rows that could score, the most direct words first. *)
Candidates(rows, query) ==
  {c \in rows : Direct(c, query) # {} \/ \E e \in query.expansions : e.tokens \cap c.words # {}}

MoreWords(S, query) ==
  {p \in S \X S :
     LET m == Cardinality(Direct(p[1], query))
         n == Cardinality(Direct(p[2], query))
     IN \/ m > n
        \/ m = n /\ p[1].position < p[2].position
        \/ m = n /\ p[1].position = p[2].position /\ p[1].id < p[2].id}

(* The pool knows nothing of grants: a truncated one with a hidden row in it is no   *)
(* base for an answer, nor is a tenant with a row whose words were never hashed.     *)
Pooled(eligible, rows, before, visible, n) ==
  LET pool == First(eligible, before, n)
  IN IF Cardinality(pool) >= n /\ ~(pool \subseteq visible) THEN rows \cap visible
     ELSE pool \cap visible

Unhashed(chunks) == \E c \in chunks : c.live /\ ~c.hashed

Pool(chunks, visible, query, n) ==
  LET rows == JoinedRows(chunks)
      eligible == Candidates(rows, query)
  IN IF Unhashed(chunks) THEN rows \cap visible
     ELSE Pooled(eligible, rows, MoreWords(eligible, query), visible, n)

(* The contract both stores share: the pool of the visible rows alone. *)
PoolContract(chunks, visible, query, n) ==
  LET eligible == Candidates(JoinedRows(chunks), query) \cap visible
  IN First(eligible, MoreWords(eligible, query), n)

Better(S, query) ==
  {p \in S \X S :
     LET m == LexicalScore(p[1], query)
         n == LexicalScore(p[2], query)
     IN \/ m > n
        \/ m = n /\ p[1].position < p[2].position
        \/ m = n /\ p[1].position = p[2].position /\ p[1].id < p[2].id}

LexicalLeg(chunks, visible, query, k, n) ==
  LET scored == {c \in Pool(chunks, visible, query, n) : LexicalScore(c, query) > 0}
  IN IF query.terms = {} THEN {} ELSE First(scored, Better(scored, query), k)
-----
(* Fusion: a chunk keeps the best score of its legs; chunks of one score go by their  *)
(* place in the metadata leg, then by reciprocal ranks, then by their id.            *)
RrfK == 60
RrfUnit == 1000000
NoRank == 1000

Rank(leg, before, x) == IF x \in leg THEN Cardinality(Ahead(leg, before, x)) + 1 ELSE NoRank

Reciprocal(leg, before, x) ==
  IF x \in leg THEN RrfUnit \div (RrfK + Rank(leg, before, x)) ELSE 0

(* The vector leg's score is 1 - distance. *)
Legs(chunks, visible, query, k, windows) ==
  LET rows == VectorRows(chunks)
      metadata == IF query.identifiers = {} THEN {} ELSE MetadataLeg(chunks, visible, query, k)
      lexical == LexicalLeg(chunks, visible, query, k, windows.pool)
      kept(leg) == {c \in leg : Eligible(c)}
  IN [metadata |-> kept(metadata), lexical |-> kept(lexical),
      vector |-> kept(VectorLeg(chunks, visible, k, windows.vector)),
      nearer |-> Nearer(rows), matched |-> MoreMatched(chunks, query),
      better |-> Better(chunks, query)]

Fused(legs) == legs.metadata \cup legs.lexical \cup legs.vector

Hybrid(legs) == legs.metadata \cup legs.lexical # {}

BestScore(legs, query, c) ==
  IF c \in legs.metadata THEN MetadataExact
  ELSE IF c \in legs.lexical
       THEN Most(LexicalScore(c, query), IF c \in legs.vector THEN 10000 - c.distance ELSE 0)
       ELSE 10000 - c.distance

Rrf(legs, c) ==
  Reciprocal(legs.metadata, legs.matched, c) + Reciprocal(legs.lexical, legs.better, c)
    + Reciprocal(legs.vector, legs.nearer, c)

-----
(* The plan of the query: the first of the intents its words suggest. *)
IntentOf(query) ==
  IF "referent" \in query.marks /\ query.identifiers = {} /\ "short" \in query.marks
  THEN "clarification"
  ELSE IF "hazard" \in query.marks THEN "safety_procedure"
  ELSE IF "trouble" \in query.marks THEN "troubleshooting"
  ELSE IF "compare" \in query.marks THEN "comparison"
  ELSE IF "procedure" \in query.marks THEN "procedure" ELSE "lookup"

KindsFor(intent) ==
  CASE intent = "troubleshooting" -> {"trouble_case", "trouble_report", "quality_report"}
    [] intent = "safety_procedure" -> {"safety", "work_instruction", "standard"}
    [] intent \in {"procedure", "comparison"} -> {"work_instruction", "standard", "inspection"}
    [] OTHER -> {}

Boost(c, query) ==
  LET intent == IntentOf(query)
  IN (IF c.kind \in KindsFor(intent) THEN 600 ELSE 0)
     + (IF intent = "safety_procedure" /\ c.risky THEN 600 ELSE 0)
     + (IF c.machine \cap query.identifiers # {} THEN 200 ELSE 0)

Boosted(legs, query, c) ==
  BestScore(legs, query, c) + (IF IntentOf(query) = "clarification" THEN 0 ELSE Boost(c, query))

(* The order of the answer: with no hybrid leg ties stay as the vector leg had them. *)
Precedes(legs, query, c, d) ==
  LET m == Boosted(legs, query, c)
      n == Boosted(legs, query, d)
      p == Rank(legs.metadata, legs.matched, c)
      q == Rank(legs.metadata, legs.matched, d)
  IN \/ m > n
     \/ m = n /\ ~Hybrid(legs) /\ <<c, d>> \in legs.nearer
     \/ m = n /\ Hybrid(legs) /\ p < q
     \/ m = n /\ Hybrid(legs) /\ p = q /\ Rrf(legs, c) > Rrf(legs, d)
     \/ m = n /\ Hybrid(legs) /\ p = q /\ Rrf(legs, c) = Rrf(legs, d) /\ c.id < d.id

Ranked(legs, query) ==
  SetToSortSeq(Fused(legs), LAMBDA c, d : Precedes(legs, query, c, d))

(* A reranker sees the head of the list and may return it in any order; one that      *)
(* fails, or the deterministic one, leaves it as it is.                              *)
RerankLimit(profile) == Most(0, Least(profile.rerankTopN, 80))
SearchTopK(profile) == Most(1, Most(profile.topK, RerankLimit(profile)))

Prefix(seq, n) == SubSeq(seq, 1, Least(n, Len(seq)))

Permutation(seq) == {f \in [DOMAIN seq -> DOMAIN seq] : IsInjective(f)}

Rerankings(seq, profile) ==
  LET head == Prefix(seq, RerankLimit(profile))
  IN IF ~profile.rerank \/ RerankLimit(profile) = 0 THEN {seq}
     ELSE IF profile.model THEN {[i \in DOMAIN head |-> head[f[i]]] : f \in Permutation(head)}
     ELSE {head}

Results(chunks, grants, subjects, query, profile, windows) ==
  LET k == SearchTopK(profile)
      legs == Legs(chunks, Readable(grants, subjects, chunks), query, k, windows)
  IN {Prefix(s, profile.topK) : s \in Rerankings(Ranked(legs, query), profile)}

(* What an empty result is attributed to. *)
Outcome(result, refusedQuality, prefiltered) ==
  IF result # <<>> THEN "ok"
  ELSE IF refusedQuality > 0 THEN "quality_filter_empty"
  ELSE IF prefiltered > 0 THEN "post_filter_empty" ELSE "no_visible_candidates"
-----
(* The cache of query embeddings and what a deletion drops from a cache: entries of  *)
(* a tenant, least recently used first.                                              *)
Without(cache, doomed(_)) == SelectSeq(cache, LAMBDA e : ~doomed(e))

CacheGet(cache, key) ==
  Without(cache, LAMBDA e : e.key = key) \o SelectSeq(cache, LAMBDA e : e.key = key)

CachePut(cache, entry, most) ==
  LET others == Without(cache, LAMBDA e : e.key = entry.key)
      kept == IF most <= 0 THEN others
              ELSE SubSeq(others, Most(1, Len(others) - most + 2), Len(others))
  IN Append(kept, entry)

InvalidateDocument(cache, document) == Without(cache, LAMBDA e : document \in e.documents)

InvalidateVisual(cache, artifacts) == Without(cache, LAMBDA e : artifacts \cap e.artifacts # {})

(* _embed_query: a vector of the same model and text, or a new one stored without any *)
(* document it depends on.                                                           *)
EmbedQuery(cache, model, text, most) ==
  LET key == <<model, text>>
  IN IF \E e \in ToSet(cache) : e.key = key THEN CacheGet(cache, key)
     ELSE CachePut(cache, [key |-> key, documents |-> {}, artifacts |-> {}], most)
================================================================================
