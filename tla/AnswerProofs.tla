------------------------------ MODULE AnswerProofs -----------------------------
(* Proofs about a question answered while documents change, for every set of       *)
(* documents, pieces, questions and servers, any number of requests and changes.   *)
(* What is proved of an answer is established by the step that lets it through;    *)
(* the inductive invariant carries there what the steps before have seen.          *)
EXTENDS HybridRetrieval, AnswerRequests, FiniteSetTheorems, SequenceTheorems,
        WellFoundedInduction, TLAPS

Written == {"decorating", "deciding"}
InHand == {"revalidating", "generating", "citing"} \cup Written
LetThrough(r) == r.at = "done" /\ r.status = "ok"

(* What each stage knows of the request in hand. *)
FoundIsVetted(r) ==
  r.at = "answering" /\ r.highRisk => r.preselected /\ Docs(r.found) \subseteq r.vetted
ContextIsVetted(r) ==
  (r.at \in InHand \/ LetThrough(r)) /\ r.highRisk /\ ~r.ask.table =>
    Docs(r.context) \subseteq r.vetted
CitesWhatStands(r) ==
  r.at \in Written \/ LetThrough(r) =>
    r.cites # <<>> /\ \A c \in ToSet(r.cites) : <<DocOf[c.piece], c.version>> \notin r.gone
RestsOnApproved(r) ==
  LetThrough(r) =>
    /\ r.highRisk => \A c \in ToSet(r.cites) :
         r.standing[DocOf[c.piece]] = "approved" /\ (IsVisual(c.piece) => c.verified)
    /\ \E c \in ToSet(r.cites) : c.approval # "obsolete" \/ r.standing[DocOf[c.piece]] # "obsolete"

(* A version that was withdrawn still is, or a later one has taken its place. *)
GoneIsPast(r) ==
  \A d \in Document, v \in 1..MaxVersion : <<d, v>> \in r.gone =>
    \/ documents[d].version > v
    \/ documents[d].version = v /\ documents[d].tombstone

RequestInv(r) ==
  FoundIsVetted(r) /\ ContextIsVetted(r) /\ CitesWhatStands(r) /\ RestsOnApproved(r)

TypeInv ==
  /\ documents \in [Document -> DocumentRow]
  /\ request \in [Server -> Request]
  /\ spent \in [Server -> Nat]
  /\ budget \in [Server -> Nat \cup {Unlimited}]

IInv == TypeInv /\ \A s \in Server : RequestInv(request[s]) /\ GoneIsPast(request[s])

-------------------------------------------------------------------------------
(* Sequences as filters, reads and permutations make them. *)

(* A part of a sequence has elements of the sequence. *)
LEMMA PartsAreParts ==
  ASSUME NEW S, NEW s \in Seq(S), NEW part \in Parts(s)
  PROVE  part \in Seq(S) /\ ToSet(part) \subseteq ToSet(s)
<1>1. Len(s) \in Nat /\ DOMAIN s = 1..Len(s) /\ \A i \in DOMAIN s : s[i] \in S
  BY LenProperties
<1>2. PICK m \in 0..Len(s) : part \in [1..m -> ToSet(s)]
  BY <1>1 DEF Parts, SeqOf
<1>3. ToSet(s) \subseteq S  BY <1>1 DEF ToSet
<1>4. part \in [1..m -> S] /\ m \in Nat  BY <1>1, <1>2, <1>3
<1>5. part \in Seq(S)  BY <1>4, SeqDef
<1>6. ToSet(part) \subseteq ToSet(s)  BY <1>2 DEF ToSet
<1> QED  BY <1>5, <1>6

LEMMA NotEmpty ==
  ASSUME NEW S, NEW s \in Seq(S), NEW i \in DOMAIN s
  PROVE  s # <<>>
<1> SUFFICES ASSUME s = <<>> PROVE FALSE  OBVIOUS
<1>1. Len(s) = 0  BY EmptySeq
<1> QED  BY <1>1, LenProperties

LEMMA KeepingKeeps ==
  ASSUME NEW S, NEW s \in Seq(S), NEW keep, NEW kept \in Keeping(s, keep)
  PROVE  kept \in Seq(S) /\ ToSet(kept) = ToSet(s) \cap keep
BY PartsAreParts DEF Keeping

(* The permutations of the subsets of a finite set are sequences over it. *)
LEMMA PermutationsAreSeqs ==
  ASSUME NEW S, IsFiniteSet(S), NEW s \in SetToAllKPermutations(S)
  PROVE  s \in Seq(S)
<1>1. PICK T \in SUBSET S : s \in SetToSeqs(T)  BY DEF SetToAllKPermutations
<1>2. Cardinality(T) \in Nat  BY FS_Subset, FS_CardinalityType
<1>3. s \in [1..Cardinality(T) -> S]  BY <1>1 DEF SetToSeqs
<1> QED  BY <1>2, <1>3, SeqDef

LEMMA WidenedIsSeq ==
  ASSUME NEW ps \in Seq(Piece), NEW s \in Widened(ps)
  PROVE  s \in Seq(Piece)
<1>1. CASE ~VisualPromotion  BY <1>1 DEF Widened
<1>2. CASE VisualPromotion
  <2> DEFINE PagesOf(p) == {x \in Piece : KindOf[p] = "line" /\ KindOf[x] = "page" /\ DocOf[x] = DocOf[p]}
             T == ToSet(ps) \cup UNION {PagesOf(p) : p \in ToSet(ps)}
  <2>1. s \in SetToSeqs(T)  BY <1>2 DEF Widened
  <2>2. ToSet(ps) \subseteq Piece  BY LenProperties DEF ToSet
  <2>3. T \subseteq Piece  BY <2>2
  <2>4. Cardinality(T) \in Nat  BY <2>3, FS_Subset, FS_CardinalityType, GatesAssumption
  <2>5. s \in [1..Cardinality(T) -> Piece]  BY <2>1, <2>3 DEF SetToSeqs
  <2> QED  BY <2>4, <2>5, SeqDef
<1> QED  BY <1>1, <1>2

(* A read is a sequence of hits that names each piece with its stored version. *)
LEMMA ReadIsSeq ==
  ASSUME TypeInv, NEW ps \in Seq(Piece)
  PROVE  /\ Read(ps) \in Seq(Hit) /\ Len(Read(ps)) = Len(ps)
         /\ \A i \in 1..Len(ps) : /\ Read(ps)[i].piece = ps[i]
                                  /\ Read(ps)[i].version = documents[DocOf[ps[i]]].version
<1>1. Len(ps) \in Nat /\ DOMAIN ps = 1..Len(ps) /\ \A i \in 1..Len(ps) : ps[i] \in Piece
  BY LenProperties
<1>2. \A i \in 1..Len(ps) : documents[DocOf[ps[i]]].version \in 1..MaxVersion
  BY <1>1, GatesAssumption DEF TypeInv, DocumentRow
<1>3. Read(ps) = [i \in 1..Len(ps) |-> [piece |-> ps[i], version |-> documents[DocOf[ps[i]]].version]]
  BY <1>1 DEF Read
<1>4. \A i \in 1..Len(ps) : Read(ps)[i] \in Hit  BY <1>1, <1>2, <1>3 DEF Hit
<1>5. Read(ps) \in [1..Len(ps) -> Hit]  BY <1>3, <1>4
<1>6. Read(ps) \in Seq(Hit)  BY <1>1, <1>5, SeqDef
<1>7. Len(Read(ps)) = Len(ps)  BY <1>1, <1>3, <1>6, LenProperties
<1> QED  BY <1>3, <1>6, <1>7

(* What a retrieval returns can be read. *)
LEMMA RetrievalIsSeq ==
  ASSUME TypeInv, NEW least, NEW ps \in Rankings(Retrievable(documents), least)
  PROVE  ps \in Seq(Piece)
<1>1. Retrievable(documents) \subseteq Piece  BY DEF Retrievable
<1>2. IsFiniteSet(Retrievable(documents))  BY <1>1, FS_Subset, GatesAssumption
<1>3. ps \in Seq(Retrievable(documents))  BY <1>2, PermutationsAreSeqs DEF Rankings
<1> QED  BY <1>1, <1>3, SeqMonotonic

-------------------------------------------------------------------------------
(* Steps of one request. *)

LEMMA OneRequestMoves ==
  ASSUME IInv, NEW s \in Server, NEW r2 \in Request, RequestInv(r2), GoneIsPast(r2), Step(s, r2),
         documents' = documents, spent' \in [Server -> Nat],
         budget' \in [Server -> Nat \cup {Unlimited}]
  PROVE  IInv'
<1>1. request' \in [Server -> Request]  BY DEF IInv, TypeInv, Step
<1>2. \A t \in Server : request'[t] = IF t = s THEN r2 ELSE request[t]
  BY DEF IInv, TypeInv, Step
<1>3. ASSUME NEW t \in Server PROVE (RequestInv(request[t]) /\ GoneIsPast(request[t]))'
  <2>1. CASE t = s
    <3>1. request'[t] = r2  BY <1>2, <2>1
    <3>2. RequestInv(request'[t])  BY <3>1
    <3>3. GoneIsPast(r2)'  BY DEF GoneIsPast
    <3> QED  BY <3>1, <3>2, <3>3
  <2>2. CASE t # s
    <3>1. request'[t] = request[t]  BY <1>2, <2>2
    <3>2. RequestInv(request[t]) /\ GoneIsPast(request[t])  BY DEF IInv
    <3>3. (GoneIsPast(request[t]))'
      BY <3>1, <3>2, Zenon DEF GoneIsPast
    <3> QED  BY <3>1, <3>2, <3>3
  <2> QED  BY <2>1, <2>2
<1>4. TypeInv'  BY <1>1 DEF IInv, TypeInv
<1> QED  BY <1>3, <1>4 DEF IInv

(* A request that ends without being let through owes nothing. *)
LEMMA EndsAreSafe ==
  ASSUME NEW r \in Request, GoneIsPast(r), NEW status \in AnswerStatus, status # "ok"
  PROVE  LET e == [r EXCEPT !.at = "done", !.status = status]
         IN e \in Request /\ RequestInv(e) /\ GoneIsPast(e)
<1> DEFINE e == [r EXCEPT !.at = "done", !.status = status]
<1>1. e \in Request  BY DEF Request
<1>2. e.at = "done" /\ e.status = status /\ e.gone = r.gone  BY DEF Request
<1> HIDE DEF e
<1>3. RequestInv(e)
  BY <1>2 DEF RequestInv, FoundIsVetted, ContextIsVetted, CitesWhatStands, RestsOnApproved,
              LetThrough, InHand, Written
<1>4. GoneIsPast(e)  BY <1>2 DEF GoneIsPast
<1> QED  BY <1>1, <1>3, <1>4 DEF e

LEMMA BlankIsSafe ==
  ASSUME NEW q \in Question, NEW hits \in Seq(Hit),
         NEW b \in {Blank(q, hits), [Blank(q, hits) EXCEPT !.at = "idle"]}
  PROVE  b \in Request /\ RequestInv(b) /\ GoneIsPast(b)
<1>1. <<>> \in Seq(Hit) /\ <<>> \in Seq(Cite)  BY EmptySeq
<1>2. [d \in Document |-> "unclassified"] \in [Document -> Approval]  BY DEF Approval
<1>3. Blank(q, hits) \in Request  BY <1>1, <1>2 DEF Blank, Request, AnswerStatus
<1>4. b \in Request /\ b.at \in {"idle", "surveying"} /\ b.gone = {}
  <2>1. CASE b = Blank(q, hits)  BY <1>3, <2>1 DEF Blank
  <2>2. CASE b = [Blank(q, hits) EXCEPT !.at = "idle"]  BY <1>3, <2>2 DEF Request, Blank
  <2> QED  BY <2>1, <2>2
<1>5. RequestInv(b)
  BY <1>4 DEF RequestInv, FoundIsVetted, ContextIsVetted, CitesWhatStands, RestsOnApproved,
              LetThrough, InHand, Written
<1>6. GoneIsPast(b)  BY <1>4 DEF GoneIsPast
<1> QED  BY <1>4, <1>5, <1>6

LEMMA IdleIsSafe == IdleRequest \in Request /\ RequestInv(IdleRequest) /\ GoneIsPast(IdleRequest)
<1>1. (CHOOSE q \in AskedQuestion : TRUE) \in Question  BY RequestsAssumption
<1>2. <<>> \in Seq(Hit)  BY EmptySeq
<1> QED  BY <1>1, <1>2, BlankIsSafe DEF IdleRequest

LEMMA AskSafe ==
  ASSUME IInv, NEW s \in Server, NEW q \in AskedQuestion, Ask(s, q)
  PROVE  IInv'
<1>1. PICK ps \in Rankings(Retrievable(documents), LeastEvidence) :
        \E kept \in Keeping(ps, {p \in Piece : q.filtered => DocOf[p] \in Matching}) :
        \E evidence \in Widened(kept) :
          Step(s, Blank(q, IF Len(evidence) >= LeastEvidence THEN Read(evidence) ELSE <<>>))
  BY DEF Ask
<1>2. PICK kept \in Keeping(ps, {p \in Piece : q.filtered => DocOf[p] \in Matching}) :
        \E evidence \in Widened(kept) :
          Step(s, Blank(q, IF Len(evidence) >= LeastEvidence THEN Read(evidence) ELSE <<>>))
  BY <1>1
<1>3. PICK evidence \in Widened(kept) :
          Step(s, Blank(q, IF Len(evidence) >= LeastEvidence THEN Read(evidence) ELSE <<>>))
  BY <1>2
<1>4. TypeInv  BY DEF IInv
<1>5. evidence \in Seq(Piece)  BY <1>4, RetrievalIsSeq, KeepingKeeps, WidenedIsSeq
<1> DEFINE hits == IF Len(evidence) >= LeastEvidence THEN Read(evidence) ELSE <<>>
<1>6. hits \in Seq(Hit)  BY <1>4, <1>5, ReadIsSeq, EmptySeq
<1>7. q \in Question  BY RequestsAssumption
<1>8. Step(s, Blank(q, hits))  BY <1>3
<1> HIDE DEF hits
<1>9. Blank(q, hits) \in Request /\ RequestInv(Blank(q, hits)) /\ GoneIsPast(Blank(q, hits))
  BY <1>6, <1>7, BlankIsSafe
<1> QED  BY <1>8, <1>9, OneRequestMoves DEF Ask, IInv, TypeInv

LEMMA SurveySafe ==
  ASSUME IInv, NEW s \in Server, Survey(s)
  PROVE  IInv'
<1> DEFINE r == request[s]
<1>1. r \in Request /\ GoneIsPast(r) /\ RequestInv(r)  BY DEF IInv, TypeInv
<1>2. PICK risky \in BOOLEAN, later \in BOOLEAN :
        LET next == [r EXCEPT !.highRisk = risky, !.deferred = later]
        IN \/ Ends(s, next, "insufficient_evidence")
           \/ Step(s, [next EXCEPT !.at = IF risky \/ r.ask.lookup THEN "selecting" ELSE "answering"])
  <2> DEFINE known == {d \in Docs(r.found) : MetaOf(documents[d]) # "unclassified"}
  <2>1. RiskVerdicts(r.ask, known) \subseteq BOOLEAN  BY DEF RiskVerdicts
  <2>2. \A b, x, y : Defers(b, x, y) \in BOOLEAN  BY DEF Defers
  <2> QED  BY <2>1, <2>2 DEF Survey
<1> DEFINE next == [r EXCEPT !.highRisk = risky, !.deferred = later]
<1>3. next \in Request /\ next.gone = r.gone /\ next.highRisk = risky  BY <1>1 DEF Request
<1>4. GoneIsPast(next)  BY <1>1, <1>3 DEF GoneIsPast
<1>5. CASE Ends(s, next, "insufficient_evidence")
  <2>1. "insufficient_evidence" \in AnswerStatus  BY DEF AnswerStatus
  <2> HIDE DEF next
  <2> QED  BY <1>3, <1>4, <1>5, <2>1, EndsAreSafe, OneRequestMoves DEF Ends, Survey, IInv, TypeInv
<1>6. CASE Step(s, [next EXCEPT !.at = IF risky \/ r.ask.lookup THEN "selecting" ELSE "answering"])
  <2> DEFINE at == IF risky \/ r.ask.lookup THEN "selecting" ELSE "answering"
             e == [next EXCEPT !.at = at]
  <2>1. e \in Request /\ e.at = at /\ e.gone = next.gone /\ e.highRisk = risky
    BY <1>3 DEF Request
  <2>2. at = "selecting" \/ (at = "answering" /\ ~risky)  OBVIOUS
  <2>3. Step(s, e)  BY <1>6
  <2> HIDE DEF e, at, next
  <2>4. RequestInv(e)
    BY <2>1, <2>2 DEF RequestInv, FoundIsVetted, ContextIsVetted, CitesWhatStands, RestsOnApproved,
              LetThrough, InHand, Written
  <2>5. GoneIsPast(e)  BY <1>4, <2>1 DEF GoneIsPast
  <2> QED  BY <2>1, <2>3, <2>4, <2>5, OneRequestMoves DEF Survey, IInv, TypeInv
<1> QED  BY <1>2, <1>5, <1>6

LEMMA SelectSafe ==
  ASSUME IInv, NEW s \in Server, Select(s)
  PROVE  IInv'
<1> DEFINE r == request[s]
           Approved(h) == IF r.highRisk THEN ApprovedEffective(documents[DocOf[h.piece]])
                          ELSE MetaOf(documents[DocOf[h.piece]]) = "approved"
<1>1. r \in Request /\ GoneIsPast(r)  BY DEF IInv, TypeInv
<1>2. PICK kept \in Keeping(r.found, {h \in Hit : Approved(h)}) :
        LET enough == Len(kept) >= LeastEvidence
            next == [r EXCEPT !.at = "answering", !.preselected = r.highRisk \/ enough,
                              !.found = IF enough THEN kept ELSE <<>>,
                              !.vetted = {d \in Document : ApprovedEffective(documents[d])}]
        IN IF enough /\ MissingIdentifiers(r.ask, Pieces(kept))
           THEN Ends(s, next, "insufficient_evidence") ELSE Step(s, next)
  BY DEF Select
<1> DEFINE enough == Len(kept) >= LeastEvidence
           found == IF enough THEN kept ELSE <<>>
           vetted == {d \in Document : ApprovedEffective(documents[d])}
           next == [r EXCEPT !.at = "answering", !.preselected = r.highRisk \/ enough,
                             !.found = found, !.vetted = vetted]
<1>3. Ends(s, next, "insufficient_evidence") \/ Step(s, next)  BY <1>2
<1>4. r.found \in Seq(Hit) /\ r.highRisk \in BOOLEAN  BY <1>1 DEF Request
<1>5. kept \in Seq(Hit) /\ \A h \in ToSet(kept) : h \in Hit /\ Approved(h)
  BY <1>4, KeepingKeeps
<1>6. found \in Seq(Hit)  BY <1>5, EmptySeq
<1>7. r.highRisk => Docs(found) \subseteq vetted
  <2> SUFFICES ASSUME r.highRisk, NEW h \in ToSet(found) PROVE DocOf[h.piece] \in vetted
    BY DEF Docs, Pieces
  <2>1. h \in ToSet(kept)  BY DEF ToSet
  <2>2. h \in Hit /\ ApprovedEffective(documents[DocOf[h.piece]])  BY <1>5, <2>1
  <2>3. DocOf[h.piece] \in Document  BY <2>2, GatesAssumption DEF Hit
  <2> QED  BY <2>2, <2>3
<1>8. enough \in BOOLEAN  OBVIOUS
<1>9. vetted \in SUBSET Document  OBVIOUS
<1> HIDE DEF enough, found, vetted
<1>10. /\ next \in Request /\ next.at = "answering" /\ next.preselected = (r.highRisk \/ enough)
       /\ next.found = found /\ next.vetted = vetted /\ next.gone = r.gone
       /\ next.highRisk = r.highRisk
  BY <1>1, <1>6, <1>8, <1>9 DEF Request
<1> HIDE DEF next
<1>11. GoneIsPast(next)  BY <1>1, <1>10 DEF GoneIsPast
<1>12. RequestInv(next)
  BY <1>4, <1>7, <1>10 DEF RequestInv, FoundIsVetted, ContextIsVetted, CitesWhatStands, RestsOnApproved,
              LetThrough, InHand, Written
<1>13. documents' = documents /\ spent' \in [Server -> Nat] /\ budget' \in [Server -> Nat \cup {Unlimited}]
  BY DEF Select, IInv, TypeInv
<1>14. CASE Step(s, next)  BY <1>10, <1>11, <1>12, <1>13, <1>14, OneRequestMoves
<1>15. CASE Ends(s, next, "insufficient_evidence")
  <2>1. "insufficient_evidence" \in AnswerStatus  BY DEF AnswerStatus
  <2> QED  BY <1>10, <1>11, <1>13, <1>15, <2>1, EndsAreSafe, OneRequestMoves DEF Ends
<1> QED  BY <1>3, <1>14, <1>15

(* The versions that are gone now are past. *)
LEMMA GoneNowIsPast ==
  ASSUME TypeInv
  PROVE  /\ GoneNow \in SUBSET (Document \X (1..MaxVersion))
         /\ \A d \in Document, v \in 1..MaxVersion : <<d, v>> \in GoneNow =>
              documents[d].version = v /\ documents[d].tombstone
<1>1. \A d \in Document : documents[d].version \in 1..MaxVersion  BY DEF TypeInv, DocumentRow
<1> QED  BY <1>1 DEF GoneNow

LEMMA AnswerFromTableSafe ==
  ASSUME IInv, NEW s \in Server, AnswerFromTable(s)
  PROVE  IInv'
<1> DEFINE r == request[s]
<1>1. r \in Request /\ GoneIsPast(r) /\ TypeInv  BY DEF IInv, TypeInv
<1>2. documents' = documents /\ spent' \in [Server -> Nat] /\ budget' \in [Server -> Nat \cup {Unlimited}]
  BY DEF AnswerFromTable, IInv, TypeInv
<1>3. "insufficient_evidence" \in AnswerStatus /\ "temporarily_unavailable" \in AnswerStatus
  BY DEF AnswerStatus
<1>4. CASE Ends(s, r, "insufficient_evidence") \/ Ends(s, r, "temporarily_unavailable")
  BY <1>1, <1>2, <1>3, <1>4, EndsAreSafe, OneRequestMoves DEF Ends
<1>5. ASSUME NEW rows \in SetToAllKPermutations(VisibleRows(documents)) \ {<<>>},
             LET read == Read(rows)
                 cited == SubSeq(read, 1, IF Len(read) < MaxRows THEN Len(read) ELSE MaxRows)
             IN Step(s, [r EXCEPT !.at = "decorating", !.status = "ok", !.context = read,
                                  !.gone = GoneNow,
                                  !.cites = [i \in DOMAIN cited |->
                                    [piece |-> cited[i].piece, text |-> cited[i].version,
                                     version |-> cited[i].version, verified |-> FALSE,
                                     approval |-> "unclassified"]]])
      PROVE IInv'
  <2> DEFINE read == Read(rows)
             n == IF Len(read) < MaxRows THEN Len(read) ELSE MaxRows
             cited == SubSeq(read, 1, n)
             cites == [i \in DOMAIN cited |->
                        [piece |-> cited[i].piece, text |-> cited[i].version,
                         version |-> cited[i].version, verified |-> FALSE,
                         approval |-> "unclassified"]]
             gone == GoneNow
             e == [r EXCEPT !.at = "decorating", !.status = "ok", !.context = read,
                            !.gone = gone, !.cites = cites]
  <2>1. rows \in Seq(VisibleRows(documents))
    BY FS_Subset, GatesAssumption, PermutationsAreSeqs DEF VisibleRows
  <2>2. rows \in Seq(Piece) /\ Len(rows) \in Nat \ {0} /\ DOMAIN rows = 1..Len(rows)
        /\ \A i \in 1..Len(rows) : rows[i] \in VisibleRows(documents)
    BY <2>1, EmptySeq, LenProperties, SeqMonotonic DEF VisibleRows
  <2>3. /\ read \in Seq(Hit) /\ Len(read) = Len(rows)
        /\ \A i \in 1..Len(rows) : /\ read[i].piece = rows[i]
                                   /\ read[i].version = documents[DocOf[rows[i]]].version
    BY <1>1, <2>2, ReadIsSeq
  <2>4. n \in 1..Len(rows)  BY <2>2, <2>3, GatesAssumption
  <2> HIDE DEF n, read
  <2>5. \A i \in 1..n : read[i] \in Hit  BY <2>2, <2>3, <2>4, ElementOfSeq
  <2>6. cited \in Seq(Hit) /\ Len(cited) = n /\ \A i \in 1..n : cited[i] = read[i]
    BY <2>4, <2>5, SubSeqProperties
  <2> HIDE DEF cited
  <2>7. DOMAIN cited = 1..n /\ \A i \in 1..n : cited[i] \in Hit  BY <2>4, <2>5, <2>6, LenProperties
  <2>8. \A i \in 1..n : cites[i] \in Cite  BY <2>7 DEF Hit, Cite, Approval
  <2>9. DOMAIN cites = 1..n /\ cites \in Seq(Cite)
    <3>1. cites \in [1..n -> Cite]  BY <2>7, <2>8
    <3> QED  BY <2>4, <3>1, SeqDef
  <2>10. \A i \in 1..n : cites[i].piece = rows[i] /\ cites[i].version = documents[DocOf[rows[i]]].version
    BY <2>3, <2>4, <2>6, <2>7
  <2>11. \A c \in ToSet(cites) : <<DocOf[c.piece], c.version>> \notin gone
    <3> SUFFICES ASSUME NEW i \in 1..n PROVE <<DocOf[cites[i].piece], cites[i].version>> \notin gone
      BY <2>9 DEF ToSet
    <3>1. rows[i] \in VisibleRows(documents)  BY <2>2, <2>4
    <3>2. ~documents[DocOf[rows[i]]].tombstone  BY <3>1 DEF VisibleRows
    <3> QED  BY <2>10, <3>2 DEF GoneNow
  <2> HIDE DEF cites
  <2>12. cites # <<>>
    <3>1. 1 \in DOMAIN cites  BY <2>4, <2>9
    <3> QED  BY <2>9, <3>1, NotEmpty
  <2>13. gone \in SUBSET (Document \X (1..MaxVersion))  BY <1>1, GoneNowIsPast
  <2>14. Step(s, e)  BY <1>5 DEF cites, cited, n, read
  <2>15. r.ask.table  BY DEF AnswerFromTable
  <2> HIDE DEF gone
  <2>16. /\ e \in Request /\ e.at = "decorating" /\ e.cites = cites /\ e.gone = gone
         /\ e.ask = r.ask
    BY <1>1, <2>3, <2>9, <2>13 DEF Request, AnswerStatus
  <2> HIDE DEF e
  <2>17. RequestInv(e)
    BY <2>11, <2>12, <2>15, <2>16 DEF RequestInv, FoundIsVetted, ContextIsVetted, CitesWhatStands,
      RestsOnApproved, LetThrough, InHand, Written
  <2>18. GoneIsPast(e)  BY <1>1, <2>16, GoneNowIsPast DEF GoneIsPast, gone
  <2> QED  BY <1>2, <2>14, <2>16, <2>17, <2>18, OneRequestMoves
<1> QED  BY <1>4, <1>5 DEF AnswerFromTable

LEMMA GatherSafe ==
  ASSUME IInv, NEW s \in Server, Gather(s)
  PROVE  IInv'
<1> DEFINE r == request[s]
<1>1. r \in Request /\ GoneIsPast(r) /\ RequestInv(r) /\ TypeInv  BY DEF IInv, TypeInv
<1>2. documents' = documents /\ spent' \in [Server -> Nat] /\ budget' \in [Server -> Nat \cup {Unlimited}]
  BY DEF Gather, IInv, TypeInv
<1>3. CASE \E status \in {"budget_exceeded", "insufficient_evidence"} : Ends(s, r, status)
  <2>1. {"budget_exceeded", "insufficient_evidence"} \subseteq AnswerStatus \ {"ok"}
    BY DEF AnswerStatus
  <2> QED  BY <1>1, <1>2, <1>3, <2>1, EndsAreSafe, OneRequestMoves DEF Ends
<1>4. ASSUME NEW hits \in IF r.preselected THEN {r.found} ELSE Retrieval(LeastEvidence),
             NEW kept \in Parts(hits), Step(s, [r EXCEPT !.at = "revalidating", !.context = kept])
      PROVE IInv'
  <2> DEFINE e == [r EXCEPT !.at = "revalidating", !.context = kept]
  <2>1. hits \in Seq(Hit)
    <3>1. CASE r.preselected  BY <1>1, <1>4, <3>1 DEF Request
    <3>2. CASE ~r.preselected  BY <1>1, <1>4, <3>2, RetrievalIsSeq, ReadIsSeq DEF Retrieval
    <3> QED  BY <3>1, <3>2
  <2>2. kept \in Seq(Hit) /\ ToSet(kept) \subseteq ToSet(hits)  BY <1>4, <2>1, PartsAreParts
  <2>3. r.highRisk => Docs(kept) \subseteq r.vetted
    <3> SUFFICES ASSUME r.highRisk PROVE Docs(kept) \subseteq r.vetted  OBVIOUS
    <3>1. r.preselected /\ Docs(r.found) \subseteq r.vetted
      BY <1>1 DEF RequestInv, FoundIsVetted, Gather, At
    <3>2. hits = r.found  BY <1>4, <3>1
    <3>3. Docs(kept) \subseteq Docs(hits)  BY <2>2 DEF Docs, Pieces
    <3> QED  BY <3>1, <3>2, <3>3
  <2>4. /\ e \in Request /\ e.at = "revalidating" /\ e.context = kept /\ e.gone = r.gone
        /\ e.highRisk = r.highRisk /\ e.vetted = r.vetted
    BY <1>1, <2>2 DEF Request
  <2> HIDE DEF e
  <2>5. RequestInv(e)
    BY <2>3, <2>4 DEF RequestInv, FoundIsVetted, ContextIsVetted, CitesWhatStands,
      RestsOnApproved, LetThrough, InHand, Written
  <2>6. GoneIsPast(e)  BY <1>1, <2>4 DEF GoneIsPast
  <2> QED  BY <1>2, <1>4, <2>4, <2>5, <2>6, OneRequestMoves DEF e
<1> QED  BY <1>3, <1>4 DEF Gather

LEMMA RevalidateSafe ==
  ASSUME IInv, NEW s \in Server, Revalidate(s)
  PROVE  IInv'
<1> DEFINE r == request[s]
           live == {h \in ToSet(r.context) : StillVisible(DocOf[h.piece])}
           named == {h \in live : DocOf[h.piece] \in r.ask.names}
<1>1. r \in Request /\ GoneIsPast(r) /\ RequestInv(r) /\ r.at = "revalidating"
  BY DEF IInv, TypeInv, Revalidate, At
<1>2. documents' = documents /\ spent' \in [Server -> Nat] /\ budget' \in [Server -> Nat \cup {Unlimited}]
  BY DEF Revalidate, IInv, TypeInv
<1>3. PICK kept \in Keeping(r.context, IF named = {} THEN live ELSE named) :
        IF Len(kept) < LeastEvidence THEN Ends(s, r, "insufficient_evidence")
        ELSE Step(s, [r EXCEPT !.at = "generating", !.context = kept])
  BY DEF Revalidate
<1>4. CASE Ends(s, r, "insufficient_evidence")
  <2>1. "insufficient_evidence" \in AnswerStatus  BY DEF AnswerStatus
  <2> QED  BY <1>1, <1>2, <1>4, <2>1, EndsAreSafe, OneRequestMoves DEF Ends
<1>5. CASE Step(s, [r EXCEPT !.at = "generating", !.context = kept])
  <2> DEFINE e == [r EXCEPT !.at = "generating", !.context = kept]
  <2>1. r.context \in Seq(Hit)  BY <1>1 DEF Request
  <2>2. kept \in Seq(Hit) /\ ToSet(kept) \subseteq ToSet(r.context)
    BY <1>3, <2>1, KeepingKeeps
  <2>3. Docs(kept) \subseteq Docs(r.context)  BY <2>2 DEF Docs, Pieces
  <2>4. /\ e \in Request /\ e.at = "generating" /\ e.context = kept /\ e.gone = r.gone
        /\ e.highRisk = r.highRisk /\ e.vetted = r.vetted /\ e.ask = r.ask
    BY <1>1, <2>2 DEF Request
  <2> HIDE DEF e
  <2>5. RequestInv(e)
    BY <1>1, <2>3, <2>4 DEF RequestInv, FoundIsVetted, ContextIsVetted, CitesWhatStands,
      RestsOnApproved, LetThrough, InHand, Written
  <2>6. GoneIsPast(e)  BY <1>1, <2>4 DEF GoneIsPast
  <2> QED  BY <1>2, <1>5, <2>4, <2>5, <2>6, OneRequestMoves DEF e
<1> QED  BY <1>3, <1>4, <1>5

LEMMA GenerateSafe ==
  ASSUME IInv, NEW s \in Server, Generate(s)
  PROVE  IInv'
<1> DEFINE r == request[s]
<1>1. r \in Request /\ GoneIsPast(r) /\ RequestInv(r) /\ r.at = "generating" /\ TypeInv
  BY DEF IInv, TypeInv, Generate, At
<1>2. documents' = documents /\ spent' \in [Server -> Nat] /\ budget' \in [Server -> Nat \cup {Unlimited}]
  BY DEF Generate, IInv, TypeInv
<1>3. CASE \E status \in {"insufficient_evidence", "temporarily_unavailable", "failed"} : Ends(s, r, status)
  <2>1. {"insufficient_evidence", "temporarily_unavailable", "failed"} \subseteq AnswerStatus \ {"ok"}
    BY DEF AnswerStatus
  <2> QED  BY <1>1, <1>2, <1>3, <2>1, EndsAreSafe, OneRequestMoves DEF Ends
<1>4. CASE Step(s, [r EXCEPT !.at = "citing", !.gone = GoneNow])
  <2> DEFINE gone == GoneNow
             e == [r EXCEPT !.at = "citing", !.gone = gone]
  <2>1. gone \in SUBSET (Document \X (1..MaxVersion))  BY <1>1, GoneNowIsPast
  <2>2. Step(s, e)  BY <1>4
  <2> HIDE DEF gone
  <2>3. /\ e \in Request /\ e.at = "citing" /\ e.context = r.context /\ e.gone = gone
        /\ e.highRisk = r.highRisk /\ e.vetted = r.vetted /\ e.ask = r.ask
    BY <1>1, <2>1 DEF Request
  <2> HIDE DEF e
  <2>4. RequestInv(e)
    BY <1>1, <2>3 DEF RequestInv, FoundIsVetted, ContextIsVetted, CitesWhatStands,
      RestsOnApproved, LetThrough, InHand, Written
  <2>5. GoneIsPast(e)  BY <1>1, <2>3, GoneNowIsPast DEF GoneIsPast, gone
  <2> QED  BY <1>2, <2>2, <2>3, <2>4, <2>5, OneRequestMoves
<1> QED  BY <1>3, <1>4 DEF Generate

LEMMA WriteCitationsSafe ==
  ASSUME IInv, NEW s \in Server, WriteCitations(s)
  PROVE  IInv'
<1> DEFINE r == request[s]
<1>1. r \in Request /\ GoneIsPast(r) /\ RequestInv(r) /\ r.at = "citing" /\ TypeInv
  BY DEF IInv, TypeInv, WriteCitations, At
<1>2. documents' = documents /\ spent' \in [Server -> Nat] /\ budget' \in [Server -> Nat \cup {Unlimited}]
  <2>1. spent' = spent \/ spent' = [spent EXCEPT ![s] = @ + 1]  BY DEF WriteCitations
  <2>2. spent \in [Server -> Nat] /\ spent[s] + 1 \in Nat  BY <1>1 DEF TypeInv
  <2>3. spent' \in [Server -> Nat]  BY <2>1, <2>2
  <2> QED  BY <1>1, <2>3 DEF WriteCitations, TypeInv
<1>3. PICK support \in Parts(r.context) :
        \E live \in Keeping(support, {h \in Hit : StillVisible(DocOf[h.piece])}) :
          IF Len(live) < LeastEvidence
          THEN Ends(s, r, "insufficient_evidence")
          ELSE \E vote \in [DOMAIN live -> VoteOutcomes] :
                 Step(s, [r EXCEPT !.at = "decorating", !.status = "ok",
                       !.cites = [i \in DOMAIN live |->
                         [piece |-> live[i].piece, text |-> live[i].version,
                          version |-> documents[DocOf[live[i].piece]].version,
                          verified |-> vote[i], approval |-> "unclassified"]]])
  BY DEF WriteCitations
<1>4. PICK live \in Keeping(support, {h \in Hit : StillVisible(DocOf[h.piece])}) :
          IF Len(live) < LeastEvidence
          THEN Ends(s, r, "insufficient_evidence")
          ELSE \E vote \in [DOMAIN live -> VoteOutcomes] :
                 Step(s, [r EXCEPT !.at = "decorating", !.status = "ok",
                       !.cites = [i \in DOMAIN live |->
                         [piece |-> live[i].piece, text |-> live[i].version,
                          version |-> documents[DocOf[live[i].piece]].version,
                          verified |-> vote[i], approval |-> "unclassified"]]])
  BY <1>3
<1>5. CASE Ends(s, r, "insufficient_evidence")
  <2>1. "insufficient_evidence" \in AnswerStatus  BY DEF AnswerStatus
  <2> QED  BY <1>1, <1>2, <1>5, <2>1, EndsAreSafe, OneRequestMoves DEF Ends
<1>6. ASSUME ~(Len(live) < LeastEvidence), NEW vote \in [DOMAIN live -> VoteOutcomes],
             Step(s, [r EXCEPT !.at = "decorating", !.status = "ok",
                       !.cites = [i \in DOMAIN live |->
                         [piece |-> live[i].piece, text |-> live[i].version,
                          version |-> documents[DocOf[live[i].piece]].version,
                          verified |-> vote[i], approval |-> "unclassified"]]])
      PROVE IInv'
  <2> DEFINE n == Len(live)
             cites == [i \in DOMAIN live |->
                         [piece |-> live[i].piece, text |-> live[i].version,
                          version |-> documents[DocOf[live[i].piece]].version,
                          verified |-> vote[i], approval |-> "unclassified"]]
             e == [r EXCEPT !.at = "decorating", !.status = "ok", !.cites = cites]
  <2>1. support \in Seq(Hit)  BY <1>1, <1>3, PartsAreParts DEF Request
  <2>2. live \in Seq(Hit) /\ \A h \in ToSet(live) : StillVisible(DocOf[h.piece])
    <3> DEFINE keep == {h \in Hit : StillVisible(DocOf[h.piece])}
    <3>1. live \in Keeping(support, keep)  BY <1>4
    <3>2. \A h \in keep : StillVisible(DocOf[h.piece])  OBVIOUS
    <3> HIDE DEF keep
    <3>3. live \in Seq(Hit) /\ ToSet(live) \subseteq keep  BY <2>1, <3>1, KeepingKeeps
    <3> QED  BY <3>2, <3>3
  <2>3. n \in Nat /\ DOMAIN live = 1..n /\ \A i \in 1..n : live[i] \in Hit
    BY <2>2, LenProperties
  <2>4. n >= 1  BY <1>6, <2>3, RequestsAssumption
  <2> HIDE DEF n
  <2>5. VoteOutcomes \subseteq BOOLEAN  
    <3>1. \A l \in BOOLEAN, c \in BOOLEAN, verdict \in [Verifier -> BOOLEAN] :
            VoteAdmits(l, c, verdict) \in BOOLEAN
      BY DEF VoteAdmits
    <3> QED  BY <3>1 DEF VoteOutcomes
  <2>6. \A i \in 1..n : documents[DocOf[live[i].piece]].version \in 1..MaxVersion
    BY <1>1, <2>3, GatesAssumption DEF Hit, TypeInv, DocumentRow
  <2>7. \A i \in 1..n : vote[i] \in BOOLEAN  BY <1>6, <2>3, <2>5
  <2>8. \A i \in 1..n : cites[i] \in Cite  BY <2>3, <2>6, <2>7 DEF Hit, Cite, Approval
  <2>9. DOMAIN cites = 1..n /\ cites \in Seq(Cite)
    <3>1. cites \in [1..n -> Cite]  BY <2>3, <2>8
    <3> QED  BY <2>3, <3>1, SeqDef
  <2>10. \A i \in 1..n : cites[i].piece = live[i].piece
                         /\ cites[i].version = documents[DocOf[live[i].piece]].version
    BY <2>3
  <2>11. ASSUME NEW c \in ToSet(cites) PROVE <<DocOf[c.piece], c.version>> \notin r.gone
    <3>1. PICK i \in 1..n : c = cites[i]  BY <2>9 DEF ToSet
    <3> DEFINE d == DocOf[live[i].piece]
    <3>2. d \in Document /\ ~documents[d].tombstone
      BY <2>2, <2>3, GatesAssumption DEF Hit, StillVisible, ToSet
    <3>3. DocOf[c.piece] = d /\ c.version = documents[d].version  BY <2>10, <3>1
    <3>4. documents[d].version \in 1..MaxVersion  BY <1>1, <3>2 DEF TypeInv, DocumentRow
    <3> QED  BY <1>1, <3>2, <3>3, <3>4, GatesAssumption DEF GoneIsPast
  <2> HIDE DEF cites
  <2>12. cites # <<>>
    <3>1. 1 \in DOMAIN cites  BY <2>3, <2>4, <2>9
    <3> QED  BY <2>9, <3>1, NotEmpty
  <2>13. Step(s, e)  BY <1>6 DEF cites
  <2>14. /\ e \in Request /\ e.at = "decorating" /\ e.cites = cites /\ e.gone = r.gone
         /\ e.ask = r.ask /\ e.context = r.context /\ e.highRisk = r.highRisk /\ e.vetted = r.vetted
    BY <1>1, <2>9 DEF Request, AnswerStatus
  <2> HIDE DEF e
  <2>15. RequestInv(e)
    BY <1>1, <2>11, <2>12, <2>14 DEF RequestInv, FoundIsVetted, ContextIsVetted, CitesWhatStands,
      RestsOnApproved, LetThrough, InHand, Written
  <2>16. GoneIsPast(e)  BY <1>1, <2>14 DEF GoneIsPast
  <2> QED  BY <1>2, <2>13, <2>14, <2>15, <2>16, OneRequestMoves
<1> QED  BY <1>4, <1>5, <1>6

LEMMA DecorateSafe ==
  ASSUME IInv, NEW s \in Server, Decorate(s)
  PROVE  IInv'
<1> DEFINE r == request[s]
           cites == [i \in DOMAIN r.cites |->
             [r.cites[i] EXCEPT !.approval = MetaOf(documents[DocOf[r.cites[i].piece]])]]
           e == [r EXCEPT !.at = "deciding", !.cites = cites]
           n == Len(r.cites)
<1>1. r \in Request /\ GoneIsPast(r) /\ RequestInv(r) /\ r.at = "decorating" /\ TypeInv
  BY DEF IInv, TypeInv, Decorate, At
<1>2. documents' = documents /\ spent' \in [Server -> Nat] /\ budget' \in [Server -> Nat \cup {Unlimited}]
  BY DEF Decorate, IInv, TypeInv
<1>3. Step(s, e)  BY DEF Decorate
<1>4. r.cites \in Seq(Cite)  BY <1>1 DEF Request
<1>5. n \in Nat /\ DOMAIN r.cites = 1..n /\ \A i \in 1..n : r.cites[i] \in Cite
  BY <1>4, LenProperties
<1>6. \A i \in 1..n : MetaOf(documents[DocOf[r.cites[i].piece]]) \in Approval
  <2> SUFFICES ASSUME NEW i \in 1..n PROVE MetaOf(documents[DocOf[r.cites[i].piece]]) \in Approval
    OBVIOUS
  <2>1. DocOf[r.cites[i].piece] \in Document  BY <1>5, GatesAssumption DEF Cite
  <2>2. documents[DocOf[r.cites[i].piece]] \in DocumentRow  BY <1>1, <2>1 DEF TypeInv
  <2> QED  BY <2>2 DEF MetaOf, DocumentRow, Approval
<1> HIDE DEF n
<1>7. DOMAIN cites = 1..n /\ \A i \in 1..n :
        cites[i] \in Cite /\ cites[i].piece = r.cites[i].piece /\ cites[i].version = r.cites[i].version
  BY <1>5, <1>6 DEF Cite
<1>8. cites \in Seq(Cite)
  <2>1. cites \in [1..n -> Cite]  BY <1>7
  <2> QED  BY <1>5, <2>1, SeqDef
<1>9. r.cites # <<>> /\ \A c \in ToSet(r.cites) : <<DocOf[c.piece], c.version>> \notin r.gone
  BY <1>1 DEF RequestInv, CitesWhatStands, Written
<1> HIDE DEF cites
<1>10. \A c \in ToSet(cites) : <<DocOf[c.piece], c.version>> \notin r.gone
  <2> SUFFICES ASSUME NEW i \in 1..n PROVE <<DocOf[cites[i].piece], cites[i].version>> \notin r.gone
    BY <1>7 DEF ToSet
  <2>1. r.cites[i] \in ToSet(r.cites)  BY <1>5 DEF ToSet
  <2> QED  BY <1>7, <1>9, <2>1
<1>11. cites # <<>>
  <2>1. n # 0  BY <1>4, <1>9, EmptySeq DEF n
  <2>2. 1 \in DOMAIN cites  BY <1>5, <1>7, <2>1
  <2> QED  BY <1>8, <2>2, NotEmpty
<1>12. /\ e \in Request /\ e.at = "deciding" /\ e.cites = cites /\ e.gone = r.gone
       /\ e.ask = r.ask /\ e.context = r.context /\ e.highRisk = r.highRisk /\ e.vetted = r.vetted
  BY <1>1, <1>8 DEF Request
<1> HIDE DEF e
<1>13. RequestInv(e)
  BY <1>1, <1>10, <1>11, <1>12 DEF RequestInv, FoundIsVetted, ContextIsVetted, CitesWhatStands,
    RestsOnApproved, LetThrough, InHand, Written
<1>14. GoneIsPast(e)  BY <1>1, <1>12 DEF GoneIsPast
<1> QED  BY <1>2, <1>3, <1>12, <1>13, <1>14, OneRequestMoves

(* What is shown of citations that stand is some of them, and a page that was      *)
(* verified never takes its place from itself.                                     *)
LEMMA CollapsedLeavesOne ==
  ASSUME NEW cites \in Seq(Cite), cites # <<>>, NEW shown \in Collapsed(cites)
  PROVE  shown \in Seq(Cite) /\ shown # <<>> /\ ToSet(shown) \subseteq ToSet(cites)
<1> DEFINE keep == {c \in ToSet(cites) : ~OnVerifiedPage(c, cites)}
<1>1. shown \in Seq(Cite) /\ ToSet(shown) = ToSet(cites) \cap keep
  <2>1. shown \in Keeping(cites, keep)  BY DEF Collapsed
  <2> HIDE DEF keep
  <2> QED  BY <2>1, KeepingKeeps
<1>2. cites[1] \in ToSet(cites)
  BY EmptySeq, LenProperties DEF ToSet
<1>3. PICK c \in ToSet(cites) : ~OnVerifiedPage(c, cites)
  <2>1. CASE OnVerifiedPage(cites[1], cites)
    <3>1. PICK x \in ToSet(cites) : KindOf[x.piece] = "page"  BY <2>1 DEF OnVerifiedPage
    <3> QED  BY <3>1 DEF OnVerifiedPage
  <2> QED  BY <1>2, <2>1
<1>4. c \in ToSet(shown)  BY <1>1, <1>3
<1>5. PICK i \in DOMAIN shown : c = shown[i]  BY <1>4 DEF ToSet
<1> QED  BY <1>1, <1>5, NotEmpty

(* What is let through is fit, or not obsolete to begin with. *)
LEMMA ReleaseSafe ==
  ASSUME IInv, NEW s \in Server, Release(s)
  PROVE  IInv'
<1> DEFINE r == request[s]
           standing == [d \in Document |-> MetaOf(documents[d])]
           next == [r EXCEPT !.standing = standing]
<1>1. r \in Request /\ GoneIsPast(r) /\ RequestInv(r) /\ r.at = "deciding" /\ TypeInv
  BY DEF IInv, TypeInv, Release, At
<1>2. documents' = documents /\ spent' \in [Server -> Nat] /\ budget' \in [Server -> Nat \cup {Unlimited}]
  BY DEF Release, IInv, TypeInv
<1>3. PICK shown \in IF r.highRisk /\ VisualPromotion THEN Collapsed(r.cites) ELSE {r.cites} :
        IF shown # <<>> /\ Demoted(r, shown)
        THEN Ends(s, [next EXCEPT !.cites = <<>>], "insufficient_evidence")
        ELSE Ends(s, [next EXCEPT !.cites = shown], "ok")
  BY DEF Release
<1>4. /\ r.cites \in Seq(Cite) /\ r.cites # <<>>
      /\ \A c \in ToSet(r.cites) : <<DocOf[c.piece], c.version>> \notin r.gone
  BY <1>1 DEF Request, RequestInv, CitesWhatStands, Written
<1>5. shown \in Seq(Cite) /\ shown # <<>> /\ ToSet(shown) \subseteq ToSet(r.cites)
  BY <1>3, <1>4, CollapsedLeavesOne
<1>6. \A d \in Document : documents[d] \in DocumentRow  BY <1>1 DEF TypeInv
<1>7. standing \in [Document -> Approval]
  BY <1>6 DEF MetaOf, DocumentRow, Approval
<1>8. <<>> \in Seq(Cite)  BY EmptySeq
<1>9. CASE shown # <<>> /\ Demoted(r, shown)
  <2> DEFINE u == [next EXCEPT !.cites = <<>>]
  <2> HIDE DEF standing
  <2>1. u \in Request /\ u.gone = r.gone  BY <1>1, <1>7, <1>8 DEF Request
  <2>2. GoneIsPast(u)  BY <1>1, <2>1 DEF GoneIsPast
  <2>3. "insufficient_evidence" \in AnswerStatus  BY DEF AnswerStatus
  <2>4. Ends(s, u, "insufficient_evidence")  BY <1>3, <1>9
  <2> HIDE DEF u
  <2> QED  BY <1>2, <2>1, <2>2, <2>3, <2>4, EndsAreSafe, OneRequestMoves DEF Ends
<1>10. CASE ~Demoted(r, shown)
  <2> DEFINE e == [[next EXCEPT !.cites = shown] EXCEPT !.at = "done", !.status = "ok"]
  <2>1. Step(s, e)  BY <1>3, <1>10 DEF Ends
  <2>2. \A c \in ToSet(shown) : c \in Cite /\ DocOf[c.piece] \in Document
    <3>1. \A c \in ToSet(shown) : c \in Cite  BY <1>5, LenProperties DEF ToSet
    <3> QED  BY <3>1, GatesAssumption DEF Cite
  <2>3. \A c \in ToSet(shown) : Fit(c) =>
          standing[DocOf[c.piece]] = "approved" /\ (IsVisual(c.piece) => c.verified)
    BY <2>2 DEF Fit, Admissible, ApprovedEffective
  <2>4. r.highRisk => \A c \in ToSet(shown) : Fit(c)  BY <1>10 DEF Demoted
  <2>5. shown[1] \in ToSet(shown)  BY <1>5, EmptySeq, LenProperties DEF ToSet
  <2>6. shown[1].approval # "obsolete" \/ \E c \in ToSet(shown) : Fit(c)  BY <1>10 DEF Demoted
  <2> HIDE DEF standing
  <2>7. \E c \in ToSet(shown) : c.approval # "obsolete" \/ standing[DocOf[c.piece]] # "obsolete"
    BY <2>3, <2>5, <2>6
  <2>8. /\ e \in Request /\ e.at = "done" /\ e.status = "ok" /\ e.cites = shown /\ e.gone = r.gone
        /\ e.ask = r.ask /\ e.context = r.context /\ e.highRisk = r.highRisk
        /\ e.vetted = r.vetted /\ e.standing = standing
    BY <1>1, <1>5, <1>7 DEF Request, AnswerStatus
  <2> HIDE DEF e
  <2>9. FoundIsVetted(e) /\ ContextIsVetted(e)
    BY <1>1, <2>8 DEF RequestInv, FoundIsVetted, ContextIsVetted, LetThrough, InHand, Written
  <2>10. CitesWhatStands(e)  BY <1>4, <1>5, <2>8 DEF CitesWhatStands
  <2>11. RestsOnApproved(e)  BY <2>3, <2>4, <2>7, <2>8 DEF RestsOnApproved
  <2>12. GoneIsPast(e)  BY <1>1, <2>8 DEF GoneIsPast
  <2> QED  BY <1>2, <2>1, <2>8, <2>9, <2>10, <2>11, <2>12, OneRequestMoves DEF RequestInv
<1> QED  BY <1>5, <1>9, <1>10

-------------------------------------------------------------------------------
(* The rest of the system. *)

LEMMA ReturnSafe ==
  ASSUME IInv, NEW s \in Server, Return(s) \/ Restart(s)
  PROVE  IInv'
<1>1. spent' \in [Server -> Nat] /\ budget' \in [Server -> Nat \cup {Unlimited}]
  BY DEF IInv, TypeInv, Return, Restart
<1>2. documents' = documents /\ Step(s, IdleRequest)  BY DEF Return, Restart
<1> QED  BY <1>1, <1>2, IdleIsSafe, OneRequestMoves

LEMMA UpdateBudgetSafe ==
  ASSUME IInv, NEW s \in Server, NEW b \in Budget, UpdateBudget(s, b)
  PROVE  IInv'
<1>1. budget' \in [Server -> Nat \cup {Unlimited}]
  BY RequestsAssumption DEF IInv, TypeInv, UpdateBudget
<1>2. documents' = documents /\ request' = request /\ spent' = spent  BY DEF UpdateBudget
<1>3. TypeInv'  BY <1>1, <1>2 DEF IInv, TypeInv
<1>4. \A t \in Server : (RequestInv(request[t]) /\ GoneIsPast(request[t]))'
  BY <1>2 DEF IInv, GoneIsPast
<1> QED  BY <1>3, <1>4 DEF IInv

(* Whatever happens to a document, its version grows and a withdrawn version is    *)
(* never live again.                                                               *)
LEMMA ChangesSafe ==
  ASSUME IInv, NEW d \in Document, NEW row \in DocumentRow, Changes(d, row),
         row.version >= documents[d].version,
         documents[d].tombstone /\ row.version = documents[d].version => row.tombstone
  PROVE  IInv'
<1>1. documents' = [documents EXCEPT ![d] = row] /\ request' = request /\ spent' = spent /\ budget' = budget
  BY DEF Changes
<1>2. TypeInv'  BY <1>1 DEF IInv, TypeInv
<1>3. \A x \in Document : documents[x].version \in Nat /\ documents'[x].version \in Nat
  BY <1>1 DEF IInv, TypeInv, DocumentRow
<1>4. \A x \in Document : /\ documents'[x].version >= documents[x].version
                          /\ documents[x].tombstone /\ documents'[x].version = documents[x].version
                               => documents'[x].tombstone
  BY <1>1, <1>3 DEF IInv, TypeInv
<1>5. ASSUME NEW t \in Server PROVE (RequestInv(request[t]) /\ GoneIsPast(request[t]))'
  <2>1. RequestInv(request[t])'  BY <1>1 DEF IInv
  <2>2. GoneIsPast(request[t])'
    <3> SUFFICES ASSUME NEW x \in Document, NEW v \in 1..MaxVersion, <<x, v>> \in request[t].gone
                 PROVE documents'[x].version > v \/ (documents'[x].version = v /\ documents'[x].tombstone)
      BY <1>1 DEF GoneIsPast
    <3>1. documents[x].version > v \/ (documents[x].version = v /\ documents[x].tombstone)
      <4>1. GoneIsPast(request[t])  BY DEF IInv
      <4> QED  BY <4>1, Zenon DEF GoneIsPast
    <3>2. v \in Nat  BY GatesAssumption
    <3>3. documents[x].version \in Nat /\ documents'[x].version \in Nat  BY <1>3
    <3>4. CASE documents'[x].version = documents[x].version
      <4>1. CASE documents[x].version > v  BY <3>4, <4>1
      <4>2. CASE documents[x].version = v /\ documents[x].tombstone  BY <1>4, <3>4, <4>2
      <4> QED  BY <3>1, <4>1, <4>2
    <3>5. CASE documents'[x].version # documents[x].version
      <4>1. documents'[x].version >= documents[x].version  BY <1>4
      <4>2. documents[x].version >= v  BY <3>1, <3>2, <3>3
      <4> QED  BY <3>2, <3>3, <3>5, <4>1, <4>2
    <3> QED  BY <3>4, <3>5
  <2> QED  BY <2>1, <2>2
<1> QED  BY <1>2, <1>5 DEF IInv

LEMMA DocumentsSafe ==
  ASSUME IInv, NEW d \in Document,
         TransitionApproval(d) \/ Reingest(d) \/ DeleteDocument(d) \/ ChangeGrant(d)
  PROVE  IInv'
<1>1. documents[d] \in DocumentRow  BY DEF IInv, TypeInv
<1>2. documents[d].version \in 1..MaxVersion /\ MaxVersion \in Nat
  BY <1>1, GatesAssumption DEF DocumentRow
<1>3. CASE TransitionApproval(d)
  <2>1. PICK status \in Approval, current \in BOOLEAN :
          Changes(d, [documents[d] EXCEPT !.approval = status, !.effective = current])
    BY <1>3 DEF TransitionApproval
  <2> DEFINE row == [documents[d] EXCEPT !.approval = status, !.effective = current]
  <2>3. Changes(d, row)  BY <2>1
  <2>2. row \in DocumentRow /\ row.version = documents[d].version /\ row.tombstone = documents[d].tombstone
    BY <1>1 DEF DocumentRow
  <2> HIDE DEF row
  <2> QED  BY <1>2, <2>2, <2>3, ChangesSafe
<1>4. CASE Reingest(d)
  <2> DEFINE row == [documents[d] EXCEPT !.version = @ + 1, !.tombstone = FALSE]
  <2>1. documents[d].version < MaxVersion /\ Changes(d, row)  BY <1>4 DEF Reingest
  <2>2. row \in DocumentRow /\ row.version = documents[d].version + 1
    <3>1. documents[d].version + 1 \in 1..MaxVersion  BY <1>2, <2>1
    <3> QED  BY <1>1, <3>1 DEF DocumentRow
  <2> HIDE DEF row
  <2> QED  BY <1>2, <2>1, <2>2, ChangesSafe
<1>5. CASE DeleteDocument(d)
  <2> DEFINE row == [documents[d] EXCEPT !.tombstone = TRUE]
  <2>1. Changes(d, row)  BY <1>5 DEF DeleteDocument
  <2>2. row \in DocumentRow /\ row.version = documents[d].version /\ row.tombstone
    BY <1>1 DEF DocumentRow
  <2> HIDE DEF row
  <2> QED  BY <1>2, <2>1, <2>2, ChangesSafe
<1>6. CASE ChangeGrant(d)
  <2> DEFINE row == [documents[d] EXCEPT !.readable = ~@]
  <2>1. Changes(d, row)  BY <1>6 DEF ChangeGrant
  <2>2. row \in DocumentRow /\ row.version = documents[d].version /\ row.tombstone = documents[d].tombstone
    BY <1>1 DEF DocumentRow
  <2> HIDE DEF row
  <2> QED  BY <1>2, <2>1, <2>2, ChangesSafe
<1> QED  BY <1>3, <1>4, <1>5, <1>6

-------------------------------------------------------------------------------
LEMMA InitSafe == Init => IInv
<1> SUFFICES ASSUME Init PROVE IInv  OBVIOUS
<1>1. documents \in [Document -> DocumentRow]
  <2>1. {1} \subseteq 1..MaxVersion  BY GatesAssumption
  <2>2. [version: {1}, approval: Approval \ {"unclassified"}, effective: {TRUE},
         tombstone: {FALSE}, readable: {TRUE}] \subseteq DocumentRow
    BY <2>1 DEF DocumentRow
  <2> QED  BY <2>2 DEF Init
<1>2. \A s \in Server : request[s] = IdleRequest  BY DEF Init
<1>3. request \in [Server -> Request]  BY IdleIsSafe DEF Init
<1>4. \A s \in Server : RequestInv(request[s]) /\ GoneIsPast(request[s])
  BY <1>2, IdleIsSafe
<1> QED  BY <1>1, <1>3, <1>4 DEF Init, IInv, TypeInv

LEMMA NextSafe == IInv /\ [Next]_vars => IInv'
<1> SUFFICES ASSUME IInv, [Next]_vars PROVE IInv'  OBVIOUS
<1>1. CASE UNCHANGED vars
  BY <1>1 DEF vars, IInv, TypeInv, GoneIsPast
<1>2. ASSUME NEW s \in Server, NEW q \in AskedQuestion, Ask(s, q) PROVE IInv'
  BY <1>2, AskSafe
<1>3. ASSUME NEW s \in Server, Survey(s) \/ Select(s) \/ AnswerFromTable(s) \/ Gather(s) PROVE IInv'
  BY <1>3, SurveySafe, SelectSafe, AnswerFromTableSafe, GatherSafe
<1>4. ASSUME NEW s \in Server, Revalidate(s) \/ Generate(s) \/ WriteCitations(s) PROVE IInv'
  BY <1>4, RevalidateSafe, GenerateSafe, WriteCitationsSafe
<1>5. ASSUME NEW s \in Server, Decorate(s) \/ Release(s) \/ Return(s) \/ Restart(s) PROVE IInv'
  BY <1>5, DecorateSafe, ReleaseSafe, ReturnSafe
<1>6. ASSUME NEW s \in Server, NEW b \in Budget, UpdateBudget(s, b) PROVE IInv'
  BY <1>6, UpdateBudgetSafe
<1>7. ASSUME NEW d \in Document,
             TransitionApproval(d) \/ Reingest(d) \/ DeleteDocument(d) \/ ChangeGrant(d) PROVE IInv'
  BY <1>7, DocumentsSafe
<1> QED  BY <1>1, <1>2, <1>3, <1>4, <1>5, <1>6, <1>7 DEF Next

LEMMA Invariance == Spec => []IInv
BY InitSafe, NextSafe, PTL DEF Spec

(* Documents, requests, spend and budgets keep their types, and a released answer  *)
(* cites something.                                                                *)
THEOREM TypeCorrect == Spec => []TypeOK
<1>1. IInv => TypeOK
  BY DEF IInv, TypeInv, TypeOK, At, RequestInv, CitesWhatStands, LetThrough
<1> QED  BY <1>1, Invariance, PTL

(* A high-risk answer written from retrieved text rests on documents that were     *)
(* approved when they were selected, and cites only what is approved at release:   *)
(* the selection is the only source of its context, the demotion looks at each     *)
(* citation.                                                                       *)
THEOREM DangerRestsOnApproved == Spec => []HighRiskRestsOnApproved
<1>1. IInv => HighRiskRestsOnApproved
  BY DEF IInv, HighRiskRestsOnApproved, Released, At, RequestInv, ContextIsVetted, RestsOnApproved,
         LetThrough
<1> QED  BY <1>1, Invariance, PTL

(* What was withdrawn when the text was written is not cited: a citation names the *)
(* version of a live document, and a withdrawn version is never live again.        *)
THEOREM WithdrawnIsNotCited == Spec => []GoneIsNotCited
<1>1. IInv => GoneIsNotCited
  BY DEF IInv, GoneIsNotCited, Released, At, RequestInv, CitesWhatStands, LetThrough
<1> QED  BY <1>1, Invariance, PTL

(* Obsolete documents alone carry no answer, whatever happens between the survey   *)
(* of the candidates and the release.                                              *)
THEOREM ObsoleteAloneIsNotEnough == Spec => []ObsoleteIsNotTheBasis
<1>1. IInv => ObsoleteIsNotTheBasis
  BY DEF IInv, ObsoleteIsNotTheBasis, Released, At, RequestInv, RestsOnApproved, LetThrough
<1> QED  BY <1>1, Invariance, PTL

----
(* Retrieval: the window of the vector leg and the pool of the lexical leg lose      *)
(* nothing the reader may see.                                                      *)

(* The chunks of a leg are strictly ordered: by distance, by matches or by score,    *)
(* and in the end by their id.                                                      *)
Ordered(S, before) ==
  /\ IsFiniteSet(S)
  /\ \A x \in S : <<x, x>> \notin before
  /\ \A x, y \in S : x # y => <<x, y>> \in before \/ <<y, x>> \in before
  /\ \A x, y, z \in S : <<x, y>> \in before /\ <<y, z>> \in before => <<x, z>> \in before

(* What is ahead of one of the first is one of the first. *)
LEMMA FirstIsClosed ==
  ASSUME NEW S, NEW before, Ordered(S, before), NEW n \in Nat,
         NEW x \in First(S, before, n), NEW y \in S, <<y, x>> \in before
  PROVE  y \in First(S, before, n)
<1>1. x \in S /\ Cardinality(Ahead(S, before, x)) < n  BY DEF First
<1>2. Ahead(S, before, y) \subseteq Ahead(S, before, x)
  BY <1>1 DEF Ahead, Ordered
<1>3. IsFiniteSet(Ahead(S, before, x))
  BY FS_Subset DEF Ahead, Ordered
<1>4. /\ Cardinality(Ahead(S, before, y)) <= Cardinality(Ahead(S, before, x))
      /\ Cardinality(Ahead(S, before, y)) \in Nat
      /\ Cardinality(Ahead(S, before, x)) \in Nat
  BY <1>2, <1>3, FS_Subset, FS_CardinalityType
<1> QED  BY <1>1, <1>4 DEF First

(* And every one of the first is ahead of every other chunk. *)
LEMMA FirstIsAhead ==
  ASSUME NEW S, NEW before, Ordered(S, before), NEW n \in Nat,
         NEW x \in First(S, before, n), NEW y \in S \ First(S, before, n)
  PROVE  <<x, y>> \in before
<1>1. x \in S  BY DEF First
<1>2. <<y, x>> \notin before  BY FirstIsClosed
<1> QED  BY <1>1, <1>2 DEF Ordered

(* The window of the vector leg loses nothing: the result is the nearest k of the     *)
(* chunks the reader may see, however many hidden chunks crowd the window and         *)
(* however small it is (PostgresVectorStore.search, "no false negative").            *)
THEOREM WindowIsExact ==
  ASSUME NEW rows, NEW before, Ordered(rows, before), NEW visible,
         NEW k \in Nat, NEW w \in Nat
  PROVE  Windowed(rows, before, visible, k, w) = First(rows \cap visible, before, k)
<1> DEFINE found == First(rows, before, w) \cap visible
           seen == rows \cap visible
<1>1. CASE Cardinality(found) < k
  BY <1>1 DEF Windowed
<1>2. CASE ~(Cardinality(found) < k)
  <2>1. found \subseteq seen /\ IsFiniteSet(seen) /\ IsFiniteSet(found)
    BY FS_Subset DEF First, Ordered
  <2>2. \A x \in found : Ahead(found, before, x) = Ahead(seen, before, x)
    <3>1. SUFFICES ASSUME NEW x \in found, NEW y \in Ahead(seen, before, x)
                   PROVE  y \in found
      BY <2>1 DEF Ahead
    <3>2. y \in First(rows, before, w)
      BY FirstIsClosed DEF Ahead
    <3> QED  BY <3>2 DEF Ahead
  <2>3. \A x \in seen \ found : ~(Cardinality(Ahead(seen, before, x)) < k)
    <3>1. SUFFICES ASSUME NEW x \in seen \ found
                   PROVE  ~(Cardinality(Ahead(seen, before, x)) < k)
      OBVIOUS
    <3>2. found \subseteq Ahead(seen, before, x)
      BY <2>1, FirstIsAhead DEF Ahead
    <3>3. IsFiniteSet(Ahead(seen, before, x))
      BY <2>1, FS_Subset DEF Ahead
    <3>4. /\ Cardinality(found) <= Cardinality(Ahead(seen, before, x))
          /\ Cardinality(found) \in Nat
          /\ Cardinality(Ahead(seen, before, x)) \in Nat
      BY <3>2, <3>3, FS_Subset, FS_CardinalityType
    <3> QED  BY <1>2, <3>4
  <2>4. First(found, before, k) = First(seen, before, k)
    <3>1. \A x \in found : x \in First(found, before, k) <=> x \in First(seen, before, k)
      BY <2>1, <2>2 DEF First
    <3> QED  BY <2>1, <2>3, <3>1 DEF First
  <2> QED  BY <1>2, <2>4 DEF Windowed
<1> QED  BY <1>1, <1>2

(* Some chunk of a set that is not empty has the fewest chunks ahead of it. *)
LEMMA ForemostExists ==
  ASSUME NEW S, NEW before, Ordered(S, before), NEW T \in SUBSET S, T # {}
  PROVE  \E x \in T : \A y \in T : <<y, x>> \notin before
<1> DEFINE sets == {Ahead(S, before, x) : x \in T}
<1>1. sets \subseteq FiniteSubsetsOf(S) /\ sets # {}
  <2>1. \A x \in T : Ahead(S, before, x) \subseteq S
    BY DEF Ahead
  <2>2. \A x \in T : Ahead(S, before, x) \in FiniteSubsetsOf(S)
    BY <2>1, FS_Subset DEF Ordered, FiniteSubsetsOf
  <2> QED  BY <2>2
<1>2. PICK A \in sets : \A B \in sets : <<B, A>> \notin StrictSubsetOrdering(S)
  BY <1>1, FS_StrictSubsetOrderingWellFounded, WFMin
<1>3. PICK x \in T : A = Ahead(S, before, x)
  BY <1>2
<1>4. ASSUME NEW y \in T, <<y, x>> \in before  PROVE FALSE
  <2>1. Ahead(S, before, y) \subseteq A /\ A \subseteq S
    BY <1>3, <1>4 DEF Ahead, Ordered
  <2>2. y \in A /\ y \notin Ahead(S, before, y)
    BY <1>3, <1>4 DEF Ahead, Ordered
  <2>3. <<Ahead(S, before, y), A>> \in StrictSubsetOrdering(S)
    BY <2>1, <2>2 DEF StrictSubsetOrdering
  <2> QED  BY <1>2, <2>3
<1> QED  BY <1>4

(* Fewer than n first ones are all there is. *)
LEMMA FewAreAll ==
  ASSUME NEW S, NEW before, Ordered(S, before), NEW n \in Nat,
         Cardinality(First(S, before, n)) < n
  PROVE  First(S, before, n) = S
<1> DEFINE pool == First(S, before, n)
           rest == S \ pool
<1>1. SUFFICES ASSUME rest # {}  PROVE FALSE
  BY DEF First
<1>2. pool \subseteq S /\ IsFiniteSet(pool)
  BY FS_Subset DEF First, Ordered
<1>3. PICK x \in rest : \A y \in rest : <<y, x>> \notin before
  BY <1>1, ForemostExists
<1>4. Ahead(S, before, x) \subseteq pool
  BY <1>3 DEF Ahead
<1>5. /\ Cardinality(Ahead(S, before, x)) <= Cardinality(pool)
      /\ Cardinality(pool) \in Nat /\ Cardinality(Ahead(S, before, x)) \in Nat
  BY <1>2, <1>4, FS_Subset, FS_CardinalityType
<1>6. x \in pool
  BY <1>3, <1>5 DEF First
<1> QED  BY <1>3, <1>6

(* The pool of the lexical leg knows nothing of grants, and yet no chunk of the pool   *)
(* of the visible rows, which the in-memory store computes, is missing from what is    *)
(* scored (PostgresVectorStore.lexical_matches, "no visible chunk is silently          *)
(* dropped").                                                                         *)
THEOREM PoolKeepsTheContract ==
  ASSUME NEW rows, NEW eligible \in SUBSET rows, NEW before, Ordered(eligible, before),
         NEW visible, NEW n \in Nat
  PROVE  First(eligible \cap visible, before, n)
           \subseteq Pooled(eligible, rows, before, visible, n)
<1> DEFINE pool == First(eligible, before, n)
           seen == eligible \cap visible
<1>1. SUFFICES ASSUME NEW x \in First(seen, before, n)
               PROVE  x \in Pooled(eligible, rows, before, visible, n)
  OBVIOUS
<1>2. x \in seen /\ Cardinality(Ahead(seen, before, x)) < n
  BY DEF First
<1>3. IsFiniteSet(pool) /\ Cardinality(pool) \in Nat
  BY FS_Subset, FS_CardinalityType DEF First, Ordered
<1>4. CASE Cardinality(pool) < n
  BY <1>2, <1>3, <1>4, FewAreAll DEF Pooled
<1>5. CASE Cardinality(pool) >= n /\ ~(pool \subseteq visible)
  BY <1>2, <1>5 DEF Pooled
<1>6. CASE Cardinality(pool) >= n /\ pool \subseteq visible
  <2>1. x \in pool
    <3>1. SUFFICES ASSUME x \notin pool  PROVE FALSE
      OBVIOUS
    <3>2. pool \subseteq Ahead(seen, before, x)
      BY <1>2, <1>6, <3>1, FirstIsAhead DEF Ahead, First
    <3>3. IsFiniteSet(Ahead(seen, before, x))
      BY FS_Subset DEF Ahead, Ordered
    <3>4. /\ Cardinality(pool) <= Cardinality(Ahead(seen, before, x))
          /\ Cardinality(Ahead(seen, before, x)) \in Nat
      BY <3>2, <3>3, FS_Subset, FS_CardinalityType
    <3> QED  BY <1>2, <1>3, <1>6, <3>4
  <2> QED  BY <1>2, <1>6, <2>1 DEF Pooled
<1> QED  BY <1>3, <1>4, <1>5, <1>6
===============================================================================
