------------------------------- MODULE MCIndustry ------------------------------
(* Instances of IndustryPacks for TLC. *)
EXTENDS IndustryPacks

Item(approval, effective) == [doc |-> "d1", approval |-> approval, effective |-> effective]

(* Good evidence, evidence only from tomorrow on, a draft, and nothing said at all. *)
Cited == {{Item("approved", 1)}, {Item("approved", 2)}, {Item("draft", 1), Item(Blank, Unsaid)},
          {Item("obsolete", 1), Item("approved", NoDate)}}

Body(cites, hits, type, metadata) ==
  [citations |-> cites, hits |-> hits, uncertain |-> FALSE, type |-> type, metadata |-> metadata]

Nothing == [f \in {} |-> Text]
Bodies ==
  {Body(c, {}, None, Nothing) : c \in Cited}
    \cup {Body({Item(Blank, Unsaid)}, {"re_legal"}, "rfp_response", Nothing),
          Body({Item(Blank, Unsaid)}, {}, None, [f \in {"acl_tags"} |-> Blank])}

Created == {[citations |-> {Item("draft", 1)}, reviewer |-> r] : r \in User \cup {None}}
             \cup {[citations |-> {}, reviewer |-> None]}

Reviews == {[to |-> s, reviewer |-> None, role |-> None] : s \in DraftStatus}
             \cup {[to |-> "approved", reviewer |-> None, role |-> "guest"]}

Statements == {<<{"performance"}>>, <<{"performance", "disclosure"}, {}>>, <<{"prohibited"}>>}

Imports == {{[f \in {"fund_id", "association_code"} |-> Text]},
            {[f \in {"distributor_id", "property_id"} |-> NotText], Nothing}}

----
(* Reports and gates on small inputs. *)
CONSTANT Unset   \* what a record of theirs does not say

O == INSTANCE OperationsReports WITH Nothing <- Unset

Asker == [tenant |-> "t1", user |-> "u1", groups |-> <<"g1">>, roles |-> <<>>]
Reply(status, block, docs, cites, collection, obsolete) ==
  [status |-> status, id |-> "a1", block |-> block, highRisk |-> block # Unset, docs |-> docs,
   cites |-> cites, collection |-> collection, obsolete |-> obsolete, reasons |-> {"torque"}]

Logged ==
  LET l1 == O!RecordAnswer(<<>>, Reply("ok", Unset, <<"d1", "d2">>, <<"k1">>, "c1", TRUE), Asker, "f1", 1)
      l2 == O!RecordAnswer(l1, Reply("blocked", "other_block", <<"d1">>, <<>>, Unset, FALSE), Asker, Unset, 2)
      l3 == O!RecordAnswer(l2, Reply("blocked", "unheard_of", <<>>, <<>>, Unset, FALSE), Asker, Unset, 3)
      l4 == O!RecordFeedback(l3, [rating |-> 0, answer |-> "a1", docs |-> <<"d1">>, collection |-> Unset], 4)
      l5 == O!RecordFeedback(l4, [rating |-> 4, answer |-> Unset, docs |-> <<"d2">>, collection |-> Unset], 4)
      l6 == O!RecordPhoneReview(l5, [hallucination |-> FALSE, gap |-> TRUE, call |-> "p1"], 5)
  IN O!RecordTroubleSearch(l6, {"m1"}, <<"d2">>, <<"k2">>, "q1", 6)

Metas == {[doc |-> "d1", approval |-> "approved", obsoleteAt |-> Unset, successor |-> Unset,
           verified |-> 1, cycle |-> 5],
          [doc |-> "d2", approval |-> "approved", obsoleteAt |-> Unset, successor |-> "d1",
           verified |-> Unset, cycle |-> 5]}

(* What was recorded is counted once: an unknown reason is not recorded, the blocked  *)
(* answer of no collection is in the total only.                                    *)
ASSUME CountersAreTheLog ==
  /\ Len(Logged) = 7
  /\ O!Telemetry(Logged, O!Everything) =
       [highRisk |-> 1, blocked |-> 1, breakdown |-> [r \in {"other_block"} |-> 1]]
  /\ O!Telemetry(Logged, [O!Everything EXCEPT !.collection = "c1"]).blocked = 0
  /\ O!Telemetry(Logged, [O!Everything EXCEPT !.department = "g1", !.from = 2]).blocked = 1
  /\ O!Queue(Logged, 0) = [items |-> [i \in {5} |-> [entry |-> "p1", rating |-> Unset]], total |-> 4]
  /\ O!Queue(Logged, 3).items[3] = [entry |-> "a1", rating |-> Unset]
  /\ O!LowRated(Logged) = [r \in {"a1"} |-> 1]

(* The figures of a collection still rate the whole log; the dashboard counts chunks    *)
(* where the key figures count documents; the pack counts no answer.                 *)
ASSUME FiguresReadTheLog ==
  LET kpi == O!Kpi(Logged, Metas, [O!Everything EXCEPT !.collection = "c1"], 7)
      board == O!Dashboard(Logged, Metas, 6)
      empty == [c \in {"c1", "c2", Unset} |-> Unset]
      store == O!Materialize(empty, Logged, Metas, "c1", 7, 9)
      pack == O!EvidencePack(Logged, 2, Unset, TRUE)
  IN /\ kpi.selfResolution = 5000 /\ kpi.blocked = 0 /\ kpi.unanswered = 1
     /\ kpi.lowRating = 5000 /\ kpi.p50 = 150 /\ kpi.p95 = 195
     /\ {m.doc : m \in kpi.overdue} = {"d1"} /\ board.overdue = {}
     /\ {m.doc : m \in board.obsolete} = {"d2"}
     /\ DOMAIN kpi.referenced = {"d2"} /\ DOMAIN board.referenced = {"d2", "k2"}
     /\ board.gaps = [g \in {"torque"} |-> 1]
     /\ O!KpiView(store, Logged, Metas, O!Everything, "json", 6).blocked = 0
     /\ O!KpiView(empty, Logged, Metas, O!Everything, "csv", 6).blocked = 1
     /\ pack.entries = 6 /\ pack.questions = 0 /\ pack.groundedRate = Unset /\ pack.reviews = 1

Hit(doc, id) == [doc |-> doc, id |-> id, score |-> 1]
Trouble(name, classes) ==
  [name |-> name, measures |-> {[id |-> "m1", class |-> c, type |-> "official"] : c \in classes}]

(* The best hit stands for a trouble; a filter of which a document says nothing drops it. *)
ASSUME TroublesAreFound ==
  LET cases == [d \in {"d1", "d2", "d3"} |->
                  IF d = "d3" THEN Unset ELSE Trouble("t1", {"permanent", "unknown"})]
      meta == [d \in {"d1", "d2", "d3"} |->
                 IF d = "d1" THEN Unset ELSE [approval |-> "draft", document_kind |-> "report"]]
      found == <<Hit("d3", "k3"), Hit("d1", "k1"), Hit("d2", "k2")>>
      kind(k) == [f \in {"document_type"} |-> k]
  IN /\ O!SimilarCases(found, cases, meta, <<>>) = {2}
     /\ O!SimilarCases(found, cases, meta, kind("report")) = {3}
     /\ O!SimilarCases(found, cases, meta, kind(Unset)) = {3}
     /\ \A m \in O!TroubleMatches(found, cases, meta, <<>>) :
          m.measures["permanent"] = {[id |-> "m1", class |-> "permanent", type |-> "candidate"]}

ASSUME ScopesGrant ==
  LET scope == [tenant |-> "t1", department |-> "g1", subjectType |-> "group", roles |-> {},
                factories |-> {}, areas |-> {}]
      page == [tenant |-> "t1", collection |-> "c1", doc |-> "d1"]
      wide == O!ApplyScope({}, scope)
      narrow == O!ApplyScope({}, [scope EXCEPT !.factories = {[collection |-> "c2"]}])
  IN /\ O!AuditedRead(<<>>, wide, Asker, page, 1).allowed
     /\ O!AuditedRead(<<>>, narrow, Asker, page, 1).log[1].reasons = {"acl_denied"}
     /\ O!AuditedRead(<<>>, wide, Asker, [page EXCEPT !.tenant = "t2"], 1).raised
     /\ O!ApplyScope({}, [scope EXCEPT !.department = Unset]) = {}

Gold(doc, bbox) == [doc |-> doc, chunk |-> Unset, asset |-> Unset, region |-> Unset,
                    kind |-> "text", bbox |-> bbox]
Box == [x |-> 0, y |-> 0, w |-> 4, h |-> 2]
Seen(docs, status, sentences) ==
  [found |-> [i \in DOMAIN docs |-> [doc |-> docs[i], chunk |-> docs[i], visual |-> TRUE,
                                     asset |-> Unset, region |-> Unset,
                                     terms |-> {"torque"}, ocr |-> {"torque", "12"}]],
   answer |-> [status |-> status, sentences |-> sentences, used |-> {docs[1]}, claimsHold |-> TRUE,
               cites |-> <<[doc |-> docs[1], chunk |-> docs[1], visual |-> TRUE, asset |-> Unset,
                            region |-> Unset, bbox |-> [Box EXCEPT !.x = 2]]>>],
   latency |-> 100, cost |-> 2]

Asked(doc, answerability, risk) ==
  [question |-> {[term |-> "torque", sensitive |-> FALSE]}, expected |-> {}, id |-> Unset,
   evidence |-> {Gold(doc, Box)}, answerability |-> answerability, risk |-> risk]

(* The name of a set does not depend on what must be refused; its version does.        *)
ASSUME RunsAreMeasured ==
  LET set == O!RegisteredSet("t1", <<Asked("d1", "answerable", "high"),
                                     Asked("d2", "unanswerable", Unset)>>, Unset)
      other == O!RegisteredSet("t1", <<Asked("d1", "answerable", "high"),
                                       Asked("d2", "answerable", Unset)>>, Unset)
      seen == <<Seen(<<"d2", "d1">>, "ok", <<{"torque", "12"}, {"weather"}>>),
                Seen(<<"d2", "d1">>, "ok", <<{"torque", "13"}>>)>>
      m == O!Metrics(set.items, seen)
      v == O!VisualMetrics(set.items, seen)
  IN /\ set.id = other.id /\ set.version # other.version
     /\ m.recall = 10000 /\ m.precision = 5000 /\ m.mrr = 7500 /\ m.citation = 5000
     /\ m.groundedness = 10000 /\ m.faithfulness = 3333 /\ m.overRefusal = 0
     /\ m.wrongAnswer = 10000 /\ m.refusal = 5000 /\ m.riskWeighted = 0
     /\ m.latency = 100 /\ m.cost = 4
     /\ v.iou = 1666 /\ v.subset = 5000 /\ v.recall = 10000 /\ v.citation = 5000

(* A probe that cannot see what its reader may see blocks, and so does a leak; a count    *)
(* of the caller's can only add to it.                                              *)
ASSUME GateIsClosed ==
  LET a(cites) == [status |-> "ok", cites |-> cites, used |-> cites, text |-> {"torque"}]
      clean == [p \in O!Probe |-> O!Result(0)]
      gate(r, counts) == O!RunEvaluation([recall |-> 10000], r, counts, <<>>, [set |-> 1])
      passed == gate(clean, <<>>)
      base == O!BaselineFromRun(passed)
      only == [k \in {"recall"} |-> 10000]
      said == [k \in {"acl_leakage"} |-> 1]
      denied == [k \in {"manufacturing_acl_leakage"} |-> 1]
  IN /\ O!Probed(O!Control(a(<<"d1">>), "d2"), 0) = O!Unavailable
     /\ O!SearchLeaks(<<"d2", "d1">>, a(<<"d2">>), "d2") = 2
     /\ O!ReappearanceLeaks(<<>>, a(<<>>), "d1") = 1
     /\ O!ContextLeaks(a(<<"d1">>), "d2", "torque") = 1
     /\ O!InjectionLeaks(<<"d2", "d2">>, a(<<"d1">>), "d2", "secret") = 1
     /\ O!TenantLeaks(<<[tenant |-> "t2", doc |-> "d2"]>>, a(<<>>), "t1", "d3") = 1
     /\ O!CropLeaks(<<[doc |-> "d1", asset |-> "s2", crop |-> "s2"]>>, "d2", "s2") = 2
     /\ passed.gate = "passed"
     /\ gate([clean EXCEPT !["acl_leakage"] = O!Unavailable], <<>>).gate = "blocked"
     /\ gate(clean, said).gate = "blocked"
     /\ O!AttachKpis(passed, <<>>, denied, <<>>).gate = "blocked"
     /\ O!GateFailures(passed, [base EXCEPT !.minima = only], <<>>, <<>>) = {}
     /\ <<"below", "iou">> \in O!GateFailures(passed, base, <<>>, <<>>)

Draft(approval) == [doc |-> IF approval = "draft" THEN "d2" ELSE "d1", approval |-> approval]
Asserted(cites, danger) == [status |-> "ok", cites |-> cites, highRisk |-> danger]
Case(id, reasons, gold) == [id |-> id, reasons |-> reasons, gold |-> gold]

ASSUME ClassifiersAreMeasured ==
  LET verdict == [c \in {"q1", "q2", "q3"} |-> [high |-> c # "q2", reasons |-> {"lockout"}]]
      cases == {Case("q1", {"chemical"}, "rejected"), Case("q2", {}, "accepted")}
      predicted == [c \in {"q1", "q2"} |-> IF c = "q1" THEN "accepted" ELSE "draft_visual"]
      second == <<Draft("approved"), Draft("draft")>>
  IN /\ O!RecallProbe(cases, {Case("q3", {}, Unset)}, verdict) = O!Result(3)
     /\ O!HighRiskRecall(cases, verdict) = 5000
     /\ O!RecallProbe(cases, {}, verdict) = O!Unavailable
     /\ O!PoisonProbe(Asserted(second, TRUE), Asserted(<<Draft("draft")>>, TRUE), "d2") = O!Result(3)
     /\ O!PoisonProbe(Asserted(second, FALSE), Asserted(second, TRUE), "d2") = O!Unavailable
     /\ {c.id : c \in O!FalseAccepts(cases, predicted)} = {"q1"}
     /\ {c.id : c \in O!OverQuarantines(cases, predicted)} = {"q2"}
===============================================================================
