-------------------------- MODULE MCSourceConnectors ---------------------------
(* One location: a start page a linking to b and c, where c is also one click     *)
(* after b and alone leads to d; e belongs to another host.  As a folder it lists *)
(* two files with one name, a table and an image.                                 *)
EXTENDS SourceConnectors

MCPage == {"a", "b", "c", "d", "e"}
MCStartOf == [l \in Location |-> "a"]
MCFilesOf == [l \in Location |-> <<"b", "c", "d", "e">>]
MCNameOf == [p \in MCPage |-> IF p \in {"b", "c"} THEN "manual" ELSE p]

Links == ("a" :> {"b", "c", "e"}) @@ ("b" :> {"a", "c"}) @@ ("c" :> {"d"})
         @@ ("d" :> {}) @@ ("e" :> {"a"})
MCSites == {[live |-> MCPage, links |-> Links],
            [live |-> MCPage \ {"c"}, links |-> [Links EXCEPT !["a"] = {"b"}]]}

Text == [columns |-> <<>>, rows |-> <<>>]
Faq == [columns |-> <<"q", "answer text", "reply">>,
        rows |-> <<("q" :> "v") @@ ("answer text" :> "v") @@ ("reply" :> "v"),
                   ("q" :> "v") @@ ("answer text" :> "v") @@ ("reply" :> ""),
                   ("q" :> "v") @@ ("answer text" :> "") @@ ("reply" :> "")>>]
Machines == [columns |-> <<"machine no", "line">>,
             rows |-> <<("machine no" :> "v") @@ ("line" :> ""),
                        ("machine no" :> "") @@ ("line" :> "v")>>]
MCTableOf == [p \in MCPage |-> IF p = "d" THEN Machines ELSE IF p = "b" THEN Faq ELSE Text]

MCColumn == {"q", "answer text", "reply", "machine no", "line"}
MCExactField == ("q" :> "question") @@ ("answer text" :> NoField) @@ ("reply" :> "answer")
                @@ ("machine no" :> NoField) @@ ("line" :> "line_id")
MCPartialFields == ("q" :> <<>>) @@ ("answer text" :> <<"answer", "body">>) @@ ("reply" :> <<>>)
                   @@ ("machine no" :> <<"equipment_id", "part_no">>) @@ ("line" :> <<>>)

None == [x \in {} |-> ""]
Auto == [type |-> "auto", mapping |-> None, defaults |-> None, required |-> {NoField}]
Manual == [type |-> "manual", mapping |-> ("q" :> "section"),
           defaults |-> ("category" :> "v"), required |-> {"section", "category", "part_no"}]
MCProfileOf == ("auto" :> Auto) @@ ("manual" :> Manual)

Servers == Permutations(Server)

With(b) == b @@ EmptyBody
Keyed(kind) == With([kind |-> kind, credential |-> "k1"])
MCBodies ==
  {With([kind |-> "url", policy |-> "trusted"]),
   With([kind |-> "box", policy |-> "review_required", credential |-> "k1",
         schedule |-> "daily"]),
   With([kind |-> "google_drive", connection |-> "c1", schedule |-> Blank,
         profile |-> "manual"]),
   With([kind |-> "s3"])} \cup {Keyed(k) : k \in {"notion", "confluence", "db", "kintone"}}

----
(* The decisions, the assets and the reindex, on two documents of a source.       *)
D == INSTANCE IncrementalSync WITH
       SourceDoc <- {"p", "q"}, Checksum <- {"k1", "k2"}, Version <- {"v1", "v2"},
       DefaultParser <- "v1", DefaultChunking <- "v1", Absent <- Nothing

ListedAs(d, content, approval, deleted) ==
  [doc |-> d, deleted |-> deleted, content |-> content, approval |-> approval,
   parser |-> Nothing, chunking |-> Nothing, embedding |-> Nothing, ref |-> TRUE]
Listings ==
  {<<ListedAs("p", c, a, x), ListedAs("q", "k1", "k1", FALSE)>> :
     c \in {"k1", "k2", Nothing}, a \in {"k1", "k2"}, x \in BOOLEAN}
States ==
  {Nothing} \cup
  {[status |-> r, content |-> c, parser |-> "v1", chunking |-> h, embedding |-> e] :
     r \in {"succeeded", "failed"}, c \in {"k1", Nothing}, h \in {"v1", "v2"},
     e \in {"v1", "v2"}}
Service == D!PipelineVersions("v1")
Before == [d \in {"p", "q"} |-> ListedAs(d, "k1", "k1", FALSE)]
NoManifest == [d \in {"p", "q"} |-> Nothing]

(* Every listed document is counted as changed, deleted or skipped, exactly once,  *)
(* and the kinds that have a counter of their own are among the changed.           *)
ASSUME
  \A l \in Listings, s \in States, before \in {Before, NoManifest} :
    LET plan == D!SourcePlan(before, l, [d \in {"p", "q"} |-> s], Service)
        sum == D!SyncSummary(plan)
    IN /\ sum.observed = sum.changed + sum.deleted + sum.skipped
       /\ sum.metadataOnly + sum.reparse + sum.reembedding <= sum.changed

(* A listing and its reverse have one checksum.                                    *)
ASSUME \A l \in Listings : D!ManifestChecksum(l) = D!ManifestChecksum(Reverse(l))

(* Each of the six actions is decided for some listing, and a listing whose every  *)
(* document was processed is skipped the next time.                                *)
ASSUME
  {D!SourcePlan(Before, l, [d \in {"p", "q"} |-> s], Service)[1] : l \in Listings, s \in States}
    = D!DiffAction

After(l) ==
  [d \in {"p", "q"} |->
     D!StateAfter(D!ManifestOf(l, d), D!EffectiveVersions(D!ManifestOf(l, d), Service), "succeeded")]
ASSUME
  \A l \in Listings : l[1].content # Nothing /\ ~l[1].deleted =>
    D!SourcePlan(D!Observed(Before, l), l, After(l), Service) = <<"skip", "skip">>

(* The versions inferred from states of two embedding models depend on the order   *)
(* of the map they come in.                                                        *)
ASSUME
  \E s, t \in States :
    Cardinality(D!InferredVersions([d \in {"p", "q"} |-> IF d = "p" THEN s ELSE t])) = 2

Indexed == [version |-> 1, content |-> "k1", approval |-> "k1", chunksApproval |-> "k1",
            chunks |-> "k1", tombstone |-> FALSE]
Index == [d \in {"p", "q"} |-> Indexed]
BothText == [d \in {"p", "q"} |-> "k2"]

(* After a batch every document to be fetched is indexed with what was fetched and *)
(* every deleted one is hidden; where the batch fails, nothing was indexed.  A      *)
(* document that was emptied keeps the chunks of its old content.                  *)
ASSUME
  \A l \in Listings, s \in States, supported \in {{"p", "q"}, {"q"}} :
    LET plan == D!SourcePlan(Before, l, [d \in {"p", "q"} |-> s], Service)
        full == D!SyncedIndex(Index, plan, l, {"p", "q"}, BothText, supported, TRUE)
        emptied == D!SyncedIndex(Index, plan, l, {"q"}, BothText, supported, TRUE)
    IN /\ \A i \in DOMAIN plan :
            /\ plan[i] = "delete" => full[l[i].doc].tombstone
            /\ D!RequiresRaw(plan[i]) =>
                 full[l[i].doc].chunks
                   = IF D!BatchFails(plan, l, supported) THEN "k1" ELSE "k2"
       /\ D!RequiresRaw(plan[1]) => emptied["p"] = Indexed

(* An update of the approval alone reaches the record where the registry shares    *)
(* it, and never the chunks; an enrichment reports otherwise.                      *)
ASSUME
  LET l == <<ListedAs("p", "k1", "k2", FALSE)>>
      plan == D!SourcePlan(Before, l, After(<<l[1], Before["q"]>>), Service)
      updated(shared) == D!MetadataUpdates(Index, plan, l, shared)["p"]
  IN /\ plan = <<"metadata_only">> /\ D!Changed(plan[1]) /\ ~D!RequiresEmbedding(plan[1])
     /\ updated(TRUE).approval = "k2" /\ updated(FALSE).approval = "k1"
     /\ updated(TRUE).chunksApproval = "k1"
     /\ D!EnrichedIndex(Index, {}, {"p"}, BothText)["p"].chunksApproval = "k1"
     /\ \A r \in D!EnrichmentResults({}, {"p"}) : r.filterUpdated

----
(* A reindex of both documents, stopped after any of its steps.                    *)
Old == [live |-> [d \in {"p", "q"} |-> {1}], parked |-> [d \in {"p", "q"} |-> {}],
        held |-> [d \in {"p", "q"} |-> {}], record |-> [d \in {"p", "q"} |-> 1]]
Both == <<"p", "q">>
Readable == [d \in {"p", "q"} |-> "readable"]

(* At no point are two versions of a document served; the record never names a     *)
(* version that was not published; a plan that succeeds serves the new version of  *)
(* every readable document and nothing of the others.                              *)
ASSUME
  \A text \in [{"p", "q"} -> D!Extraction], k \in 0..D!ReindexLength(Both) :
    LET s == D!Reindexed(Old, Both, text, k)
    IN /\ D!OneVersionLive(s)
       /\ \A d \in {"p", "q"} :
            /\ s.record[d] = 2 => s.live[d] = (IF text[d] = "readable" THEN {2} ELSE {})
            /\ D!StatusAfterSteps(Both, k) = "succeeded" => s.record[d] = 2

(* A plan that failed while it staged has hidden nothing.                          *)
ASSUME \A k \in 0..2 : D!Reindexed(Old, Both, Readable, k).live = Old.live

(* One that failed between publication and record published a version the record   *)
(* does not know: the next plan gives the same number to other text and hides it   *)
(* before it has anything to serve in its place.                                   *)
ASSUME
  LET failed == D!Reindexed(Old, Both, Readable, 4)
      retried == D!Reindexed(failed, Both, Readable, 1)
  IN failed.live["p"] = {2} /\ failed.record["p"] = 1 /\ retried.live["p"] = {}

(* The route leaves every plan as it was made.                                     *)
ASSUME
  LET plans == D!RequestReindex(D!RequestReindex(<<>>, Both, "manual"), Both, "manual")
  IN Len(plans) = 2 /\ \A i \in DOMAIN plans : plans[i].status = "planned"

----
Run(r) == [status |-> r]

(* A source without a row is as its latest run; three runs of one document count   *)
(* as three documents, and a document whose last run failed shows that all four    *)
(* stages of it failed.                                                            *)
ASSUME
  LET runs == <<Run("queued"), Run("failed"), Run("succeeded")>>
      failedState == [status |-> "failed", content |-> "k1", parser |-> "v1",
                      chunking |-> "v1", embedding |-> "v1"]
      status == D!SourceSyncStatus(Nothing, runs, NoManifest,
                                   [NoManifest EXCEPT !["p"] = failedState])
  IN /\ status.summary.status = "queued" /\ status.summary.observed = 3
     /\ status.documents
          = {[doc |-> "p", content |-> "k1", stages |-> "failed", indexed |-> FALSE]}
     /\ D!SourceSyncStatus(Nothing, <<>>, NoManifest, NoManifest) = Nothing
     /\ D!ProjectedInMemory(NoManifest, [NoManifest EXCEPT !["p"] = failedState]) = {}
     /\ {p.stages : p \in D!ProjectedDocuments(Before, NoManifest)} = {"pending"}

(* A batch is accepted when every check passes, and one leak refuses it.           *)
ASSUME
  LET safe == <<[highRisk |-> TRUE, approvedCitation |-> TRUE, blocked |-> FALSE]>>
      bare == <<[highRisk |-> TRUE, approvedCitation |-> FALSE, blocked |-> FALSE]>>
      accepted(decisions, leaks, range) ==
        D!BatchAccepted(decisions, leaks, {"p"}, {"q"}, {range}, 0, 0, 0)
  IN /\ accepted(safe, 0, Nothing) /\ accepted(safe, 0, <<1, 1, 2, 2>>)
     /\ ~accepted(bare, 0, Nothing) /\ ~accepted(safe, 1, Nothing)
     /\ ~accepted(safe, 0, <<0, 1, 2, 2>>) /\ ~D!EmbeddingCoverage(<<"v1", Nothing>>)
===============================================================================
