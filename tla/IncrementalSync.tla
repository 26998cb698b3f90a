---------------------------- MODULE IncrementalSync ----------------------------
(* What a repeated sync decides about every document of a source, what the batch  *)
(* assets do with the decisions, how a reindex replaces one version of a document *)
(* by the next, and what the status of a source shows of all this.  A step of a   *)
(* batch is an operator from one state of the index to the next, so that a batch  *)
(* that fails is the composition of the steps it got to.                          *)
EXTENDS Integers, FiniteSets, Sequences

CONSTANTS
  SourceDoc,        \* the documents of one source
  Checksum,        \* checksums of contents and of approval metadata
  Version,         \* versions of parsers, chunkers and embedding models
  DefaultParser, DefaultChunking,  \* the versions a service has by default
  Absent            \* an empty text, a record that is not there

Chosen(value, default) == IF value = Absent THEN default ELSE value

(* A document as a connector lists it. *)
Manifest ==
  [doc: SourceDoc, deleted: BOOLEAN, content: Checksum \cup {Absent},
   approval: Checksum \cup {Absent}, parser: Version \cup {Absent},
   chunking: Version \cup {Absent}, embedding: Version \cup {Absent}, ref: BOOLEAN]

RunStatus == {"queued", "running", "succeeded", "failed", "dead_letter"}

(* What the last run of a document left behind. *)
ProcessingState ==
  [status: RunStatus, content: Checksum \cup {Absent}, parser: Version \cup {Absent},
   chunking: Version \cup {Absent}, embedding: Version \cup {Absent}]

PipelineVersions(embedding) ==
  [parser |-> DefaultParser, chunking |-> DefaultChunking, embedding |-> embedding]

EffectiveVersions(m, service) ==
  [parser |-> Chosen(m.parser, service.parser), chunking |-> Chosen(m.chunking, service.chunking),
   embedding |-> Chosen(m.embedding, service.embedding)]

----
(* The decision about one document, from its listing, the listing before it and   *)
(* the state its last run left.                                                   *)
DiffAction == {"skip", "metadata_only", "ingest", "reparse_rechunk", "reembed", "delete"}

MustIngest(m, state) ==
  \/ m.content = Absent
  \/ state = Absent
  \/ state.status # "succeeded"
  \/ state.content # m.content

Decide(m, previous, state, service) ==
  LET versions == EffectiveVersions(m, service)
  IN IF m.deleted THEN "delete"
     ELSE IF MustIngest(m, state) THEN "ingest"
     ELSE IF state.parser # versions.parser \/ state.chunking # versions.chunking
     THEN "reparse_rechunk"
     ELSE IF state.embedding # versions.embedding THEN "reembed"
     ELSE IF previous # Absent /\ previous.approval # m.approval THEN "metadata_only"
     ELSE "skip"

RequiresRaw(action) == action \in {"ingest", "reparse_rechunk"}
RequiresEmbedding(action) == RequiresRaw(action) \/ action = "reembed"
Changed(action) == action \notin {"skip", "delete"}

(* Listing a source stores every manifest at once; a document listed twice is      *)
(* compared with its first listing.                                               *)
LastIn(positions) == CHOOSE i \in positions : \A j \in positions : j <= i

Listed(listing, d, until) == {i \in 1..until : listing[i].doc = d}

PreviousOf(stored, listing, i) ==
  LET before == Listed(listing, listing[i].doc, i - 1)
  IN IF before = {} THEN stored[listing[i].doc] ELSE listing[LastIn(before)]

Observed(stored, listing) ==
  [d \in SourceDoc |-> LET all == Listed(listing, d, Len(listing))
                      IN IF all = {} THEN stored[d] ELSE listing[LastIn(all)]]

SourcePlan(stored, listing, states, service) ==
  [i \in DOMAIN listing |->
     Decide(listing[i], PreviousOf(stored, listing, i), states[listing[i].doc], service)]

(* The checksum of a listing does not depend on the order of its documents. *)
ManifestChecksum(listing) ==
  [d \in SourceDoc |-> SelectSeq(listing, LAMBDA m : m.doc = d)]

Count(plan, actions) == Cardinality({i \in DOMAIN plan : plan[i] \in actions})

SyncSummary(plan) ==
  [observed |-> Len(plan), changed |-> Count(plan, DiffAction \ {"skip", "delete"}),
   deleted |-> Count(plan, {"delete"}), skipped |-> Count(plan, {"skip"}),
   metadataOnly |-> Count(plan, {"metadata_only"}),
   reparse |-> Count(plan, {"reparse_rechunk"}), reembedding |-> Count(plan, {"reembed"})]

(* Where nobody names versions, the default ones with the embedding model of some *)
(* state: whichever comes first in the map.                                       *)
InferredVersions(states) ==
  LET known == {states[d].embedding : d \in {e \in SourceDoc : states[e] # Absent}} \ {Absent}
  IN IF known = {} THEN {PipelineVersions(Absent)} ELSE {PipelineVersions(v) : v \in known}

----
(* The assets.  The index holds a record and the chunks of each document; chunks   *)
(* are named by the content they were made of.                                    *)
Entry ==
  [version: Nat, content: Checksum \cup {Absent}, approval: Checksum \cup {Absent},
   chunksApproval: Checksum \cup {Absent}, chunks: Checksum \cup {Absent}, tombstone: BOOLEAN]

Targets(plan, listing, actions) == {listing[i].doc : i \in {j \in DOMAIN plan : plan[j] \in actions}}

SourceDeletions(index, plan, listing) ==
  [d \in SourceDoc |->
     IF d \in Targets(plan, listing, {"delete"}) /\ index[d] # Absent
     THEN [index[d] EXCEPT !.chunks = Absent, !.tombstone = TRUE] ELSE index[d]]

(* The last manifest of a document in a listing. *)
ManifestOf(listing, d) == listing[LastIn(Listed(listing, d, Len(listing)))]

(* Only the record is rewritten, and only where the registry hands out the record  *)
(* it keeps: one that hands out copies forgets the update.  The chunks keep the    *)
(* approval they were stored with.                                                *)
MetadataUpdates(index, plan, listing, shared) ==
  [d \in SourceDoc |->
     IF shared /\ d \in Targets(plan, listing, {"metadata_only"}) /\ index[d] # Absent
     THEN [index[d] EXCEPT !.approval = ManifestOf(listing, d).approval] ELSE index[d]]

(* One document without a reference, or of a type nobody parses, stops the batch. *)
BatchFails(plan, listing, supported) ==
  \E i \in DOMAIN plan :
    RequiresRaw(plan[i]) /\ (~listing[i].ref \/ listing[i].doc \notin supported)

(* The documents whose chunks are replaced: those that were fetched and have text. *)
Rebuilt(plan, listing, nonempty) ==
  Targets(plan, listing, {a \in DiffAction : RequiresRaw(a)}) \cap nonempty

EntryOf(old, m, fetched) ==
  [version |-> IF old = Absent THEN 1 ELSE old.version + 1, content |-> fetched,
   approval |-> m.approval, chunksApproval |-> m.approval, chunks |-> fetched,
   tombstone |-> FALSE]

VectorIndex(index, plan, listing, nonempty, fetched) ==
  [d \in SourceDoc |->
     IF d \in Rebuilt(plan, listing, nonempty)
     THEN EntryOf(index[d], ManifestOf(listing, d), fetched[d]) ELSE index[d]]

SyncedIndex(index, plan, listing, nonempty, fetched, supported, shared) ==
  LET updated == MetadataUpdates(SourceDeletions(index, plan, listing), plan, listing, shared)
  IN IF BatchFails(plan, listing, supported) THEN updated
     ELSE VectorIndex(updated, plan, listing, nonempty, fetched)

(* The state a run leaves when the worker's executor did the work. *)
StateAfter(m, versions, outcome) ==
  [status |-> outcome, content |-> m.content, parser |-> versions.parser,
   chunking |-> versions.chunking, embedding |-> versions.embedding]

(* The manufacturing asset: chunks in the batch and the record are given the       *)
(* metadata; a document whose metadata alone changed keeps its chunks as they are, *)
(* and the result says that the filters of the index were updated all the same.    *)
EnrichedIndex(index, batch, metadataOnly, approvalOf) ==
  [d \in SourceDoc |->
     IF index[d] = Absent \/ d \notin batch \cup metadataOnly THEN index[d]
     ELSE [index[d] EXCEPT !.approval = approvalOf[d],
             !.chunksApproval = IF d \in batch THEN approvalOf[d] ELSE @]]

EnrichmentResults(batch, metadataOnly) ==
  {[doc |-> d, metadataOnly |-> d \notin batch, filterUpdated |-> TRUE] :
     d \in batch \cup metadataOnly}

----
(* A reindex.  The chunks of a document carry the number of its version; a version *)
(* is served (live), hidden in the index (parked), or held for review (held).      *)
PlanStatus == {"planned", "running", "succeeded", "failed"}

ReindexPlan(documents, reason) == [documents |-> documents, status |-> "planned", reason |-> reason]

(* The route that accepts a plan stores it; nothing executes it. *)
RequestReindex(plans, documents, reason) == Append(plans, ReindexPlan(documents, reason))

NextVersion(s, d) == s.record[d] + 1

(* What becomes of the new text: chunks to serve, chunks to review, no chunks. *)
Extraction == {"readable", "poor", "empty"}
BuiltChunks(text) == [some |-> text # "empty", served |-> text = "readable"]

(* All new versions are stored hidden before the first one is switched. *)
Stage(s, d, fresh, text) ==
  IF BuiltChunks(text).some
  THEN [s EXCEPT !.live[d] = @ \ {fresh}, !.parked[d] = @ \cup {fresh}] ELSE s

HideOld(s, d) ==
  [s EXCEPT !.live[d] = {}, !.parked[d] = @ \cup s.live[d]]

(* Text of too low a quality is held for review instead of being served. *)
PublishNew(s, d, fresh, text) ==
  IF BuiltChunks(text).served
  THEN [s EXCEPT !.live[d] = @ \cup {fresh}, !.parked[d] = @ \ {fresh}]
  ELSE IF BuiltChunks(text).some THEN [s EXCEPT !.held[d] = @ \cup {fresh}] ELSE s

PutRecord(s, d, fresh) == [s EXCEPT !.record[d] = fresh]

Phase == <<"hide", "publish", "record">>

(* The step a reindex of the documents takes as its i-th. *)
ReindexStep(s, documents, fresh, text, i) ==
  LET n == Len(documents)
      k == i - n - 1
      d == documents[IF i <= n THEN i ELSE (k \div 3) + 1]
      phase == IF i <= n THEN "stage" ELSE Phase[(k % 3) + 1]
  IN CASE phase = "stage" -> Stage(s, d, fresh[d], text[d])
       [] phase = "hide" -> HideOld(s, d)
       [] phase = "publish" -> PublishNew(s, d, fresh[d], text[d])
       [] phase = "record" -> PutRecord(s, d, fresh[d])

ReindexLength(documents) == 4 * Len(documents)

(* The index after the first k steps; a step that raises ends the plan as failed.  *)
Reindexed(s, documents, text, k) ==
  LET fresh == [d \in SourceDoc |-> NextVersion(s, d)]
      after[i \in 0..k] ==
        IF i = 0 THEN s ELSE ReindexStep(after[i - 1], documents, fresh, text, i)
  IN after[k]

StatusAfterSteps(documents, k) == IF k = ReindexLength(documents) THEN "succeeded" ELSE "failed"

OneVersionLive(s) == \A d \in SourceDoc : \A v, w \in s.live[d] : v = w

----
(* The status of a source.  Without a row of its own it is projected from the      *)
(* runs of its documents, newest first; every run counts as an observed document.  *)
StatusOfRun(status) ==
  IF status = "queued" THEN "queued"
  ELSE IF status = "running" THEN "syncing"
  ELSE IF status \in {"failed", "dead_letter"} THEN "failed" ELSE "idle"

RunsWith(runs, statuses) == {i \in DOMAIN runs : runs[i].status \in statuses}

SourceState(row, runs) ==
  IF row # Absent THEN row
  ELSE IF runs = <<>> THEN Absent
  ELSE [status |-> StatusOfRun(runs[1].status), observed |-> Len(runs),
        changed |-> Cardinality(RunsWith(runs, {"succeeded"})), deleted |-> 0, skipped |-> 0,
        failed |-> Cardinality(RunsWith(runs, {"failed", "dead_letter"}))]

(* All four stages of a document show the status of its last run. *)
ProjectedDocument(d, content, state) ==
  IF state = Absent
  THEN [doc |-> d, content |-> content, stages |-> "pending", indexed |-> FALSE]
  ELSE [doc |-> d, content |-> state.content, stages |-> state.status,
        indexed |-> state.status = "succeeded"]

(* Documents are those of the stored manifests, else those of the states. *)
ProjectedDocuments(stored, states) ==
  LET listed == {d \in SourceDoc : stored[d] # Absent}
  IN IF listed # {}
     THEN {ProjectedDocument(d, stored[d].content, states[d]) : d \in listed}
     ELSE {ProjectedDocument(d, Absent, states[d]) : d \in {e \in SourceDoc : states[e] # Absent}}

(* The repository in memory knows documents only from manifests. *)
ProjectedInMemory(stored, states) ==
  {ProjectedDocument(d, stored[d].content, states[d]) : d \in {e \in SourceDoc : stored[e] # Absent}}

SourceSyncStatus(row, runs, stored, states) ==
  IF SourceState(row, runs) = Absent THEN Absent
  ELSE [summary |-> SourceState(row, runs), documents |-> ProjectedDocuments(stored, states)]

----
(* The quality checks a batch is accepted by. *)
DeletedNotSearchable(deleted, retrieved) == deleted \cap retrieved = {}

HighRiskRequirement(decisions) ==
  \A i \in DOMAIN decisions :
    decisions[i].highRisk => decisions[i].approvedCitation \/ decisions[i].blocked

CellRangeValid(range) == range = Absent \/ (Len(range) = 4 /\ \A i \in DOMAIN range : range[i] >= 1)

NoRegression(recall, citation, tolerance) == recall >= -tolerance /\ citation >= -tolerance

EmbeddingCoverage(models) == \A i \in DOMAIN models : models[i] # Absent

BatchAccepted(decisions, leaks, deleted, retrieved, ranges, recall, citation, tolerance) ==
  /\ HighRiskRequirement(decisions) /\ leaks = 0
  /\ DeletedNotSearchable(deleted, retrieved)
  /\ \A r \in ranges : CellRangeValid(r)
  /\ NoRegression(recall, citation, tolerance)
===============================================================================
