# raku-rag: a TLA+ verification

raku-rag is a multi-tenant retrieval-augmented-generation platform. Documents are uploaded or
synchronised from data sources, parsed, judged, chunked and indexed; questions are answered
from the index over HTTP, by telephone and by chat, with access control, safety gates and
citations. In production it runs over Postgres and SQS: `src/infra/cdk/lib/raku-rag-stack.ts`
deploys two answer services and two ingestion workers. This directory models those processes,
what they keep, and the decisions they take.

Paths are relative to `src/src/raku_rag/` unless they begin with `src/`. `PROJECT.json` lists
the parts (`components`), the runs, which source lines each definition stands for (`map`), the
`hazards` at their lines and the `theorems`.

1. The system, 2. Modules, 3. Runs, 4. Theorems, 5. Operators checked by evaluation,
6. What the code does not keep, 7. Simplifications, 8. Not modelled, 9. Plan

## 1. The system

| Part | State it keeps | Operations | What is hard |
| --- | --- | --- | --- |
| Task queue, `workers/queue/sqs.py` | messages, visibility, receive counts; dead-letter queue | enqueue, receive, ack, fail, retry_later | at-least-once delivery, visibility ending under a worker, two counters that park, copy-then-delete |
| Run store, `persistence/postgres.py` | runs, processing rows, source states | `create_queued`, `mark_*` | autocommit: every UPDATE is its own transaction; no compare-and-set |
| Upload and retry routes, `src/apps/answer-service/server.py` | the request in progress | ingest, retry | a crash between registration and enqueue |
| Ingestion worker, `workers/ingestion.py` | one envelope, the run it read | `process_once` | overlap, exceptions, asynchronous analysis |
| Source sync, `services/source_sync.py` | the walk, the source's state | request, execute, refresh of the parent | a parent recomputed by children that other workers run |
| Automatic sync, `services/sync_scheduler.py` | clock, schedule | `tick` | two services tick; slots and due times must agree |
| Document index, `services/ingestion.py`, `deletion.py`, `review_actions.py` | registry record; live, quarantined, tombstoned chunks | ingest, delete, restore, review | purge before embed, delete against ingest, crash between statements |
| Approval, drafts, audit chain, `manufacturing/` | lifecycle, draft artifacts, hash chain | transition, import, review, publish, append | read-check-write by several services |
| Document analysis, `providers/docling_parser.py`, `services/structured_*` | none; what a file becomes | parse, route pages, OCR, judge, chunk | verdicts of pages, document and chunks override one another |
| Tables and pictures, `services/structured_tables.py`, `visual.py`, `crop.py` | manifests, regions, crops | table questions, crops | what an answer may cite, what must be redacted |
| Retrieval, `core/hybrid_retrieval.py`, `services/retrieval.py`, `vectorstores.py` | embedding cache | three legs, fusion, boosts, cut | windows and pools against access control |
| Answering and safety, `services/answer.py`, `manufacturing/safety/`, `manufacturing/api/answer_ext.py` | spend per process | answer | three reads of a document that changes between them |
| Phone agent, `phone/` | calls, packages, scenario | events, turns, hand-off, deletion, scenario workflow | caller, operator and administrator act independently on rows written whole |
| Chatbot, `chatbot/` | sessions, packages, policies, scenario | turns, tickets, hand-off, policies | dialogue state survives edits, crashes and withdrawn documents |
| Data sources and connectors, `services/datasource_*.py`, `providers/connectors.py` | sources, secrets, OAuth connections | save, connect, preview, sync | eight walks of a site that changes; secrets beside rows |
| Sync decisions and reindex, `services/sync.py`, `reindex.py`, `dagster/` | manifests, plans | decide, batch, switch versions | composition of steps, a failure in the middle |
| Industry packs, `industry/` | drafts, events, counters of one process | workflows, drafts, reviews, imports | which policy applies to whom, in which order |
| Control plane, `src/apps/answer-service/server.py` and the stores of settings | profiles, provider policies, grants, budgets, vocabulary, data-use policy | save, revoke, opt in, audit | read-modify-write, defaults that are filled in |
| Evaluation and reports, `eval/`, `manufacturing/kpi`, `manufacturing/api` | logs, runs, baselines | record, count, gate | different readers count the same log differently |

How they interact. Routes and the scheduler insert a run and send a message whose body is the
job; a worker receives it, repeats `create_queued`, skips a succeeded run, marks it running,
executes, marks the outcome and acknowledges. A sync is a job like the others: its worker walks
the source, indexes text itself and sends one child job per PDF; every child that ends reads the
rows of the source's documents and rewrites the parent. Requests of people (approval, deletion,
review, drafts, calls, chat) go to the answer services and meet the workers only in the tables.
Retrieval reads the same tables, the gate and the demotion of citations read them again.
Nothing is shared but queue and tables, except what a service keeps in memory (spend, OAuth
connections, industry drafts, settings without a table), which a restart forgets.

What makes the parts correct: nothing accepted is lost and a success is real; a source is not
shown complete before it is; a due slot is sent once; what is served of a document is the
version its record names; a deletion and a decision last; an answer rests on evidence that was
readable, in force and approved where it has to be; people who were promised a person or a
deletion get one; nothing becomes active that nobody approved; what is counted was recorded.

## 2. Modules

State machines (a process takes one statement or call per step):

| Module | Models | Correspondence |
| --- | --- | --- |
| `IngestionJobs` | idempotency keys and documents | a job is one key |
| `SqsTaskQueue` | the adapter and the SQS behaviour it relies on | one operator per call; `VisibilityExpires` and `Redrive` are the service's own |
| `IngestionRunStore` | the run store | one operator per SQL statement |
| `UploadApi` | registration, enqueue, retry | `apiPc` is the next statement |
| `IngestionWorker` | `process_once` | `pc[w]` is the next statement, `inTry[w]` says where an exception goes, `Dies` ends the process anywhere |
| `IngestionPipeline` | the five together | properties |
| `DurableJobs` | what the pipeline promises, without queue, workers or store | implemented by `IngestionPipeline` (`ImplementsDurable`) |
| `SourceSync`, `SourceSyncWorker`, `SourceSyncSystem` | request, walk, children, refresh | `reqPc[r]`, `pc[w]` are the next calls, `ctx[w]` the locals |
| `AutoSyncScheduler` | ticks over `SourceSyncSystem` | the clock counts units, `Period` of them a slot |
| `DocumentStore` | registry, chunks, quarantine | one operator per statement |
| `DocumentIngestion` | text, structured and visual ingest by worker and API | `todo[p]` is the statements a process has left, `job[p]` its locals |
| `DocumentLifecycle` | deletion, approval, import, metadata, extraction review, audit chain; drafts: generate, assign, decide, publish | the same |
| `KnowledgeBase` | services and workers over one index | histories and properties |
| `PhoneCalls`, `PhoneAgent` | scenario versions, calls, turns, packages; their users | a row is read, changed and written whole |
| `ChatSessions`, `ChatService` | scenario versions, one turn as a computation; routes over the stores | a request is its writes, one at a time |
| `AnswerRequests` | classification, gate, votes; one question step by step while documents change | `request[s]` holds what it has read |
| `SourceConnectors` | the eight walks, field mapping and sample rows; one source and its users | one connector call per step |
| `IndustryWorkflows`, `IndustryPacks` | the framework; real estate and investment on top | a request is one step: everything is in one process |

Operators (pure decisions, no variables; a request or a step of a batch is a function from one
state to the next, so that a failure in the middle is a prefix of a composition):

| Module | Models | Evaluated by |
| --- | --- | --- |
| `HybridRetrieval` | legs, fusion, boosts, rerank, embedding cache | `MCAnswers` |
| `DocumentAnalysis` | text quality, page routing, layout, OCR, the quality gate, review queue, provider policy | `MCKnowledgeBase` |
| `StructuredEvidence` | tables, table questions, regions, crops, Textract's answer | `MCIngestionPipeline` |
| `IncrementalSync` | decisions of a repeated sync, batch assets, reindex, source status | `MCSourceConnectors` |
| `ControlPlane` | settings, provider policies, grants, budgets, vocabulary, data use, audit | `MCChat` |
| `OperationsReports` | logs, key figures, dashboards, evidence packs, trouble search, evaluation and its gate | `MCIndustry` |

Proofs are in modules of their own: `IngestionPipelineProofs` (with the theorems about
`StructuredEvidence`), `SourceSyncProofs` (sync and scheduler), `PhoneProofs`, `ChatProofs` (with
`ControlPlane`'s), `AnswerProofs` (with `HybridRetrieval`'s), `IndustryProofs` (with
`OperationsReports`'), `KnowledgeBaseProofs` (with `DocumentAnalysis`'), `SourceProofs` (with
`IncrementalSync`'s). `MC...` are the instances. Definitions named
`Name_Something` are mutants: a plausible bug of `Name`, used by no specification, that shows
that a property would notice.

## 3. Runs

| Run | Instance | What it shows |
| --- | --- | --- |
| `pipeline_overlap` | 2 workers, 1 job, 2 messages, 2 receives | under every crash, exception and expiry: types, a success is indexed, a message leaves only when done or parked, no run is orphaned, `dead_letter` is findable, a settled run stays settled |
| `pipeline_visual` | 1 worker, asynchronous job, 2 analyses, no `SQS_DLQ_URL` | a recorded analysis is polled, not submitted again; the pipeline implements `DurableJobs` with its liveness |
| `sync_alone` | 1 worker, 2 PDFs, a text, no system failure | state, run and rows agree at rest, a success walked the whole source, every sync ends |
| `sync_faults` | 1 worker, a PDF, a text, every failure but a refused acknowledgement | one message per key, no orphaned child, never successful too early |
| `autosync_slots` | 2 services, 2 slots, restarts | a slot is sent once, a due source has a new slot |
| `kb_server` | 1 service and 1 worker that may die, 2 documents, 4 requests of 7 kinds | a deleted document stays gone, what is served is what the registry names, withdrawal lasts, what is published was approved, the chain verifies |
| `phone` | 2 services that may die, 1 call, 1 operator, 6 requests | hand-off packages and calls agree, an ended call stays so, a deletion leaves nothing, a published version is frozen, the active one is published |
| `chat` | 2 overlapping services that may die, 1 session, 5 requests | hand-offs stay linked, no ticket without the confirmation step, the active version was approved |
| `answers` | 1 question of 4 kinds, 2 documents with text, table and scan, 2 changes between any two reads | a high-risk answer rests on approved evidence, what is gone is not cited, obsolete documents alone carry nothing |
| `answers_draft` | the same | *violated*: a draft alone carries an ordinary answer |
| `sources` | 2 services and a worker, 2 saves, 1 sync, 1 fault | secrets exist before they are referred to, a crawl is complete, nothing approves itself, rows shown as valid are filled |
| `industry` | 2 tenants, 4 requests over 2 days, restarts | approvals follow a review under the draft's own policy, workflows rest on evidence in force, compliance follows the business review |

The violated run is the entry of `findings`: `manufacturing/api/answer_ext.py:832` looks for
obsolete citations alone, where `src/specs/002-manufacturing-field-knowledge-rag/spec.md:219`
asks the same of drafts. Each module states its types as `TypeOK`; `pipeline_overlap` runs one,
the theorem `TypeCorrectness` proves it.

Deadlock is not checked: every one of these systems stops when its bounded requests are used up.

Bounds, and why they are enough.

- Pipeline and sync: two workers are what production runs and no step involves a third. Two
  messages with two receives give a first delivery, an overlapping redelivery and the last
  receive before parking; production's five receives repeat the middle one. Properties speak
  of one job or document at a time. Two handles let an analysis be submitted twice; two PDFs
  let their refreshes interleave, three receives let a child fail and then succeed. Two slots
  whose boundary is not at zero show both sides of `is_due`.
- Knowledge base: four requests are the longest conflict that is known (ingest, decide, delete,
  ingest again), two texts of which one is held back and one has two pieces make re-ingests
  that shrink and verdicts that differ.
- Phone and chat: six requests are a call, its escalation, an acceptance and a deletion with a
  scenario edited between; five are a cancellation collected, confirmed and repeated.
- Answers: two changes let a document be withdrawn and ingested anew between two reads.
- Sources: the site has a page reachable by two ways, one behind it alone and a foreign host;
  a folder has two files of one name; depth 2 is the largest the code allows.
- Industry: four requests are create, assign, decide and decide again; two days separate the
  day a process started on from the day a request is made.

Workers, services, messages and requesters are interchangeable (symmetry in safety runs only).
A run has the circumstances its question needs: the asynchronous path and the second worker of
the pipeline are in different runs, because both together exceed what is worth waiting for.

Circumstances that are assumed. `sync_alone` and `sync_faults` have one worker, `AcksSpec`
leaves out a refused acknowledgement after recorded work, and `kb_server` and `phone` have
`Overlapping = FALSE`: no two requests on one document, or call, at a time. The code enforces
none of these; section 6 says what happens without them.

Fairness. `FairSpec` assumes that the queue redelivers and redrives, that some worker receives
a visible message and that a worker that has one takes its next statement: the worker loop
(`src/workers/ingest/worker.py`) polls for ever and ECS restarts it. Nobody is assumed to
submit, retry or finish an analysis, and crashes are not excluded: the receive count bounds
them. `FairCalmSpec` assumes the same for a sync without expiry and crashes, because the code
does not promise more: a worker that dies between the success of the last child and the refresh
leaves the source syncing. The other modules claim nothing that must eventually happen: their
requests come from people, and nothing in the code repeats an interrupted one.

## 4. Theorems

TLAPS proves these for every value of the constants and arguments. Each state machine's module
of proofs has one inductive invariant, put together from named parts that TLC checked on the
run's instance before they were proved; a lemma per part and action; and `Invariance`, from which
the theorems follow.

`IngestionPipelineProofs`: `TypeCorrectness`, `SuccessIsReal` (`SuccessIsIndexed`), `GoneIsSafe`
(`GoneIsAccounted`), `DeadLetterIsReal` (`DeadLetterIsParked`), `NothingIsLost` (`NoOrphanRun`),
the action property `RedeliveryIsIdempotent` (`SettledStaysSettled`), `RecordedIsPolled`
(`RecordedAnalysisIsPolled`) and `PipelineIsDurable`, the safety half of `ImplementsDurable`. None
is inductive alone. A success is real because a worker about to write "succeeded" holds a job
that is indexed; a message that goes is accounted for because a worker at `ack`, `skip` or
`failDelete` knows its job indexed or its message copied; a run is never orphaned because it has
a message, or is queued without a message id and the next request sends it. `IInv` states what
each program counter implies about the job or message in hand. `RecordedIsPolled` has the
hypothesis `[]OneAtATime`, that two workers never hold one job: with an overlapping redelivery
the second worker submits before the first has recorded, which the code does not exclude.

`SourceSyncProofs`: `SyncIsRequestedOnce` (`RequestedOnce`), with refused acknowledgements: a sync
whose message a request owes has none yet and is owed by that request alone, and the sync of any
message is registered, because only the request that inserted the run sends.

Four more have the hypothesis that one worker serves the queue, and any number of requesters,
jobs, documents and messages. `NoChildIsOrphaned` (`NoOrphanChild`, `AcksSpec`) rests on
`OrphanInv`: a message leaves the queue unparked only when its child has succeeded, and a child
that is open and has no message is in the listing of a sync that has one, will walk when it
comes, and is not past that child. `LooksAreTrue` (`NeverLooksSuccessful`, `AcksSpec`, every sync
finds the same listing) rests on `LooksInv`: "succeeded" is written by the close of a walk, whose
tally then holds nothing but successes, or by a refresh, whose reading stays true until it is
written because nobody else marks children. `SucceededIsWalked` (`SucceededWasWalked`, `CalmSpec`,
a single sync) rests on `WalkedInv`: no child has a message before the walk and no step of a child
comes within it, so a refresh that marks the parent is behind it. `QuietIsTrue` (`QuietAgrees`,
`CalmSpec`, a single sync) adds `CalmInv`: the message of the sync is walked once, since no receipt
goes stale; the walk's two tallies are the cardinalities of the children behind it that are queued
and that failed, so the state it writes at its close is exact; whatever a child's row turns to
afterwards, the worker refreshes the state before it takes another message, from rows nobody
changes meanwhile; and with every child at an end the verdict on three counts is the verdict on
the rows (`ExactAgrees`, one document per child by `OneJobAssumption`). With a second worker the
properties fail, as section 6 says.

For the scheduler, over `RestartSpec`: `SlotsEnqueuedOnce` (`SlotEnqueuedOnce`), because a slot's run is registered
by no one but a tick that found that slot, and `DueSlotsAreNew` (`DueMeansNewSlot`): the last run
is on record only with the slot it belongs to, and a source due again is a period further on or
past the hour, hence in a later slot (arithmetic of quotients).

`KnowledgeBaseProofs`: whatever overlaps, `KnowledgeBaseTypes` (`TypeOK`) and `PublicationNeedsConsent`
(`PublishedWasApproved`); with one answer service (`OneServer`), `ChainHolds` (`AuditVerifies`); with
`~Overlapping`, `DeletionHolds` (`DeletedStaysGone`), `ServedTextIsRegistered`
(`ServedIsRegistered`) and `ObsoleteHolds` (`ObsoleteIsKept`). A process is known by the statements
it has left, so the proof has to say which lists of statements there are: `Program` gives, for each
kind of request, which statements it may contain and which may follow which, and `ControlInv` that
every process is inside such a program, with the locals its next statement needs (`Bound`).
`ConsentInv` says of a process about a draft's document that it holds a record, or an approved
artifact, only if somebody consented; `ChainInv` that the head about to be extended is the last
entry. `DocumentInv` says of each document what its rows have in common (`DocumentIsSound`) and, per
statement, what a process has established about the document it works on (`Knows`): between the
purge and the registration the document counts as torn and all its rows are of the new text; the
row to be written back is the row of the table; who is about to hide chunks has left no live
record. A step is then shown to keep its own document sound (`StepIsSound`), to establish what its
next statement needs (`StepKnows`) and to leave all other documents as they are (`StepElsewhere`).

`PhoneProofs`: `TypeCorrect`, `ActiveWasPublished` (`ActiveIsPublished`), both whatever overlaps;
with `~Overlapping`, `PublishedStaysFrozen` (`PublishedIsFrozen`), `HandoffStaysKept`
(`HandoffIsKept`), `ErasedStaysErased` (`ErasedIsErased`) and `EndedStaysAsItEnded`
(`EndedStaysEnded`). A service writes back the row it read: each row in its hands is one the
table could hold, and, without overlap, the one it does hold (`EditInv` for the scenario,
`CallsInv` for calls, with what each step of an escalation or a deletion has already written).

`ChatProofs`: `TypeCorrect`, `ActiveStaysApproved` (`ActiveWasApproved`), `TicketsWereOffered`
(`TicketWasOffered`), `HandoffStaysLinked` (`HandoffIsLinked`), with overlapping services that
die anywhere. They hold in spite of lost updates because every row, stored or in flight, is good
by itself: the package is written before the session that names it, a ticket is made only from
the confirmation step of the row that was read, and its slots were shown there.

`AnswerProofs`: `TypeCorrect`, `DangerRestsOnApproved` (`HighRiskRestsOnApproved`),
`WithdrawnIsNotCited` (`GoneIsNotCited`), `ObsoleteAloneIsNotEnough` (`ObsoleteIsNotTheBasis`),
with documents changing between any two reads. What the three reads have established is carried
to the release: the context was vetted by the gate at a moment after the question came, a
version withdrawn is never in force again, the demotion looks at each citation that is left, and
an answer without a citation is not released as an answer.

`IndustryProofs`: `TypeCorrect`, `DraftsAreReviewed` (`ApprovedWasReviewed`), `OwnPolicyOnly`
(`ReviewedUnderItsPolicy`), `WorkflowsRestOnEvidence` (`RestsOnEvidence`), `ComplianceComesSecond`
(`ComplianceFollowsApproval`). A draft, its events and its counters are one row each of one
process: the invariant says of every draft which reviews its status presupposes and under which
policy they were taken, of every workflow run which evidence its reply was made from, and of a
fund draft that the business approval is remembered when compliance decides.

`SourceProofs`: `SecretsExist` (`ReferencedSecretsExist`), `TrustHolds` (`ApprovedWasTrusted`),
`CrawlCompletes` (`CrawlIsComplete`), `ValidRowsHaveFields`, with saves that overlap, processes that die and a site that
changes. `SourceInv` says what the request in a process's hands counts on (`JobOk`): the
secret its row refers to is stored, the token of its connection is kept, a row it copied as
trusted was trusted once; a step forgets none of these (`Keeps`), so they carry over to all other
requests. The crawl's invariant (`CrawlOk`) assigns every page fetched a depth: the page can be
reached at it, nothing waits at a smaller one, and each of its links is fetched or waits at most one
deeper. The queue is in the order of depth and two levels long, so the first page not seen is one
of the least; when none is left, the reach is filled level by level, up to the clamp of
`crawl_depth` at 2. `Fetched_LastFirst`, the depth-first walk, is the mutant that breaks it.
`ValidRowsHaveFields` (`ValidRowsAreFilled`) rests on `PreviewInv`: a walk of any kind is of pages,
so the tables sampled have their columns in a list, and a required field a valid row has is either
a default or read from the last column mapped to it (`ValidRowReads`, with `MaxIs` for that column).

Theorems about operators state what a decision gives for every input, each with a comment that
says which code it is about.

- `HybridRetrieval`: the over-fetch window with its fallback is exact, and the lexical pool that
  ignores grants loses nothing a reader may see. By induction-free counting: the first k of a
  strict order are closed downwards, and fewer than k of them are all there is.
- `DocumentAnalysis`: what could not be read, or is a draft of a vision model, is never retrieved;
  the gates on reading order and on empty pages cannot fire; a warning never survives.
- `StructuredEvidence`: table answers cite what the asker may read; sensitivity of a region
  reaches page, crop and chunk; a crop lies in its image; two unreachable or inescapable verdicts.
- `IncrementalSync` (in `SourceProofs`): a skip is justified, what was processed is skipped, an update of the approval
  is decided once, a reindex never serves two versions and leaves other documents alone.
- `ControlPlane`: without an applicable policy a tenant has not opted in; policies of other
  tenants are neither used nor changed; opting in needs a contract; vocabulary only grows.
- `OperationsReports`: block reasons add up, scopes count no more than the whole, a refusal is
  queued, scopes open nothing of another tenant, a caller's counts cannot open a gate.

Some of them state what a reader of the code would not expect (`RevocationKeepsTheGrant`,
`SaveDetaches`, `MeasuredScanIsHeld`, `JapaneseIntentIsUnanswered`, `PackCountsNoAnswer`,
`DroppedCheckIsNoFailure`, `ReembedChangesNothing`, `MetadataOnlyLeavesChunks`,
`UpdateIsDecidedOnce`): they settle the question for every input; section 6 repeats them.

Assumptions: those declared with the constants, which TLC evaluates in every run, and the
hypotheses written in each theorem (finite sets, a strict order, sequences, `~Overlapping`,
`OneServer`: circumstances of the runs that the code does not enforce, see section 6). Of
the declared ones, most say that a null (`NoJob`, `NoMsg`, `NoHandle`, `NoCall`, `NoVersion`,
`NoDoc`, `NoMeta`, `None`) is none of the values it stands beside and that bounds are numbers. The others:
`MaxReceiveCount` is positive; a sync is a job of the parent document, any other document has
one job (`OneJobAssumption`: its bytes do not change while the module looks), `Jobs` and `Docs` are
finite; a slot has a length, and its hour lies in it (`ScheduleAssumption`); scripts have numbers
of slots (`ScriptsAssumption`), bodies of requests the fields their routes read
(`PolicyBodyAssumption`, `EventsAssumption`, `BodiesAssumption`, `ConnectorsAssumption`), a confirming
message no slots (`UserMessageAssumption`); pages are finitely many, `crawl_depth` is clamped to
0..2, a location's start page is on its own host, a listing is a list of pages and a table's columns
a list of headings (`WalksAssumption`, `ConnectorsAssumption`); the pieces of documents are finitely many, at least one row is asked
for, as the clamp `max(1, ...)` has it (`GatesAssumption`), and some question is asked
(`RequestsAssumption`).

Only model-checked: liveness (`ImplementsDurable`'s fairness, `SyncEnds`), which is out of this
prover's reach, as are `ENABLED` and induction over data, hence everything a fold computes. Where
a least number was all that was needed, `Least` has it from the well-foundedness of `<`, and with it
`AmongTyped` what a filtered list is made of. Every invariant the runs check is a theorem, under
the hypotheses named above.

## 5. Operators checked by evaluation

The `ASSUME`s of six `MC` modules evaluate the operator modules over every small input of some
shape, against a definition of their own where there is one:

- retrieval: the vector leg equals the nearest k visible chunks; results are readable, eligible,
  unique and no longer than asked; no boost outranks an exact match of metadata; the cache keeps
  what was used last;
- document analysis: all two-page PDFs with up to two items, a figure and every outcome of OCR
  and vision: which pages are read, what is quarantined, what is retrievable, route and heading;
- tables: totals, median, ranking and filters against the rows themselves, and the intent patterns;
- decisions: each listed document counted exactly once, each action decided for some listing, a
  reindex stopped after each of its steps;
- control plane: all stores of three policy rows of two tenants, grants, budgets, vocabulary,
  data-use patches in any order, pages, exports, redaction, feedback, evaluation history;
- reports: the counters and figures of one log, troubles, scopes, probes, gates, classifiers.

## 6. What the code does not keep

Properties stated in the modules that no passing run claims, because the model, like the code,
has a counterexample (give TLC the property in the instance named):

| Property | Counterexample |
| --- | --- |
| `ParkedIsProjected` (`IngestionPipeline`, `CalmSpec`) | each receive of a pending analysis counts towards the redrive limit: the queue parks it, the run stays `running` |
| `RetryStartsAfresh` (`IngestionPipeline`) | a retry keeps the token of the failed analysis and polls it again |
| `NoOrphanChild` with two workers | a second delivery of the sync is still walking when the first is acknowledged: it takes a text back to running, and if it dies there no message is left |
| `NeverLooksSuccessful`, `QuietAgrees` with two workers | a child that ends during the walk makes the source look complete; the last refresh to write may be a stale one |
| `SucceededWasWalked` under `ConnectorFailsSpec` | a child revives the failed sync, the redelivery skips the rest |
| `SyncedSlotIsNotFired` (`AutoSyncScheduler`) | the scheduler reads a time nobody writes |
| `DeletedStaysGone`, `ObsoleteIsKept` with `Overlapping = TRUE` | an ingest stores chunks after the purge; a decision made on an old record |
| `AcceptedIsRegistered`, `NoPhantom` (`KnowledgeBase`) | the purge precedes the embedding; a publication whose ingest failed marks the artifact published all the same, where `manufacturing/api/drafts.py:281` says otherwise |
| `ReaskIsBounded` (`PhoneAgent`) | the row of a call does not hold the counters |
| `WithdrawnIsNotCited`, `AnswerNamesItsPolicy` (`ChatService`) | a reformatted answer reuses stored citations; it also takes the policy of the last turn, and a clarification in between (three turns) names none |
| `HighRiskTablesRestOnApproved`, `CitationNamesItsText` (`AnswerRequests`) | table answers bypass the gate; chunk text outlives a re-ingest |
| `QueuedDriveIsConnected` (`SourceConnectors`) | the worker builds its service without OAuth connections (`src/workers/ingest/worker.py:97`, `src/infra/cdk/DEPLOY.md:182`) |
| `UnchangedKeepsApproval` (`SourceConnectors`) | a re-sync attaches the source's approval over a person's |

Observed while modelling, and settled by a theorem or an evaluation of section 5:

- Grants: a revocation empties the listing and no table (`server.py:555`), where
  `src/specs/prod-readiness/production-config-contract.md:38` says otherwise; a grant of an
  unknown scope is listed and not granted.
- Settings: a provider policy saved without its collection or status loses both; a
  collection-specific default beats the id asked for; only tenant budgets are enforced and
  their listed `spent` is 0; data-use updates are read-modify-write; profiles, listings and
  configuration events are lost with the process.
- Extraction: confidences of engines are fractions, the threshold a percentage, so every measured
  visual document waits for review; a drawing on a scan holds its document back though OCR read
  it; OCR's text gets the last heading; a caller's metadata can leave a chunk neither retrievable
  nor in review; DOCX and HTML go to Docling alone and carry no high-risk answer.
- Tables: questions in Japanese wording end as insufficient evidence; bounds exclude equality;
  "until" is a lower bound; rows of all visible documents are mixed; duplicate columns collapse.
- Sync: changed embedding models are decided and not performed; an approval-only update reaches
  the record and never the chunks and is decided once; emptied documents keep their chunks; a
  reindex that failed between publication and record lets the retry hide what was published.
- Reports: the evidence pack counts an action nobody records, and views of hand-offs as hand-offs;
  rates cover the whole log while counters obey the filter; the dashboard ignores its filters; a
  check missing from a run fails nothing; rating 0 is low, neutral or nothing, by reader.
- Answering: filters apply to the first retrieval only; the budget is per process, checked before
  and recorded after; a demoted answer is charged. Recency can lift a synonym's hit over an exact
  one, against the comment at `core/hybrid_retrieval.py:65`.
- Dialogue: an edit of an approved phone or chat version keeps its approval; rollback takes the
  last version in key order; two overlapping turns lose one; a second operator may accept a
  package again.
- Industry: evidence services keep the day their process started on; a compliance approval
  survives a later rejection; a rejected pack draft may be approved without a new review.

## 7. Simplifications

Everywhere: one tenant unless tenants are the subject; wording, formats, logging, costs and
traces are left out; a text is a model value with what its reader tells apart; ids are given.

- Pipeline and sync: the executor is its outcome (indexed, failed, pending, raised). A document
  has one job. Deleting with an old handle may do nothing, changing visibility with one raises.
- Knowledge base: a process serves one request; `put`'s parent rows are one statement;
  propagation of metadata to chunks does nothing on Postgres; imports revive only with a date;
  `supersede` and `reapply_tombstones` have no caller; the retention sweep is left out.
- Document analysis: a text is its counts of characters, confidences are whole percents, Docling's
  output is an input, latency and cost of routes are left out.
- Retrieval: the vector index is exact, tokens and hash collisions are abstract, scores are whole
  numbers. Answering: which sentence is supported, which identifier is named and how many tokens
  fit are nondeterministic subsets; rewritten queries, synonyms and rerankers are left out.
- Phone and chat: a payload is a script with slots and reasons, an utterance what the parser says
  of it. Previews, quality review, metrics, feedback and exports are left out.
- Sources: one source; `test_connection` is a preview of one document; alias tables and
  normalisation of cells are given as functions; a child's run is `SourceSync`'s business.
- Industry: `served` says which API answers; a query is the set of rules it matches; reading
  requests set the reply alone; governance listings and cost events are left out.
- Control plane and reports: no run interleaves their requests; stale reads appear as an
  argument (`OptInNeedsContract`). Defaults are reduced to fields something reads; int failures,
  provider validation beyond `DocumentAnalysis`, CSV, JSON and cell anchors are left out.
- Incremental sync: reasons of decisions are left out; nothing in production calls the batch
  assets, and no route executes a reindex plan.

## 8. Not modelled

The web application, API gateway, SDK and infrastructure (no protocol the core depends on; their
numbers are taken as constants); counters and traces; provider calls (input and output only);
authentication; the in-memory twins of queue and store, which serve tests and local mode. Of the
parts modelled partly, the components' notes name what is left out.

## 9. Plan

1. An abstract index (a document is present in one version or absent) that `KnowledgeBase`
   implements without overlap, from `DocumentInv`, and the pipeline with two jobs of one document
   over it.
2. Interleaving of the settings' requests, with two services and the worker that reads them.
