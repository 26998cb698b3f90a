-------------------------- MODULE DocumentIngestion ---------------------------
(***************************************************************************)
(* Putting a text into the index: IngestionService.ingest with its         *)
(* diff-sync skip (services/ingestion.py), the visual results of the       *)
(* worker (workers/ingestion.py), and the API ingest of the answer service *)
(* with its run lookup, PDF stub and metadata attachment (production.py).  *)
(*                                                                         *)
(* A process is one answer service or one worker.  It serves one request   *)
(* at a time; todo[p] is the sequence of statements it still has to        *)
(* execute and job[p] its local variables.  Every statement is an action:  *)
(* other processes run, and p may die, between any two.                    *)
(***************************************************************************)
EXTENDS DocumentStore

CONSTANTS
    Procs,    \* the processes
    MaxOps,   \* requests served in a behavior
    NoChunk   \* no chunk row has been read

ASSUME MaxOpsAssumption == MaxOps \in Nat

VARIABLES
    todo,        \* todo[p]: labels of the statements p has left
    job,         \* job[p]: the locals of the request p serves
    runs,        \* runs[<<d, c>>]: the API ingestion run of text c of d
    processing,  \* document_processing_states: status of the last run of d
    ops          \* requests served so far

control == <<todo, job, ops>>
runTables == <<runs, processing>>

RunStatus == {"none", "queued", "running", "succeeded", "failed"}

(* d, c and meta are the request's document, text and metadata, arg what   *)
(* it asks for and id its chunk; row, chunk, draft and head are rows read  *)
(* earlier; n counts the chunks written; failed is the outcome of ingest.  *)
Request(d) ==
    [d |-> d, c |-> NoDoc, meta |-> NoMeta, arg |-> "ingest", id |-> << >>,
     row |-> NoDoc, chunk |-> NoChunk, draft |-> NoDoc, head |-> 0, n |-> 0,
     failed |-> FALSE]
Idle == Request(NoDoc)

At(p, label) == todo[p] # << >> /\ Head(todo[p]) = label

Move(p, labels, locals) ==
    /\ todo' = [todo EXCEPT ![p] = labels]
    /\ job' = [job EXCEPT ![p] = IF labels = << >> THEN Idle ELSE locals]
    /\ UNCHANGED ops
Continue(p, locals) == Move(p, Tail(todo[p]), locals)
Skip(p, k) == Move(p, SubSeq(todo[p], k + 1, Len(todo[p])), job[p])
Abort(p) == Move(p, << >>, job[p])

Begin(p, request, labels) ==
    /\ todo[p] = << >>
    /\ ops < MaxOps
    /\ ops' = ops + 1
    /\ todo' = [todo EXCEPT ![p] = labels]
    /\ job' = [job EXCEPT ![p] = request]
    /\ UNCHANGED <<tables, runTables>>

-------------------------------------------------------------------------------
(* The requests. *)

IngestText == <<"existing", "purge", "purge_quarantine", "embed", "put">>
StoreVisual == <<"analyse", "purge", "purge_quarantine", "split", "reread", "put_visual">>
Attach(meta) == IF meta = NoMeta THEN << >> ELSE <<"get", "put_meta">>
RunText(meta) ==
    <<"mark_running">> \o IngestText \o <<"settle", "get", "put_ref">> \o Attach(meta)
RunVisual(meta) ==
    <<"mark_running">> \o StoreVisual \o <<"settle", "get", "put_ref">> \o Attach(meta)
RegisterPdf == <<"get", "put_stub">>

IngestRequest(kind, d, c, meta) ==
    [Request(d) EXCEPT !.c = c, !.meta = meta, !.arg = kind]
LabelsOf(request) ==
    IF request.arg = "pdf" THEN RegisterPdf
    ELSE IF request.arg = "image" THEN RunVisual(request.meta) ELSE RunText(request.meta)
ToRequeue(request) == request.arg = "pdf" /\ runs[<<request.d, request.c>>] = "failed"

(* ProductionSystem.ingest_document of a text, an image or a PDF.          *)
ApiIngest(p, kind, d, c, meta) ==
    Begin(p, IngestRequest(kind, d, c, meta), <<"create">>)

(* The executor of the worker: a text found by a sync, which has a run of  *)
(* its own, and the PDF the API registered, whose run is the API's.        *)
WorkerText(p, d, c) ==
    Begin(p, IngestRequest("sync", d, c, NoMeta),
          <<"mark_running">> \o IngestText \o <<"settle">>)

WorkerPdf(p, d, c) ==
    /\ runs[<<d, c>>] = "queued"
    /\ Begin(p, IngestRequest("pages", d, c, NoMeta),
             <<"mark_running">> \o StoreVisual \o <<"settle">>)

-------------------------------------------------------------------------------
(* The run of an API ingest: create_queued under the key of the text, the  *)
(* early return for a text already ingested, mark_running and the outcome. *)

Mark(p, status) ==
    /\ runs' = IF job[p].arg = "sync" THEN runs
                ELSE [runs EXCEPT ![<<job[p].d, job[p].c>>] = status]
    /\ processing' = [processing EXCEPT ![job[p].d] = status]

Create(p) ==
    LET status == runs[<<job[p].d, job[p].c>>]
    IN  /\ At(p, "create")
        /\ IF status = "none" THEN Mark(p, "queued") ELSE UNCHANGED runTables
        /\ Move(p, IF status = "succeeded" THEN <<"already">>
                   ELSE IF ToRequeue(job[p]) THEN <<"requeue">> \o LabelsOf(job[p])
                   ELSE LabelsOf(job[p]), job[p])
        /\ UNCHANGED tables

(* A deleted document is ingested again although its run succeeded.        *)
Already(p) ==
    /\ At(p, "already")
    /\ IF Live(Get(job[p].d)) THEN Move(p, Attach(job[p].meta), job[p])
                              ELSE Move(p, <<"requeue">> \o LabelsOf(job[p]), job[p])
    /\ UNCHANGED <<tables, runTables>>

Requeue(p) ==
    /\ At(p, "requeue")
    /\ Mark(p, "queued")
    /\ Continue(p, job[p])
    /\ UNCHANGED tables

MarkRunning(p) ==
    /\ At(p, "mark_running")
    /\ Mark(p, "running")
    /\ Continue(p, job[p])
    /\ UNCHANGED tables

Settle(p) ==
    /\ At(p, "settle")
    /\ IF job[p].failed THEN Mark(p, "failed") /\ Abort(p)
                        ELSE Mark(p, "succeeded") /\ Continue(p, job[p])
    /\ UNCHANGED tables

-------------------------------------------------------------------------------
(* IngestionService.ingest and _persist_visual_results. *)

Unchanged(row, c) == Live(row) /\ row.checksum = c /\ row.current

(* The analyzer raises before anything is written.                         *)
Analyse(p) ==
    /\ At(p, "analyse")
    /\ \/ Continue(p, job[p])
       \/ Move(p, SubSeq(todo[p], Len(StoreVisual) + 1, Len(todo[p])),
               [job[p] EXCEPT !.failed = TRUE])
    /\ UNCHANGED <<tables, runTables>>

ReadExisting(p) ==
    /\ At(p, "existing")
    /\ IF Unchanged(Get(job[p].d), job[p].c)
         THEN Skip(p, Len(IngestText))
         ELSE Continue(p, [job[p] EXCEPT !.row = Get(job[p].d)])
    /\ UNCHANGED <<tables, runTables>>

(* Mutant: the old chunks are left for the writes to overwrite.            *)
Purge_Overwrites(p) ==
    /\ At(p, "purge")
    /\ Continue(p, job[p])
    /\ UNCHANGED <<tables, runTables>>

Purge(p) ==
    /\ At(p, "purge")
    /\ chunks' = Purged(chunks, job[p].d)
    /\ Continue(p, job[p])
    /\ UNCHANGED <<registry, quarantine, runTables>>

PurgeQuarantine(p) ==
    /\ At(p, "purge_quarantine")
    /\ quarantine' = Purged(quarantine, job[p].d)
    /\ Continue(p, job[p])
    /\ UNCHANGED <<registry, chunks, runTables>>

(* The chunks are written one by one, each DELETE of the other table's     *)
(* copy before its INSERT.                                                 *)
Writes(c) == [i \in 1..(2 * Pieces[c]) |-> IF i % 2 = 1 THEN "clear" ELSE "insert"]
Split(p) ==
    /\ At(p, "embed") \/ At(p, "split")
    /\ Move(p, <<"parents">> \o Writes(job[p].c) \o Tail(todo[p]), job[p])
    /\ UNCHANGED <<tables, runTables>>

(* The embedder raises: ingest swallows the exception into a FAILED job.   *)
EmbedFails(p) ==
    /\ At(p, "embed")
    /\ Move(p, SubSeq(todo[p], 3, Len(todo[p])), [job[p] EXCEPT !.failed = TRUE])
    /\ UNCHANGED <<tables, runTables>>

Parents(p) ==
    /\ At(p, "parents")
    /\ registry' = WithParents(job[p].d)
    /\ Continue(p, job[p])
    /\ UNCHANGED <<chunks, quarantine, runTables>>

ChunkId(p) == <<job[p].d, job[p].n>>
HeldForReview(c) == Quality[c] \in BlockingStatuses

Clear(p) ==
    /\ At(p, "clear")
    /\ IF HeldForReview(job[p].c)
         THEN chunks' = Without(chunks, {ChunkId(p)}) /\ UNCHANGED quarantine
         ELSE quarantine' = Without(quarantine, {ChunkId(p)}) /\ UNCHANGED chunks
    /\ Continue(p, job[p])
    /\ UNCHANGED <<registry, runTables>>

Insert(p) ==
    LET row == NewChunk(job[p].c)
    IN  /\ At(p, "insert")
        /\ IF HeldForReview(job[p].c)
             THEN quarantine' = Put(quarantine, ChunkId(p), row) /\ UNCHANGED chunks
             ELSE chunks' = Put(chunks, ChunkId(p), row) /\ UNCHANGED quarantine
        /\ Continue(p, [job[p] EXCEPT !.n = @ + 1])
        /\ UNCHANGED <<registry, runTables>>

(* registry.put of the row built from the one read before: the metadata of *)
(* the old text, its approval included, goes to the new one.               *)
Register(p) ==
    LET old == job[p].row
        row == [version |-> IF old = NoDoc THEN 1 ELSE old.version + 1,
                checksum |-> job[p].c,
                mfg |-> IF old = NoDoc THEN NoMeta ELSE old.mfg,
                current |-> TRUE, tombstone |-> FALSE]
    IN  /\ At(p, "put") \/ At(p, "put_visual")
        /\ registry' = Put(registry, job[p].d, row)
        /\ Continue(p, job[p])
        /\ UNCHANGED <<chunks, quarantine, runTables>>

-------------------------------------------------------------------------------
(* Read-modify-writes of the documents row: registry.get, then put of the  *)
(* row that was read with one field changed; "reread" is the get of        *)
(* _persist_visual_results, whose row is put with the new text.            *)

Read(p) ==
    /\ At(p, "get") \/ At(p, "reread")
    /\ Continue(p, [job[p] EXCEPT !.row = Get(job[p].d)])
    /\ UNCHANGED <<tables, runTables>>

WriteBack(p, label, row) ==
    /\ At(p, label)
    /\ registry' = IF job[p].row = NoDoc THEN registry ELSE Put(registry, job[p].d, row)
    /\ Continue(p, job[p])
    /\ UNCHANGED <<chunks, quarantine, runTables>>

(* document_ref, content_type and filename after the ingest.               *)
PutRef(p) == WriteBack(p, "put_ref", job[p].row)

(* attach_manufacturing_metadata, _set_mfg_meta. *)
PutMeta(p) == WriteBack(p, "put_meta", [job[p].row EXCEPT !.mfg = job[p].meta])

(* _upsert_pending_document_stub: the row of a PDF the worker will ingest. *)
PutStub(p) ==
    LET old == IF job[p].row = NoDoc THEN StubDocument ELSE job[p].row
        row == [old EXCEPT !.checksum = job[p].c, !.tombstone = FALSE,
                           !.mfg = IF job[p].meta = NoMeta THEN @ ELSE job[p].meta]
    IN  /\ At(p, "put_stub")
        /\ registry' = Put(registry, job[p].d, row)
        /\ Continue(p, job[p])
        /\ UNCHANGED <<chunks, quarantine, runTables>>

-------------------------------------------------------------------------------
IngestStep(p) ==
    \/ Create(p) \/ Already(p) \/ Requeue(p) \/ MarkRunning(p) \/ Settle(p)
    \/ Analyse(p) \/ ReadExisting(p) \/ Purge(p) \/ PurgeQuarantine(p)
    \/ Split(p) \/ EmbedFails(p) \/ Parents(p) \/ Clear(p) \/ Insert(p) \/ Register(p)
    \/ Read(p) \/ PutRef(p) \/ PutMeta(p) \/ PutStub(p)

(* The process dies between two statements; its locals are gone.           *)
Crash(p) ==
    /\ todo[p] # << >>
    /\ Abort(p)
    /\ UNCHANGED <<tables, runTables>>

IngestInit ==
    /\ StoreInit
    /\ todo = [p \in Procs |-> << >>]
    /\ job = [p \in Procs |-> Idle]
    /\ runs = [k \in Docs \X Contents |-> "none"]
    /\ processing = [d \in Docs |-> "none"]
    /\ ops = 0
===============================================================================
