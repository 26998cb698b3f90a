-------------------------- MODULE DocumentLifecycle ---------------------------
(***************************************************************************)
(* What happens to a document once it is indexed: deletion                 *)
(* (services/deletion.py), the approval workflow, the external import and  *)
(* the metadata update (manufacturing/ingestion/approval.py and app.py),   *)
(* and the decisions of a human on a quarantined extraction                *)
(* (services/review_actions.py, update_chunk_review); and the drafts that  *)
(* are published as documents.  The decisions about metadata and drafts    *)
(* end in a record of the hash-chained audit log.                          *)
(***************************************************************************)
EXTENDS DocumentIngestion

VARIABLE audit   \* audit[i]: the entry record() took for the latest when it wrote i

Audited == <<"audit_read", "audit_write">>

(* PostgresManufacturingAuditLogWriter.record: _latest_hash, then INSERT.  *)
(* Mutant: the writer chains to the head it was created with.              *)
AuditRead_Cached(p) ==
    /\ At(p, "audit_read")
    /\ Continue(p, job[p])
    /\ UNCHANGED <<tables, runTables, audit>>

AuditRead(p) ==
    /\ At(p, "audit_read")
    /\ Continue(p, [job[p] EXCEPT !.head = Len(audit)])
    /\ UNCHANGED <<tables, runTables, audit>>

AuditWrite(p) ==
    /\ At(p, "audit_write")
    /\ audit' = Append(audit, job[p].head)
    /\ Continue(p, job[p])
    /\ UNCHANGED <<tables, runTables>>

(* verify_chain. *)
ChainVerifies == \A i \in DOMAIN audit : audit[i] = i - 1

-------------------------------------------------------------------------------
(* DeletionService.delete. *)

Delete(p, d) ==
    Begin(p, [Request(d) EXCEPT !.arg = "delete"],
          <<"get", "put_tombstone", "hide", "hide_quarantine", "purge", "purge_quarantine">>)

(* Mutant: the tombstone is set on the copy that was read and not saved.   *)
PutTombstone_ByReference(p) == WriteBack(p, "put_tombstone", job[p].row)

PutTombstone(p) == WriteBack(p, "put_tombstone", [job[p].row EXCEPT !.tombstone = TRUE])

Hide(p) ==
    /\ At(p, "hide")
    /\ chunks' = Hidden(chunks, job[p].d)
    /\ Continue(p, job[p])
    /\ UNCHANGED <<registry, quarantine, runTables>>

HideQuarantine(p) ==
    /\ At(p, "hide_quarantine")
    /\ quarantine' = Hidden(quarantine, job[p].d)
    /\ Continue(p, job[p])
    /\ UNCHANGED <<registry, chunks, runTables>>

-------------------------------------------------------------------------------
(* Approval.  Propagation to the chunks changes copies on this store, so   *)
(* the metadata record of the document is all that is written.             *)

SaveMeta == <<"get", "put_meta">> \o Audited
Decision(d, kind, status) == [Request(d) EXCEPT !.arg = kind, !.meta = status]

Transition(p, d, status) ==
    Begin(p, Decision(d, "transition", status),
          (IF status = "approved" THEN <<"ready">> ELSE << >>) \o <<"legal">> \o SaveMeta)
BatchApprove(p, d) ==
    Begin(p, Decision(d, "transition", "approved"),
          <<"available", "ready", "ready", "legal">> \o SaveMeta)
ImportExternal(p, d, status) == Begin(p, Decision(d, "import", status), SaveMeta)
UpdateMetadata(p, d, status) == Begin(p, Decision(d, "update", status), SaveMeta)

(* A step that refuses the request unless its condition holds.             *)
Check(p, label, condition) ==
    /\ At(p, label)
    /\ IF condition THEN Continue(p, job[p]) ELSE Abort(p)
    /\ UNCHANGED <<tables, runTables>>

(* batch_transition_approval skips what is not there or not in review.     *)
Available(p) ==
    Check(p, "available",
          Live(Get(job[p].d)) /\ MfgMeta(job[p].d) \notin {"approved", "obsolete"})

(* _assert_document_ready_for_approval. *)
Ready(p) ==
    LET d == job[p].d
    IN  Check(p, "ready", LiveChunks(d) # {} /\ processing[d] \in {"succeeded", "none"})

(* _require_meta seeds a draft; _assert_legal_transition.                  *)
StatusOf(meta) == IF meta = NoMeta THEN "draft" ELSE meta
(* Mutant: any state may follow any other.                                 *)
Legal_Anywhere(p) == Check(p, "legal", job[p].meta \in ApprovalStatus)

Legal(p) ==
    Check(p, "legal",
          LifecycleRank[job[p].meta] >= LifecycleRank[StatusOf(MfgMeta(job[p].d))])

-------------------------------------------------------------------------------
(* ReviewActionService.apply and update_chunk_review.  edit_and_approve    *)
(* writes the corrected text through upsert, which deletes the quarantined *)
(* copy before it inserts; approve promotes, which inserts first.          *)

ReviewActions == {"approve", "edit_and_approve", "reject", "mark_non_content", "reprocess"}

InReview(id) == id \in DOMAIN quarantine \cup DOMAIN chunks
Review(p, id, action) ==
    /\ InReview(id)
    /\ Begin(p, [Request(id[1]) EXCEPT !.arg = action, !.id = id], <<"look">>)

Decided(row, action) ==
    IF action \in {"approve", "edit_and_approve"}
      THEN [row EXCEPT !.status = "manual_approved",
                       !.edited = @ \/ action = "edit_and_approve"]
    ELSE IF action = "reprocess" THEN [row EXCEPT !.status = "review_required"]
    ELSE [row EXCEPT !.status = "rejected", !.tombstone = @ \/ action = "mark_non_content"]

Look(p) ==
    LET id == job[p].id
        action == job[p].arg
        parked == id \in DOMAIN quarantine
        row == IF parked THEN quarantine[id] ELSE chunks[id]
        rewrite == <<"parents", "clear_review", "insert_review">>
    IN  /\ At(p, "look")
        /\ IF ~InReview(id) THEN Abort(p)
           ELSE Move(p, IF action = "edit_and_approve"
                          THEN (IF parked /\ row.tombstone THEN <<"mark_quarantined">>
                                ELSE rewrite)
                        ELSE IF parked /\ action = "approve" THEN <<"promote", "unpark">>
                        ELSE IF parked THEN <<"mark_quarantined">> ELSE <<"mark_chunk">>,
                     [job[p] EXCEPT !.chunk = Decided(row, action)])
        /\ UNCHANGED <<tables, runTables>>

(* INSERT ... SELECT from the quarantine, with the metadata read before.   *)
Promote(p) ==
    LET id == job[p].id
    IN  /\ At(p, "promote")
        /\ IF id \in DOMAIN quarantine
             THEN /\ chunks' = Put(chunks, id,
                        [job[p].chunk EXCEPT !.content = quarantine[id].content,
                                             !.edited = quarantine[id].edited])
                  /\ Continue(p, job[p])
             ELSE Abort(p) /\ UNCHANGED chunks
        /\ UNCHANGED <<registry, quarantine, runTables>>

Unpark(p) ==
    /\ At(p, "unpark") \/ At(p, "clear_review")
    /\ quarantine' = Without(quarantine, {job[p].id})
    /\ Continue(p, job[p])
    /\ UNCHANGED <<registry, chunks, runTables>>

InsertReview(p) ==
    /\ At(p, "insert_review")
    /\ chunks' = Put(chunks, job[p].id, job[p].chunk)
    /\ Continue(p, job[p])
    /\ UNCHANGED <<registry, quarantine, runTables>>

Decide(table, id, action) ==
    IF id \in DOMAIN table THEN Put(table, id, Decided(table[id], action)) ELSE table

MarkReviewed(p) ==
    /\ \/ /\ At(p, "mark_quarantined")
          /\ quarantine' = Decide(quarantine, job[p].id, job[p].arg)
          /\ UNCHANGED chunks
       \/ /\ At(p, "mark_chunk")
          /\ chunks' = Decide(chunks, job[p].id, job[p].arg)
          /\ UNCHANGED quarantine
    /\ Continue(p, job[p])
    /\ UNCHANGED <<registry, runTables>>

-------------------------------------------------------------------------------
LifecycleStep(p) ==
    \/ AuditRead(p) \/ AuditWrite(p)
    \/ /\ \/ PutTombstone(p) \/ Hide(p) \/ HideQuarantine(p)
          \/ Available(p) \/ Ready(p) \/ Legal(p)
          \/ Look(p) \/ Promote(p) \/ Unpark(p) \/ InsertReview(p) \/ MarkReviewed(p)
       /\ UNCHANGED audit

-------------------------------------------------------------------------------
(* Knowledge drafts: an AI writes one, a reviewer is assigned and decides, *)
(* a human publishes it as an approved document                            *)
(* (manufacturing/api/drafts.py, drafts/review.py,                         *)
(* persistence/manufacturing_drafts.py).  Every operation reads the        *)
(* artifact, changes its copy and saves the whole of it with an upsert.    *)
(* An artifact is named by the id its document will have, pub_<artifact>.  *)

CONSTANTS
    Artifacts,  \* the document ids drafts are published under
    DraftText   \* the text render_draft_markdown makes of a draft

ASSUME DraftAssumption == Artifacts \subseteq Docs /\ DraftText \in Contents

VARIABLE drafts   \* manufacturing_draft_artifacts: a partial function from Artifacts

DraftStatus == {"draft", "in_review", "approved", "rejected", "archived"}
Draft == [status : DraftStatus, published : BOOLEAN]
NewDraft == [status |-> "draft", published |-> FALSE]

(* _ASSIGN_SOURCES and _DECISION_SOURCES: from where each operation may go. *)
Sources == [in_review |-> {"draft", "in_review"}, approved |-> {"in_review"},
            rejected |-> {"in_review"}, archived |-> {"draft", "in_review"}]

DraftRequest(a, kind) == [Request(a) EXCEPT !.arg = kind, !.c = DraftText, !.meta = "approved"]

(* The generation is audited before the draft is added.                    *)
CreateDraft(p, a) ==
    /\ a \notin DOMAIN drafts
    /\ Begin(p, [DraftRequest(a, "create") EXCEPT !.draft = NewDraft],
             Audited \o <<"save_draft">>)

(* assign and review: the operation is named by the status it leads to.    *)
DecideDraft(p, a, status) ==
    Begin(p, DraftRequest(a, status), <<"decide", "save_draft">> \o Audited)

(* publish ingests first and ignores what the ingest returns.              *)
Publish(p, a) ==
    Begin(p, DraftRequest(a, "publish"),
          <<"publishable">> \o IngestText \o <<"get", "put_meta", "get", "put_ref">>
            \o Audited \o <<"save_draft">> \o Audited)

DecideStep(p) ==
    LET a == job[p].d
    IN  /\ At(p, "decide")
        /\ IF a \in DOMAIN drafts /\ drafts[a].status \in Sources[job[p].arg]
             THEN Continue(p, [job[p] EXCEPT
                      !.draft = [drafts[a] EXCEPT !.status = job[p].arg]])
             ELSE Abort(p)
        /\ UNCHANGED <<tables, runTables, audit, drafts>>

(* Mutant: publication looks only for an earlier one.                      *)
Publishable_AnyStatus(p) ==
    LET a == job[p].d
    IN  /\ At(p, "publishable")
        /\ IF a \in DOMAIN drafts /\ ~drafts[a].published
             THEN Continue(p, [job[p] EXCEPT !.draft = [drafts[a] EXCEPT !.published = TRUE]])
             ELSE Abort(p)
        /\ UNCHANGED <<tables, runTables, audit, drafts>>

Publishable(p) ==
    LET a == job[p].d
    IN  /\ At(p, "publishable")
        /\ IF a \in DOMAIN drafts /\ ~drafts[a].published /\ drafts[a].status = "approved"
             THEN Continue(p, [job[p] EXCEPT !.draft = [drafts[a] EXCEPT !.published = TRUE]])
             ELSE Abort(p)
        /\ UNCHANGED <<tables, runTables, audit, drafts>>

SaveDraft(p) ==
    /\ At(p, "save_draft")
    /\ drafts' = Put(drafts, job[p].d, job[p].draft)
    /\ Continue(p, job[p])
    /\ UNCHANGED <<tables, runTables, audit>>

DraftStep(p) == DecideStep(p) \/ Publishable(p) \/ SaveDraft(p)
===============================================================================
