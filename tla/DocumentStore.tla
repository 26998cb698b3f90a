---------------------------- MODULE DocumentStore -----------------------------
(***************************************************************************)
(* The document index of one tenant as PostgresDocumentRegistry and        *)
(* PostgresVectorStore keep it (persistence/postgres.py): the documents    *)
(* row, the primary chunks table that retrieval reads, and the quarantine  *)
(* table that holds extractions a human still has to look at.  The         *)
(* connection is in autocommit, so each statement is a transaction; the    *)
(* operators below give the new value of a table for one statement.        *)
(*                                                                         *)
(* A text is a member of Contents with its pieces and the verdict of the   *)
(* quality gate.  The id of a chunk is <<document, position>>: an ingest   *)
(* of a new text reuses the ids of the old one.                            *)
(***************************************************************************)
EXTENDS Naturals, FiniteSets, Sequences

CONSTANTS
    Docs,      \* document ids
    Contents,  \* texts a document may have
    Pieces,    \* Pieces[c]: how many chunks the chunker makes of c
    Quality,   \* Quality[c]: what classify_text_extraction_quality says of c
    NoDoc,     \* registry.get returned None
    NoMeta     \* the document has no manufacturing metadata

ASSUME PiecesAssumption == Pieces \in [Contents -> Nat \ {0}]
ASSUME QualityAssumption ==
    Quality \in [Contents -> {"accepted", "accepted_with_warnings", "review_required"}]

VARIABLES
    registry,    \* documents: a partial function from Docs
    chunks,      \* chunks: a partial function from chunk ids
    quarantine   \* extraction_quarantine_chunks, likewise

tables == <<registry, chunks, quarantine>>

LifecycleRank == [draft |-> 0, pending_review |-> 1, approved |-> 2, obsolete |-> 3]
ApprovalStatus == DOMAIN LifecycleRank

BlockingStatuses == {"review_required", "rejected", "draft_visual"}
Statuses == BlockingStatuses \cup {"accepted", "accepted_with_warnings", "manual_approved"}

(* mfg is the approval status in the manufacturing metadata.  current says *)
(* that the index settings stored with the document are those of today.    *)
DocRow == [version : Nat, checksum : Contents \cup {NoDoc},
           mfg : ApprovalStatus \cup {NoMeta}, current : BOOLEAN, tombstone : BOOLEAN]
ASSUME AbsentAssumption == NoDoc \notin DocRow /\ NoMeta \notin ApprovalStatus

ChunkRow == [content : Contents, edited : BOOLEAN, tombstone : BOOLEAN, status : Statuses]

(* What _ensure_doc_parents inserts for a document chunks are written of   *)
(* before it is registered: the column defaults.                           *)
StubDocument ==
    [version |-> 1, checksum |-> NoDoc, mfg |-> NoMeta, current |-> FALSE,
     tombstone |-> FALSE]

NewChunk(c) == [content |-> c, edited |-> FALSE, tombstone |-> FALSE, status |-> Quality[c]]

Put(table, key, row) ==
    [k \in DOMAIN table \cup {key} |-> IF k = key THEN row ELSE table[k]]
Without(table, keys) == [k \in DOMAIN table \ keys |-> table[k]]
IdsOf(table, d) == {id \in DOMAIN table : id[1] = d}

-------------------------------------------------------------------------------
(* PostgresDocumentRegistry.get, _ensure_doc_parents. *)

Get(d) == IF d \in DOMAIN registry THEN registry[d] ELSE NoDoc
WithParents(d) == IF d \in DOMAIN registry THEN registry ELSE Put(registry, d, StubDocument)

Live(row) == row # NoDoc /\ ~row.tombstone

(* get_mfg_meta: a tombstoned document resolves to no metadata. *)
MfgMeta(d) == IF Live(Get(d)) THEN registry[d].mfg ELSE NoMeta

(* set_tombstone is two UPDATEs, purge and purge_quarantine two DELETEs;   *)
(* this is one of each.                                                    *)
Hidden(table, d) ==
    [id \in DOMAIN table |-> IF id[1] = d THEN [table[id] EXCEPT !.tombstone = TRUE]
                                          ELSE table[id]]
Purged(table, d) == Without(table, IdsOf(table, d))

(* PostgresVectorStore.search and retrieve: the tombstone pre-filter and   *)
(* the quality filter behind it.                                           *)
Servable(row) == ~row.tombstone /\ row.status \notin BlockingStatuses
Served(d) == {id \in IdsOf(chunks, d) : Servable(chunks[id])}
LiveChunks(d) == {id \in IdsOf(chunks, d) : ~chunks[id].tombstone}

StoreTypeOK ==
    /\ DOMAIN registry \subseteq Docs
    /\ \A d \in DOMAIN registry : registry[d] \in DocRow
    /\ \A table \in {chunks, quarantine} :
         \A id \in DOMAIN table : id \in Docs \X Nat /\ table[id] \in ChunkRow

StoreInit ==
    /\ registry = << >>
    /\ chunks = << >>
    /\ quarantine = << >>
===============================================================================
