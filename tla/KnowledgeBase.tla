---------------------------- MODULE KnowledgeBase -----------------------------
(***************************************************************************)
(* The knowledge base as its processes change it together: answer services *)
(* that serve the requests of people and workers that ingest what the      *)
(* queue delivers.  Production runs two of each, over the same tables and  *)
(* with nothing but autocommit statements between them.                    *)
(*                                                                         *)
(* Overlapping = FALSE is the discipline under which the guarantees below  *)
(* hold: no two processes work on the same document at a time.  The code   *)
(* does not enforce it: with TRUE, a deletion during an ingest and two     *)
(* decisions at once break DeletedStaysGone and ObsoleteIsKept.            *)
(***************************************************************************)
EXTENDS DocumentLifecycle

CONSTANTS
    Servers,      \* the answer services among Procs; the others are workers
    Metas,        \* approval states a request may bring
    Kinds,        \* what people do in the instance
    Overlapping   \* two processes may work on one document

ASSUME KnowledgeBaseAssumption == Servers \subseteq Procs /\ Metas \subseteq ApprovalStatus

VARIABLES
    deleted,    \* history: documents whose deletion was the last thing to finish
    torn,       \* history: documents whose last ingest was cut short
    withdrawn,  \* history: documents a human declared obsolete last
    consented,  \* history: artifacts a human approved
    accepted    \* history: the text of d the API last answered it had indexed

history == <<deleted, torn, withdrawn, consented, accepted>>
vars == <<tables, control, runTables, audit, drafts, history>>

Workers == Procs \ Servers
Free(d) == Overlapping \/ \A p \in Procs : job[p].d # d

-------------------------------------------------------------------------------
Author(p, d) ==
    \/ /\ "ingest" \in Kinds
       /\ d \notin Artifacts
       /\ \E c \in Contents, meta \in Metas \cup {NoMeta} : ApiIngest(p, "ingest", d, c, meta)
    \/ /\ "visual" \in Kinds
       /\ d \notin Artifacts
       /\ \E c \in Contents, kind \in {"image", "pdf"} : ApiIngest(p, kind, d, c, NoMeta)
    \/ "delete" \in Kinds /\ Delete(p, d)
Approver(p, d) ==
    \/ /\ "approval" \in Kinds
       /\ d \in DOMAIN registry
       /\ \/ \E status \in Metas : Transition(p, d, status)
          \/ \E status \in Metas : ImportExternal(p, d, status)
          \/ BatchApprove(p, d)
    \/ /\ "update" \in Kinds
       /\ \E status \in Metas : UpdateMetadata(p, d, status)
    \/ /\ "review" \in Kinds
       /\ \E id \in {d} \X (0..1), action \in ReviewActions : Review(p, id, action)
Editor(p, a) ==
    /\ "draft" \in Kinds
    /\ \/ CreateDraft(p, a)
       \/ a \in DOMAIN drafts /\ \E status \in DOMAIN Sources : DecideDraft(p, a, status)
       \/ a \in DOMAIN drafts /\ Publish(p, a)

(* A request to ingest a document voids what was decided about it before.  *)
Asked(p) == todo[p] = << >> /\ todo'[p] # << >>
Ingesting(p) == job'[p].arg \in {"ingest", "image", "pdf", "sync", "pages", "publish"}

Ask ==
    /\ \E d \in Docs :
         /\ Free(d)
         /\ \/ \E p \in Servers : Author(p, d) \/ Approver(p, d)
            \/ \E p \in Servers : d \in Artifacts /\ Editor(p, d)
            \/ \E p \in Workers, c \in Contents :
                 d \notin Artifacts /\ (WorkerText(p, d, c) \/ WorkerPdf(p, d, c))
    /\ deleted' = deleted \ {job'[p].d : p \in {q \in Procs : Asked(q) /\ Ingesting(q)}}
    /\ accepted' = [d \in Docs |->
         IF \E p \in Procs : Asked(p) /\ job'[p].d = d /\ job'[p].arg # "review"
           THEN NoDoc ELSE accepted[d]]
    /\ UNCHANGED <<audit, drafts, torn, withdrawn, consented>>

Finishes(p) == todo[p] # << >> /\ todo'[p] = << >>
Completes(p, label) == At(p, label) /\ Finishes(p)

Remember(p) ==
    LET d == job[p].d
        kind == job[p].arg
    IN  /\ deleted' = IF kind = "delete" /\ Completes(p, "purge_quarantine")
                        THEN deleted \cup {d} ELSE deleted
        /\ torn' = IF At(p, "purge") \/ At(p, "put_stub") THEN torn \cup {d}
                   ELSE IF At(p, "put") \/ At(p, "put_visual") \/ Completes(p, "purge_quarantine")
                     THEN torn \ {d}
                   ELSE torn
        /\ withdrawn' = IF kind = "delete" THEN withdrawn \ {d}
                        ELSE IF ~At(p, "put_meta") THEN withdrawn
                        ELSE IF kind # "transition" THEN withdrawn \ {d}
                        ELSE IF job[p].meta = "obsolete" /\ Live(job[p].row)
                          THEN withdrawn \cup {d}
                        ELSE withdrawn
        /\ consented' = IF At(p, "save_draft") /\ kind = "approved"
                          THEN consented \cup {d} ELSE consented
        /\ accepted' = IF kind = "ingest" /\ Finishes(p) /\ ~At(p, "settle")
                         THEN [accepted EXCEPT ![d] = job[p].c] ELSE accepted

Serve(p) ==
    /\ \/ IngestStep(p) /\ UNCHANGED <<audit, drafts>>
       \/ LifecycleStep(p) /\ UNCHANGED drafts
       \/ DraftStep(p)
    /\ Remember(p)

Die(p) == Crash(p) /\ UNCHANGED <<audit, drafts, history>>

Init ==
    /\ IngestInit
    /\ audit = << >>
    /\ drafts = << >>
    /\ deleted = {} /\ torn = {} /\ withdrawn = {} /\ consented = {}
    /\ accepted = [d \in Docs |-> NoDoc]

Next == Ask \/ \E p \in Procs : Serve(p) \/ Die(p)

Spec == Init /\ [][Next]_vars

-------------------------------------------------------------------------------
(* What the tables and the locals hold.                                    *)
TypeOK ==
    /\ StoreTypeOK
    /\ runs \in [Docs \X Contents -> RunStatus]
    /\ processing \in [Docs -> RunStatus]
    /\ \A a \in DOMAIN drafts : a \in Artifacts /\ drafts[a] \in Draft
    /\ \A p \in Procs : todo[p] # << >> => job[p].d \in Docs
    /\ ops \in 0..MaxOps

(* A document whose deletion finished is not in any answer and not live in *)
(* the registry until it is ingested again, whatever was cut short before  *)
(* (app.py:1465: a deleted document never reappears).                      *)
DeletedStaysGone ==
    \A d \in deleted :
        /\ Served(d) = {}
        /\ ~Live(Get(d))

(* What is served of a document whose newest text was ingested to its end  *)
(* is all one version, the one the registry names: the purge, the writes   *)
(* and the registration are separate statements.                           *)
ServedIsRegistered ==
    \A d \in Docs \ torn : \A id \in Served(d) :
        /\ d \in DOMAIN registry
        /\ chunks[id].edited \/ chunks[id].content = registry[d].checksum

(* A document declared obsolete in the workflow is not an approved one     *)
(* again unless an import, a metadata update or an ingest with metadata    *)
(* says so (approval.py:46: the workflow must not resurrect it).           *)
ObsoleteIsKept ==
    \A d \in withdrawn : Live(Get(d)) => MfgMeta(d) = "obsolete"

(* A document that comes from a draft exists only if a human approved the  *)
(* draft: between the decision and the document are a save, a read and an  *)
(* ingest (SC-MFG-007: AI cannot publish).                                 *)
PublishedWasApproved ==
    \A a \in Artifacts :
        (a \in DOMAIN registry /\ registry[a].version > 0) => a \in consented

(* With one process writing to it, the audit chain verifies whatever was   *)
(* cut short.                                                              *)
AuditVerifies == ChainVerifies

(* An artifact marked published has its document: publish ingests first so *)
(* that there is no phantom (drafts.py).                                   *)
NoPhantom ==
    \A a \in DOMAIN drafts :
        drafts[a].published => a \in DOMAIN registry

(* The text the API answered it had indexed last is the one in the         *)
(* registry (spec.md:303, SC-007: after an update the old version is not   *)
(* left behind).                                                           *)
AcceptedIsRegistered ==
    \A d \in Docs : accepted[d] # NoDoc => Get(d).checksum = accepted[d]
===============================================================================
