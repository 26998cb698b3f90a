------------------------------ MODULE SourceProofs -----------------------------
(* Proofs about the data sources of a tenant, for every set of servers, bodies,    *)
(* pages and sites and any number of saves, syncs, changes and crashes: what a     *)
(* request counts on is stored before it is named, approval comes from a person or *)
(* from a trusted source, a crawl reaches every page within its depth, and the    *)
(* rows a preview calls valid are filled.  The crawl needs an invariant of the walk *)
(* under way: the pages waiting are in the order of their depth, and every link     *)
(* found so far leads to a page fetched or waiting no deeper than one click         *)
(* further.  The preview needs that a walk of any kind is of pages, whose tables    *)
(* have their columns in a list, so that a last column filling a field exists.      *)
EXTENDS IncrementalSync, SourceConnectors, FiniteSetTheorems, WellFoundedInduction, TLAPS

------------------------------------------------------------------------------
(* What a repeated sync and a reindex do, whatever they meet (IncrementalSync). *)

(* A document is skipped only when its last run succeeded on the content listed,   *)
(* under the versions in force, and its approval is that of the listing before (if *)
(* there was one).                                                                *)
THEOREM SkipMeansCurrent ==
  ASSUME NEW m, NEW previous, NEW state, NEW service,
         Decide(m, previous, state, service) = "skip"
  PROVE  /\ ~m.deleted /\ state # Absent /\ state.status = "succeeded"
         /\ state.content = m.content /\ m.content # Absent
         /\ state.parser = EffectiveVersions(m, service).parser
         /\ state.chunking = EffectiveVersions(m, service).chunking
         /\ state.embedding = EffectiveVersions(m, service).embedding
         /\ previous # Absent => previous.approval = m.approval
  BY DEF Decide, MustIngest

(* A sync that succeeds is not repeated: the same listing is skipped next time,    *)
(* whatever the service's versions, unless it carries no content checksum.         *)
THEOREM SettledIsSkipped ==
  ASSUME NEW m, NEW service, ~m.deleted, m.content # Absent,
         StateAfter(m, EffectiveVersions(m, service), "succeeded") # Absent
  PROVE  Decide(m, m, StateAfter(m, EffectiveVersions(m, service), "succeeded"), service)
           = "skip"
  BY DEF Decide, MustIngest, StateAfter

(* An update of the approval alone is decided once: the listing is stored before   *)
(* the update is applied, and listed again the document does not need it any more, *)
(* whether or not the update was applied.                                          *)
THEOREM UpdateIsDecidedOnce ==
  ASSUME NEW m, NEW state, NEW service
  PROVE  Decide(m, m, state, service) # "metadata_only"
  BY DEF Decide

(* A document whose embedding model alone changed keeps its record and its chunks: *)
(* the decision asks for new vectors, and the batch only makes them of fetched     *)
(* documents.                                                                     *)
THEOREM ReembedChangesNothing ==
  ASSUME NEW index, NEW plan, NEW listing, NEW nonempty, NEW fetched, NEW d \in SourceDoc,
         \A i \in DOMAIN plan : listing[i].doc = d => plan[i] = "reembed"
  PROVE  VectorIndex(index, plan, listing, nonempty, fetched)[d] = index[d]
<1>1. d \notin Targets(plan, listing, {a \in DiffAction : RequiresRaw(a)})
  BY DEF Targets, RequiresRaw
<1>2. QED
  BY <1>1 DEF VectorIndex, Rebuilt

(* After an update of the approval alone, the chunks that answer searches still    *)
(* carry the approval they had, whatever the record says and whatever the result   *)
(* reports.                                                                       *)
THEOREM MetadataOnlyLeavesChunks ==
  ASSUME NEW index, NEW batch, NEW metadataOnly, NEW approvalOf, NEW d \in SourceDoc,
         d \notin batch, index[d] \in Entry
  PROVE  EnrichedIndex(index, batch, metadataOnly, approvalOf)[d].chunksApproval
           = index[d].chunksApproval
  BY DEF EnrichedIndex, Entry

------------------------------------------------------------------------------
(* The state of a reindex, for the theorems about its steps. *)
ReindexState ==
  [live: [SourceDoc -> SUBSET Nat], parked: [SourceDoc -> SUBSET Nat],
   held: [SourceDoc -> SUBSET Nat], record: [SourceDoc -> Nat]]

(* No step before the publication of a document serves two of its versions, and    *)
(* the publication does not because the old ones were hidden in the step before.   *)
THEOREM SwitchKeepsOneVersion ==
  ASSUME NEW s \in ReindexState, NEW d \in SourceDoc, NEW fresh \in Nat,
         NEW text \in Extraction, OneVersionLive(s)
  PROVE  /\ OneVersionLive(Stage(s, d, fresh, text))
         /\ OneVersionLive(HideOld(s, d))
         /\ OneVersionLive(PublishNew(HideOld(s, d), d, fresh, text))
         /\ OneVersionLive(PutRecord(s, d, fresh))
<1>1. OneVersionLive(Stage(s, d, fresh, text))
  BY DEF ReindexState, Stage, BuiltChunks, OneVersionLive
<1>2. OneVersionLive(HideOld(s, d))
  BY DEF ReindexState, HideOld, OneVersionLive
<1>3. OneVersionLive(PublishNew(HideOld(s, d), d, fresh, text))
  <2> DEFINE h == HideOld(s, d)
  <2>1. h \in ReindexState /\ h.live[d] = {} /\ OneVersionLive(h)
    BY <1>2 DEF ReindexState, HideOld
  <2> HIDE DEF h
  <2>2. OneVersionLive(PublishNew(h, d, fresh, text))
    BY <2>1 DEF ReindexState, PublishNew, BuiltChunks, OneVersionLive
  <2>3. QED
    BY <2>2 DEF h
<1>4. OneVersionLive(PutRecord(s, d, fresh))
  BY DEF ReindexState, PutRecord, OneVersionLive
<1>5. QED
  BY <1>1, <1>2, <1>3, <1>4

(* Other documents are served through the switch of one: no step of a document     *)
(* touches the versions another one is served by.                                 *)
THEOREM SwitchIsPerDocument ==
  ASSUME NEW s \in ReindexState, NEW d \in SourceDoc, NEW e \in SourceDoc, e # d,
         NEW fresh \in Nat, NEW text \in Extraction
  PROVE  /\ Stage(s, d, fresh, text).live[e] = s.live[e]
         /\ HideOld(s, d).live[e] = s.live[e]
         /\ PublishNew(s, d, fresh, text).live[e] = s.live[e]
         /\ PutRecord(s, d, fresh).live[e] = s.live[e]
  BY DEF ReindexState, Stage, BuiltChunks, HideOld, PublishNew, PutRecord

------------------------------------------------------------------------------
(* Saving, connecting and syncing a source (SourceConnectors). *)
SaveSteps == {"store", "insert", "mirror"}
SyncSteps == {"credential", "token", "begin", "walk", "ingest"}

(* What holds of a process's request, given the row, the secret, the tokens, the   *)
(* trust and the number of site changes there are.                                 *)
JobOk(j, saved, kept, known, trusted, now) ==
  /\ j.at \in SaveSteps =>
       /\ j \in [at : SaveSteps, body : Bodies, row : Row]
       /\ j.at = "store" => j.body.credential \in Credential
       /\ j.at # "store" /\ j.row.credentialRef => kept # Nothing
  /\ j.at \in {"keep_token", "record"} =>
       /\ j \in [at : {"keep_token", "record"}, connection : Connection]
       /\ j.at = "record" => j.connection \in known
  /\ j.at = "source" => saved \in Row
  /\ j.at \in SyncSteps =>
       /\ j = [at |-> j.at, purpose |-> j.purpose, request |-> j.request, row |-> j.row,
               credential |-> j.credential, walk |-> j.walk, since |-> j.since]
       /\ j.row \in Row /\ (j.row.policy = "trusted" => trusted)
       /\ j.since \in Nat /\ j.since <= now

Fields ==
  /\ row \in Row \cup {Nothing} /\ secret \in Credential \cup {Nothing}
  /\ tokens \in SUBSET Connection /\ connections \in [Server -> SUBSET Connection]
  /\ jobs = [p \in Process |-> jobs[p]] /\ queue \in Seq(Requested) /\ site \in Sites
  /\ everTrusted \in BOOLEAN
  /\ count \in [saves : Nat, syncs : Nat, changes : Nat, crashes : Nat]

JobsInv == \A p \in Process : JobOk(jobs[p], row, secret, tokens, everTrusted, count.changes)

(* A request is waiting or at work only where there is a row to serve it. *)
WaitingInv ==
  /\ queue # <<>> => row \in Row
  /\ At(Worker, "idle") \/ queue # <<>>

SecretInv ==
  /\ row \in Row /\ row.credentialRef => secret # Nothing
  /\ \A s \in Server : connections[s] \subseteq tokens

TrustInv ==
  /\ row \in Row /\ row.policy = "trusted" => everTrusted
  /\ \A d \in DOMAIN docs :
       /\ docs[d] = [page |-> docs[d].page, status |-> docs[d].status, by |-> docs[d].by]
       /\ docs[d].status = "approved" => docs[d].by = "person" \/ everTrusted

SourceInv == Fields /\ JobsInv /\ WaitingInv /\ SecretInv /\ TrustInv

(* A step never forgets what a request counts on. *)
Keeps ==
  /\ row \in Row => row' \in Row
  /\ secret # Nothing => secret' # Nothing
  /\ tokens \subseteq tokens'
  /\ everTrusted => everTrusted'
  /\ count.changes <= count'.changes

(* What a request counts on stays so when nothing is forgotten. *)
LEMMA JobStays ==
  ASSUME NEW j, Fields, Fields', Keeps,
         JobOk(j, row, secret, tokens, everTrusted, count.changes)
  PROVE  JobOk(j, row', secret', tokens', everTrusted', count'.changes)
<1> USE DEF Fields, Keeps
<1>1. count.changes \in Nat /\ count'.changes \in Nat OBVIOUS
<1>2. QED
  BY <1>1 DEF JobOk

LEMMA OneJob ==
  ASSUME NEW p \in Process, NEW j, Fields, Go(p, j)
  PROVE  /\ jobs' = [q \in Process |-> jobs'[q]] /\ jobs'[p] = j
         /\ \A q \in Process : q # p => jobs'[q] = jobs[q]
  BY DEF Fields, Go

LEMMA JobsStay ==
  ASSUME NEW p \in Process, NEW j, Fields, Fields', Keeps, JobsInv, Go(p, j),
         JobOk(j, row', secret', tokens', everTrusted', count'.changes)
  PROVE  JobsInv'
<1>1. \A q \in Process : JobOk(jobs'[q], row', secret', tokens', everTrusted', count'.changes)
  <2> TAKE q \in Process
  <2>1. CASE q = p BY <2>1, OneJob
  <2>2. CASE q # p
    <3>1. JobOk(jobs[q], row, secret, tokens, everTrusted, count.changes) BY DEF JobsInv
    <3>2. JobOk(jobs[q], row', secret', tokens', everTrusted', count'.changes) BY <3>1, JobStays
    <3>3. QED BY <3>2, <2>2, OneJob
  <2>3. QED BY <2>1, <2>2
<1>2. QED BY <1>1 DEF JobsInv

LEMMA AllJobsStay ==
  ASSUME Fields, Fields', Keeps, JobsInv, UNCHANGED jobs
  PROVE  JobsInv'
<1>1. \A q \in Process : JobOk(jobs[q], row', secret', tokens', everTrusted', count'.changes)
  <2> TAKE q \in Process
  <2>1. JobOk(jobs[q], row, secret, tokens, everTrusted, count.changes) BY DEF JobsInv
  <2>2. QED BY <2>1, JobStays
<1>2. QED BY <1>1 DEF JobsInv

LEMMA IdleIsOk ==
  ASSUME NEW r, NEW s, NEW t, NEW e, NEW n
  PROVE  JobOk(Idle, r, s, t, e, n) /\ Idle.at = "idle"
  BY DEF JobOk, Idle, SaveSteps, SyncSteps

(* Saving a body over a row, or over none, gives a row. *)
LEMMA CleanRows ==
  ASSUME NEW b \in Body, NEW r \in Row
  PROVE  /\ CleanRow(r, b) \in Row
         /\ CleanRow(r, b).credentialRef <=> r.credentialRef \/ b.credential # Unset
<1>1. /\ Or(b.kind, r.kind) \in Kind /\ Or(b.location, r.location) \in Location
      /\ Or(b.policy, r.policy) \in Policy
      /\ Or(b.connection, r.connection) \in Connection \cup {Nothing}
  BY DEF Or, Body, Row
<1>2. /\ Or(b.schedule, r.schedule) \in Schedule \cup {Blank}
      /\ Or(b.profile, r.profile) \in Profile
  BY DEF Or, Body, Row
<1>3. (r.credentialRef \/ b.credential # Unset) \in BOOLEAN OBVIOUS
<1>4. QED
  BY <1>1, <1>2, <1>3 DEF CleanRow, Row

LEMMA FirstRows ==
  ASSUME NEW b \in Body, b.kind # Unset
  PROVE  /\ FirstRow(b, FirstLocation, FirstProfile) \in Row
         /\ FirstRow(b, FirstLocation, FirstProfile).credentialRef <=> b.credential # Unset
<1> DEFINE r == [kind |-> b.kind, location |-> FirstLocation, policy |-> "review_required",
                 connection |-> Nothing, credentialRef |-> FALSE, schedule |-> Blank,
                 profile |-> FirstProfile]
<1>1. r \in Row
  BY ConnectorsAssumption DEF Row, Body, Policy
<1>2. ~r.credentialRef OBVIOUS
<1>3. FirstRow(b, FirstLocation, FirstProfile) = CleanRow(r, b) BY DEF FirstRow
<1> HIDE DEF r
<1>4. QED BY <1>1, <1>2, <1>3, CleanRows

(* The steps of a request that only move the process along, or end its request. *)
Frame == UNCHANGED <<row, registry, secret, everTrusted, tokens, connections, queued, site, count>>
CoreInv == Fields /\ JobsInv /\ WaitingInv

LEMMA Moves ==
  ASSUME CoreInv, Frame, NEW p \in Process, NEW j, ~At(p, "idle"), Go(p, j), UNCHANGED queue,
         JobOk(j, row, secret, tokens, everTrusted, count.changes)
  PROVE  CoreInv'
<1> USE DEF CoreInv
<1>1. Fields' BY OneJob DEF Fields, Frame
<1>2. Keeps BY DEF Keeps, Frame, Fields
<1>3. JobsInv' BY <1>1, <1>2, JobsStay DEF Frame
<1>4. WaitingInv'
  <2>1. queue # <<>> \/ At(Worker, "idle") BY DEF WaitingInv
  <2>2. CASE queue # <<>> BY <2>2 DEF WaitingInv, Frame
  <2>3. CASE At(Worker, "idle")
    <3>1. p # Worker BY <2>3
    <3>2. jobs'[Worker] = jobs[Worker] BY <3>1, OneJob DEF Process
    <3>3. QED BY <3>2, <2>3 DEF WaitingInv, Frame, At
  <2>4. QED BY <2>1, <2>2, <2>3
<1>5. QED BY <1>1, <1>3, <1>4

LEMMA Ends ==
  ASSUME CoreInv, Frame, NEW p \in Process, ~At(p, "idle"), Finish(p)
  PROVE  CoreInv'
<1> USE DEF CoreInv
<1>1. Go(p, Idle) /\ queue' = IF p = Worker THEN Tail(queue) ELSE queue BY DEF Finish
<1>2. queue' \in Seq(Requested) /\ (queue' # <<>> => queue # <<>>)
  <2>1. CASE p = Worker
    <3>1. queue # <<>> BY <2>1 DEF WaitingInv
    <3>2. QED BY <3>1, <2>1, <1>1 DEF Fields
  <2>2. CASE p # Worker BY <2>2, <1>1 DEF Fields
  <2>3. QED BY <2>1, <2>2
<1>3. Fields' BY <1>1, <1>2, OneJob DEF Fields, Frame
<1>4. Keeps BY DEF Keeps, Frame, Fields
<1>5. JobsInv' BY <1>1, <1>3, <1>4, IdleIsOk, JobsStay DEF Frame
<1>6. WaitingInv'
  <2>1. queue' # <<>> => row' \in Row BY <1>2 DEF WaitingInv, Frame
  <2>2. CASE p = Worker BY <2>2, <2>1, <1>1, OneJob, IdleIsOk DEF WaitingInv, At
  <2>3. CASE p # Worker
    <3>1. jobs'[Worker] = jobs[Worker] /\ queue' = queue BY <2>3, <1>1, OneJob DEF Process
    <3>2. QED BY <3>1, <2>1 DEF WaitingInv, At
  <2>4. QED BY <2>2, <2>3
<1>7. QED BY <1>3, <1>5, <1>6

(* A step of a request that leaves the documents alone. *)
LEMMA RestStays ==
  ASSUME SecretInv, TrustInv, UNCHANGED <<row, secret, everTrusted, tokens, connections, docs>>
  PROVE  SecretInv' /\ TrustInv'
  BY DEF SecretInv, TrustInv

------------------------------------------------------------------------------
(* Saving. *)
LEMMA ServerIsNoWorker == Server \subseteq Process /\ \A s \in Server : s # Worker
  BY ConnectorsAssumption DEF Process

(* A server's step leaves what waits for the worker as it is. *)
LEMMA ServerSteps ==
  ASSUME NEW s \in Server, NEW j, Fields, WaitingInv, Go(s, j), UNCHANGED queue,
         row \in Row => row' \in Row
  PROVE  WaitingInv'
<1>1. jobs'[Worker] = jobs[Worker] BY ServerIsNoWorker, OneJob DEF Process
<1>2. QED BY <1>1 DEF WaitingInv, At

LEMMA UpsertKeeps ==
  ASSUME SourceInv, NEW s \in Server, NEW b \in Bodies, Upsert(s, b)
  PROVE  SourceInv'
<1> DEFINE clean == IF row = Nothing THEN FirstRow(b, FirstLocation, FirstProfile)
                    ELSE CleanRow(row, b)
           j == [at |-> IF b.credential = Unset THEN "insert" ELSE "store",
                 body |-> b, row |-> clean]
<1>1. Go(s, j) /\ (row = Nothing => b.kind # Unset) BY DEF Upsert
<1>2. UNCHANGED <<config, oauth, queued, queue, site, docs>> /\ Counted("saves") BY DEF Upsert
<1>3. b \in Body /\ s \in Process BY ConnectorsAssumption DEF Process
<1>4. /\ clean \in Row
      /\ clean.credentialRef => b.credential # Unset \/ (row \in Row /\ row.credentialRef)
  <2>1. CASE row = Nothing BY <2>1, <1>1, <1>3, FirstRows
  <2>2. CASE row # Nothing
    <3>1. row \in Row BY <2>2 DEF SourceInv, Fields
    <3>2. QED BY <2>2, <3>1, <1>3, CleanRows
  <2>3. QED BY <2>1, <2>2
<1>5. b.credential # Unset => b.credential \in Credential BY <1>3 DEF Body
<1>6. Fields' BY <1>1, <1>2, <1>3, OneJob DEF SourceInv, Fields, config, oauth, Counted
<1>7. Keeps BY <1>2 DEF SourceInv, Fields, Keeps, config, oauth, Counted
<1>8. JobOk(j, row', secret', tokens', everTrusted', count'.changes)
  <2>1. secret' = secret BY <1>2 DEF config
  <2>2. b.credential = Unset /\ clean.credentialRef => secret # Nothing
    BY <1>4 DEF SourceInv, SecretInv
  <2>3. /\ j.at \in {"insert", "store"} /\ j.body = b /\ j.row = clean
        /\ j.at = "store" <=> b.credential # Unset
    OBVIOUS
  <2>4. j \in [at : SaveSteps, body : Bodies, row : Row]
    <3> HIDE DEF clean
    <3>1. QED BY <1>4 DEF SaveSteps
  <2> HIDE DEF clean, j
  <2>5. QED BY <2>1, <2>2, <2>3, <2>4, <1>5 DEF JobOk, SaveSteps, SyncSteps
<1> HIDE DEF j
<1>9. JobsInv' BY <1>1, <1>3, <1>6, <1>7, <1>8, JobsStay DEF SourceInv
<1>10. WaitingInv' BY <1>1, <1>2, <1>3, ServerSteps DEF SourceInv, config
<1>11. SecretInv' /\ TrustInv' BY <1>2, RestStays DEF SourceInv, config, oauth
<1>12. QED BY <1>6, <1>9, <1>10, <1>11 DEF SourceInv

LEMMA StoreCredentialsKeeps ==
  ASSUME SourceInv, NEW s \in Server, StoreCredentials(s)
  PROVE  SourceInv'
<1> DEFINE j == [jobs[s] EXCEPT !.at = "insert"]
<1>1. s \in Process BY DEF Process
<1>2. At(s, "store") /\ secret' = jobs[s].body.credential /\ Go(s, j) BY DEF StoreCredentials
<1>3. UNCHANGED <<row, registry, everTrusted, oauth, queued, queue, site, docs, count>>
  BY DEF StoreCredentials
<1>4. /\ jobs[s] \in [at : SaveSteps, body : Bodies, row : Row]
      /\ jobs[s].body.credential \in Credential
  BY <1>1, <1>2 DEF SourceInv, JobsInv, JobOk, At, SaveSteps
<1>5. secret' \in Credential /\ secret' # Nothing BY <1>2, <1>4, ConnectorsAssumption
<1>6. Fields' BY <1>1, <1>2, <1>3, <1>5, OneJob DEF SourceInv, Fields, oauth
<1>7. Keeps BY <1>3, <1>5 DEF SourceInv, Fields, Keeps, oauth
<1>8. JobOk(j, row', secret', tokens', everTrusted', count'.changes)
  <2>1. j \in [at : SaveSteps, body : Bodies, row : Row] /\ j.at = "insert"
    BY <1>4 DEF SaveSteps
  <2> HIDE DEF j
  <2>2. QED BY <2>1, <1>5 DEF JobOk, SaveSteps, SyncSteps
<1> HIDE DEF j
<1>9. JobsInv' BY <1>1, <1>2, <1>6, <1>7, <1>8, JobsStay DEF SourceInv
<1>10. WaitingInv' BY <1>2, <1>3, ServerSteps DEF SourceInv
<1>11. SecretInv' /\ TrustInv' BY <1>3, <1>5 DEF SourceInv, SecretInv, TrustInv, oauth
<1>12. QED BY <1>6, <1>9, <1>10, <1>11 DEF SourceInv

LEMMA InsertRowKeeps ==
  ASSUME SourceInv, NEW s \in Server, InsertRow(s)
  PROVE  SourceInv'
<1> DEFINE j == [jobs[s] EXCEPT !.at = "mirror"]
<1>1. s \in Process BY DEF Process
<1>2. /\ At(s, "insert") /\ row' = jobs[s].row /\ Go(s, j)
      /\ everTrusted' = (everTrusted \/ jobs[s].row.policy = "trusted")
  BY DEF InsertRow
<1>3. UNCHANGED <<registry, secret, oauth, queued, queue, site, docs, count>> BY DEF InsertRow
<1>4. /\ jobs[s] \in [at : SaveSteps, body : Bodies, row : Row]
      /\ jobs[s].row.credentialRef => secret # Nothing
  BY <1>1, <1>2 DEF SourceInv, JobsInv, JobOk, At, SaveSteps
<1>5. row' \in Row BY <1>2, <1>4
<1>6. Fields' BY <1>1, <1>2, <1>3, <1>5, OneJob DEF SourceInv, Fields, oauth
<1>7. Keeps BY <1>2, <1>3, <1>5 DEF SourceInv, Fields, Keeps, oauth
<1>8. JobOk(j, row', secret', tokens', everTrusted', count'.changes)
  <2>1. /\ j \in [at : SaveSteps, body : Bodies, row : Row] /\ j.at = "mirror"
        /\ j.row = jobs[s].row
    BY <1>4 DEF SaveSteps
  <2> HIDE DEF j
  <2>2. QED BY <2>1, <1>3, <1>4 DEF JobOk, SaveSteps, SyncSteps
<1> HIDE DEF j
<1>9. JobsInv' BY <1>1, <1>2, <1>6, <1>7, <1>8, JobsStay DEF SourceInv
<1>10. WaitingInv' BY <1>2, <1>3, <1>5, ServerSteps DEF SourceInv
<1>11. SecretInv' BY <1>2, <1>3, <1>4 DEF SourceInv, SecretInv, oauth
<1>12. TrustInv' BY <1>2, <1>3 DEF SourceInv, TrustInv
<1>13. QED BY <1>6, <1>9, <1>10, <1>11, <1>12 DEF SourceInv

LEMMA MirrorScheduleKeeps ==
  ASSUME SourceInv, NEW s \in Server, MirrorSchedule(s)
  PROVE  SourceInv'
<1>1. s \in Process BY DEF Process
<1>2. Go(s, Idle) /\ UNCHANGED <<row, secret, everTrusted, oauth, queued, queue, site, docs, count>>
  BY DEF MirrorSchedule
<1>3. Fields' BY <1>1, <1>2, OneJob DEF SourceInv, Fields, oauth
<1>4. Keeps BY <1>2 DEF SourceInv, Fields, Keeps, oauth
<1>5. JobsInv' BY <1>1, <1>2, <1>3, <1>4, IdleIsOk, JobsStay DEF SourceInv
<1>6. WaitingInv' BY <1>2, ServerSteps DEF SourceInv
<1>7. SecretInv' /\ TrustInv' BY <1>2, RestStays DEF SourceInv, oauth
<1>8. QED BY <1>3, <1>5, <1>6, <1>7 DEF SourceInv

------------------------------------------------------------------------------
(* Connecting: a token is stored before the connection that counts on it. *)
LEMMA OAuthCallbackKeeps ==
  ASSUME SourceInv, NEW s \in Server, NEW c \in Connection, OAuthCallback(s, c)
  PROVE  SourceInv'
<1> DEFINE j == [at |-> "keep_token", connection |-> c]
<1>1. s \in Process BY DEF Process
<1>2. Go(s, j) /\ UNCHANGED <<config, oauth, queued, queue, site, docs, count>>
  BY DEF OAuthCallback
<1>3. JobOk(j, row', secret', tokens', everTrusted', count'.changes)
  BY DEF JobOk, SaveSteps, SyncSteps
<1> HIDE DEF j
<1>4. Fields' BY <1>1, <1>2, OneJob DEF SourceInv, Fields, config, oauth
<1>5. Keeps BY <1>2 DEF SourceInv, Fields, Keeps, config, oauth
<1>6. JobsInv' BY <1>1, <1>2, <1>3, <1>4, <1>5, JobsStay DEF SourceInv
<1>7. WaitingInv' BY <1>2, ServerSteps DEF SourceInv, config
<1>8. SecretInv' /\ TrustInv' BY <1>2, RestStays DEF SourceInv, config, oauth
<1>9. QED BY <1>4, <1>6, <1>7, <1>8 DEF SourceInv

LEMMA ExchangeCodeKeeps ==
  ASSUME SourceInv, NEW s \in Server, ExchangeCode(s)
  PROVE  SourceInv'
<1> DEFINE j == [jobs[s] EXCEPT !.at = "record"]
<1>1. s \in Process BY DEF Process
<1>2. At(s, "keep_token") /\ UNCHANGED <<config, connections, queued, queue, site, docs, count>>
  BY DEF ExchangeCode
<1>3. \/ tokens' = tokens \cup {jobs[s].connection} /\ Go(s, j)
      \/ tokens' = tokens /\ Go(s, Idle)
  BY DEF ExchangeCode
<1>4. jobs[s] \in [at : {"keep_token", "record"}, connection : Connection]
  BY <1>1, <1>2 DEF SourceInv, JobsInv, JobOk, At
<1>5. tokens \subseteq tokens' /\ tokens' \in SUBSET Connection
  BY <1>3, <1>4 DEF SourceInv, Fields
<1>6. Keeps BY <1>2, <1>5 DEF SourceInv, Fields, Keeps, config
<1>7. SecretInv' BY <1>2, <1>5 DEF SourceInv, SecretInv, config
<1>8. TrustInv' BY <1>2 DEF SourceInv, TrustInv, config
<1>9. CASE tokens' = tokens \cup {jobs[s].connection} /\ Go(s, j)
  <2>1. JobOk(j, row', secret', tokens', everTrusted', count'.changes)
    <3>1. /\ j \in [at : {"keep_token", "record"}, connection : Connection]
          /\ j.at = "record" /\ j.connection \in tokens'
      BY <1>4, <1>9
    <3> HIDE DEF j
    <3>2. QED BY <3>1 DEF JobOk, SaveSteps, SyncSteps
  <2> HIDE DEF j
  <2>2. Fields' BY <1>1, <1>2, <1>5, <1>9, OneJob DEF SourceInv, Fields, config
  <2>3. JobsInv' BY <1>1, <1>6, <1>9, <2>1, <2>2, JobsStay DEF SourceInv
  <2>4. WaitingInv' BY <1>2, <1>9, ServerSteps DEF SourceInv, config
  <2>5. QED BY <1>7, <1>8, <2>2, <2>3, <2>4 DEF SourceInv
<1>10. CASE tokens' = tokens /\ Go(s, Idle)
  <2>1. Fields' BY <1>1, <1>2, <1>10, OneJob DEF SourceInv, Fields, config
  <2>2. JobsInv' BY <1>1, <1>6, <1>10, <2>1, IdleIsOk, JobsStay DEF SourceInv
  <2>3. WaitingInv' BY <1>2, <1>10, ServerSteps DEF SourceInv, config
  <2>4. QED BY <1>7, <1>8, <2>1, <2>2, <2>3 DEF SourceInv
<1>11. QED BY <1>3, <1>9, <1>10

LEMMA RecordConnectionKeeps ==
  ASSUME SourceInv, NEW s \in Server, RecordConnection(s)
  PROVE  SourceInv'
<1>1. s \in Process BY DEF Process
<1>2. /\ At(s, "record") /\ Go(s, Idle)
      /\ connections' = [connections EXCEPT ![s] = @ \cup {jobs[s].connection}]
      /\ UNCHANGED <<config, tokens, queued, queue, site, docs, count>>
  BY DEF RecordConnection
<1>3. jobs[s].connection \in Connection /\ jobs[s].connection \in tokens
  BY <1>1, <1>2 DEF SourceInv, JobsInv, JobOk, At
<1>4. Fields' BY <1>1, <1>2, <1>3, OneJob DEF SourceInv, Fields, config
<1>5. Keeps BY <1>2 DEF SourceInv, Fields, Keeps, config
<1>6. JobsInv' BY <1>1, <1>2, <1>4, <1>5, IdleIsOk, JobsStay DEF SourceInv
<1>7. WaitingInv' BY <1>2, ServerSteps DEF SourceInv, config
<1>8. SecretInv' BY <1>2, <1>3 DEF SourceInv, Fields, SecretInv, config
<1>9. TrustInv' BY <1>2 DEF SourceInv, TrustInv, config
<1>10. QED BY <1>4, <1>6, <1>7, <1>8, <1>9 DEF SourceInv

------------------------------------------------------------------------------
(* Requests. *)
LEMMA StartIsOk ==
  ASSUME NEW purpose, NEW request, NEW r \in Row, NEW s, NEW t, NEW e, NEW n
  PROVE  JobOk(Start(purpose, request), r, s, t, e, n) /\ Start(purpose, request).at = "source"
  BY DEF JobOk, Start, SaveSteps, SyncSteps

LEMMA RequestSyncKeeps ==
  ASSUME SourceInv, NEW s \in Server, NEW r \in Requested, RequestSync(s, r)
  PROVE  SourceInv'
<1>1. s \in Process BY DEF Process
<1>2. /\ row \in Row /\ Counted("syncs")
      /\ UNCHANGED <<config, oauth, queued, site, docs>>
  BY DEF RequestSync, SourceInv, Fields
<1>3. \/ queue' = Append(queue, r) /\ UNCHANGED jobs
      \/ Go(s, Start("sync", r)) /\ UNCHANGED queue
  BY DEF RequestSync
<1>4. Keeps BY <1>2 DEF SourceInv, Fields, Keeps, config, oauth, Counted
<1>5. SecretInv' /\ TrustInv' BY <1>2, RestStays DEF SourceInv, config, oauth
<1>6. CASE queue' = Append(queue, r) /\ UNCHANGED jobs
  <2>1. queue' \in Seq(Requested) /\ queue' # <<>> BY <1>6 DEF SourceInv, Fields
  <2>2. Fields' BY <1>2, <1>6, <2>1 DEF SourceInv, Fields, config, oauth, Counted
  <2>3. JobsInv' BY <1>4, <1>6, <2>2, AllJobsStay DEF SourceInv
  <2>4. WaitingInv' BY <1>2, <2>1 DEF WaitingInv, config
  <2>5. QED BY <1>5, <2>2, <2>3, <2>4 DEF SourceInv
<1>7. CASE Go(s, Start("sync", r)) /\ UNCHANGED queue
  <2>1. Fields' BY <1>1, <1>2, <1>7, OneJob DEF SourceInv, Fields, config, oauth, Counted
  <2>2. row' \in Row BY <1>2 DEF config
  <2>3. JobsInv' BY <1>1, <1>4, <1>7, <2>1, <2>2, StartIsOk, JobsStay DEF SourceInv
  <2>4. WaitingInv' BY <1>2, <1>7, ServerSteps DEF SourceInv, config
  <2>5. QED BY <1>5, <2>1, <2>3, <2>4 DEF SourceInv
<1>8. QED BY <1>3, <1>6, <1>7

LEMMA RequestPreviewKeeps ==
  ASSUME SourceInv, NEW s \in Server, NEW k \in Profile, RequestPreview(s, k)
  PROVE  SourceInv'
<1>1. s \in Process BY DEF Process
<1>2. /\ row \in Row /\ Counted("syncs") /\ Go(s, Start("preview", k))
      /\ UNCHANGED <<config, oauth, queued, queue, site, docs>>
  BY DEF RequestPreview, SourceInv, Fields
<1>3. Keeps BY <1>2 DEF SourceInv, Fields, Keeps, config, oauth, Counted
<1>4. SecretInv' /\ TrustInv' BY <1>2, RestStays DEF SourceInv, config, oauth
<1>5. Fields' BY <1>1, <1>2, OneJob DEF SourceInv, Fields, config, oauth, Counted
<1>6. row' \in Row BY <1>2 DEF config
<1>7. JobsInv' BY <1>1, <1>2, <1>3, <1>5, <1>6, StartIsOk, JobsStay DEF SourceInv
<1>8. WaitingInv' BY <1>2, ServerSteps DEF SourceInv, config
<1>9. QED BY <1>4, <1>5, <1>7, <1>8 DEF SourceInv

LEMMA TakeSyncKeeps ==
  ASSUME SourceInv, TakeSync
  PROVE  SourceInv'
<1>1. Worker \in Process BY DEF Process
<1>2. /\ queue # <<>> /\ Go(Worker, Start("sync", Head(queue)))
      /\ UNCHANGED <<config, oauth, queued, queue, site, docs, count>>
  BY DEF TakeSync
<1>3. row' \in Row BY <1>2 DEF SourceInv, WaitingInv, config
<1>4. Keeps BY <1>2 DEF SourceInv, Fields, Keeps, config, oauth
<1>5. SecretInv' /\ TrustInv' BY <1>2, RestStays DEF SourceInv, config, oauth
<1>6. Fields' BY <1>1, <1>2, OneJob DEF SourceInv, Fields, config, oauth
<1>7. JobsInv' BY <1>1, <1>2, <1>3, <1>4, <1>6, StartIsOk, JobsStay DEF SourceInv
<1>8. WaitingInv' BY <1>2, <1>3 DEF WaitingInv
<1>9. QED BY <1>5, <1>6, <1>7, <1>8 DEF SourceInv

------------------------------------------------------------------------------
(* The walk of a source. *)
LEMMA WorkStays ==
  ASSUME SourceInv, NEW p \in Process, ~At(p, "idle"),
         UNCHANGED <<config, oauth, queued, site, docs, count>>,
         \/ Finish(p)
         \/ \E j : /\ Go(p, j) /\ UNCHANGED queue
                  /\ JobOk(j, row, secret, tokens, everTrusted, count.changes)
  PROVE  SourceInv'
<1>1. CoreInv /\ Frame BY DEF SourceInv, CoreInv, Frame, config, oauth
<1>2. CoreInv' BY <1>1, Ends, Moves
<1>3. SecretInv' /\ TrustInv' BY RestStays DEF SourceInv, config, oauth
<1>4. QED BY <1>2, <1>3 DEF SourceInv, CoreInv

(* A request that reads the row knows whether the source has been trusted. *)
LEMMA ReadSourceKeeps ==
  ASSUME SourceInv, NEW p \in Process, ReadSource(p)
  PROVE  SourceInv'
<1> DEFINE j == [at |-> "credential", purpose |-> jobs[p].purpose, request |-> jobs[p].request,
                 row |-> row, credential |-> Nothing,
                 walk |-> CrawlStart(row.location), since |-> count.changes]
<1>1. At(p, "source") /\ Go(p, j) /\ UNCHANGED <<config, oauth, queued, queue, site, docs, count>>
  BY DEF ReadSource
<1>2. row \in Row BY <1>1 DEF SourceInv, JobsInv, JobOk, At, SaveSteps, SyncSteps
<1>3. count.changes \in Nat /\ count.changes <= count.changes BY DEF SourceInv, Fields
<1>4. row.policy = "trusted" => everTrusted BY <1>2 DEF SourceInv, TrustInv
<1>5. JobOk(j, row, secret, tokens, everTrusted, count.changes)
  <2>1. /\ j.at = "credential" /\ j.row = row /\ j.since = count.changes
        /\ j = [at |-> j.at, purpose |-> j.purpose, request |-> j.request, row |-> j.row,
                credential |-> j.credential, walk |-> j.walk, since |-> j.since]
    OBVIOUS
  <2> HIDE DEF j
  <2>2. QED BY <2>1, <1>2, <1>3, <1>4 DEF JobOk, SaveSteps, SyncSteps
<1> HIDE DEF j
<1>6. ~At(p, "idle") BY <1>1 DEF At
<1>7. QED BY <1>1, <1>5, <1>6, WorkStays

(* A sync's own steps keep what it read. *)
LEMMA SameRow ==
  ASSUME NEW j, NEW k, NEW r, NEW s, NEW t, NEW e, NEW n \in Nat, JobOk(j, r, s, t, e, n),
         j.at \in SyncSteps, k.at \in SyncSteps, k.row = j.row,
         k.since = j.since \/ k.since = n,
         k = [at |-> k.at, purpose |-> k.purpose, request |-> k.request, row |-> k.row,
              credential |-> k.credential, walk |-> k.walk, since |-> k.since]
  PROVE  JobOk(k, r, s, t, e, n)
<1>1. k.since \in Nat /\ k.since <= n BY DEF JobOk
<1>2. QED BY <1>1 DEF JobOk, SaveSteps, SyncSteps

LEMMA CredentialsKeeps ==
  ASSUME SourceInv, NEW p \in Process, Credentials(p)
  PROVE  SourceInv'
<1> DEFINE at == IF jobs[p].row.kind = "google_drive" /\ jobs[p].purpose = "sync"
                 THEN "token" ELSE "begin"
           cred == IF jobs[p].row.credentialRef THEN secret ELSE Nothing
           j == [jobs[p] EXCEPT !.at = at, !.credential = cred]
<1>1. At(p, "credential") /\ Go(p, j) /\ UNCHANGED <<config, oauth, queued, queue, site, docs, count>>
  BY DEF Credentials
<1>2. jobs[p].at = "credential" /\ at \in {"token", "begin"} BY <1>1 DEF At
<1>3. JobOk(jobs[p], row, secret, tokens, everTrusted, count.changes) BY DEF SourceInv, JobsInv
<1>4. count.changes \in Nat BY DEF SourceInv, Fields
<1> HIDE DEF at, cred
<1>5. /\ j.at = at /\ j.row = jobs[p].row /\ j.since = jobs[p].since
      /\ j = [at |-> j.at, purpose |-> j.purpose, request |-> j.request, row |-> j.row,
              credential |-> j.credential, walk |-> j.walk, since |-> j.since]
  <2>1. jobs[p] = [at |-> jobs[p].at, purpose |-> jobs[p].purpose, request |-> jobs[p].request,
                   row |-> jobs[p].row, credential |-> jobs[p].credential,
                   walk |-> jobs[p].walk, since |-> jobs[p].since]
    BY <1>2, <1>3 DEF JobOk, SyncSteps
  <2> DEFINE k == [jobs[p] EXCEPT !.at = at]
  <2>2. k = [at |-> at, purpose |-> jobs[p].purpose, request |-> jobs[p].request,
             row |-> jobs[p].row, credential |-> jobs[p].credential, walk |-> jobs[p].walk,
             since |-> jobs[p].since]
    BY <2>1
  <2>3. j = [k EXCEPT !.credential = cred] OBVIOUS
  <2> HIDE DEF j, k
  <2>4. QED BY <2>2, <2>3
<1> HIDE DEF j
<1>6. JobOk(j, row, secret, tokens, everTrusted, count.changes)
  BY <1>2, <1>3, <1>4, <1>5, SameRow DEF SyncSteps
<1>7. ~At(p, "idle") BY <1>1 DEF At
<1>8. QED BY <1>1, <1>6, <1>7, WorkStays

LEMMA ResolveTokenKeeps ==
  ASSUME SourceInv, NEW p \in Process, ResolveToken(p)
  PROVE  SourceInv'
<1> DEFINE j == [jobs[p] EXCEPT !.at = "begin"]
<1>1. At(p, "token") /\ UNCHANGED <<config, oauth, queued, site, docs, count>>
  BY DEF ResolveToken
<1>2. (Go(p, j) /\ UNCHANGED queue) \/ Finish(p) BY DEF ResolveToken
<1>3. JobOk(jobs[p], row, secret, tokens, everTrusted, count.changes) BY DEF SourceInv, JobsInv
<1>4. count.changes \in Nat BY DEF SourceInv, Fields
<1>5. /\ j.at = "begin" /\ j.row = jobs[p].row /\ j.since = jobs[p].since
      /\ j = [at |-> j.at, purpose |-> j.purpose, request |-> j.request, row |-> j.row,
              credential |-> j.credential, walk |-> j.walk, since |-> j.since]
  BY <1>1, <1>3 DEF JobOk, SyncSteps, At
<1> HIDE DEF j
<1>6. JobOk(j, row, secret, tokens, everTrusted, count.changes)
  BY <1>1, <1>3, <1>4, <1>5, SameRow DEF SyncSteps, At
<1>7. ~At(p, "idle") BY <1>1 DEF At
<1>8. QED BY <1>1, <1>2, <1>6, <1>7, WorkStays

LEMMA BeginKeeps ==
  ASSUME SourceInv, NEW p \in Process, Begin(p)
  PROVE  SourceInv'
<1> DEFINE w == FirstVisits(jobs[p].row.kind, jobs[p].row.location, site)
           j == [jobs[p] EXCEPT !.at = "walk", !.walk = w, !.since = count.changes]
<1>1. At(p, "begin") /\ UNCHANGED <<config, oauth, queued, site, docs, count>> BY DEF Begin
<1>2. (Go(p, j) /\ UNCHANGED queue) \/ Finish(p) BY DEF Begin
<1>3. JobOk(jobs[p], row, secret, tokens, everTrusted, count.changes) BY DEF SourceInv, JobsInv
<1>4. count.changes \in Nat BY DEF SourceInv, Fields
<1> HIDE DEF w
<1>5. /\ j.at = "walk" /\ j.row = jobs[p].row /\ j.since = count.changes
      /\ j = [at |-> j.at, purpose |-> j.purpose, request |-> j.request, row |-> j.row,
              credential |-> j.credential, walk |-> j.walk, since |-> j.since]
  <2>1. jobs[p] = [at |-> jobs[p].at, purpose |-> jobs[p].purpose, request |-> jobs[p].request,
                   row |-> jobs[p].row, credential |-> jobs[p].credential,
                   walk |-> jobs[p].walk, since |-> jobs[p].since]
    BY <1>1, <1>3 DEF JobOk, SyncSteps, At
  <2> DEFINE k == [jobs[p] EXCEPT !.at = "walk"]
             l == [k EXCEPT !.walk = w]
  <2>2. k = [at |-> "walk", purpose |-> jobs[p].purpose, request |-> jobs[p].request,
             row |-> jobs[p].row, credential |-> jobs[p].credential, walk |-> jobs[p].walk,
             since |-> jobs[p].since]
    BY <2>1
  <2>3. j = [l EXCEPT !.since = count.changes] OBVIOUS
  <2> HIDE DEF j, k
  <2>4. l = [at |-> "walk", purpose |-> jobs[p].purpose, request |-> jobs[p].request,
             row |-> jobs[p].row, credential |-> jobs[p].credential, walk |-> w,
             since |-> jobs[p].since]
    BY <2>2
  <2> HIDE DEF l
  <2>5. QED BY <2>3, <2>4
<1> HIDE DEF j
<1>6. JobOk(j, row, secret, tokens, everTrusted, count.changes)
  BY <1>1, <1>3, <1>4, <1>5, SameRow DEF SyncSteps, At
<1>7. ~At(p, "idle") BY <1>1 DEF At
<1>8. QED BY <1>1, <1>2, <1>6, <1>7, WorkStays

LEMMA FetchPageKeeps ==
  ASSUME SourceInv, NEW p \in Process, FetchPage(p)
  PROVE  SourceInv'
<1> DEFINE w == Fetched(jobs[p].row.kind, jobs[p].walk, site.links)
           j == [jobs[p] EXCEPT !.walk = w]
<1>1. At(p, "walk") /\ UNCHANGED <<config, oauth, queued, site, docs, count>> BY DEF FetchPage
<1>2. (Go(p, j) /\ UNCHANGED queue) \/ Finish(p) BY DEF FetchPage
<1>3. JobOk(jobs[p], row, secret, tokens, everTrusted, count.changes) BY DEF SourceInv, JobsInv
<1>4. count.changes \in Nat BY DEF SourceInv, Fields
<1> HIDE DEF w
<1>5. /\ j.at = "walk" /\ j.row = jobs[p].row /\ j.since = jobs[p].since
      /\ j = [at |-> j.at, purpose |-> j.purpose, request |-> j.request, row |-> j.row,
              credential |-> j.credential, walk |-> j.walk, since |-> j.since]
  BY <1>1, <1>3 DEF JobOk, SyncSteps, At
<1> HIDE DEF j
<1>6. JobOk(j, row, secret, tokens, everTrusted, count.changes)
  BY <1>1, <1>3, <1>4, <1>5, SameRow DEF SyncSteps, At
<1>7. ~At(p, "idle") BY <1>1 DEF At
<1>8. QED BY <1>1, <1>2, <1>6, <1>7, WorkStays

LEMMA WalkDoneKeeps ==
  ASSUME SourceInv, NEW p \in Process, WalkDone(p)
  PROVE  SourceInv'
<1> DEFINE j == [jobs[p] EXCEPT !.at = "ingest"]
           shown == PreviewOf(MergedProfile(ProfileOf[jobs[p].row.profile],
                                            ProfileOf[jobs[p].request]), SampleOf(jobs[p]))
           k == [at |-> "show", preview |-> shown]
<1>1. At(p, "walk") /\ UNCHANGED <<config, oauth, queued, site, docs, count>> BY DEF WalkDone
<1>2. Finish(p) \/ (Go(p, j) /\ UNCHANGED queue) \/ (Go(p, k) /\ UNCHANGED queue)
  BY DEF WalkDone
<1>3. JobOk(jobs[p], row, secret, tokens, everTrusted, count.changes) BY DEF SourceInv, JobsInv
<1>4. count.changes \in Nat BY DEF SourceInv, Fields
<1> HIDE DEF shown
<1>5. /\ j.at = "ingest" /\ j.row = jobs[p].row /\ j.since = jobs[p].since
      /\ j = [at |-> j.at, purpose |-> j.purpose, request |-> j.request, row |-> j.row,
              credential |-> j.credential, walk |-> j.walk, since |-> j.since]
  BY <1>1, <1>3 DEF JobOk, SyncSteps, At
<1> HIDE DEF j
<1>6. JobOk(j, row, secret, tokens, everTrusted, count.changes)
  BY <1>1, <1>3, <1>4, <1>5, SameRow DEF SyncSteps, At
<1>7. JobOk(k, row, secret, tokens, everTrusted, count.changes)
  BY DEF JobOk, SaveSteps, SyncSteps
<1> HIDE DEF k
<1>8. ~At(p, "idle") BY <1>1 DEF At
<1>9. QED BY <1>1, <1>2, <1>6, <1>7, <1>8, WorkStays

LEMMA ShowPreviewKeeps ==
  ASSUME SourceInv, NEW p \in Process, ShowPreview(p)
  PROVE  SourceInv'
<1>1. Finish(p) /\ ~At(p, "idle") /\ UNCHANGED <<config, oauth, queued, site, docs, count>>
  BY DEF ShowPreview, At
<1>2. QED BY <1>1, WorkStays

(* What a sync stores is approved only under a policy that trusted the source. *)
LEMMA IngestDocumentKeeps ==
  ASSUME SourceInv, NEW p \in Process, IngestDocument(p)
  PROVE  SourceInv'
<1> DEFINE rest == Tail(jobs[p].walk.docs)
           j == [jobs[p] EXCEPT !.walk.docs = rest]
           id == DocumentOf(jobs[p].row.kind, Head(jobs[p].walk.docs))
           d == [page |-> Head(jobs[p].walk.docs), by |-> "policy",
                 status |-> StatusFromPolicy(jobs[p].row, jobs[p].request)]
<1>1. At(p, "ingest") /\ docs' = Over([e \in {id} |-> d], docs)
  BY DEF IngestDocument
<1>2. (Go(p, j) /\ UNCHANGED queue) \/ Finish(p) BY DEF IngestDocument
<1>3. UNCHANGED <<config, oauth, queued, site, count>> BY DEF IngestDocument
<1>4. JobOk(jobs[p], row, secret, tokens, everTrusted, count.changes) BY DEF SourceInv, JobsInv
<1>5. count.changes \in Nat BY DEF SourceInv, Fields
<1> HIDE DEF rest
<1>6. /\ j.at = "ingest" /\ j.row = jobs[p].row /\ j.since = jobs[p].since
      /\ j = [at |-> j.at, purpose |-> j.purpose, request |-> j.request, row |-> j.row,
              credential |-> j.credential, walk |-> j.walk, since |-> j.since]
  BY <1>1, <1>4 DEF JobOk, SyncSteps, At
<1> HIDE DEF j
<1>7. JobOk(j, row, secret, tokens, everTrusted, count.changes)
  BY <1>1, <1>4, <1>5, <1>6, SameRow DEF SyncSteps, At
<1>8. ~At(p, "idle") BY <1>1 DEF At
<1>9. CoreInv /\ Frame BY <1>3 DEF SourceInv, CoreInv, Frame, config, oauth
<1>10. CoreInv' BY <1>2, <1>7, <1>8, <1>9, Ends, Moves
<1>11. SecretInv' BY <1>3 DEF SourceInv, SecretInv, config, oauth
<1>12. d.status = "approved" => everTrusted
  BY <1>1, <1>4 DEF JobOk, SyncSteps, At, StatusFromPolicy
<1>13. d = [page |-> d.page, status |-> d.status, by |-> d.by] OBVIOUS
<1>14. TrustInv'
  <2> HIDE DEF id, d
  <2>1. /\ DOMAIN docs' = {id} \cup DOMAIN docs /\ docs'[id] = d
        /\ \A e \in DOMAIN docs : e # id => docs'[e] = docs[e]
    BY <1>1 DEF Over
  <2>2. row \in Row /\ row.policy = "trusted" => everTrusted BY DEF SourceInv, TrustInv
  <2>3. ASSUME NEW e \in DOMAIN docs'
        PROVE  /\ docs'[e] = [page |-> docs'[e].page, status |-> docs'[e].status,
                              by |-> docs'[e].by]
               /\ docs'[e].status = "approved" => docs'[e].by = "person" \/ everTrusted
    <3>1. CASE e = id BY <3>1, <2>1, <1>12, <1>13
    <3>2. CASE e # id BY <3>2, <2>1 DEF SourceInv, TrustInv
    <3>3. QED BY <3>1, <3>2
  <2>4. QED BY <2>2, <2>3, <1>3 DEF TrustInv, config
<1>15. QED BY <1>10, <1>11, <1>14 DEF SourceInv, CoreInv

LEMMA ApproveKeeps ==
  ASSUME SourceInv, NEW i \in DOMAIN docs, Approve(i)
  PROVE  SourceInv'
<1>1. /\ docs' = [docs EXCEPT ![i].status = "approved", ![i].by = "person"]
      /\ UNCHANGED <<config, oauth, queued, queue, jobs, site, count>>
  BY DEF Approve
<1>2. /\ DOMAIN docs' = DOMAIN docs
      /\ docs'[i] = [page |-> docs[i].page, status |-> "approved", by |-> "person"]
      /\ \A e \in DOMAIN docs : e # i => docs'[e] = docs[e]
  <2> DEFINE d == docs[i]
             e == [d EXCEPT !.status = "approved"]
             f == [e EXCEPT !.by = "person"]
             middle == [docs EXCEPT ![i] = e]
  <2>1. d = [page |-> d.page, status |-> d.status, by |-> d.by] BY DEF SourceInv, TrustInv
  <2>2. docs' = [middle EXCEPT ![i].by = "person"] BY <1>1
  <2>3. middle[i] = e OBVIOUS
  <2>4. docs' = [middle EXCEPT ![i] = f] BY <2>2, <2>3
  <2>5. DOMAIN middle = DOMAIN docs /\ \A x \in DOMAIN docs : x # i => middle[x] = docs[x]
    OBVIOUS
  <2> HIDE DEF middle
  <2>6. DOMAIN docs' = DOMAIN docs /\ docs'[i] = f
        /\ \A x \in DOMAIN docs : x # i => docs'[x] = docs[x]
    BY <2>4, <2>5
  <2> HIDE DEF d
  <2>7. e = [page |-> d.page, status |-> "approved", by |-> d.by] BY <2>1
  <2> HIDE DEF e
  <2>8. f = [page |-> d.page, status |-> "approved", by |-> "person"] BY <2>7
  <2> HIDE DEF f
  <2>9. QED BY <2>6, <2>8 DEF d
<1>3. Fields' /\ Keeps BY <1>1 DEF SourceInv, Fields, Keeps, config, oauth
<1>4. JobsInv' BY <1>1, <1>3, AllJobsStay DEF SourceInv
<1>5. WaitingInv' BY <1>1 DEF SourceInv, WaitingInv, At, config
<1>6. SecretInv' BY <1>1 DEF SourceInv, SecretInv, config, oauth
<1>7. TrustInv'
  <2>1. ASSUME NEW e \in DOMAIN docs'
        PROVE  /\ docs'[e] = [page |-> docs'[e].page, status |-> docs'[e].status,
                              by |-> docs'[e].by]
               /\ docs'[e].status = "approved" => docs'[e].by = "person" \/ everTrusted
    <3>1. CASE e = i BY <3>1, <1>2
    <3>2. CASE e # i BY <3>2, <1>2 DEF SourceInv, TrustInv
    <3>3. QED BY <3>1, <3>2
  <2>2. row \in Row /\ row.policy = "trusted" => everTrusted BY DEF SourceInv, TrustInv
  <2>3. QED BY <2>1, <2>2, <1>1 DEF TrustInv, config
<1>8. QED BY <1>3, <1>4, <1>5, <1>6, <1>7 DEF SourceInv

LEMMA SiteChangesKeeps ==
  ASSUME SourceInv, SiteChanges
  PROVE  SourceInv'
<1>1. /\ site' \in Sites /\ Counted("changes")
      /\ UNCHANGED <<config, oauth, queued, queue, jobs, docs>>
  BY DEF SiteChanges
<1>2. Fields' /\ Keeps BY <1>1 DEF SourceInv, Fields, Keeps, config, oauth, Counted
<1>3. JobsInv' BY <1>1, <1>2, AllJobsStay DEF SourceInv
<1>4. WaitingInv' BY <1>1 DEF SourceInv, WaitingInv, At, config
<1>5. SecretInv' /\ TrustInv' BY <1>1, RestStays DEF SourceInv, config, oauth
<1>6. QED BY <1>2, <1>3, <1>4, <1>5 DEF SourceInv

(* A crash loses the request and what the process remembered, never what is stored. *)
LEMMA RestartKeeps ==
  ASSUME SourceInv, NEW p \in Process, Restart(p)
  PROVE  SourceInv'
<1>1. /\ Go(p, Idle) /\ Counted("crashes")
      /\ connections' = [s \in Server |-> IF s = p THEN {} ELSE connections[s]]
      /\ UNCHANGED <<config, tokens, queued, queue, site, docs>>
  BY DEF Restart
<1>2. Fields' BY <1>1, OneJob DEF SourceInv, Fields, config, Counted
<1>3. Keeps BY <1>1 DEF SourceInv, Fields, Keeps, config, Counted
<1>4. JobsInv' BY <1>1, <1>2, <1>3, IdleIsOk, JobsStay DEF SourceInv
<1>5. WaitingInv'
  <2>1. CASE p = Worker BY <2>1, <1>1, OneJob, IdleIsOk DEF SourceInv, WaitingInv, At, config
  <2>2. CASE p # Worker
    <3>1. jobs'[Worker] = jobs[Worker] BY <2>2, <1>1, OneJob DEF Process, SourceInv
    <3>2. QED BY <3>1, <1>1 DEF SourceInv, WaitingInv, At, config
  <2>3. QED BY <2>1, <2>2
<1>6. SecretInv' BY <1>1 DEF SourceInv, SecretInv, config
<1>7. TrustInv' BY <1>1 DEF SourceInv, TrustInv, config
<1>8. QED BY <1>2, <1>4, <1>5, <1>6, <1>7 DEF SourceInv

LEMMA SourceInit == Init => SourceInv
<1> SUFFICES ASSUME Init PROVE SourceInv OBVIOUS
<1>1. jobs = [p \in Process |-> Idle] /\ row = Nothing BY DEF Init
<1>2. Fields
  <2>1. jobs = [p \in Process |-> jobs[p]] /\ queue \in Seq(Requested)
    BY <1>1 DEF Init
  <2>2. count \in [saves : Nat, syncs : Nat, changes : Nat, crashes : Nat] BY DEF Init
  <2>3. connections \in [Server -> SUBSET Connection] BY DEF Init
  <2>4. QED BY <1>1, <2>1, <2>2, <2>3 DEF Init, Fields
<1>3. \A p \in Process : JobOk(jobs[p], row, secret, tokens, everTrusted, count.changes)
  BY <1>1, IdleIsOk
<1>4. JobsInv BY <1>3 DEF JobsInv
<1>5. WaitingInv BY <1>1, IdleIsOk DEF Init, WaitingInv, At, Process
<1>6. SecretInv
  BY <1>1, ConnectorsAssumption DEF Init, SecretInv
<1>7. TrustInv BY <1>1, ConnectorsAssumption DEF Init, TrustInv
<1>8. QED BY <1>2, <1>4, <1>5, <1>6, <1>7 DEF SourceInv

LEMMA SourceStep == SourceInv /\ [Next]_vars => SourceInv'
<1> SUFFICES ASSUME SourceInv, [Next]_vars PROVE SourceInv' OBVIOUS
<1>1. CASE UNCHANGED vars
  <2>1. Fields' /\ Keeps BY <1>1 DEF SourceInv, Fields, Keeps, vars
  <2>2. JobsInv' BY <1>1, <2>1, AllJobsStay DEF SourceInv, vars
  <2>3. WaitingInv' BY <1>1 DEF SourceInv, WaitingInv, At, vars
  <2>4. SecretInv' /\ TrustInv' BY <1>1, RestStays DEF SourceInv, vars
  <2>5. QED BY <2>1, <2>2, <2>3, <2>4 DEF SourceInv
<1>2. ASSUME NEW s \in Server, Save(s) PROVE SourceInv'
  BY <1>2, UpsertKeeps, StoreCredentialsKeeps, InsertRowKeeps, MirrorScheduleKeeps DEF Save
<1>3. ASSUME NEW s \in Server, Connect(s) PROVE SourceInv'
  BY <1>3, OAuthCallbackKeeps, ExchangeCodeKeeps, RecordConnectionKeeps DEF Connect
<1>4. ASSUME NEW p \in Process, Work(p) PROVE SourceInv'
  BY <1>4, ReadSourceKeeps, CredentialsKeeps, ResolveTokenKeeps, BeginKeeps, FetchPageKeeps,
     WalkDoneKeeps, ShowPreviewKeeps, IngestDocumentKeeps DEF Work
<1>5. ASSUME NEW i, Approve(i) PROVE SourceInv'
  <2>1. i \in DOMAIN docs BY <1>5 DEF Approve
  <2>2. QED BY <1>5, <2>1, ApproveKeeps
<1>6. CASE \E s \in Server : \/ \E r \in Requested : RequestSync(s, r)
                            \/ \E k \in Profile : RequestPreview(s, k)
  BY <1>6, RequestSyncKeeps, RequestPreviewKeeps
<1>7. QED BY <1>1, <1>2, <1>3, <1>4, <1>5, <1>6, TakeSyncKeeps, RestartKeeps, SiteChangesKeeps
          DEF Next

(* The credential the row refers to is stored, and every connection a server        *)
(* counts on has its refresh token, through crashes and overlapping saves: the      *)
(* secret is always written before what names it, and never removed.               *)
THEOREM SecretsExist == Spec => []ReferencedSecretsExist
<1>1. SourceInv => ReferencedSecretsExist
  BY DEF SourceInv, Fields, SecretInv, ReferencedSecretsExist
<1>2. QED BY <1>1, SourceInit, SourceStep, PTL DEF Spec

(* An approved document was approved by a person or under the policy of a source    *)
(* that has been trusted, whatever status the request named and however the row     *)
(* changed while the sync was under way.                                           *)
THEOREM TrustHolds == Spec => []ApprovedWasTrusted
<1>1. SourceInv => ApprovedWasTrusted
  BY DEF SourceInv, TrustInv, ApprovedWasTrusted
<1>2. QED BY <1>1, SourceInit, SourceStep, PTL DEF Spec

------------------------------------------------------------------------------
(* A crawl is complete. *)
(* Pages a further click leads to, and pages so many clicks lead to. *)
NextLevel(S, links) == S \cup {q \in OwnHost : \E p \in S \cap Html : q \in links[p]}
Within(n, start, links) ==
  IF n = 0 THEN {start}
  ELSE IF n = 1 THEN NextLevel({start}, links)
  ELSE NextLevel(NextLevel({start}, links), links)

(* The reference is what so many clicks lead to: at most two, since the depth is. *)
LEMMA ReachedIs ==
  ASSUME NEW s, NEW start
  PROVE  Reached(s, start) = Within(Depth, start, s.links)
<1> DEFINE g == [n \in 0..Depth |-> Within(n, start, s.links)]
           step(f, n) == IF n = 0 THEN {start}
                         ELSE f[n - 1] \cup
                              {q \in OwnHost : \E p \in f[n - 1] \cap Html : q \in s.links[p]}
           isRec(f) == f = [n \in 0..Depth |-> step(f, n)]
<1>1. Depth \in {0, 1, 2} BY WalksAssumption
<1>2. \A n \in 0..Depth : g[n] = step(g, n)
  <2> TAKE n \in 0..Depth
  <2>1. n \in {0, 1, 2} BY <1>1
  <2>2. CASE n = 0 BY <2>2 DEF Within
  <2>3. CASE n = 1
    <3>1. g[0] = {start} /\ g[1] = NextLevel({start}, s.links) BY <2>3, <1>1 DEF Within
    <3>2. QED BY <3>1, <2>3 DEF NextLevel
  <2>4. CASE n = 2
    <3>1. /\ g[1] = NextLevel({start}, s.links)
          /\ g[2] = NextLevel(NextLevel({start}, s.links), s.links)
      BY <2>4, <1>1 DEF Within
    <3>2. QED BY <3>1, <2>4 DEF NextLevel
  <2>5. QED BY <2>1, <2>2, <2>3, <2>4
<1>3. isRec(g)
  <2>1. g = [n \in 0..Depth |-> g[n]] OBVIOUS
  <2> HIDE DEF g
  <2>2. QED BY <1>2, <2>1
<1>4. ASSUME NEW f, isRec(f) PROVE f[Depth] = Within(Depth, start, s.links)
  <2>1. \A n \in 0..Depth : f[n] = step(f, n) BY <1>4
  <2>2. f[0] = {start}
    <3>1. f[0] = step(f, 0)
      <4> HIDE DEF step
      <4>1. 0 \in 0..Depth BY <1>1
      <4>2. QED BY <2>1, <4>1
    <3>2. step(f, 0) = {start} OBVIOUS
    <3>3. QED BY <3>1, <3>2
  <2>3. Depth >= 1 => f[1] = NextLevel({start}, s.links)
    <3>1. SUFFICES ASSUME Depth >= 1 PROVE f[1] = NextLevel({start}, s.links) OBVIOUS
    <3>2. f[1] = step(f, 1)
      <4> HIDE DEF step
      <4>1. 1 \in 0..Depth BY <1>1, <3>1
      <4>2. QED BY <2>1, <4>1
    <3>3. step(f, 1) = f[0] \cup {q \in OwnHost : \E p \in f[0] \cap Html : q \in s.links[p]}
      OBVIOUS
    <3>4. QED BY <2>2, <3>2, <3>3 DEF NextLevel
  <2>4. Depth = 2 => f[2] = NextLevel(NextLevel({start}, s.links), s.links)
    <3>1. SUFFICES ASSUME Depth = 2 PROVE f[2] = NextLevel(NextLevel({start}, s.links), s.links)
      OBVIOUS
    <3>2. f[2] = step(f, 2) BY <2>1, <3>1
    <3>3. f[1] = NextLevel({start}, s.links) BY <2>3, <3>1
    <3>4. f[2] = f[1] \cup {q \in OwnHost : \E p \in f[1] \cap Html : q \in s.links[p]}
      BY <3>2
    <3>5. QED BY <3>3, <3>4 DEF NextLevel
  <2>5. QED BY <1>1, <2>2, <2>3, <2>4 DEF Within
<1>5. isRec(CHOOSE f : isRec(f)) BY <1>3, Zenon
<1>6. Reached(s, start) = (CHOOSE f : isRec(f))[Depth]
  BY DEF Reached
<1>7. QED BY <1>4, <1>5, <1>6

(* The least of a set of numbers: induction over the numbers as a statement of first  *)
(* order, the minimum of a well-founded relation.                                     *)
Below == {x \in Nat \X Nat : x[1] < x[2]}

LEMMA BelowIsWellFounded == IsWellFoundedOn(Below, Nat)
<1>1. OpToRel(<, Nat) = Below BY Zenon DEF OpToRel, Below
<1>2. QED BY <1>1, NatLessThanWellFounded, Zenon

LEMMA Least ==
  ASSUME NEW T \in SUBSET Nat, T # {}
  PROVE  \E x \in T : \A y \in T : x <= y
<1>1. PICK x \in T : \A y \in T : ~(<<y, x>> \in Below)
  BY BelowIsWellFounded, WFMin
<1>2. ASSUME NEW y \in T PROVE x <= y
  <2>1. <<y, x>> \in Nat \X Nat /\ <<y, x>>[1] = y /\ <<y, x>>[2] = x OBVIOUS
  <2>2. ~(y < x) BY <1>1, <2>1 DEF Below
  <2>3. QED BY <2>2
<1>3. QED BY <1>2

LEMMA MinIs ==
  ASSUME NEW T \in SUBSET Nat, T # {}
  PROVE  Min(T) \in T /\ \A y \in T : Min(T) <= y
<1>1. \E x \in T : \A y \in T : x <= y BY Least
<1>2. QED BY <1>1 DEF Min

(* Putting a finite set in some order loses nothing. *)
LEMMA SetToSeqIs ==
  ASSUME NEW S, IsFiniteSet(S)
  PROVE  SetToSeq(S) \in Seq(S) /\ ToSet(SetToSeq(S)) = S
<1> DEFINE n == Cardinality(S)
           f == SetToSeq(S)
<1>1. n \in Nat /\ ExistsBijection(1..n, S) BY FS_CardinalityType
<1>2. \E g \in [1..n -> S] : IsInjective(g)
  BY <1>1 DEF ExistsBijection, Bijection, Injection
<1>3. f \in [1..n -> S] /\ IsInjective(f) BY <1>2, Zenon DEF SetToSeq
<1> HIDE DEF f
<1>4. f \in Injection(1..n, S) BY <1>3 DEF Injection
<1>5. Cardinality(1..n) = n
  <2>1. Cardinality(1..n) = IF 1 > n THEN 0 ELSE n - 1 + 1 BY <1>1, FS_Interval
  <2> HIDE DEF n
  <2>2. QED BY <2>1, <1>1
<1>6. f \in Surjection(1..n, S) BY <1>4, <1>5, FS_Injection
<1>7. \A s \in S : \E k \in 1..n : f[k] = s BY <1>6 DEF Surjection
<1> HIDE DEF n
<1>8. f \in Seq(S) /\ DOMAIN f = 1..n BY <1>1, <1>3
<1>9. ToSet(f) = S
  <2>1. \A s : s \in S <=> \E k \in DOMAIN f : f[k] = s BY <1>3, <1>7, <1>8
  <2>2. QED BY <2>1, Zenon DEF ToSet
<1>10. QED BY <1>8, <1>9 DEF f

Visits == [page : Page, depth : 0..Depth]

(* A page waits to be fetched no deeper than n. *)
Waits(w, q, n) == \E k \in DOMAIN w.queue : w.queue[k].page = q /\ w.queue[k].depth <= n

WalkTyped(w) ==
  /\ w.queue \in Seq(Visits) /\ w.seen \subseteq Page /\ w.docs \in Seq(Page)
  /\ IsInjective(w.docs) /\ ToSet(w.docs) = w.seen

(* Waiting pages are in the order of their depth, which is two levels at most. *)
InOrder(w) ==
  \A k, l \in DOMAIN w.queue :
    /\ k < l => w.queue[k].depth <= w.queue[l].depth
    /\ w.queue[l].depth <= w.queue[k].depth + 1

(* A page of the host that waits can be reached within its depth. *)
InReach(w, start, links) ==
  \A k \in DOMAIN w.queue :
    w.queue[k].page \in OwnHost => w.queue[k].page \in Within(w.queue[k].depth, start, links)

(* Every page fetched was found at a depth it can be reached at, no deeper than any   *)
(* that waits, and its links on the host are fetched or wait one click further.       *)
Levels(w, dep, start, links) ==
  /\ dep \in [w.seen -> 0..Depth]
  /\ \A q \in w.seen : q \in Within(dep[q], start, links)
  /\ \A q \in w.seen, k \in DOMAIN w.queue : dep[q] <= w.queue[k].depth
  /\ (start \in w.seen /\ dep[start] = 0) \/ Waits(w, start, 0)
  /\ \A p \in w.seen \cap Html : dep[p] < Depth =>
       \A q \in links[p] \cap OwnHost :
         (q \in w.seen /\ dep[q] <= dep[p] + 1) \/ Waits(w, q, dep[p] + 1)

CrawlOk(w, start, links) ==
  /\ WalkTyped(w) /\ InOrder(w) /\ InReach(w, start, links)
  /\ \E dep \in [w.seen -> 0..Depth] : Levels(w, dep, start, links)

(* Reach, click by click. *)
LEMMA WithinGrows ==
  ASSUME NEW n \in 0..Depth, n < Depth, NEW start, NEW links, NEW p, NEW q,
         p \in Within(n, start, links), p \in Html, q \in OwnHost, q \in links[p]
  PROVE  q \in Within(n + 1, start, links)
<1>1. (n = 0 \/ n = 1) /\ Depth \in Nat BY WalksAssumption
<1>2. CASE n = 0
  <2>1. Within(n + 1, start, links) = NextLevel({start}, links) BY <1>2 DEF Within
  <2>2. p = start BY <1>2 DEF Within
  <2>3. QED BY <2>1, <2>2 DEF NextLevel
<1>3. CASE n = 1
  <2>1. Within(n + 1, start, links) = NextLevel(NextLevel({start}, links), links)
    BY <1>3 DEF Within
  <2>2. p \in NextLevel({start}, links) BY <1>3 DEF Within
  <2>3. QED BY <2>1, <2>2 DEF NextLevel
<1>4. QED BY <1>1, <1>2, <1>3

LEMMA WithinStep ==
  ASSUME NEW n \in 0..Depth, n < Depth, NEW start, NEW links, NEW q,
         q \in Within(n + 1, start, links), q \notin Within(n, start, links)
  PROVE  q \in OwnHost /\ \E p \in Within(n, start, links) \cap Html : q \in links[p]
<1>1. (n = 0 \/ n = 1) /\ Depth \in Nat BY WalksAssumption
<1>2. CASE n = 0
  <2>1. /\ Within(n + 1, start, links) = NextLevel({start}, links)
        /\ Within(n, start, links) = {start}
    BY <1>2 DEF Within
  <2>2. QED BY <2>1 DEF NextLevel
<1>3. CASE n = 1
  <2>1. /\ Within(n + 1, start, links) = NextLevel(NextLevel({start}, links), links)
        /\ Within(n, start, links) = NextLevel({start}, links)
    BY <1>3 DEF Within
  <2> DEFINE S == NextLevel({start}, links)
  <2>2. q \in NextLevel(S, links) /\ q \notin S BY <2>1
  <2>3. Within(n, start, links) = S BY <2>1
  <2> HIDE DEF S
  <2>4. QED BY <2>2, <2>3 DEF NextLevel
<1>4. QED BY <1>1, <1>2, <1>3

LEMMA WithinMore ==
  ASSUME NEW n \in 0..Depth, NEW start, NEW links, NEW q, q \in Within(n, start, links)
  PROVE  q \in Within(Depth, start, links)
<1>1. Depth \in {0, 1, 2} /\ n \in {0, 1, 2} /\ n <= Depth BY WalksAssumption
<1>2. {start} \subseteq NextLevel({start}, links) BY DEF NextLevel
<1>3. NextLevel({start}, links) \subseteq NextLevel(NextLevel({start}, links), links)
  <2> DEFINE S == NextLevel({start}, links)
  <2>1. S \subseteq NextLevel(S, links)
    <3> HIDE DEF S
    <3>1. QED BY DEF NextLevel
  <2>2. QED BY <2>1
<1>4. QED BY <1>1, <1>2, <1>3 DEF Within

LEMMA StartWithin ==
  ASSUME NEW start, NEW links
  PROVE  Within(0, start, links) = {start}
  BY DEF Within

(* One sequence after another, position by position. *)
LEMMA Joined ==
  ASSUME NEW S, NEW a \in Seq(S), NEW b \in Seq(S)
  PROVE  /\ a \o b \in Seq(S) /\ Len(a \o b) = Len(a) + Len(b)
         /\ \A k \in 1..Len(a) : (a \o b)[k] = a[k]
         /\ \A k \in 1..Len(b) : (a \o b)[Len(a) + k] = b[k]
<1>1. a \o b \in Seq(S) /\ Len(a \o b) = Len(a) + Len(b) OBVIOUS
<1>2. \A k \in 1..Len(a) : (a \o b)[k] = a[k] OBVIOUS
<1>3. ASSUME NEW k \in 1..Len(b) PROVE (a \o b)[Len(a) + k] = b[k]
  <2>1. Len(a) \in Nat /\ Len(b) \in Nat OBVIOUS
  <2>2. Len(a) + k \in 1..(Len(a) + Len(b)) /\ Len(a) + k > Len(a) /\ Len(a) + k - Len(a) = k BY <2>1
  <2>3. QED BY <2>2
<1>4. QED BY <1>1, <1>2, <1>3

(* The next visit is the first page of the host not fetched yet. *)
LEMMA NextVisitIs ==
  ASSUME NEW w, w.queue \in Seq(Visits), Fetchable("url", w) # {}
  PROVE  LET i == NextVisit("url", w)
         IN /\ i \in 1..Len(w.queue)
            /\ w.queue[i].page \notin w.seen /\ w.queue[i].page \in OwnHost
            /\ \A k \in 1..Len(w.queue) :
                 k < i /\ w.queue[k].page \in OwnHost => w.queue[k].page \in w.seen
<1> DEFINE T == Fetchable("url", w)
           i == NextVisit("url", w)
<1>1. T = {k \in 1..Len(w.queue) : w.queue[k].page \notin w.seen /\ w.queue[k].page \in OwnHost}
  BY DEF Fetchable
<1>2. T \in SUBSET Nat BY <1>1
<1>3. i = Min(T) BY DEF NextVisit
<1> HIDE DEF T, i
<1>4. i \in T /\ \A y \in T : i <= y BY <1>2, <1>3, MinIs DEF T
<1>5. \A k \in T : ~(k < i) BY <1>2, <1>4
<1>6. QED BY <1>1, <1>4, <1>5 DEF i

(* What waits after a page answered: what waited behind it, then its links. *)
LEMMA QueueAfter ==
  ASSUME NEW w, w.queue \in Seq(Visits), w.seen \subseteq Page, Fetchable("url", w) # {},
         NEW links \in [Page -> SUBSET Page]
  PROVE  LET i == NextVisit("url", w)
             pg == w.queue[i].page
             n == w.queue[i].depth
             new == Fetched("url", w, links).queue
             open == n < Depth /\ pg \in Html
             more == links[pg] \ (w.seen \cup {pg})
         IN /\ new \in Seq(Visits)
            /\ \A k \in 1..Len(w.queue) : i < k => k - i \in DOMAIN new /\ new[k - i] = w.queue[k]
            /\ open => \A q \in more : \E k \in DOMAIN new :
                         new[k].page = q /\ new[k].depth = n + 1
            /\ \A k \in DOMAIN new :
                 \/ k + i \in 1..Len(w.queue) /\ new[k] = w.queue[k + i]
                 \/ /\ open /\ k > Len(w.queue) - i
                    /\ new[k].page \in more /\ new[k].depth = n + 1
<1> DEFINE i == NextVisit("url", w)
           pg == w.queue[i].page
           n == w.queue[i].depth
           new == Fetched("url", w, links).queue
           open == n < Depth /\ pg \in Html
           more == links[pg] \ (w.seen \cup {pg})
           followed == IF open THEN SetToSeq(more) ELSE <<>>
           rest == SubSeq(w.queue, i + 1, Len(w.queue))
           added == [k \in DOMAIN followed |-> [page |-> followed[k], depth |-> n + 1]]
<1>1. i \in 1..Len(w.queue) BY NextVisitIs
<1>2. new = rest \o added BY DEF Fetched
<1>3. w.queue[i] \in Visits /\ Len(w.queue) \in Nat BY <1>1
<1>4. pg \in Page /\ n \in 0..Depth /\ Depth \in Nat BY <1>3, WalksAssumption DEF Visits
<1> HIDE DEF i
<1>5. more \subseteq Page /\ IsFiniteSet(more)
  <2>1. more \subseteq Page BY <1>4
  <2> HIDE DEF more
  <2>2. QED BY <2>1, FS_Subset, WalksAssumption
<1>6. /\ followed \in Seq(Page)
      /\ open => ToSet(followed) = more /\ followed \in Seq(more)
      /\ ~open => followed = <<>>
  <2> HIDE DEF more, open
  <2>1. SetToSeq(more) \in Seq(more) /\ ToSet(SetToSeq(more)) = more BY <1>5, SetToSeqIs
  <2>2. SetToSeq(more) \in Seq(Page) BY <2>1, <1>5
  <2>3. QED BY <2>1, <2>2
<1>7. rest \in Seq(Visits) /\ Len(rest) = Len(w.queue) - i
      /\ \A k \in 1..Len(rest) : rest[k] = w.queue[k + i]
  <2>1. rest \in Seq(Visits) BY <1>1, <1>3
  <2>2. Len(rest) = Len(w.queue) - i BY <1>1, <1>3
  <2>3. \A k \in 1..Len(rest) : rest[k] = w.queue[k + i] BY <1>1, <1>3, <2>2
  <2>4. QED BY <2>1, <2>2, <2>3
<1> HIDE DEF rest, followed
<1>8. added \in Seq(Visits) /\ Len(added) = Len(followed)
  <2>1. Len(followed) \in Nat /\ DOMAIN followed = 1..Len(followed) BY <1>6
  <2>2. ASSUME NEW k \in DOMAIN followed PROVE added[k] \in Visits
    <3>1. followed[k] \in Page BY <1>6
    <3>2. n < Depth BY <1>6
    <3>3. n + 1 \in 0..Depth BY <1>4, <3>2
    <3> HIDE DEF n
    <3>4. QED BY <3>1, <3>3 DEF Visits
  <2>3. DOMAIN added = 1..Len(followed) BY <2>1
  <2>4. added = [k \in 1..Len(followed) |-> added[k]] BY <2>1
  <2> HIDE DEF added
  <2>5. QED BY <2>1, <2>2, <2>3, <2>4
<1>9. \A k \in 1..Len(followed) : added[k].page = followed[k] /\ added[k].depth = n + 1
  <2>1. DOMAIN followed = 1..Len(followed) BY <1>6
  <2>2. QED BY <2>1
<1> HIDE DEF added, more, open, pg, n, new
<1>10. /\ new \in Seq(Visits) /\ Len(new) = Len(rest) + Len(added)
       /\ \A k \in 1..Len(rest) : new[k] = rest[k]
       /\ \A k \in 1..Len(added) : new[Len(rest) + k] = added[k]
  <2>1. rest \in Seq(Visits) /\ added \in Seq(Visits) BY <1>7, <1>8
  <2>2. /\ rest \o added \in Seq(Visits) /\ Len(rest \o added) = Len(rest) + Len(added)
        /\ \A k \in 1..Len(rest) : (rest \o added)[k] = rest[k]
        /\ \A k \in 1..Len(added) : (rest \o added)[Len(rest) + k] = added[k]
    <3>1. \A a, b \in Seq(Visits) :
            /\ a \o b \in Seq(Visits) /\ Len(a \o b) = Len(a) + Len(b)
            /\ \A k \in 1..Len(a) : (a \o b)[k] = a[k]
            /\ \A k \in 1..Len(b) : (a \o b)[Len(a) + k] = b[k]
      BY Joined
    <3>2. QED BY <2>1, <3>1, Zenon
  <2>3. QED BY <1>2, <2>2, Zenon
<1>11. DOMAIN new = 1..Len(new) /\ Len(new) \in Nat /\ Len(added) \in Nat /\ i \in Nat
  BY <1>1, <1>8, <1>10
<1>12. ASSUME NEW k \in 1..Len(w.queue), i < k
       PROVE  k - i \in DOMAIN new /\ new[k - i] = w.queue[k]
  <2>1. k - i \in 1..Len(rest) /\ (k - i) + i = k BY <1>1, <1>3, <1>7, <1>11, <1>12
  <2>2. k - i \in DOMAIN new BY <2>1, <1>7, <1>10, <1>11, <1>3
  <2>3. QED BY <2>1, <2>2, <1>7, <1>10
<1>13. ASSUME open, NEW q \in more
       PROVE  \E k \in DOMAIN new : new[k].page = q /\ new[k].depth = n + 1
  <2>1. PICK m \in 1..Len(followed) : followed[m] = q BY <1>6, <1>13 DEF ToSet
  <2>2. m \in 1..Len(added) BY <2>1, <1>8
  <2>3. Len(rest) + m \in DOMAIN new BY <2>2, <1>3, <1>7, <1>10, <1>11, <1>1
  <2>4. new[Len(rest) + m] = added[m] BY <2>2, <1>10
  <2>5. QED BY <2>1, <2>3, <2>4, <1>9
<1>14. ASSUME NEW k \in DOMAIN new
       PROVE  \/ k + i \in 1..Len(w.queue) /\ new[k] = w.queue[k + i]
              \/ /\ open /\ k > Len(w.queue) - i
                 /\ new[k].page \in more /\ new[k].depth = n + 1
  <2>1. CASE k <= Len(rest)
    <3>1. k \in 1..Len(rest) BY <2>1, <1>11, <1>7, <1>3
    <3>2. k + i \in 1..Len(w.queue) BY <3>1, <1>1, <1>3, <1>7
    <3>3. QED BY <3>1, <3>2, <1>7, <1>10
  <2>2. CASE k > Len(rest)
    <3> DEFINE m == k - Len(rest)
    <3>1. m \in 1..Len(added) /\ k = Len(rest) + m
      <4>1. Len(rest) \in Nat /\ k \in 1..(Len(rest) + Len(added))
        BY <1>1, <1>3, <1>7, <1>10, <1>11
      <4>2. QED BY <2>2, <4>1, <1>11
    <3> HIDE DEF m
    <3>2. new[k] = added[m] BY <3>1, <1>10
    <3>3. m \in 1..Len(followed) BY <3>1, <1>8
    <3>4. open BY <3>3, <1>6
    <3>5. followed[m] \in more BY <3>3, <3>4, <1>6
    <3>6. QED BY <2>2, <3>2, <3>3, <3>4, <3>5, <1>7, <1>9
  <2>3. QED BY <2>1, <2>2, <1>11, <1>7, <1>3, <1>1
<1>15. QED BY <1>10, <1>12, <1>13, <1>14 DEF i, pg, n, open, more, new

(* A page that answers leaves the crawl in order. *)
LEMMA FetchedIsOk ==
  ASSUME NEW start \in OwnHost, NEW links \in [Page -> SUBSET Page], NEW w,
         CrawlOk(w, start, links), Fetchable("url", w) # {}
  PROVE  CrawlOk(Fetched("url", w, links), start, links)
<1> DEFINE i == NextVisit("url", w)
           pg == w.queue[i].page
           n == w.queue[i].depth
           v == Fetched("url", w, links)
           open == n < Depth /\ pg \in Html
           more == links[pg] \ (w.seen \cup {pg})
<1>1. WalkTyped(w) /\ InOrder(w) /\ InReach(w, start, links) BY DEF CrawlOk
<1>2. PICK dep \in [w.seen -> 0..Depth] : Levels(w, dep, start, links) BY DEF CrawlOk
<1>3. /\ i \in 1..Len(w.queue) /\ pg \notin w.seen /\ pg \in OwnHost
      /\ \A k \in 1..Len(w.queue) :
           k < i /\ w.queue[k].page \in OwnHost => w.queue[k].page \in w.seen
  BY <1>1, NextVisitIs DEF WalkTyped
<1>4. v.seen = w.seen \cup {pg} /\ v.docs = Append(w.docs, pg) BY DEF Fetched
<1>5. /\ v.queue \in Seq(Visits)
      /\ \A k \in 1..Len(w.queue) : i < k => k - i \in DOMAIN v.queue /\ v.queue[k - i] = w.queue[k]
      /\ open => \A q \in more : \E k \in DOMAIN v.queue :
                   v.queue[k].page = q /\ v.queue[k].depth = n + 1
      /\ \A k \in DOMAIN v.queue :
           \/ k + i \in 1..Len(w.queue) /\ v.queue[k] = w.queue[k + i]
           \/ /\ open /\ k > Len(w.queue) - i
              /\ v.queue[k].page \in more /\ v.queue[k].depth = n + 1
  BY <1>1, QueueAfter DEF WalkTyped
<1> HIDE DEF v
<1>6. /\ DOMAIN w.queue = 1..Len(w.queue) /\ Len(w.queue) \in Nat
      /\ \A k \in 1..Len(w.queue) : w.queue[k].page \in Page /\ w.queue[k].depth \in 0..Depth
  <2>1. w.queue \in Seq(Visits) BY <1>1 DEF WalkTyped
  <2>2. DOMAIN w.queue = 1..Len(w.queue) /\ Len(w.queue) \in Nat BY <2>1
  <2>3. ASSUME NEW k \in 1..Len(w.queue)
        PROVE  w.queue[k].page \in Page /\ w.queue[k].depth \in 0..Depth
    <3>1. w.queue[k] \in Visits BY <2>1
    <3>2. QED BY <3>1 DEF Visits
  <2>4. QED BY <2>2, <2>3
<1> HIDE DEF i
<1>7. /\ DOMAIN v.queue = 1..Len(v.queue) /\ Len(v.queue) \in Nat
      /\ \A k \in 1..Len(v.queue) : v.queue[k].page \in Page /\ v.queue[k].depth \in 0..Depth
  <2>1. v.queue \in Seq(Visits) BY <1>5
  <2>2. DOMAIN v.queue = 1..Len(v.queue) /\ Len(v.queue) \in Nat BY <2>1
  <2>3. ASSUME NEW k \in 1..Len(v.queue)
        PROVE  v.queue[k].page \in Page /\ v.queue[k].depth \in 0..Depth
    <3>1. v.queue[k] \in Visits BY <2>1
    <3>2. QED BY <3>1 DEF Visits
  <2>4. QED BY <2>2, <2>3
<1>8. pg \in Page /\ n \in 0..Depth /\ Depth \in Nat /\ i \in Nat
  BY <1>3, <1>6, WalksAssumption
<1>9. \A k \in 1..Len(w.queue) : /\ i < k => n <= w.queue[k].depth
                                 /\ w.queue[k].depth <= n + 1 /\ n <= w.queue[k].depth + 1
  BY <1>1, <1>3, <1>6 DEF InOrder
<1> HIDE DEF pg, n
<1>10. \A k \in 1..Len(v.queue) : n <= v.queue[k].depth /\ v.queue[k].depth <= n + 1
  <2> TAKE k \in 1..Len(v.queue)
  <2>1. CASE k + i \in 1..Len(w.queue) /\ v.queue[k] = w.queue[k + i]
    <3>1. i < k + i BY <1>8, <1>7
    <3>2. QED BY <2>1, <3>1, <1>9
  <2>2. CASE v.queue[k].depth = n + 1 BY <2>2, <1>8
  <2>3. QED BY <1>5, <1>7, <2>1, <2>2
<1>11. WalkTyped(v)
  <2>1. v.seen \subseteq Page BY <1>1, <1>4, <1>8 DEF WalkTyped
  <2>2. w.docs \in Seq(Page) /\ IsInjective(w.docs) /\ pg \notin ToSet(w.docs)
    BY <1>1, <1>3 DEF WalkTyped
  <2>3. v.docs \in Seq(Page) BY <2>2, <1>4, <1>8
  <2>4. /\ DOMAIN v.docs = 1..(Len(w.docs) + 1) /\ Len(w.docs) \in Nat
        /\ DOMAIN w.docs = 1..Len(w.docs)
        /\ \A k \in 1..Len(w.docs) : v.docs[k] = w.docs[k]
        /\ v.docs[Len(w.docs) + 1] = pg
    BY <2>2, <1>4, <1>8
  <2>5. \A k \in 1..Len(w.docs) : w.docs[k] # pg BY <2>2, <2>4 DEF ToSet
  <2>6. ASSUME NEW a \in DOMAIN v.docs, NEW b \in DOMAIN v.docs, v.docs[a] = v.docs[b]
        PROVE  a = b
    <3>1. \A k, l \in 1..Len(w.docs) : w.docs[k] = w.docs[l] => k = l
      BY <2>2, <2>4 DEF IsInjective
    <3>2. \A k \in 1..(Len(w.docs) + 1) : k \in 1..Len(w.docs) \/ k = Len(w.docs) + 1 BY <2>4
    <3>3. QED BY <3>1, <3>2, <2>4, <2>5, <2>6
  <2>7. IsInjective(v.docs) BY <2>6 DEF IsInjective
  <2>8. ToSet(v.docs) = w.seen \cup {pg}
    <3>1. ToSet(w.docs) = w.seen BY <1>1 DEF WalkTyped
    <3>2. \A x : x \in ToSet(v.docs) <=> \E k \in 1..(Len(w.docs) + 1) : v.docs[k] = x
      BY <2>4 DEF ToSet
    <3>3. \A x : x \in ToSet(w.docs) <=> \E k \in 1..Len(w.docs) : w.docs[k] = x
      BY <2>4 DEF ToSet
    <3>4. ASSUME NEW x
          PROVE  (\E k \in 1..(Len(w.docs) + 1) : v.docs[k] = x) <=>
                   x = pg \/ \E k \in 1..Len(w.docs) : w.docs[k] = x
      <4>1. ASSUME NEW k \in 1..(Len(w.docs) + 1), v.docs[k] = x
            PROVE  x = pg \/ \E l \in 1..Len(w.docs) : w.docs[l] = x
        <5>1. k \in 1..Len(w.docs) \/ k = Len(w.docs) + 1 BY <2>4
        <5>2. QED BY <4>1, <5>1, <2>4
      <4>2. ASSUME NEW k \in 1..Len(w.docs), w.docs[k] = x
            PROVE  \E l \in 1..(Len(w.docs) + 1) : v.docs[l] = x
        <5>1. k \in 1..(Len(w.docs) + 1) /\ v.docs[k] = x BY <4>2, <2>4
        <5>2. QED BY <5>1
      <4>3. ASSUME x = pg PROVE \E l \in 1..(Len(w.docs) + 1) : v.docs[l] = x
        <5>1. Len(w.docs) + 1 \in 1..(Len(w.docs) + 1) BY <2>4
        <5>2. QED BY <4>3, <5>1, <2>4
      <4>4. QED BY <4>1, <4>2, <4>3
    <3>5. \A x : x \in ToSet(v.docs) <=> x \in w.seen \cup {pg}
      BY <3>1, <3>2, <3>3, <3>4
    <3>6. QED BY <3>5, Zenon
  <2>9. QED BY <2>1, <2>3, <2>7, <2>8, <1>4, <1>5 DEF WalkTyped
<1>12. InOrder(v)
  <2>1. ASSUME NEW k \in 1..Len(v.queue), NEW l \in 1..Len(v.queue)
        PROVE  v.queue[l].depth <= v.queue[k].depth + 1
    BY <1>7, <1>8, <1>10
  <2>2. ASSUME NEW k \in 1..Len(v.queue), NEW l \in 1..Len(v.queue), k < l
        PROVE  v.queue[k].depth <= v.queue[l].depth
    <3>1. CASE v.queue[l].depth = n + 1 BY <3>1, <1>10
    <3>2. CASE l + i \in 1..Len(w.queue) /\ v.queue[l] = w.queue[l + i]
      <4>1. ~(k > Len(w.queue) - i) BY <3>2, <2>2, <1>6, <1>8, <1>7
      <4>2. k + i \in 1..Len(w.queue) /\ v.queue[k] = w.queue[k + i] BY <4>1, <1>5, <1>7
      <4>3. k + i < l + i BY <2>2, <1>8, <1>7
      <4>4. QED BY <3>2, <4>2, <4>3, <1>1, <1>6 DEF InOrder
    <3>3. QED BY <3>1, <3>2, <1>5, <1>7
  <2>3. QED BY <2>1, <2>2, <1>7 DEF InOrder
<1>13. pg \in Within(n, start, links) BY <1>1, <1>3, <1>6 DEF InReach, pg, n
<1>14. InReach(v, start, links)
  <2> SUFFICES ASSUME NEW k \in 1..Len(v.queue), v.queue[k].page \in OwnHost
               PROVE  v.queue[k].page \in Within(v.queue[k].depth, start, links)
    BY <1>7 DEF InReach
  <2>1. CASE k + i \in 1..Len(w.queue) /\ v.queue[k] = w.queue[k + i]
    BY <2>1, <1>1, <1>6 DEF InReach
  <2>2. CASE open /\ v.queue[k].page \in more /\ v.queue[k].depth = n + 1
    <3>1. n < Depth /\ pg \in Html /\ v.queue[k].page \in links[pg] BY <2>2
    <3>2. v.queue[k].page \in Within(n + 1, start, links)
      BY <3>1, <1>8, <1>13, WithinGrows
    <3>3. QED BY <3>2, <2>2
  <2>3. QED BY <2>1, <2>2, <1>5, <1>7
<1> DEFINE new == [q \in v.seen |-> IF q = pg THEN n ELSE dep[q]]
<1>15. /\ new \in [v.seen -> 0..Depth] /\ new[pg] = n
       /\ \A q \in w.seen : q \in v.seen /\ new[q] = dep[q] /\ dep[q] \in 0..Depth /\ q # pg
  BY <1>3, <1>4, <1>8
<1> HIDE DEF new
(* A page that waited on the host was fetched, is fetched now, or waits still. *)
<1>16. ASSUME NEW q \in OwnHost, NEW m \in Nat, Waits(w, q, m)
       PROVE  (q \in v.seen /\ new[q] <= m) \/ Waits(v, q, m)
  <2>1. PICK k \in 1..Len(w.queue) : w.queue[k].page = q /\ w.queue[k].depth <= m
    BY <1>6, <1>16 DEF Waits
  <2>2. CASE k < i
    <3>1. q \in w.seen BY <2>1, <2>2, <1>3
    <3>2. dep[q] <= w.queue[k].depth BY <3>1, <1>2, <1>6 DEF Levels
    <3>3. QED BY <3>1, <3>2, <2>1, <1>15, <1>6
  <2>3. CASE k = i BY <2>1, <2>3, <1>4, <1>15 DEF pg, n
  <2>4. CASE i < k
    <3>1. k - i \in DOMAIN v.queue /\ v.queue[k - i] = w.queue[k] BY <2>4, <1>5
    <3>2. QED BY <3>1, <2>1 DEF Waits
  <2>5. QED BY <2>2, <2>3, <2>4, <1>8
<1>17. \A q \in v.seen : q \in Within(new[q], start, links)
  BY <1>2, <1>4, <1>13, <1>15 DEF Levels
<1>18. \A q \in w.seen : dep[q] <= n BY <1>2, <1>3, <1>6 DEF Levels, n
<1>19. \A q \in v.seen, k \in DOMAIN v.queue : new[q] <= v.queue[k].depth
  <2>1. \A q \in v.seen : new[q] <= n BY <1>4, <1>8, <1>15, <1>18
  <2>2. QED BY <2>1, <1>7, <1>8, <1>10, <1>15
<1>20. (start \in v.seen /\ new[start] = 0) \/ Waits(v, start, 0)
  <2>1. CASE start \in w.seen /\ dep[start] = 0 BY <2>1, <1>15
  <2>2. CASE Waits(w, start, 0)
    <3>1. (start \in v.seen /\ new[start] <= 0) \/ Waits(v, start, 0) BY <2>2, <1>16
    <3>2. QED BY <3>1, <1>15, <1>8
  <2>3. QED BY <1>2, <2>1, <2>2 DEF Levels
<1>21. ASSUME NEW p \in v.seen \cap Html, new[p] < Depth, NEW q \in links[p] \cap OwnHost
       PROVE  (q \in v.seen /\ new[q] <= new[p] + 1) \/ Waits(v, q, new[p] + 1)
  <2>1. CASE p \in w.seen
    <3>1. new[p] = dep[p] /\ dep[p] \in Nat /\ dep[p] + 1 \in Nat BY <2>1, <1>15
    <3>2. (q \in w.seen /\ dep[q] <= dep[p] + 1) \/ Waits(w, q, dep[p] + 1)
      BY <2>1, <3>1, <1>2, <1>21 DEF Levels
    <3>3. CASE q \in w.seen /\ dep[q] <= dep[p] + 1 BY <3>1, <3>3, <1>15
    <3>4. CASE Waits(w, q, dep[p] + 1) BY <3>1, <3>4, <1>16
    <3>5. QED BY <3>2, <3>3, <3>4
  <2>2. CASE p = pg
    <3>1. open /\ new[p] = n BY <2>2, <1>15, <1>21
    <3>2. CASE q \in w.seen BY <3>1, <3>2, <1>8, <1>15, <1>18
    <3>3. CASE q = pg BY <3>1, <3>3, <1>4, <1>8, <1>15
    <3>4. CASE q \notin w.seen /\ q # pg
      <4>1. q \in more BY <2>2, <3>4
      <4>2. PICK k \in DOMAIN v.queue : v.queue[k].page = q /\ v.queue[k].depth = n + 1
        BY <3>1, <4>1, <1>5
      <4>3. QED BY <3>1, <4>2, <1>7, <1>8 DEF Waits
    <3>5. QED BY <3>2, <3>3, <3>4
  <2>3. QED BY <2>1, <2>2, <1>4
<1>22. Levels(v, new, start, links) BY <1>15, <1>17, <1>19, <1>20, <1>21 DEF Levels
<1>23. QED BY <1>11, <1>12, <1>14, <1>15, <1>22 DEF CrawlOk, v

(* A crawl begins with its start page waiting and nothing fetched. *)
LEMMA CrawlStartIsOk ==
  ASSUME NEW location \in Location, NEW links
  PROVE  CrawlOk(CrawlStart(location), StartOf[location], links)
<1> DEFINE w == CrawlStart(location)
           start == StartOf[location]
<1>1. start \in OwnHost /\ start \in Page /\ 0 \in 0..Depth
  BY WalksAssumption, ConnectorsAssumption
<1>2. w = [queue |-> [k \in 1..1 |-> [page |-> <<start>>[k], depth |-> 0]], seen |-> {}, docs |-> <<>>]
  BY DEF CrawlStart, Listing
<1> HIDE DEF w, start
<1>3. /\ DOMAIN w.queue = 1..1 /\ w.queue[1] = [page |-> start, depth |-> 0]
      /\ w.seen = {} /\ w.docs = <<>>
  BY <1>2
<1>4. w.queue \in Seq(Visits)
  <2>1. [page |-> start, depth |-> 0] \in Visits BY <1>1 DEF Visits
  <2>2. w.queue = [k \in 1..1 |-> w.queue[k]] BY <1>2
  <2>3. \A k \in 1..1 : w.queue[k] \in Visits BY <2>1, <1>3
  <2>4. QED BY <2>2, <2>3
<1>5. WalkTyped(w)
  <2>1. IsInjective(w.docs) BY <1>3 DEF IsInjective
  <2>2. ToSet(w.docs) = {} BY <1>3 DEF ToSet
  <2>3. QED BY <1>3, <1>4, <2>1, <2>2 DEF WalkTyped
<1>6. InOrder(w)
  <2>1. \A k, l \in DOMAIN w.queue : k = 1 /\ l = 1 BY <1>3
  <2>2. QED BY <2>1, <1>3 DEF InOrder
<1>7. InReach(w, start, links)
  <2>1. \A k \in DOMAIN w.queue : w.queue[k].page = start /\ w.queue[k].depth = 0 BY <1>3
  <2>2. QED BY <2>1, StartWithin DEF InReach
<1>8. Levels(w, [q \in {} |-> 0], start, links)
  <2>1. Waits(w, start, 0) BY <1>3 DEF Waits
  <2>2. QED BY <2>1, <1>3 DEF Levels
<1>9. [q \in {} |-> 0] \in [w.seen -> 0..Depth] BY <1>3
<1>10. QED BY <1>5, <1>6, <1>7, <1>8, <1>9 DEF CrawlOk, w, start

(* Where nothing is left to fetch, everything in reach was fetched. *)
LEMMA NothingLeft ==
  ASSUME NEW start \in OwnHost, NEW links \in [Page -> SUBSET Page], NEW w,
         CrawlOk(w, start, links), Fetchable("url", w) = {}
  PROVE  IsInjective(w.docs) /\ ToSet(w.docs) = Within(Depth, start, links)
<1>1. WalkTyped(w) BY DEF CrawlOk
<1>2. PICK dep \in [w.seen -> 0..Depth] : Levels(w, dep, start, links) BY DEF CrawlOk
<1>3. Depth \in {0, 1, 2} /\ Depth \in Nat BY WalksAssumption
<1>4. \A k \in DOMAIN w.queue : w.queue[k].page \in OwnHost => w.queue[k].page \in w.seen
  BY DEF Fetchable
<1>5. ASSUME NEW q \in OwnHost, NEW m \in Nat, Waits(w, q, m)
      PROVE  q \in w.seen /\ dep[q] <= m
  <2>1. PICK k \in DOMAIN w.queue : w.queue[k].page = q /\ w.queue[k].depth <= m
    BY <1>5 DEF Waits
  <2>2. q \in w.seen BY <2>1, <1>4
  <2>3. dep[q] <= w.queue[k].depth BY <2>1, <2>2, <1>2 DEF Levels
  <2>4. w.queue[k].depth \in Nat /\ dep[q] \in Nat
    <3>1. w.queue[k] \in Visits BY <1>1 DEF WalkTyped
    <3>2. QED BY <3>1, <2>2, <1>3 DEF Visits
  <2>5. QED BY <2>1, <2>2, <2>3, <2>4
<1> DEFINE Known(m) == \A q \in Within(m, start, links) : q \in w.seen /\ dep[q] <= m
<1>6. Known(0)
  <2>1. start \in w.seen /\ dep[start] <= 0 BY <1>2, <1>5, <1>3 DEF Levels
  <2>2. QED BY <2>1, StartWithin
<1>7. ASSUME NEW m \in 0..Depth, m < Depth, Known(m) PROVE Known(m + 1)
  <2> SUFFICES ASSUME NEW q \in Within(m + 1, start, links)
               PROVE  q \in w.seen /\ dep[q] <= m + 1
    OBVIOUS
  <2>1. CASE q \in Within(m, start, links)
    <3>1. q \in w.seen /\ dep[q] <= m BY <2>1, <1>7
    <3>2. dep[q] \in 0..Depth BY <3>1
    <3>3. QED BY <3>1, <3>2, <1>3
  <2>2. CASE q \notin Within(m, start, links)
    <3>1. q \in OwnHost /\ \E p \in Within(m, start, links) \cap Html : q \in links[p]
      BY <2>2, <1>7, WithinStep
    <3>2. PICK p \in Within(m, start, links) \cap Html : q \in links[p] BY <3>1
    <3>3. p \in w.seen \cap Html /\ dep[p] <= m BY <3>2, <1>7
    <3>4. dep[p] \in 0..Depth BY <3>3
    <3>5. dep[p] < Depth /\ dep[p] + 1 \in Nat /\ dep[p] + 1 <= m + 1 BY <3>3, <3>4, <1>3, <1>7
    <3>6. (q \in w.seen /\ dep[q] <= dep[p] + 1) \/ Waits(w, q, dep[p] + 1)
      BY <3>1, <3>2, <3>3, <3>5, <1>2 DEF Levels
    <3>7. q \in w.seen /\ dep[q] <= dep[p] + 1 BY <3>1, <3>5, <3>6, <1>5
    <3>8. dep[q] \in 0..Depth BY <3>7
    <3>9. QED BY <3>4, <3>5, <3>7, <3>8, <1>3
  <2>3. QED BY <2>1, <2>2
<1>8. Known(Depth)
  <2> HIDE DEF Known
  <2>1. Depth >= 1 => Known(1)
    <3>1. SUFFICES ASSUME Depth >= 1 PROVE Known(1) OBVIOUS
    <3>2. 0 \in 0..Depth /\ 0 < Depth /\ 0 + 1 = 1 BY <3>1, <1>3
    <3>3. Known(0 + 1) BY <3>2, <1>6, <1>7
    <3>4. QED BY <3>2, <3>3
  <2>2. Depth = 2 => Known(2)
    <3>1. SUFFICES ASSUME Depth = 2 PROVE Known(2) OBVIOUS
    <3>2. 1 \in 0..Depth /\ 1 < Depth /\ 1 + 1 = 2 BY <3>1
    <3>3. Known(1) BY <2>1, <3>1
    <3>4. Known(1 + 1) BY <3>2, <3>3, <1>7
    <3>5. QED BY <3>2, <3>4
  <2>3. QED BY <1>3, <1>6, <2>1, <2>2
<1>9. w.seen \subseteq Within(Depth, start, links)
  <2> SUFFICES ASSUME NEW q \in w.seen PROVE q \in Within(Depth, start, links) OBVIOUS
  <2>1. dep[q] \in 0..Depth /\ q \in Within(dep[q], start, links) BY <1>2 DEF Levels
  <2>2. QED BY <2>1, WithinMore
<1>10. w.seen = Within(Depth, start, links) BY <1>8, <1>9
<1>11. QED BY <1>1, <1>10 DEF WalkTyped

(* Every crawl under way on a site as it was when the crawl began is in order. *)
CrawlInv ==
  \A p \in Process :
    At(p, "walk") /\ jobs[p].row.kind = "url" /\ jobs[p].since = count.changes =>
      CrawlOk(jobs[p].walk, StartOf[jobs[p].row.location], site.links)

(* A crawl under way stays one in order as long as the site does. *)
LEMMA OtherCrawls ==
  ASSUME SourceInv, CrawlInv, NEW p \in Process, NEW j, Go(p, j),
         site' = site, count'.changes = count.changes,
         j.at = "walk" /\ j.row.kind = "url" /\ j.since = count.changes =>
           CrawlOk(j.walk, StartOf[j.row.location], site.links)
  PROVE  CrawlInv'
<1>1. ASSUME NEW q \in Process, jobs'[q].at = "walk", jobs'[q].row.kind = "url",
             jobs'[q].since = count.changes
      PROVE  CrawlOk(jobs'[q].walk, StartOf[jobs'[q].row.location], site.links)
  <2>1. CASE q = p BY <2>1, <1>1, OneJob DEF SourceInv
  <2>2. CASE q # p
    <3>1. jobs'[q] = jobs[q] BY <2>2, OneJob DEF SourceInv
    <3>2. QED BY <3>1, <1>1 DEF CrawlInv, At
  <2>3. QED BY <2>1, <2>2
<1>2. site'.links = site.links OBVIOUS
<1>3. QED BY <1>1, <1>2 DEF CrawlInv, At

LEMMA NoCrawl ==
  ASSUME SourceInv, CrawlInv, NEW p \in Process, NEW j, Go(p, j), j.at # "walk",
         site' = site, count'.changes = count.changes
  PROVE  CrawlInv'
  BY OtherCrawls

LEMMA JobsUnchanged ==
  ASSUME CrawlInv, UNCHANGED <<jobs, site>>, count'.changes = count.changes
  PROVE  CrawlInv'
<1>1. site'.links = site.links /\ \A p \in Process : jobs'[p] = jobs[p] OBVIOUS
<1>2. QED BY <1>1 DEF CrawlInv, At

LEMMA CrawlFinishes ==
  ASSUME SourceInv, CrawlInv, NEW p \in Process, Finish(p), site' = site,
         count'.changes = count.changes
  PROVE  CrawlInv'
<1>1. Go(p, Idle) BY DEF Finish
<1>2. Idle.at # "walk" BY DEF Idle
<1>3. QED BY <1>1, <1>2, NoCrawl

LEMMA CrawlInit == Init => CrawlInv
  BY IdleIsOk DEF Init, CrawlInv, At

LEMMA SiteIs ==
  ASSUME SourceInv
  PROVE  site.links \in [Page -> SUBSET Page]
  BY ConnectorsAssumption DEF SourceInv, Fields, Site

LEMMA BeginCrawls ==
  ASSUME SourceInv, CrawlInv, NEW p \in Process, Begin(p)
  PROVE  CrawlInv'
<1> DEFINE w == FirstVisits(jobs[p].row.kind, jobs[p].row.location, site)
           j == [jobs[p] EXCEPT !.at = "walk", !.walk = w, !.since = count.changes]
<1>1. At(p, "begin") /\ site' = site /\ count' = count BY DEF Begin
<1>2. Go(p, j) \/ Finish(p) BY DEF Begin
<1>3. /\ jobs[p].row \in Row
      /\ jobs[p] = [at |-> jobs[p].at, purpose |-> jobs[p].purpose, request |-> jobs[p].request,
                    row |-> jobs[p].row, credential |-> jobs[p].credential,
                    walk |-> jobs[p].walk, since |-> jobs[p].since]
  BY <1>1 DEF SourceInv, JobsInv, JobOk, At, SyncSteps
<1>4. jobs[p].row.location \in Location BY <1>3 DEF Row
<1>5. jobs[p].row.kind = "url" => w = CrawlStart(jobs[p].row.location)
  BY DEF FirstVisits
<1> HIDE DEF w
<1>6. j.walk = w /\ j.row = jobs[p].row
  <2> DEFINE k == [jobs[p] EXCEPT !.at = "walk"]
             l == [k EXCEPT !.walk = w]
  <2>1. j = [l EXCEPT !.since = count.changes] OBVIOUS
  <2>2. k = [at |-> "walk", purpose |-> jobs[p].purpose, request |-> jobs[p].request,
             row |-> jobs[p].row, credential |-> jobs[p].credential, walk |-> jobs[p].walk,
             since |-> jobs[p].since]
    BY <1>3
  <2> HIDE DEF j, k
  <2>3. l = [at |-> "walk", purpose |-> jobs[p].purpose, request |-> jobs[p].request,
             row |-> jobs[p].row, credential |-> jobs[p].credential, walk |-> w,
             since |-> jobs[p].since]
    BY <2>2
  <2> HIDE DEF l
  <2>4. QED BY <2>1, <2>3
<1> HIDE DEF j
<1>7. j.row.kind = "url" => CrawlOk(j.walk, StartOf[j.row.location], site.links)
  BY <1>4, <1>5, <1>6, CrawlStartIsOk
<1>8. CASE Go(p, j) BY <1>1, <1>7, <1>8, OtherCrawls
<1>9. CASE Finish(p) BY <1>1, <1>9, CrawlFinishes
<1>10. QED BY <1>2, <1>8, <1>9

LEMMA FetchPageCrawls ==
  ASSUME SourceInv, CrawlInv, NEW p \in Process, FetchPage(p)
  PROVE  CrawlInv'
<1> DEFINE w == Fetched(jobs[p].row.kind, jobs[p].walk, site.links)
           j == [jobs[p] EXCEPT !.walk = w]
<1>1. /\ At(p, "walk") /\ site' = site /\ count' = count
      /\ ~WalkEnds(jobs[p].row.kind, jobs[p].walk)
  BY DEF FetchPage
<1>2. Go(p, j) \/ Finish(p) BY DEF FetchPage
<1>3. /\ jobs[p].row \in Row
      /\ jobs[p] = [at |-> jobs[p].at, purpose |-> jobs[p].purpose, request |-> jobs[p].request,
                    row |-> jobs[p].row, credential |-> jobs[p].credential,
                    walk |-> jobs[p].walk, since |-> jobs[p].since]
  BY <1>1 DEF SourceInv, JobsInv, JobOk, At, SyncSteps
<1> HIDE DEF w
<1>4. j.walk = w /\ j.row = jobs[p].row /\ j.since = jobs[p].since BY <1>3
<1> HIDE DEF j
<1>5. j.row.kind = "url" /\ j.since = count.changes =>
        CrawlOk(j.walk, StartOf[j.row.location], site.links)
  <2> SUFFICES ASSUME jobs[p].row.kind = "url", jobs[p].since = count.changes
               PROVE  CrawlOk(w, StartOf[jobs[p].row.location], site.links)
    BY <1>4
  <2>1. CrawlOk(jobs[p].walk, StartOf[jobs[p].row.location], site.links)
    BY <1>1 DEF CrawlInv
  <2>2. StartOf[jobs[p].row.location] \in OwnHost BY <1>3, ConnectorsAssumption DEF Row
  <2>3. Fetchable("url", jobs[p].walk) # {} BY <1>1 DEF WalkEnds
  <2>4. w = Fetched("url", jobs[p].walk, site.links) BY DEF w
  <2>5. QED BY <2>1, <2>2, <2>3, <2>4, SiteIs, FetchedIsOk
<1>6. CASE Go(p, j) BY <1>1, <1>5, <1>6, OtherCrawls
<1>7. CASE Finish(p) BY <1>1, <1>7, CrawlFinishes
<1>8. QED BY <1>2, <1>6, <1>7

(* What the steps of a process that are no part of a walk leave it doing.             *)
LEMMA WorkJobs ==
  ASSUME SourceInv, NEW p \in Process,
         \/ ReadSource(p) \/ Credentials(p) \/ ResolveToken(p) \/ ShowPreview(p)
         \/ IngestDocument(p)
  PROVE  \E j : Go(p, j) /\ j.at \notin {"walk", "show"}
<1>1. Idle.at = "idle" BY DEF Idle
<1>2. CASE ReadSource(p)
  <2> DEFINE j == [at |-> "credential", purpose |-> jobs[p].purpose, request |-> jobs[p].request,
                   row |-> row, credential |-> Nothing,
                   walk |-> CrawlStart(row.location), since |-> count.changes]
  <2>1. Go(p, j) BY <1>2 DEF ReadSource
  <2>2. j.at = "credential" OBVIOUS
  <2> HIDE DEF j
  <2>3. QED BY <2>1, <2>2
<1>3. ASSUME NEW a \in SyncSteps, At(p, a)
      PROVE  \A b : [jobs[p] EXCEPT !.at = b].at = b
  BY <1>3 DEF SourceInv, JobsInv, JobOk, At
<1>4. CASE Credentials(p)
  <2> DEFINE at == IF jobs[p].row.kind = "google_drive" /\ jobs[p].purpose = "sync"
                   THEN "token" ELSE "begin"
             cred == IF jobs[p].row.credentialRef THEN secret ELSE Nothing
             k == [jobs[p] EXCEPT !.at = at]
             j == [k EXCEPT !.credential = cred]
  <2>1. At(p, "credential") /\ Go(p, j) BY <1>4 DEF Credentials
  <2>2. at \in {"token", "begin"} OBVIOUS
  <2> HIDE DEF at, cred
  <2>3. k.at = at BY <2>1, <1>3 DEF SyncSteps
  <2> HIDE DEF k
  <2>4. j.at = at BY <2>3
  <2> HIDE DEF j
  <2>5. QED BY <2>1, <2>2, <2>4
<1>5. CASE ResolveToken(p)
  <2> DEFINE j == [jobs[p] EXCEPT !.at = "begin"]
  <2>1. At(p, "token") /\ (Go(p, j) \/ Finish(p)) BY <1>5 DEF ResolveToken
  <2>2. j.at = "begin" BY <2>1, <1>3 DEF SyncSteps
  <2> HIDE DEF j
  <2>3. QED BY <2>1, <2>2, <1>1 DEF Finish
<1>6. CASE ShowPreview(p) BY <1>1, <1>6 DEF ShowPreview, Finish
<1>7. CASE IngestDocument(p)
  <2> DEFINE j == [jobs[p] EXCEPT !.walk.docs = Tail(jobs[p].walk.docs)]
  <2>1. At(p, "ingest") /\ (Go(p, j) \/ Finish(p)) BY <1>7 DEF IngestDocument
  <2>2. j.at = "ingest" BY <2>1 DEF At
  <2> HIDE DEF j
  <2>3. QED BY <2>1, <2>2, <1>1 DEF Finish
<1>8. QED BY <1>2, <1>4, <1>5, <1>6, <1>7

(* Nor does a request begin with a walk, or with a preview to show.                   *)
LEMMA ServerJobs ==
  ASSUME SourceInv, NEW s \in Server,
         \/ Save(s) \/ Connect(s)
         \/ \E r \in Requested : RequestSync(s, r)
         \/ \E k \in Profile : RequestPreview(s, k)
  PROVE  /\ site' = site /\ count'.changes = count.changes
         /\ UNCHANGED jobs \/ \E j : Go(s, j) /\ j.at \notin {"walk", "show"}
<1>1. s \in Process BY DEF Process
<1>2. site' = site /\ count'.changes = count.changes
  BY DEF Save, Upsert, StoreCredentials, InsertRow, MirrorSchedule, Connect, OAuthCallback,
         ExchangeCode, RecordConnection, RequestSync, RequestPreview, Counted, SourceInv, Fields
<1>3. Idle.at \notin {"walk", "show"} BY DEF Idle
<1>4. CASE \E b \in Bodies : Upsert(s, b) BY <1>2, <1>4 DEF Upsert
<1>5. CASE StoreCredentials(s) \/ InsertRow(s)
  <2>1. At(s, "store") \/ At(s, "insert") BY <1>5 DEF StoreCredentials, InsertRow
  <2>2. jobs[s] \in [at : SaveSteps, body : Bodies, row : Row]
    BY <1>1, <2>1 DEF SourceInv, JobsInv, JobOk, At, SaveSteps
  <2>3. [jobs[s] EXCEPT !.at = "insert"].at = "insert" /\ [jobs[s] EXCEPT !.at = "mirror"].at = "mirror"
    BY <2>2
  <2>4. QED BY <1>2, <1>5, <2>3 DEF StoreCredentials, InsertRow
<1>6. CASE MirrorSchedule(s) \/ RecordConnection(s)
  BY <1>2, <1>3, <1>6 DEF MirrorSchedule, RecordConnection
<1>7. CASE \E c \in Connection : OAuthCallback(s, c) BY <1>2, <1>7 DEF OAuthCallback
<1>8. CASE ExchangeCode(s)
  <2>1. At(s, "keep_token") BY <1>8 DEF ExchangeCode
  <2>2. jobs[s] \in [at : {"keep_token", "record"}, connection : Connection]
    BY <1>1, <2>1 DEF SourceInv, JobsInv, JobOk, At
  <2>3. [jobs[s] EXCEPT !.at = "record"].at = "record" BY <2>2
  <2>4. QED BY <1>2, <1>3, <1>8, <2>3 DEF ExchangeCode
<1>9. CASE \/ \E r \in Requested : RequestSync(s, r)
           \/ \E k \in Profile : RequestPreview(s, k)
  <2>1. UNCHANGED jobs \/ \E a, b : Go(s, Start(a, b)) BY <1>9 DEF RequestSync, RequestPreview
  <2>2. \A a, b : Start(a, b).at = "source" BY DEF Start
  <2>3. QED BY <1>2, <2>1, <2>2
<1>10. QED BY <1>2, <1>4, <1>5, <1>6, <1>7, <1>8, <1>9 DEF Save, Connect

LEMMA OtherWorkCrawls ==
  ASSUME SourceInv, CrawlInv, NEW p \in Process,
         \/ ReadSource(p) \/ Credentials(p) \/ ResolveToken(p) \/ WalkDone(p)
         \/ ShowPreview(p) \/ IngestDocument(p)
  PROVE  CrawlInv'
<1>1. site' = site /\ count' = count
  BY DEF ReadSource, Credentials, ResolveToken, WalkDone, ShowPreview, IngestDocument
<1>2. CASE WalkDone(p)
  <2> DEFINE j == [jobs[p] EXCEPT !.at = "ingest"]
             shown == PreviewOf(MergedProfile(ProfileOf[jobs[p].row.profile],
                                              ProfileOf[jobs[p].request]), SampleOf(jobs[p]))
             k == [at |-> "show", preview |-> shown]
  <2>1. At(p, "walk") /\ (Go(p, j) \/ Go(p, k) \/ Finish(p)) BY <1>2 DEF WalkDone
  <2>2. j.at = "ingest" BY <2>1 DEF SourceInv, JobsInv, JobOk, At, SyncSteps
  <2> HIDE DEF shown
  <2>3. k.at = "show" OBVIOUS
  <2> HIDE DEF j, k
  <2>4. QED BY <2>1, <2>2, <2>3, <1>1, NoCrawl, CrawlFinishes
<1>3. CASE ~WalkDone(p)
  <2>1. PICK j : Go(p, j) /\ j.at \notin {"walk", "show"} BY <1>3, WorkJobs
  <2>2. QED BY <2>1, <1>1, NoCrawl
<1>4. QED BY <1>2, <1>3

LEMMA ServerCrawls ==
  ASSUME SourceInv, CrawlInv, NEW s \in Server,
         \/ Save(s) \/ Connect(s)
         \/ \E r \in Requested : RequestSync(s, r)
         \/ \E k \in Profile : RequestPreview(s, k)
  PROVE  CrawlInv'
<1>1. s \in Process BY DEF Process
<1>2. QED BY <1>1, ServerJobs, NoCrawl, JobsUnchanged

LEMMA CrawlStep == SourceInv /\ CrawlInv /\ [Next]_vars => CrawlInv'
<1> SUFFICES ASSUME SourceInv, CrawlInv, [Next]_vars PROVE CrawlInv' OBVIOUS
<1>1. CASE UNCHANGED vars BY <1>1, JobsUnchanged DEF vars
<1>2. CASE TakeSync
  <2>1. Worker \in Process BY DEF Process
  <2>2. /\ Go(Worker, Start("sync", Head(queue))) /\ site' = site /\ count' = count
        /\ Start("sync", Head(queue)).at # "walk"
    BY <1>2 DEF TakeSync, Start
  <2>3. QED BY <2>1, <2>2, NoCrawl
<1>3. ASSUME NEW p \in Process, Restart(p) PROVE CrawlInv'
  <2>1. Go(p, Idle) /\ site' = site /\ count'.changes = count.changes
    BY <1>3 DEF Restart, Counted, SourceInv, Fields
  <2>2. Idle.at # "walk" BY DEF Idle
  <2>3. QED BY <2>1, <2>2, NoCrawl
<1>4. ASSUME NEW i, Approve(i) PROVE CrawlInv'
  BY <1>4, JobsUnchanged DEF Approve
<1>5. CASE SiteChanges
  <2>1. jobs' = jobs /\ count'.changes = count.changes + 1 /\ count.changes \in Nat
    BY <1>5 DEF SiteChanges, Counted, SourceInv, Fields
  <2>2. ASSUME NEW p \in Process, jobs[p].at = "walk"
        PROVE  jobs[p].since # count'.changes
    <3>1. jobs[p].since \in Nat /\ jobs[p].since <= count.changes
      BY <2>2 DEF SourceInv, JobsInv, JobOk, SyncSteps
    <3>2. QED BY <3>1, <2>1
  <2>3. QED BY <2>1, <2>2 DEF CrawlInv, At
<1>6. ASSUME NEW p \in Process, Work(p) PROVE CrawlInv'
  BY <1>6, BeginCrawls, FetchPageCrawls, OtherWorkCrawls DEF Work
<1>7. QED BY <1>1, <1>2, <1>3, <1>4, <1>5, <1>6, ServerCrawls DEF Next

LEMMA CrawlInvMeans == SourceInv /\ CrawlInv => CrawlIsComplete
<1> SUFFICES ASSUME SourceInv, CrawlInv, NEW p \in Process, At(p, "walk"),
                    jobs[p].row.kind = "url", jobs[p].since = count.changes,
                    WalkEnds("url", jobs[p].walk), Len(jobs[p].walk.docs) < Limit
             PROVE  /\ IsInjective(jobs[p].walk.docs)
                    /\ ToSet(jobs[p].walk.docs) = Reached(site, StartOf[jobs[p].row.location])
  BY DEF CrawlIsComplete
<1>1. CrawlOk(jobs[p].walk, StartOf[jobs[p].row.location], site.links) BY DEF CrawlInv
<1>2. jobs[p].row \in Row BY DEF SourceInv, JobsInv, JobOk, At, SyncSteps
<1>3. StartOf[jobs[p].row.location] \in OwnHost BY <1>2, ConnectorsAssumption DEF Row
<1>4. Fetchable("url", jobs[p].walk) = {}
  <2>1. Len(jobs[p].walk.docs) \in Nat /\ Limit \in Nat
    BY <1>1, WalksAssumption DEF CrawlOk, WalkTyped
  <2>2. QED BY <2>1 DEF WalkEnds
<1>5. QED BY <1>1, <1>3, <1>4, SiteIs, NothingLeft, ReachedIs

(* A crawl of a site that does not change meanwhile, not cut by the limit, fetches     *)
(* exactly the pages of the host within crawl_depth clicks, each once, whatever the    *)
(* links, the order they are followed in, and the requests that run beside it.         *)
THEOREM CrawlCompletes == Spec => []CrawlIsComplete
  BY SourceInit, SourceStep, CrawlInit, CrawlStep, CrawlInvMeans, PTL DEF Spec

------------------------------------------------------------------------------
LEMMA MaxIs ==
  ASSUME NEW n \in Nat, NEW T \in SUBSET (1..n), T # {}
  PROVE  Max(T) \in T /\ \A y \in T : y <= Max(T)
<1> DEFINE U == {n - y : y \in T}
<1>1. U \in SUBSET Nat /\ U # {}
  <2>1. \A y \in T : n - y \in Nat OBVIOUS
  <2>2. PICK y \in T : TRUE OBVIOUS
  <2>3. n - y \in U BY <2>2
  <2>4. QED BY <2>1, <2>3
<1>2. PICK u \in U : \A v \in U : u <= v
  <2> HIDE DEF U
  <2>1. QED BY <1>1, Least
<1>3. PICK x \in T : u = n - x BY <1>2
<1>4. ASSUME NEW y \in T PROVE y <= x
  <2>1. n - y \in U /\ x \in Nat /\ y \in Nat OBVIOUS
  <2>2. n - x <= n - y BY <2>1, <1>2, <1>3
  <2>3. QED BY <2>1, <2>2
<1>5. QED BY <1>4 DEF Max

(* The members a list names of a set are found, and come from the list.               *)
AmongStep(f, s, S, n) ==
  IF n = 0 THEN <<>> ELSE IF s[n] \in S THEN Append(f[n - 1], s[n]) ELSE f[n - 1]
UpTo(f, s, S, m) == f = [n \in 0..m |-> AmongStep(f, s, S, n)]

LEMMA UpToExtends ==
  ASSUME NEW s, NEW S, NEW m \in Nat, NEW f, UpTo(f, s, S, m)
  PROVE  \E g : UpTo(g, s, S, m + 1)
<1> DEFINE g == [n \in 0..(m + 1) |-> IF n <= m THEN f[n] ELSE AmongStep(f, s, S, n)]
<1>1. \A n \in 0..m : f[n] = AmongStep(f, s, S, n) BY DEF UpTo
<1>2. ASSUME NEW n \in 0..(m + 1)
      PROVE  g[n] = AmongStep(g, s, S, n)
  <2>1. g[n] = AmongStep(f, s, S, n) BY <1>1
  <2>2. n # 0 => g[n - 1] = f[n - 1] OBVIOUS
  <2> HIDE DEF g
  <2>3. QED BY <2>1, <2>2 DEF AmongStep
<1>3. g = [n \in 0..(m + 1) |-> g[n]] OBVIOUS
<1> HIDE DEF g
<1>4. QED BY <1>2, <1>3 DEF UpTo

LEMMA UpToExists ==
  ASSUME NEW s, NEW S, NEW m \in Nat
  PROVE  \E f : UpTo(f, s, S, m)
<1> DEFINE T == {n \in Nat : ~\E f : UpTo(f, s, S, n)}
<1>1. SUFFICES ASSUME T # {} PROVE FALSE OBVIOUS
<1>2. PICK n \in T : \A k \in T : n <= k
  <2>1. T \in SUBSET Nat OBVIOUS
  <2> HIDE DEF T
  <2>2. QED BY <2>1, <1>1, Least
<1>3. n \in Nat /\ ~\E f : UpTo(f, s, S, n) OBVIOUS
<1>4. CASE n = 0
  <2> DEFINE g == [k \in 0..0 |-> <<>>]
  <2>1. \A k \in 0..0 : AmongStep(g, s, S, k) = <<>> BY DEF AmongStep
  <2>2. UpTo(g, s, S, 0) BY <2>1 DEF UpTo
  <2>3. QED BY <2>2, <1>3, <1>4
<1>5. CASE n # 0
  <2>1. n - 1 \in Nat /\ ~(n <= n - 1) /\ n - 1 + 1 = n BY <1>3, <1>5
  <2>2. n - 1 \notin T BY <2>1, <1>2
  <2>3. PICK f : UpTo(f, s, S, n - 1) BY <2>1, <2>2
  <2> HIDE DEF T
  <2>4. \E g : UpTo(g, s, S, n - 1 + 1) BY <2>1, <2>3, UpToExtends
  <2>5. QED BY <2>1, <2>4, <1>3
<1>6. QED BY <1>4, <1>5

LEMMA AmongTyped ==
  ASSUME NEW A, NEW s \in Seq(A), NEW S
  PROVE  Among(s, S) \in Seq(A)
<1> DEFINE m == Len(s)
           f == CHOOSE g : UpTo(g, s, S, m)
<1>1. m \in Nat /\ \A n \in 1..m : s[n] \in A OBVIOUS
<1>2. UpTo(f, s, S, m) BY <1>1, UpToExists
<1>3. Among(s, S) = f[m]
  <2>1. f = CHOOSE g : g = [n \in 0..Len(s) |->
                 IF n = 0 THEN <<>>
                 ELSE IF s[n] \in S THEN Append(g[n - 1], s[n]) ELSE g[n - 1]]
    BY Zenon DEF UpTo, AmongStep
  <2> HIDE DEF f
  <2>2. QED BY <2>1 DEF Among
<1> HIDE DEF f, m
<1>4. \A n \in 0..m : f[n] = AmongStep(f, s, S, n) BY <1>2 DEF UpTo
<1> DEFINE T == {n \in 0..m : f[n] \notin Seq(A)}
<1>5. SUFFICES ASSUME T # {} PROVE FALSE
  <2>1. m \in 0..m BY <1>1
  <2>2. QED BY <2>1, <1>3
<1>6. PICK n \in T : \A k \in T : n <= k
  <2>1. T \in SUBSET Nat OBVIOUS
  <2> HIDE DEF T
  <2>2. QED BY <2>1, <1>5, Least
<1>7. n \in 0..m /\ f[n] \notin Seq(A) /\ f[n] = AmongStep(f, s, S, n) BY <1>4
<1>8. n # 0
  <2>1. 0 \in 0..m BY <1>1
  <2>2. f[0] = AmongStep(f, s, S, 0) BY <2>1, <1>4
  <2>3. AmongStep(f, s, S, 0) = <<>> BY DEF AmongStep
  <2>4. f[0] = <<>> /\ <<>> \in Seq(A) BY <2>2, <2>3
  <2>5. f[n] \notin Seq(A) BY <1>7
  <2>6. QED BY <2>4, <2>5
<1>9. n - 1 \in 0..m /\ ~(n <= n - 1) /\ n \in 1..m BY <1>1, <1>7, <1>8
<1>10. f[n - 1] \in Seq(A) BY <1>6, <1>9
<1>11. s[n] \in A BY <1>1, <1>9
<1>12. Append(f[n - 1], s[n]) \in Seq(A) BY <1>10, <1>11
<1>13. QED BY <1>7, <1>8, <1>10, <1>12 DEF AmongStep

(* Whatever the kind of the source, a walk is of pages.                               *)
PageVisits == [page : Page, depth : Nat]
PageWalk(w) == w.queue \in Seq(PageVisits) /\ w.docs \in Seq(Page)

LEMMA FirstTyped ==
  ASSUME NEW A, NEW s \in Seq(A), NEW n \in Nat
  PROVE  FirstOf(n, s) \in Seq(A)
<1> DEFINE m == IF Len(s) < n THEN Len(s) ELSE n
<1>1. m \in Nat /\ m <= Len(s) OBVIOUS
<1>2. FirstOf(n, s) = SubSeq(s, 1, m) BY DEF FirstOf
<1> HIDE DEF m
<1>3. SubSeq(s, 1, m) \in Seq(A) BY <1>1
<1>4. QED BY <1>2, <1>3

LEMMA ListingTyped ==
  ASSUME NEW v \in Seq(Page), NEW d \in Seq(Page)
  PROVE  PageWalk(Listing(v, d))
<1> DEFINE q == [i \in DOMAIN v |-> [page |-> v[i], depth |-> 0]]
<1>1. Listing(v, d) = [queue |-> q, seen |-> {}, docs |-> d] BY DEF Listing
<1>2. DOMAIN v = 1..Len(v) /\ Len(v) \in Nat OBVIOUS
<1>3. \A i \in 1..Len(v) : [page |-> v[i], depth |-> 0] \in PageVisits BY DEF PageVisits
<1>4. q \in Seq(PageVisits) BY <1>2, <1>3
<1> HIDE DEF q
<1>5. QED BY <1>1, <1>4 DEF PageWalk

LEMMA FirstVisitsTyped ==
  ASSUME NEW kind \in Kind, NEW location \in Location, NEW s
  PROVE  PageWalk(FirstVisits(kind, location, s))
<1> DEFINE present == Present(location, s)
           limited == FirstOf(4 * Limit, present)
<1>1. Limit \in Nat /\ 4 * Limit \in Nat BY WalksAssumption
<1>2. StartOf[location] \in Page /\ FilesOf[location] \in Seq(Page)
  BY WalksAssumption, ConnectorsAssumption
<1>3. present \in Seq(Page) BY <1>2, AmongTyped DEF Present
<1> HIDE DEF present
<1>4. limited \in Seq(Page) BY <1>1, <1>3, FirstTyped
<1> HIDE DEF limited
<1>5. /\ Among(limited, Parseable) \in Seq(Page)
      /\ Among(present, Parseable) \in Seq(Page)
  BY <1>3, <1>4, AmongTyped
<1>6. /\ FirstOf(Limit, Among(limited, Parseable)) \in Seq(Page)
      /\ FirstOf(Limit, Among(present, Parseable)) \in Seq(Page)
      /\ FirstOf(Limit, present) \in Seq(Page)
  BY <1>1, <1>3, <1>5, FirstTyped
<1>7. <<StartOf[location]>> \in Seq(Page) /\ <<>> \in Seq(Page) BY <1>2
<1>8. /\ PageWalk(CrawlStart(location)) /\ PageWalk(TableStart(location))
      /\ PageWalk(RecordsStart(location))
  BY <1>7, ListingTyped DEF CrawlStart, TableStart, RecordsStart
<1>9. /\ PageWalk(BucketStart(location, s)) /\ PageWalk(BoxStart(location, s))
      /\ PageWalk(DriveStart(location, s)) /\ PageWalk(NotionStart(location, s))
      /\ PageWalk(ConfluenceStart(location, s))
  BY <1>6, <1>7, ListingTyped
     DEF BucketStart, BoxStart, DriveStart, NotionStart, ConfluenceStart, present, limited
<1>10. CASE kind \in {"url", "db", "kintone"} BY <1>8, <1>10 DEF FirstVisits
<1>11. CASE kind \in {"s3", "box", "google_drive", "notion", "confluence"}
  BY <1>9, <1>11 DEF FirstVisits
<1>12. QED BY <1>10, <1>11 DEF Kind

LEMMA FetchedTyped ==
  ASSUME NEW kind, NEW links \in [Page -> SUBSET Page], NEW w, PageWalk(w),
         Fetchable(kind, w) # {}
  PROVE  PageWalk(Fetched(kind, w, links))
<1> DEFINE i == NextVisit(kind, w)
           pg == w.queue[i].page
           n == w.queue[i].depth
           rest == SubSeq(w.queue, i + 1, Len(w.queue))
           more == links[pg] \ (w.seen \cup {pg})
           followed == IF kind = "url" /\ n < Depth /\ pg \in Html
                       THEN SetToSeq(more) ELSE <<>>
           visits == [k \in DOMAIN followed |-> [page |-> followed[k], depth |-> n + 1]]
           v == Fetched(kind, w, links)
<1>1. /\ w.queue \in Seq(PageVisits) /\ w.docs \in Seq(Page)
      /\ DOMAIN w.queue = 1..Len(w.queue) /\ Len(w.queue) \in Nat
  BY DEF PageWalk
<1>2. i \in 1..Len(w.queue)
  <2> DEFINE T == Fetchable(kind, w)
  <2>1. T \subseteq 1..Len(w.queue) BY <1>1 DEF Fetchable
  <2>2. T \in SUBSET Nat BY <2>1
  <2>3. i = Min(T) BY DEF NextVisit
  <2> HIDE DEF T, i
  <2>4. i \in T BY <2>2, <2>3, MinIs DEF T
  <2>5. QED BY <2>1, <2>4
<1>3. /\ v.queue = rest \o visits /\ v.docs = Append(w.docs, pg) BY DEF Fetched
<1> HIDE DEF i, v
<1>4. pg \in Page /\ n \in Nat
  <2>1. w.queue[i] \in PageVisits BY <1>1, <1>2
  <2>2. QED BY <2>1 DEF PageVisits
<1>5. rest \in Seq(PageVisits) BY <1>1, <1>2
<1>6. followed \in Seq(Page)
  <2>1. more \subseteq Page BY <1>4
  <2> HIDE DEF more
  <2>2. IsFiniteSet(more) BY <2>1, FS_Subset, WalksAssumption
  <2>3. SetToSeq(more) \in Seq(more) BY <2>2, SetToSeqIs
  <2>4. SetToSeq(more) \in Seq(Page) BY <2>1, <2>3
  <2>5. QED BY <2>4
<1> HIDE DEF pg, n, rest, followed
<1>7. visits \in Seq(PageVisits)
  <2>1. DOMAIN followed = 1..Len(followed) /\ Len(followed) \in Nat BY <1>6
  <2>2. \A k \in 1..Len(followed) : [page |-> followed[k], depth |-> n + 1] \in PageVisits
    BY <1>4, <1>6 DEF PageVisits
  <2>3. QED BY <2>1, <2>2
<1> HIDE DEF visits
<1>8. rest \o visits \in Seq(PageVisits) BY <1>5, <1>7
<1>9. Append(w.docs, pg) \in Seq(Page) BY <1>1, <1>4
<1>10. QED BY <1>3, <1>8, <1>9 DEF PageWalk, v

(* The tables a preview is made of have their columns in a list.                      *)
Tabular(tables) == \A i \in DOMAIN tables : tables[i].columns \in Seq(Column)

LEMMA SampleIsTabular ==
  ASSUME NEW job, PageWalk(job.walk)
  PROVE  Tabular(SampleOf(job))
<1> DEFINE d == job.walk.docs
           t == SampleOf(job)
<1>1. d \in Seq(Page) BY DEF PageWalk
<1>2. \A i \in DOMAIN d : d[i] \in Page BY <1>1
<1>3. /\ DOMAIN t = DOMAIN d
      /\ \A i \in DOMAIN d : t[i] = IF job.row.kind \in HandsOver THEN TableOf[d[i]]
                                    ELSE [columns |-> <<>>, rows |-> <<>>]
  BY DEF SampleOf
<1> HIDE DEF t, d
<1>4. ASSUME NEW i \in DOMAIN d PROVE t[i].columns \in Seq(Column)
  <2>1. CASE job.row.kind \in HandsOver
    <3>1. t[i] = TableOf[d[i]] BY <2>1, <1>3
    <3>2. QED BY <3>1, <1>2, ConnectorsAssumption
  <2>2. CASE job.row.kind \notin HandsOver
    <3>1. t[i] = [columns |-> <<>>, rows |-> <<>>] BY <2>2, <1>3
    <3>2. QED BY <3>1
  <2>3. QED BY <2>1, <2>2
<1>5. QED BY <1>3, <1>4 DEF Tabular, t

(* A field a valid row has, and no default fills, is read from a cell that is filled. *)
LEMMA ValidRowReads ==
  ASSUME NEW columns \in Seq(Column), NEW cells, NEW mapping, NEW defaults, NEW required,
         ValidRow(NormalizedRow(columns, cells, mapping, defaults), required),
         NEW f \in required, f \notin DOMAIN defaults
  PROVE  \E c \in ToSet(columns) \cap DOMAIN mapping : mapping[c] = f /\ cells[c] # NoCell
<1> DEFINE norm == NormalizedRow(columns, cells, mapping, defaults)
           sources(g) == {i \in DOMAIN columns :
                            columns[i] \in DOMAIN mapping /\ mapping[columns[i]] = g}
           read(g) == IF sources(g) = {} THEN NoCell ELSE cells[columns[Max(sources(g))]]
           filled == {g \in Field : sources(g) # {}} \cup DOMAIN defaults
<1>1. norm = [g \in filled |->
                IF read(g) = NoCell /\ g \in DOMAIN defaults THEN defaults[g] ELSE read(g)]
  BY DEF NormalizedRow
<1>2. f \in DOMAIN norm /\ norm[f] # NoCell BY DEF ValidRow
<1>3. f \in filled /\ norm[f] = read(f)
  <2> HIDE DEF filled, read, norm
  <2>1. QED BY <1>1, <1>2
<1>4. sources(f) # {} BY <1>3
<1> DEFINE S == sources(f)
           x == Max(S)
<1>5. DOMAIN columns = 1..Len(columns) /\ Len(columns) \in Nat OBVIOUS
<1>6. S \in SUBSET (1..Len(columns)) BY <1>5
<1>7. x \in S
  <2> HIDE DEF S
  <2>1. QED BY <1>4, <1>5, <1>6, MaxIs DEF S
<1>8. cells[columns[x]] # NoCell
  <2>1. read(f) = cells[columns[x]] BY <1>4
  <2>2. QED BY <2>1, <1>2, <1>3
<1> HIDE DEF x
<1>9. columns[x] \in DOMAIN mapping /\ mapping[columns[x]] = f /\ x \in DOMAIN columns BY <1>7
<1>10. columns[x] \in ToSet(columns) BY <1>9 DEF ToSet
<1>11. QED BY <1>8, <1>9, <1>10

(* The rows a preview calls valid have every required field filled.                   *)
Filled(shown) ==
  \A x \in DOMAIN shown.rows, f \in shown.required :
    shown.rows[x].status = "valid" =>
      \/ f \in DOMAIN shown.defaults
      \/ \E c \in ToSet(shown.rows[x].columns) \cap DOMAIN shown.mapping :
           shown.mapping[c] = f /\ shown.rows[x].row[c] # NoCell

LEMMA PreviewIsFilled ==
  ASSUME NEW profile, NEW tables, Tabular(tables)
  PROVE  Filled(PreviewOf(profile, tables))
<1> DEFINE columns == UNION {ToSet(tables[i].columns) : i \in DOMAIN tables}
           type == ResolveProfileType(profile, columns,
                                      \E i \in DOMAIN tables : tables[i].columns = <<>>)
           mapping == SuggestMapping(profile, type, columns)
           defaults == [f \in DOMAIN profile.defaults \cap CanonicalFields[type] |->
                          profile.defaults[f]]
           required == RequiredFields(profile, type)
           positions == UNION {{i} \X DOMAIN tables[i].rows : i \in DOMAIN tables}
           before(x) == {y \in positions : y[1] < x[1] \/ (y[1] = x[1] /\ y[2] < x[2])}
           sample == {y \in positions : Cardinality(before(y)) < MaxRows}
           shownRow(of, cells) ==
             [columns |-> of, row |-> cells,
              status |-> IF ValidRow(NormalizedRow(of, cells, mapping, defaults), required)
                         THEN "valid" ELSE "needs_review"]
           rows == [x \in sample |-> shownRow(tables[x[1]].columns, tables[x[1]].rows[x[2]])]
           shown == PreviewOf(profile, tables)
<1>1. shown = [type |-> type, mapping |-> mapping, defaults |-> defaults,
               required |-> required, rows |-> rows]
  BY DEF PreviewOf
<1>2. sample \subseteq positions OBVIOUS
<1>3. \A x \in positions : x[1] \in DOMAIN tables OBVIOUS
<1> HIDE DEF columns, type, mapping, defaults, required, positions, sample
<1>4. ASSUME NEW x \in sample, NEW f \in required, rows[x].status = "valid",
             f \notin DOMAIN defaults
      PROVE  \E c \in ToSet(rows[x].columns) \cap DOMAIN mapping :
               mapping[c] = f /\ rows[x].row[c] # NoCell
  <2> DEFINE of == tables[x[1]].columns
             cells == tables[x[1]].rows[x[2]]
  <2>1. of \in Seq(Column) BY <1>2, <1>3 DEF Tabular
  <2>2. rows[x] = shownRow(of, cells) OBVIOUS
  <2> HIDE DEF of, cells, rows
  <2>3. /\ rows[x].columns = of /\ rows[x].row = cells
        /\ ValidRow(NormalizedRow(of, cells, mapping, defaults), required)
    BY <2>2, <1>4
  <2>4. QED BY <2>1, <2>3, <1>4, ValidRowReads
<1>5. DOMAIN rows = sample OBVIOUS
<1> HIDE DEF rows, shown
<1>6. /\ shown.rows = rows /\ shown.required = required /\ shown.mapping = mapping
      /\ shown.defaults = defaults
  BY <1>1
<1>7. QED BY <1>4, <1>5, <1>6 DEF Filled, shown

(* Every walk under way is of pages, and every preview shown has its valid rows       *)
(* filled.                                                                            *)
JobShows(j) == (j.at = "walk" => PageWalk(j.walk)) /\ (j.at = "show" => Filled(j.preview))
PreviewInv == \A p \in Process : JobShows(jobs[p])

LEMMA ShowsStay ==
  ASSUME SourceInv, PreviewInv, NEW p \in Process, NEW j, Go(p, j), JobShows(j)
  PROVE  PreviewInv'
<1>1. ASSUME NEW q \in Process PROVE JobShows(jobs'[q])
  <2>1. CASE q = p
    <3>1. jobs'[p] = j BY OneJob DEF SourceInv
    <3>2. QED BY <2>1, <3>1
  <2>2. CASE q # p
    <3>1. jobs'[q] = jobs[q] BY <2>2, OneJob DEF SourceInv
    <3>2. QED BY <3>1 DEF PreviewInv
  <2>3. QED BY <2>1, <2>2
<1>2. QED BY <1>1 DEF PreviewInv, JobShows

LEMMA NoShow ==
  ASSUME SourceInv, PreviewInv, NEW p \in Process, NEW j, Go(p, j),
         j.at \notin {"walk", "show"}
  PROVE  PreviewInv'
<1>1. JobShows(j) BY DEF JobShows
<1>2. QED BY <1>1, ShowsStay

LEMMA JobsShow == ASSUME PreviewInv, UNCHANGED jobs PROVE PreviewInv'
<1>1. \A p \in Process : jobs'[p] = jobs[p] OBVIOUS
<1>2. QED BY <1>1 DEF PreviewInv, JobShows

LEMMA FinishShows ==
  ASSUME SourceInv, PreviewInv, NEW p \in Process, Finish(p)
  PROVE  PreviewInv'
<1>1. Go(p, Idle) /\ Idle.at \notin {"walk", "show"} BY DEF Finish, Idle
<1>2. QED BY <1>1, NoShow

LEMMA BeginShows ==
  ASSUME SourceInv, PreviewInv, NEW p \in Process, Begin(p)
  PROVE  PreviewInv'
<1> DEFINE w == FirstVisits(jobs[p].row.kind, jobs[p].row.location, site)
           j == [jobs[p] EXCEPT !.at = "walk", !.walk = w, !.since = count.changes]
<1>1. At(p, "begin") BY DEF Begin
<1>2. Go(p, j) \/ Finish(p) BY DEF Begin
<1>3. /\ jobs[p].row \in Row
      /\ jobs[p] = [at |-> jobs[p].at, purpose |-> jobs[p].purpose, request |-> jobs[p].request,
                    row |-> jobs[p].row, credential |-> jobs[p].credential,
                    walk |-> jobs[p].walk, since |-> jobs[p].since]
  BY <1>1 DEF SourceInv, JobsInv, JobOk, At, SyncSteps
<1>4. PageWalk(w)
  <2>1. jobs[p].row.kind \in Kind /\ jobs[p].row.location \in Location BY <1>3 DEF Row
  <2>2. QED BY <2>1, FirstVisitsTyped
<1> HIDE DEF w
<1>5. j.walk = w /\ j.at = "walk"
  <2> DEFINE k == [jobs[p] EXCEPT !.at = "walk"]
             l == [k EXCEPT !.walk = w]
  <2>1. j = [l EXCEPT !.since = count.changes] OBVIOUS
  <2>2. k = [at |-> "walk", purpose |-> jobs[p].purpose, request |-> jobs[p].request,
             row |-> jobs[p].row, credential |-> jobs[p].credential, walk |-> jobs[p].walk,
             since |-> jobs[p].since]
    BY <1>3
  <2> HIDE DEF j, k
  <2>3. l = [at |-> "walk", purpose |-> jobs[p].purpose, request |-> jobs[p].request,
             row |-> jobs[p].row, credential |-> jobs[p].credential, walk |-> w,
             since |-> jobs[p].since]
    BY <2>2
  <2> HIDE DEF l
  <2>4. QED BY <2>1, <2>3
<1> HIDE DEF j
<1>6. JobShows(j) BY <1>4, <1>5 DEF JobShows
<1>7. QED BY <1>2, <1>6, ShowsStay, FinishShows

LEMMA FetchPageShows ==
  ASSUME SourceInv, PreviewInv, NEW p \in Process, FetchPage(p)
  PROVE  PreviewInv'
<1> DEFINE w == Fetched(jobs[p].row.kind, jobs[p].walk, site.links)
           j == [jobs[p] EXCEPT !.walk = w]
<1>1. At(p, "walk") /\ ~WalkEnds(jobs[p].row.kind, jobs[p].walk) BY DEF FetchPage
<1>2. Go(p, j) \/ Finish(p) BY DEF FetchPage
<1>3. jobs[p] = [at |-> "walk", purpose |-> jobs[p].purpose, request |-> jobs[p].request,
                 row |-> jobs[p].row, credential |-> jobs[p].credential,
                 walk |-> jobs[p].walk, since |-> jobs[p].since]
  BY <1>1 DEF SourceInv, JobsInv, JobOk, At, SyncSteps
<1>4. PageWalk(w)
  <2>1. PageWalk(jobs[p].walk) BY <1>1 DEF PreviewInv, JobShows, At
  <2>2. Fetchable(jobs[p].row.kind, jobs[p].walk) # {} BY <1>1 DEF WalkEnds
  <2>3. QED BY <2>1, <2>2, SiteIs, FetchedTyped
<1> HIDE DEF w
<1>5. j.walk = w /\ j.at = "walk" BY <1>3
<1> HIDE DEF j
<1>6. JobShows(j) BY <1>4, <1>5 DEF JobShows
<1>7. QED BY <1>2, <1>6, ShowsStay, FinishShows

LEMMA WalkDoneShows ==
  ASSUME SourceInv, PreviewInv, NEW p \in Process, WalkDone(p)
  PROVE  PreviewInv'
<1> DEFINE j == [jobs[p] EXCEPT !.at = "ingest"]
           prof == MergedProfile(ProfileOf[jobs[p].row.profile], ProfileOf[jobs[p].request])
           tables == SampleOf(jobs[p])
           shown == PreviewOf(prof, tables)
           k == [at |-> "show", preview |-> shown]
<1>1. At(p, "walk") /\ (Go(p, j) \/ Go(p, k) \/ Finish(p)) BY DEF WalkDone
<1>2. j.at = "ingest" BY <1>1 DEF SourceInv, JobsInv, JobOk, At, SyncSteps
<1>3. Filled(shown)
  <2>1. PageWalk(jobs[p].walk) BY <1>1 DEF PreviewInv, JobShows, At
  <2>2. Tabular(tables) BY <2>1, SampleIsTabular
  <2> HIDE DEF prof, tables
  <2>3. QED BY <2>2, PreviewIsFilled
<1> HIDE DEF shown
<1>4. k.at = "show" /\ k.preview = shown OBVIOUS
<1> HIDE DEF j, k
<1>5. JobShows(k) BY <1>3, <1>4 DEF JobShows
<1>6. CASE Go(p, j) BY <1>2, <1>6, NoShow
<1>7. CASE Go(p, k) BY <1>5, <1>7, ShowsStay
<1>8. QED BY <1>1, <1>6, <1>7, FinishShows

LEMMA PreviewInit == Init => PreviewInv
  BY IdleIsOk DEF Init, PreviewInv, JobShows, Idle

LEMMA PreviewStep == SourceInv /\ PreviewInv /\ [Next]_vars => PreviewInv'
<1> SUFFICES ASSUME SourceInv, PreviewInv, [Next]_vars PROVE PreviewInv' OBVIOUS
<1>1. CASE UNCHANGED vars BY <1>1, JobsShow DEF vars
<1>2. CASE TakeSync
  <2>1. Worker \in Process BY DEF Process
  <2>2. Go(Worker, Start("sync", Head(queue))) BY <1>2 DEF TakeSync
  <2>3. Start("sync", Head(queue)).at = "source" BY DEF Start
  <2>4. QED BY <2>1, <2>2, <2>3, NoShow
<1>3. ASSUME NEW p \in Process, Restart(p) PROVE PreviewInv'
  <2>1. Go(p, Idle) /\ Idle.at = "idle" BY <1>3 DEF Restart, Idle
  <2>2. QED BY <2>1, NoShow
<1>4. ASSUME NEW i, Approve(i) PROVE PreviewInv'
  BY <1>4, JobsShow DEF Approve
<1>5. CASE SiteChanges BY <1>5, JobsShow DEF SiteChanges
<1>6. ASSUME NEW p \in Process, Work(p) PROVE PreviewInv'
  <2>1. CASE Begin(p) \/ FetchPage(p) \/ WalkDone(p)
    BY <2>1, BeginShows, FetchPageShows, WalkDoneShows
  <2>2. CASE ReadSource(p) \/ Credentials(p) \/ ResolveToken(p) \/ ShowPreview(p) \/ IngestDocument(p)
    BY <2>2, WorkJobs, NoShow
  <2>3. QED BY <1>6, <2>1, <2>2 DEF Work
<1>7. ASSUME NEW s \in Server,
             \/ Save(s) \/ Connect(s)
             \/ \E r \in Requested : RequestSync(s, r)
             \/ \E k \in Profile : RequestPreview(s, k)
      PROVE  PreviewInv'
  <2>1. s \in Process BY DEF Process
  <2>2. QED BY <1>7, <2>1, ServerJobs, NoShow, JobsShow
<1>8. QED BY <1>1, <1>2, <1>3, <1>4, <1>5, <1>6, <1>7 DEF Next

(* A row a preview calls valid has every field required of it filled by the row or    *)
(* by a default, whatever the columns, the aliases two of them share, the profile     *)
(* saved and the one sent, the kind of the source and the requests beside it.         *)
THEOREM ValidRowsHaveFields == Spec => []ValidRowsAreFilled
<1>1. PreviewInv => ValidRowsAreFilled
  BY DEF PreviewInv, JobShows, Filled, ValidRowsAreFilled, At
<1>2. QED BY <1>1, SourceInit, SourceStep, PreviewInit, PreviewStep, PTL DEF Spec
================================================================================
