--------------------------- MODULE SourceConnectors ----------------------------
(* One data source of a tenant: answer servers save it, connect it to a Google    *)
(* account, preview it and request its sync; the ingest worker, or the server     *)
(* itself where there is no queue, walks it and stores what it fetched.  A        *)
(* process runs one request at a time, one statement or call per step.  What a    *)
(* connector makes of a source, a crawl, a listing or the rows of one table, and  *)
(* the preview of its columns come first; the site is outside the system and may  *)
(* change between two requests.                                                    *)
EXTENDS Integers, FiniteSets, SequencesExt

----
(* The onboarding preview of a data source: which profile its columns suggest,    *)
(* which canonical field each column fills, and which sample rows have every      *)
(* field that is required.  Nothing is indexed.                                   *)
CONSTANTS
  Column,        \* column headings
  Cell,          \* cell values that are not blank
  ExactField,    \* the field a heading is an alias of, or NoField
  PartialFields, \* the fields whose alias a heading contains, in the table's order
  MaxRows        \* sample_rows

NoField == "no field"
NoCell == ""

(* The vocabulary, and the part of it each profile admits. *)
Governance == {"document_kind", "approval_status", "effective_date", "acl_tags"}
MachineFields ==
  {"equipment_id", "factory_id", "line_id", "process_id", "alarm_code", "defect_type",
   "part_no"} \cup Governance
FaqFields == {"question", "answer"}
ManualFields ==
  {"document_id", "document_title", "document_version", "section", "heading", "body"}
Dated == {"owner_department", "published_at", "updated_at"}
Product == {"category", "product_id", "product_name"}

ProfileType == {"manufacturing", "faq", "manual", "generic"}
CanonicalFields ==
  [manufacturing |-> MachineFields,
   faq |-> FaqFields \cup Product \cup {"equipment_id", "factory_id"} \cup Dated \cup Governance,
   manual |-> ManualFields \cup Product \cup {"equipment_id", "factory_id", "line_id"}
              \cup Dated \cup Governance,
   generic |-> {"document_id", "document_title", "category", "body"} \cup Dated \cup Governance]
Field == UNION {CanonicalFields[t] : t \in ProfileType}

DefaultRequired ==
  [manufacturing |-> {"equipment_id"}, faq |-> FaqFields, manual |-> {}, generic |-> {}]

(* What an administrator configures; "auto" lets the columns decide. *)
IsMappingProfile(p) ==
  /\ p.type \in ProfileType \cup {"auto"}
  /\ DOMAIN p.mapping \subseteq Column /\ Range(p.mapping) \subseteq Field
  /\ DOMAIN p.defaults \subseteq Field /\ Range(p.defaults) \subseteq Cell
  /\ p.required \subseteq Field \/ p.required = {NoField}

(* The request's profile is laid over the saved one, mappings key by key. *)
Over(new, old) == [k \in DOMAIN new \cup DOMAIN old |->
                     IF k \in DOMAIN new THEN new[k] ELSE old[k]]

MergedProfile(saved, sent) ==
  [type |-> IF sent.type = "auto" THEN saved.type ELSE sent.type,
   mapping |-> Over(sent.mapping, saved.mapping),
   defaults |-> Over(sent.defaults, saved.defaults),
   required |-> IF sent.required = {NoField} THEN saved.required ELSE sent.required]

(* Every field a heading can mean; the text of a document without tables has none. *)
MatchedFields(columns) ==
  UNION {IF ExactField[c] # NoField THEN {ExactField[c]} ELSE ToSet(PartialFields[c]) :
           c \in columns}

ResolveProfileType(profile, columns, hasText) ==
  LET matched == MatchedFields(columns)
      meets(S) == matched \cap S # {}
  IN IF profile.type # "auto" THEN profile.type
     ELSE IF FaqFields \subseteq matched THEN "faq"
     ELSE IF meets(FaqFields) /\ ~meets(MachineFields) THEN "faq"
     ELSE IF meets(ManualFields) THEN "manual"
     ELSE IF meets(MachineFields) THEN "manufacturing"
     ELSE IF hasText THEN "manual" ELSE "generic"

(* The administrator's choice, else the alias, else the first alias contained, each *)
(* only if the profile admits the field.                                            *)
SuggestMapping(profile, type, columns) ==
  LET allowed == CanonicalFields[type]
      chosen(c) == c \in DOMAIN profile.mapping /\ profile.mapping[c] \in allowed
      partial(c) == SelectSeq(PartialFields[c], LAMBDA f : f \in allowed)
      found(c) == chosen(c) \/ ExactField[c] \in allowed \/ partial(c) # <<>>
  IN [c \in {d \in columns : found(d)} |->
        IF chosen(c) THEN profile.mapping[c]
        ELSE IF ExactField[c] \in allowed THEN ExactField[c] ELSE partial(c)[1]]

(* A required field the profile does not admit is dropped without a word. *)
RequiredFields(profile, type) ==
  (IF profile.required = {NoField} THEN DefaultRequired[type] ELSE profile.required)
    \cap CanonicalFields[type]

(* Columns are read left to right: the last one mapped to a field decides, blank or *)
(* not; a default fills what is blank then.                                         *)
NormalizedRow(columns, row, mapping, defaults) ==
  LET sources(f) == {i \in DOMAIN columns :
                       columns[i] \in DOMAIN mapping /\ mapping[columns[i]] = f}
      read(f) == IF sources(f) = {} THEN NoCell ELSE row[columns[Max(sources(f))]]
  IN [f \in {g \in Field : sources(g) # {}} \cup DOMAIN defaults |->
        IF read(f) = NoCell /\ f \in DOMAIN defaults THEN defaults[f] ELSE read(f)]

ValidRow_PresentIsEnough(normalized, required) == required \subseteq DOMAIN normalized

ValidRow(normalized, required) ==
  \A f \in required : f \in DOMAIN normalized /\ normalized[f] # NoCell

(* The preview of the tables sampled; a text is a table without columns.  Table   *)
(* after table, and in each row after row, MaxRows rows are shown with the status  *)
(* their validation gives them; x is the position of a row.                         *)
PreviewOf(profile, tables) ==
  LET columns == UNION {ToSet(tables[i].columns) : i \in DOMAIN tables}
      type == ResolveProfileType(profile, columns, \E i \in DOMAIN tables : tables[i].columns = <<>>)
      mapping == SuggestMapping(profile, type, columns)
      defaults == [f \in DOMAIN profile.defaults \cap CanonicalFields[type] |-> profile.defaults[f]]
      required == RequiredFields(profile, type)
      positions == UNION {{i} \X DOMAIN tables[i].rows : i \in DOMAIN tables}
      before(x) == {y \in positions : y[1] < x[1] \/ (y[1] = x[1] /\ y[2] < x[2])}
      shownRow(of, row) ==
        [columns |-> of, row |-> row,
         status |-> IF ValidRow(NormalizedRow(of, row, mapping, defaults), required)
                    THEN "valid" ELSE "needs_review"]
  IN [type |-> type, mapping |-> mapping, defaults |-> defaults, required |-> required,
      rows |-> [x \in {y \in positions : Cardinality(before(y)) < MaxRows} |->
                  shownRow(tables[x[1]].columns, tables[x[1]].rows[x[2]])]]

----
CONSTANTS
  Page,          \* pages, files and tables
  StartOf,       \* the page each location points at
  FilesOf,       \* the files a location lists, in the listing's order
  OwnHost,       \* pages on the start page's host
  Html,          \* pages whose links are followed
  Parseable,     \* files whose extension the parsers know
  NameOf,        \* the name each file shows; Drive lets two files share one
  Limit,         \* documents a sync takes
  Depth          \* crawl_depth

ASSUME WalksAssumption ==
  /\ IsFiniteSet(Page) /\ Limit \in Nat \ {0} /\ Depth \in 0..2
  /\ OwnHost \subseteq Page /\ Html \subseteq Page /\ Parseable \subseteq Page

(* What is fetched at an instant: which pages answer, and their links. *)
Site == [live: SUBSET Page, links: [Page -> SUBSET Page]]

Visit == [page: Page, depth: 0..(Depth + 1)]
Walk == [queue: Seq(Visit), seen: SUBSET Page, docs: Seq(Page)]

Listing(visits, docs) ==
  [queue |-> [i \in DOMAIN visits |-> [page |-> visits[i], depth |-> 0]],
   seen |-> {}, docs |-> docs]
FirstOf(n, s) == SubSeq(s, 1, IF Len(s) < n THEN Len(s) ELSE n)

(* The members of S a list names, in its order; a function, so that it can be    *)
(* reasoned about.                                                                *)
Among(s, S) ==
  LET upTo[n \in 0..Len(s)] ==
        IF n = 0 THEN <<>>
        ELSE IF s[n] \in S THEN Append(upTo[n - 1], s[n]) ELSE upTo[n - 1]
  IN upTo[Len(s)]

Present(location, site) == Among(FilesOf[location], site.live)

(* Files read from Drive or Box are known by the name they show. *)
DocumentOf(kind, p) == IF kind \in {"google_drive", "box"} THEN NameOf[p] ELSE p

CrawlStart(location) == Listing(<<StartOf[location]>>, <<>>)

(* A bucket lists its first objects, whatever they are. *)
BucketStart(location, site) == Listing(FirstOf(Limit, Present(location, site)), <<>>)

(* Box shows four entries for each file wanted; those the parsers know are kept. *)
BoxStart(location, site) ==
  Listing(FirstOf(Limit, Among(FirstOf(4 * Limit, Present(location, site)), Parseable)), <<>>)

(* Drive is listed page after page until enough of its files can be read. *)
DriveStart(location, site) ==
  Listing(FirstOf(Limit, Among(Present(location, site), Parseable)), <<>>)

(* A Notion database names its pages; the blocks of each are another call. *)
NotionStart(location, site) == Listing(FirstOf(Limit, Present(location, site)), <<>>)

(* Confluence answers with the pages themselves. *)
ConfluenceStart(location, site) == Listing(<<>>, FirstOf(Limit, Present(location, site)))

(* The rows of a table, or the records of an app, are one document. *)
TableStart(location) == Listing(<<StartOf[location]>>, <<>>)
RecordsStart(location) == Listing(<<StartOf[location]>>, <<>>)

(* The connector of each kind. *)
FirstVisits(kind, location, site) ==
  CASE kind = "url" -> CrawlStart(location)
    [] kind = "s3" -> BucketStart(location, site)
    [] kind = "box" -> BoxStart(location, site)
    [] kind = "google_drive" -> DriveStart(location, site)
    [] kind = "notion" -> NotionStart(location, site)
    [] kind = "confluence" -> ConfluenceStart(location, site)
    [] kind = "db" -> TableStart(location)
    [] kind = "kintone" -> RecordsStart(location)

(* The positions a walk may still fetch: a crawl skips what it saw and other hosts. *)
Fetchable(kind, walk) ==
  {i \in DOMAIN walk.queue :
     kind = "url" => walk.queue[i].page \notin walk.seen /\ walk.queue[i].page \in OwnHost}

NextVisit(kind, walk) == Min(Fetchable(kind, walk))

WalkEnds(kind, walk) == Fetchable(kind, walk) = {} \/ Len(walk.docs) >= Limit

(* The walk after its next page answered. *)
Fetched_LastFirst(kind, walk, links) ==
  LET i == NextVisit(kind, walk)
      visit == walk.queue[i]
      rest == SubSeq(walk.queue, i + 1, Len(walk.queue))
      followed == IF kind = "url" /\ visit.depth < Depth /\ visit.page \in Html
                  THEN SetToSeq(links[visit.page] \ (walk.seen \cup {visit.page})) ELSE <<>>
  IN [queue |-> [k \in DOMAIN followed |-> [page |-> followed[k], depth |-> visit.depth + 1]]
                \o rest,
      seen |-> walk.seen \cup {visit.page}, docs |-> Append(walk.docs, visit.page)]

Fetched(kind, walk, links) ==
  LET i == NextVisit(kind, walk)
      visit == walk.queue[i]
      rest == SubSeq(walk.queue, i + 1, Len(walk.queue))
      followed == IF kind = "url" /\ visit.depth < Depth /\ visit.page \in Html
                  THEN SetToSeq(links[visit.page] \ (walk.seen \cup {visit.page})) ELSE <<>>
  IN [queue |-> rest \o
                [k \in DOMAIN followed |-> [page |-> followed[k], depth |-> visit.depth + 1]],
      seen |-> walk.seen \cup {visit.page}, docs |-> Append(walk.docs, visit.page)]

(* The reference: pages of the host that so many links lead to. *)
Reached(site, start) ==
  LET within[n \in 0..Depth] ==
        IF n = 0 THEN {start}
        ELSE within[n - 1] \cup
               {q \in OwnHost : \E p \in within[n - 1] \cap Html : q \in site.links[p]}
  IN within[Depth]

----
(* The source, its row and what is kept beside it. *)
CONSTANTS
  Location,      \* where a source points: a start page, a folder, a table
  Credential,    \* credential values
  Connection,    \* OAuth connection ids
  Schedule,      \* sync_schedule texts that name a schedule
  Profile,       \* mapping profiles an administrator saves
  Nothing,        \* no row, no secret, no record
  Server, Worker,
  Bodies,        \* the bodies administrators save
  Requested,     \* approval statuses a sync request may name
  FirstLocation, FirstProfile,  \* what the first save names
  Sites,         \* what the site may look like
  ProfileOf,     \* what each profile configures
  TableOf,       \* the columns and rows of each page; none for a text
  MaxSaves, MaxSyncs,
  MaxFaults      \* changes of the site and restarts of a process, together

(* The registration of a data source: its row, the body an administrator saves    *)
(* over it, the credentials kept apart from it, and the approval status its trust *)
(* policy gives every file.                                                       *)
Unset == "unset"          \* the body does not carry the key
Blank == "blank"          \* an empty text

Kind == {"url", "s3", "box", "google_drive", "notion", "confluence", "db", "kintone"}
Policy == {"review_required", "trusted"}
Approval == {"pending_review", "approved"}

Row ==
  [kind: Kind, location: Location, policy: Policy, connection: Connection \cup {Nothing},
   credentialRef: BOOLEAN, schedule: Schedule \cup {Blank}, profile: Profile]

Body ==
  [kind: Kind \cup {Unset}, location: Location \cup {Unset}, policy: Policy \cup {Unset},
   connection: Connection \cup {Unset}, credential: Credential \cup {Unset},
   schedule: Schedule \cup {Unset, Blank}, profile: Profile \cup {Unset}]

EmptyBody ==
  [kind |-> Unset, location |-> Unset, policy |-> Unset, connection |-> Unset,
   credential |-> Unset, schedule |-> Unset, profile |-> Unset]

(* A key the body does not carry keeps what the row read before had; a source     *)
(* that never named its policy is reviewed.                                       *)
Or(value, fallback) == IF value = Unset THEN fallback ELSE value

CleanRow(existing, body) ==
  [kind |-> Or(body.kind, existing.kind), location |-> Or(body.location, existing.location),
   policy |-> Or(body.policy, existing.policy),
   connection |-> Or(body.connection, existing.connection),
   credentialRef |-> existing.credentialRef \/ body.credential # Unset,
   schedule |-> Or(body.schedule, existing.schedule),
   profile |-> Or(body.profile, existing.profile)]

FirstRow(body, location, profile) ==
  CleanRow([kind |-> body.kind, location |-> location, policy |-> "review_required",
            connection |-> Nothing, credentialRef |-> FALSE, schedule |-> Blank,
            profile |-> profile], body)

(* What the registry of schedules mirrors of a row. *)
Mirrored(row) == IF row.schedule = Blank THEN Nothing ELSE row.schedule

(* The status of every synced file: the saved policy's, whatever the request says. *)
StatusFromPolicy_OrBody(row, body) ==
  IF row.policy = "trusted" \/ body = "approved" THEN "approved" ELSE "pending_review"

StatusFromPolicy(row, body) == IF row.policy = "trusted" THEN "approved" ELSE "pending_review"

----
ASSUME ConnectorsAssumption ==
  /\ Worker \notin Server /\ Bodies \subseteq Body
  /\ Nothing \notin Credential /\ Nothing \notin Row
  /\ FirstLocation \in Location /\ FirstProfile \in Profile
  /\ StartOf \in [Location -> OwnHost] /\ FilesOf \in [Location -> Seq(Page)]
  /\ \A p \in Page : TableOf[p].columns \in Seq(Column)
  /\ \A k \in Profile : IsMappingProfile(ProfileOf[k])
  /\ Sites \subseteq Site
  /\ MaxSaves \in Nat /\ MaxSyncs \in Nat /\ MaxFaults \in Nat

VARIABLES
  row,           \* the data_sources row
  registry,      \* the sync_schedule_registry row
  secret,        \* the credentials stored for the source
  tokens,        \* connections whose refresh token is stored
  connections,   \* what each server remembers it connected
  queued,        \* syncs go through the queue
  queue,         \* sync requests waiting
  jobs,          \* what each process is doing
  site,          \* what the connectors would find
  docs,          \* the documents indexed, by id
  everTrusted,   \* history: the source has been trusted
  count          \* history: saves, syncs, site changes and crashes so far

config == <<row, registry, secret, everTrusted>>
oauth == <<tokens, connections>>
vars == <<row, registry, secret, tokens, connections, queued, queue, jobs, site, docs,
          everTrusted, count>>

Process == Server \cup {Worker}
DocId == Page \cup {NameOf[p] : p \in Page}

Idle == [at |-> "idle"]
At(p, step) == jobs[p].at = step
Document == [page: Page, status: Approval, by: {"policy", "person"}]

Job ==
  {Idle}
  \cup [at: {"store", "insert", "mirror"}, body: Bodies, row: Row]
  \cup [at: {"keep_token", "record"}, connection: Connection]
  \cup [at: {"show"}, preview: {jobs[p].preview : p \in {q \in Process : At(q, "show")}}]
  \cup [at: {"source"}, purpose: {"sync", "preview"}, request: Requested \cup Profile]
  \cup [at: {"credential", "token", "begin", "walk", "ingest"}, purpose: {"sync", "preview"},
        request: Requested \cup Profile, row: Row, credential: Credential \cup {Nothing}, walk: Walk,
        since: 0..MaxFaults]

TypeOK ==
  /\ row \in Row \cup {Nothing} /\ registry \in Schedule \cup {Nothing}
  /\ secret \in Credential \cup {Nothing} /\ tokens \in SUBSET Connection
  /\ connections \in [Server -> SUBSET Connection]
  /\ queued \in BOOLEAN /\ queue \in Seq(Requested) /\ Len(queue) <= MaxSyncs
  /\ \A p \in Process : jobs[p] \in Job
  /\ site \in Sites
  /\ \A d \in DOMAIN docs : d \in DocId /\ docs[d] \in Document
  /\ everTrusted \in BOOLEAN
  /\ count \in [saves: 0..MaxSaves, syncs: 0..MaxSyncs, changes: 0..MaxFaults,
                crashes: 0..MaxFaults]

Init ==
  /\ row = Nothing /\ registry = Nothing /\ secret = Nothing
  /\ tokens = {} /\ connections = [s \in Server |-> {}]
  /\ queued \in BOOLEAN /\ queue = <<>>
  /\ jobs = [p \in Process |-> Idle]
  /\ site \in Sites /\ docs = <<>>
  /\ everTrusted = FALSE
  /\ count = [saves |-> 0, syncs |-> 0, changes |-> 0, crashes |-> 0]

Go(p, job) == jobs' = [jobs EXCEPT ![p] = job]
Counted(what) == count' = [count EXCEPT ![what] = @ + 1]

------------------------------------------------------------------------------
(* Saving the source: read the row, store the credentials, write the row, mirror  *)
(* its schedule.  The first save of a source names its type.                       *)
Upsert(s, body) ==
  /\ At(s, "idle") /\ count.saves < MaxSaves
  /\ row = Nothing => body.kind # Unset
  /\ LET clean == IF row = Nothing THEN FirstRow(body, FirstLocation, FirstProfile)
                  ELSE CleanRow(row, body)
     IN Go(s, [at |-> IF body.credential = Unset THEN "insert" ELSE "store",
               body |-> body, row |-> clean])
  /\ Counted("saves")
  /\ UNCHANGED <<config, oauth, queued, queue, site, docs>>

StoreCredentials(s) ==
  /\ At(s, "store")
  /\ secret' = jobs[s].body.credential
  /\ Go(s, [jobs[s] EXCEPT !.at = "insert"])
  /\ UNCHANGED <<row, registry, everTrusted, oauth, queued, queue, site, docs, count>>

InsertRow(s) ==
  /\ At(s, "insert")
  /\ row' = jobs[s].row
  /\ everTrusted' = (everTrusted \/ jobs[s].row.policy = "trusted")
  /\ Go(s, [jobs[s] EXCEPT !.at = "mirror"])
  /\ UNCHANGED <<registry, secret, oauth, queued, queue, site, docs, count>>

MirrorSchedule(s) ==
  /\ At(s, "mirror")
  /\ registry' = Mirrored(jobs[s].row)
  /\ Go(s, Idle)
  /\ UNCHANGED <<row, secret, everTrusted, oauth, queued, queue, site, docs, count>>

------------------------------------------------------------------------------
(* Connecting a Google account: the code is exchanged, the refresh token stored,  *)
(* then the connection recorded in the memory of the server that was called.      *)
OAuthCallback_RecordFirst(s, c) ==
  /\ At(s, "idle") /\ c \notin tokens
  /\ connections' = [connections EXCEPT ![s] = @ \cup {c}]
  /\ Go(s, [at |-> "keep_token", connection |-> c])
  /\ UNCHANGED <<config, tokens, queued, queue, site, docs, count>>

OAuthCallback(s, c) ==
  /\ At(s, "idle") /\ c \notin tokens
  /\ Go(s, [at |-> "keep_token", connection |-> c])
  /\ UNCHANGED <<config, oauth, queued, queue, site, docs, count>>

ExchangeCode(s) ==
  /\ At(s, "keep_token")
  /\ \/ /\ tokens' = tokens \cup {jobs[s].connection}
        /\ Go(s, [jobs[s] EXCEPT !.at = "record"])
     \/ tokens' = tokens /\ Go(s, Idle)          \* Google refuses, or gives no refresh token
  /\ UNCHANGED <<config, connections, queued, queue, site, docs, count>>

RecordConnection(s) ==
  /\ At(s, "record")
  /\ connections' = [connections EXCEPT ![s] = @ \cup {jobs[s].connection}]
  /\ Go(s, Idle)
  /\ UNCHANGED <<config, tokens, queued, queue, site, docs, count>>

------------------------------------------------------------------------------
(* A sync, a test or a preview of a saved source.                                  *)
Start(purpose, request) == [at |-> "source", purpose |-> purpose, request |-> request]

RequestSync(s, request) ==
  /\ At(s, "idle") /\ row # Nothing /\ count.syncs < MaxSyncs
  /\ Counted("syncs")
  /\ IF queued THEN queue' = Append(queue, request) /\ UNCHANGED jobs
     ELSE Go(s, Start("sync", request)) /\ UNCHANGED queue
  /\ UNCHANGED <<config, oauth, queued, site, docs>>

RequestPreview(s, sent) ==
  /\ At(s, "idle") /\ row # Nothing /\ count.syncs < MaxSyncs
  /\ Counted("syncs")
  /\ Go(s, Start("preview", sent))
  /\ UNCHANGED <<config, oauth, queued, queue, site, docs>>

TakeSync ==
  /\ At(Worker, "idle") /\ queue # <<>>
  /\ Go(Worker, Start("sync", Head(queue)))
  /\ UNCHANGED <<config, oauth, queued, queue, site, docs, count>>

(* Whatever ended, the worker's message is settled. *)
Finish(p) ==
  /\ Go(p, Idle)
  /\ queue' = IF p = Worker THEN Tail(queue) ELSE queue

ReadSource(p) ==
  /\ At(p, "source")
  /\ Go(p, [at |-> "credential", purpose |-> jobs[p].purpose, request |-> jobs[p].request,
            row |-> row, credential |-> Nothing,
            walk |-> CrawlStart(row.location), since |-> count.changes])
  /\ UNCHANGED <<config, oauth, queued, queue, site, docs, count>>

(* A sync of a Google Drive folder mints a token next; a preview never does. *)
Credentials(p) ==
  /\ At(p, "credential")
  /\ Go(p, [jobs[p] EXCEPT
              !.at = IF jobs[p].row.kind = "google_drive" /\ jobs[p].purpose = "sync"
                     THEN "token" ELSE "begin",
              !.credential = IF jobs[p].row.credentialRef THEN secret ELSE Nothing])
  /\ UNCHANGED <<config, oauth, queued, queue, site, docs, count>>

Connected(p) == p \in Server /\ jobs[p].row.connection \in connections[p]

ResolveToken(p) ==
  /\ At(p, "token")
  /\ \/ /\ Connected(p) /\ jobs[p].row.connection \in tokens
        /\ Go(p, [jobs[p] EXCEPT !.at = "begin"]) /\ UNCHANGED queue
     \/ Finish(p)                    \* not connected, or Google refuses the refresh token
  /\ UNCHANGED <<config, oauth, queued, site, docs, count>>

------------------------------------------------------------------------------
(* The walk.  A bucket may be read with the process's own rights and a page with   *)
(* none; a Drive folder needs the token of this sync, all others the credentials   *)
(* stored.  A listing is one call; every page is another.                          *)
Authorised(job) ==
  CASE job.row.kind \in {"url", "s3"} -> TRUE
    [] job.row.kind = "google_drive" -> job.purpose = "sync"
    [] OTHER -> job.credential # Nothing

(* The connectors that hand over files as they are; the others write a text. *)
HandsOver == {"url", "s3", "box", "google_drive"}
SampleOf(job) ==
  [i \in DOMAIN job.walk.docs |->
     IF job.row.kind \in HandsOver THEN TableOf[job.walk.docs[i]]
     ELSE [columns |-> <<>>, rows |-> <<>>]]

Begin(p) ==
  /\ At(p, "begin")
  /\ IF Authorised(jobs[p])
     THEN /\ Go(p, [jobs[p] EXCEPT !.at = "walk", !.walk = FirstVisits(jobs[p].row.kind,
                                                        jobs[p].row.location, site),
                                   !.since = count.changes])
          /\ UNCHANGED queue
     ELSE Finish(p)
  /\ UNCHANGED <<config, oauth, queued, site, docs, count>>

(* One page that does not answer ends the whole sync. *)
FetchPage(p) ==
  LET kind == jobs[p].row.kind
      page == jobs[p].walk.queue[NextVisit(kind, jobs[p].walk)].page
  IN /\ At(p, "walk") /\ ~WalkEnds(kind, jobs[p].walk)
     /\ IF page \in site.live
        THEN /\ Go(p, [jobs[p] EXCEPT !.walk = Fetched(kind, @, site.links)])
             /\ UNCHANGED queue
        ELSE Finish(p)
     /\ UNCHANGED <<config, oauth, queued, site, docs, count>>

(* A walk that found nothing fails; a preview shows the sample; a sync stores it. *)
WalkDone(p) ==
  LET walk == jobs[p].walk
  IN /\ At(p, "walk") /\ WalkEnds(jobs[p].row.kind, walk)
     /\ \/ walk.docs = <<>> /\ Finish(p)
        \/ /\ walk.docs # <<>> /\ jobs[p].purpose = "sync"
           /\ Go(p, [jobs[p] EXCEPT !.at = "ingest"]) /\ UNCHANGED queue
        \/ /\ walk.docs # <<>> /\ jobs[p].purpose = "preview"
           /\ Go(p, [at |-> "show",
                     preview |-> PreviewOf(MergedProfile(ProfileOf[jobs[p].row.profile],
                                                         ProfileOf[jobs[p].request]),
                                           SampleOf(jobs[p]))])
           /\ UNCHANGED queue
     /\ UNCHANGED <<config, oauth, queued, site, docs, count>>

ShowPreview(p) ==
  /\ At(p, "show") /\ Finish(p)
  /\ UNCHANGED <<config, oauth, queued, site, docs, count>>

(* New, changed or unchanged, the document carries the saved policy's status.      *)
IngestDocument(p) ==
  LET job == jobs[p]
      page == Head(job.walk.docs)
      id == DocumentOf(job.row.kind, page)
      rest == Tail(job.walk.docs)
  IN /\ At(p, "ingest")
     /\ docs' = Over([d \in {id} |-> [page |-> page, by |-> "policy",
                                      status |-> StatusFromPolicy(job.row, job.request)]], docs)
     /\ IF rest = <<>> THEN Finish(p)
        ELSE Go(p, [job EXCEPT !.walk.docs = rest]) /\ UNCHANGED queue
     /\ UNCHANGED <<config, oauth, queued, site, count>>

Approve(id) ==
  /\ id \in DOMAIN docs /\ docs[id].status = "pending_review"
  /\ docs' = [docs EXCEPT ![id].status = "approved", ![id].by = "person"]
  /\ UNCHANGED <<config, oauth, queued, queue, jobs, site, count>>

------------------------------------------------------------------------------
SiteChanges ==
  /\ count.changes + count.crashes < MaxFaults /\ site' \in Sites \ {site}
  /\ Counted("changes")
  /\ UNCHANGED <<config, oauth, queued, queue, jobs, docs>>

(* A process dies and restarts: its request is lost, and what it remembered; the   *)
(* worker's message is delivered again.                                            *)
Restart(p) ==
  /\ count.changes + count.crashes < MaxFaults
  /\ Go(p, Idle)
  /\ connections' = [s \in Server |-> IF s = p THEN {} ELSE connections[s]]
  /\ Counted("crashes")
  /\ UNCHANGED <<config, tokens, queued, queue, site, docs>>

Save(s) == (\E b \in Bodies : Upsert(s, b)) \/ StoreCredentials(s) \/ InsertRow(s) \/ MirrorSchedule(s)
Connect(s) == (\E c \in Connection : OAuthCallback(s, c)) \/ ExchangeCode(s) \/ RecordConnection(s)
Work(p) == \/ ReadSource(p) \/ Credentials(p) \/ ResolveToken(p)
           \/ Begin(p) \/ FetchPage(p) \/ WalkDone(p) \/ ShowPreview(p) \/ IngestDocument(p)

Next ==
  \/ \E s \in Server : Save(s) \/ Connect(s)
                       \/ \E r \in Requested : RequestSync(s, r)
                       \/ \E k \in Profile : RequestPreview(s, k)
  \/ TakeSync
  \/ \E p \in Process : Work(p) \/ Restart(p)
  \/ \E id \in DocId : Approve(id)
  \/ SiteChanges

Spec == Init /\ [][Next]_vars

------------------------------------------------------------------------------
(* A credential the row refers to and a refresh token a server counts on are       *)
(* stored already, whenever a process dies and however two saves overlap: the      *)
(* secret is written first.                                                        *)
ReferencedSecretsExist ==
  /\ row # Nothing /\ row.credentialRef => secret # Nothing
  /\ \A s \in Server : connections[s] \subseteq tokens

(* A crawl of a site that did not change meanwhile, and that the limit did not cut, *)
(* fetched every page of the host within crawl_depth links, each of them once.      *)
CrawlIsComplete ==
  \A p \in Process :
    LET job == jobs[p]
    IN At(p, "walk") /\ job.row.kind = "url" /\ job.since = count.changes
       /\ WalkEnds("url", job.walk) /\ Len(job.walk.docs) < Limit
       => /\ IsInjective(job.walk.docs)
          /\ ToSet(job.walk.docs) = Reached(site, StartOf[job.row.location])

(* An approved document was approved by a person, or by the policy of a source      *)
(* that has been trusted: no sync request lifts its own files over the review.      *)
ApprovedWasTrusted ==
  \A d \in DOMAIN docs : docs[d].status = "approved" => docs[d].by = "person" \/ everTrusted

(* A sample row shown as valid has, for each field required, a column mapped to it   *)
(* that is filled in that row, or a default.                                         *)
ValidRowsAreFilled ==
  \A p \in Process : At(p, "show") =>
    LET shown == jobs[p].preview
    IN \A x \in DOMAIN shown.rows, f \in shown.required :
         shown.rows[x].status = "valid" =>
           \/ f \in DOMAIN shown.defaults
           \/ \E c \in ToSet(shown.rows[x].columns) \cap DOMAIN shown.mapping :
                shown.mapping[c] = f /\ shown.rows[x].row[c] # NoCell

(* A person's approval of a document outlives the syncs of a source that does not    *)
(* change: what was approved and is the same is not sent back to review.             *)
UnchangedKeepsApproval ==
  [][\A d \in DOMAIN docs :
       docs[d].by = "person" /\ count.changes = 0 => docs'[d].status = "approved"]_vars

(* A server's connection serves the syncs the worker takes from the queue: once      *)
(* connected, a queued sync of a Drive folder gets past its token.                   *)
QueuedDriveIsConnected ==
  \A s \in Server :
    At(Worker, "token") /\ jobs[Worker].row.connection \in connections[s] => Connected(Worker)
===============================================================================
