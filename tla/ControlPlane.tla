----------------------------- MODULE ControlPlane ------------------------------
(* The settings an administrator changes through the answer service: profiles and *)
(* policies, provider policies in the database, grants, budgets, vocabulary, the   *)
(* data-use policy of a tenant, and the events and feedback recorded about them.  *)
(* A request is an operator from the stored state to the next one.                *)
EXTENDS Integers, FiniteSets, Sequences

CONSTANTS
  MappingId,      \* ids of provider policies, one key for all tenants
  DefaultId,      \* the id every tenant has without storing anything
  ScopeType,      \* the scopes a grant may have
  Nothing         \* a record that is not there, a field that is empty

Or(value, default) == IF value = Nothing THEN default ELSE value

LastOf(positions) == CHOOSE i \in positions : \A j \in positions : j <= i

(* A record of named fields, changed in the fields another one names. *)
Merged(item, changes) ==
  [f \in DOMAIN item \cup DOMAIN changes |-> IF f \in DOMAIN changes THEN changes[f] ELSE item[f]]

Only(fields, record) == [f \in DOMAIN record \cap fields |-> record[f]]

----
(* Profiles and policies kept in the memory of the process.                       *)
Resource == {"query-profiles", "provider-policies", "retrieval-profiles", "logging-policies"}

(* What a body touches decides what the event is called; the first kind counts.   *)
ParserKeys == {"mode", "allowed", "fallback"}
ResidencyKeys == {"regions", "residency", "crossCloud"}
OptInKeys == {"needsOptIn", "optIn", "optIns"}
ModelKeys == {"embedding", "llm", "model"}

EventType(resource, touched) ==
  CASE resource = "provider-policies" ->
         IF touched \cap ParserKeys # {} THEN "parser_provider_changed"
         ELSE IF touched \cap ResidencyKeys # {} THEN "residency_override"
         ELSE IF touched \cap OptInKeys # {} THEN "opt_in_changed"
         ELSE "provider_policy_changed"
    [] resource = "query-profiles" ->
         IF touched \cap ModelKeys # {} THEN "model_changed" ELSE "query_profile_changed"
    [] resource = "retrieval-profiles" -> "retrieval_profile_changed"
    [] resource = "logging-policies" -> "logging_policy_changed"

(* The defaults, in the fields the properties tell apart. *)
DefaultQueryProfile == [model |-> "extractive", rewrite |-> FALSE, version |-> 1]
DefaultRetrievalProfile == [status |-> "active", fallback |-> "insufficient", version |-> 1]
DefaultLoggingPolicy == [status |-> "active", context |-> "disabled", version |-> 1]
DefaultProviderPolicy ==
  [status |-> "active", mode |-> "aws_only", optIn |-> "pending", needsOptIn |-> TRUE,
   retention |-> TRUE, training |-> TRUE, version |-> 1]

DefaultFor(resource, id) ==
  IF id # DefaultId THEN Nothing
  ELSE CASE resource = "query-profiles" -> DefaultQueryProfile
         [] resource = "provider-policies" -> DefaultProviderPolicy
         [] resource = "retrieval-profiles" -> DefaultRetrievalProfile
         [] resource = "logging-policies" -> DefaultLoggingPolicy

(* Reading a resource puts its default there first; `bucket` is one tenant's.      *)
EnsureDefault(bucket, resource) ==
  [id \in DOMAIN bucket |-> IF id = DefaultId
                            THEN Or(bucket[id], DefaultFor(resource, id)) ELSE bucket[id]]

GetResource(bucket, resource, id) == EnsureDefault(bucket, resource)[id]

ListResource(bucket, resource) ==
  {id \in DOMAIN bucket : EnsureDefault(bucket, resource)[id] # Nothing}

(* What a client may not set. *)
OwnedByService == {"tenant", "id", "reason", "events"}

Clean(body) == Only(DOMAIN body \ OwnedByService, body)

Saved(resource, existing, body) ==
  LET merged == Merged(Or(existing, [status |-> "active", version |-> 1]), Clean(body))
      item == IF "status" \in DOMAIN merged THEN merged
              ELSE Merged(merged, [status |-> "active"])
  IN IF resource = "retrieval-profiles" /\ existing # Nothing
     THEN [item EXCEPT !.version = @ + 1] ELSE item

UpsertResource(bucket, resource, id, body) ==
  [EnsureDefault(bucket, resource) EXCEPT
     ![id] = Saved(resource, GetResource(bucket, resource, id), body)]

----
(* Provider policies in the database.  `rows` maps every policy id to its row; a   *)
(* row belongs to one tenant and applies to one collection or, with none, to all.  *)
Status == {"active", "inactive"}

BuiltIn == Only({"mode", "optIn", "needsOptIn", "retention", "training"}, DefaultProviderPolicy)

(* The columns of a row beyond its identity; whatever else a body says is audited   *)
(* and dropped.                                                                    *)
PolicyColumns == {"collection", "status"} \cup DOMAIN BuiltIn

Applicable(rows, t, c, id) ==
  {p \in {id, DefaultId} :
     rows[p] # Nothing /\ rows[p].tenant = t /\ rows[p].status = "active"
     /\ rows[p].collection \in {c, Nothing}}

(* A row of the collection goes before the id that was asked for. *)
Rank(rows, c, id, p) ==
  (IF rows[p].collection = c THEN 2 ELSE 0) + (IF p = id THEN 1 ELSE 0)

BestOf(rows, t, c, id) ==
  CHOOSE p \in Applicable(rows, t, c, id) :
    \A q \in Applicable(rows, t, c, id) : Rank(rows, c, id, q) <= Rank(rows, c, id, p)

DefaultMapping(t, c) ==
  [tenant |-> t, collection |-> c, status |-> "active", mode |-> BuiltIn.mode,
   optIn |-> BuiltIn.optIn, needsOptIn |-> BuiltIn.needsOptIn,
   retention |-> BuiltIn.retention, training |-> BuiltIn.training]

(* Where no row applies, and where the query fails, the built-in policy does. *)
GetMapping(rows, t, c, id) ==
  IF Applicable(rows, t, c, id) = {} THEN DefaultMapping(t, c)
  ELSE rows[BestOf(rows, t, c, id)]

ListMappings(rows, t, c) ==
  {p \in MappingId : rows[p] # Nothing /\ rows[p].tenant = t
                    /\ (c # Nothing => rows[p].collection = c)}

RowOf(t, item) == Merged(Only(PolicyColumns, item), [tenant |-> t])

Refused(rows, t, id) == rows[id] # Nothing /\ rows[id].tenant # t

UpsertPolicy(rows, t, id, body) ==
  LET existing == GetMapping(rows, t, body.collection, id)
  IN IF Refused(rows, t, id) THEN rows
     ELSE [rows EXCEPT ![id] = RowOf(t, Merged(existing, body))]

(* The route merges the body into the policy that applies to the tenant without a  *)
(* collection, and stores the result whole.                                        *)
SavePolicy(rows, t, id, body) ==
  UpsertPolicy(rows, t, id, Merged(GetMapping(rows, t, Nothing, id), Clean(body)))

(* What the enforcer reads of a mapping: a field that is missing has its default,   *)
(* a requirement that is there and empty does not hold.                            *)
Requirements == {"needsOptIn", "retention", "training"}
PolicyFromMapping(mapping) ==
  [f \in DOMAIN BuiltIn |->
     IF f \notin DOMAIN mapping THEN BuiltIn[f]
     ELSE IF f \in Requirements THEN mapping[f] = TRUE ELSE Or(mapping[f], BuiltIn[f])]

(* The provider an operation is validated with where the request names none.       *)
DefaultProvider(operation) ==
  IF operation \in {"parse", "ocr", "layout", "structured"} THEN "aws_textract"
  ELSE IF operation \in {"embed", "embedding", "visual_embedding", "rerank", "llm", "vlm",
                         "caption"}
  THEN "bedrock" ELSE "customer_managed"

(* A capability the request states goes over the one that is known. *)
CapabilityFor(known, override) ==
  Merged(Or(known, [family |-> "unknown", retention |-> FALSE, training |-> FALSE]),
         IF override = Nothing THEN [x \in {} |-> Nothing]
         ELSE override)

----
(* Grants.  `listing` is what the service shows, keyed by the id a request gives;  *)
(* `table` is what readers are checked against.  A raw grant is                    *)
(* [id, complete, scope, subject].                                                *)
GrantOf(raw) == [scope |-> raw.scope, subject |-> raw.subject]

(* The grants of a request are taken in order until one is malformed; a grant of an *)
(* unknown scope is listed before it is found out.                                *)
Complete(raws, i) == raws[i].complete
Known(raws, i) == raws[i].complete /\ raws[i].scope \in ScopeType

Reached(raws) == {i \in DOMAIN raws : \A j \in 1..(i - 1) : Known(raws, j)}
Granted(raws) == {i \in Reached(raws) : Known(raws, i)}
ListedOf(raws) == {i \in Reached(raws) : Complete(raws, i)}

AclFails(raws) == Granted(raws) # DOMAIN raws

AclReply(raws) ==
  IF ~AclFails(raws) THEN "ok"
  ELSE IF \E i \in Reached(raws) : ~Complete(raws, i) THEN "bad_request" ELSE "error"

UpdateListing(listing, revoked, raws) ==
  [g \in DOMAIN listing |->
     LET mine == {i \in ListedOf(raws) : raws[i].id = g}
     IN IF mine # {} THEN GrantOf(raws[LastOf(mine)])
        ELSE IF g \in revoked THEN Nothing ELSE listing[g]]

AddGrants(table, raws) == table \cup {GrantOf(raws[i]) : i \in Granted(raws)}

UpdateAcl(acl, revoked, raws) ==
  [listing |-> UpdateListing(acl.listing, revoked, raws), table |-> AddGrants(acl.table, raws),
   events |-> acl.events + (IF AclFails(raws) THEN 0 ELSE 1)]

ShownGrants(acl) == {acl.listing[g] : g \in DOMAIN acl.listing} \ {Nothing}

(* A restart empties the listing; the rows stay. *)
RestartAcl(acl) == [acl EXCEPT !.listing = [g \in DOMAIN acl.listing |-> Nothing], !.events = 0]

CanRead(acl, scopes, subjects) ==
  \E g \in acl.table : g.scope \in scopes /\ g.subject \in subjects

----
(* Budgets.  A raw budget is [id, scope, limit, numeric]; a limit that is no number *)
(* stops the request after its budget was listed.                                  *)
Own == "tenant"       \* the scope of the tenant itself, the only one that is enforced

BudgetReached(raws) ==
  {i \in DOMAIN raws : \A j \in 1..(i - 1) : raws[j].scope # Own \/ raws[j].numeric}

UpdateBudgets(listing, raws) ==
  [b \in DOMAIN listing |->
     LET mine == {i \in BudgetReached(raws) : raws[i].id = b}
     IN IF mine = {} THEN listing[b]
        ELSE [scope |-> raws[LastOf(mine)].scope, limit |-> raws[LastOf(mine)].limit, spent |-> 0]]

(* No limit means that nothing is limited. *)
EnforcedLimit(limit, raws) ==
  LET mine == {i \in BudgetReached(raws) : raws[i].scope = Own /\ raws[i].numeric}
  IN IF mine = {} THEN limit ELSE raws[LastOf(mine)].limit

Budgets(listing, scope) ==
  {b \in DOMAIN listing : listing[b] # Nothing /\ (scope # Nothing => listing[b].scope = scope)}

----
(* The vocabulary of a tenant.  A namespace maps keys to sets of values; a tenant's *)
(* entries are added to the built-in ones.                                         *)
EditableNamespace ==
  {"high_risk_keywords", "handoff_triggers", "intents", "chat_messages", "phone_messages",
   "synonyms"}
MaxValues == 200
MaxValueLength == 200
MaxKeyLength == 100

Resolve(defaults, entries) ==
  [k \in DOMAIN defaults \cup DOMAIN entries |->
     (IF k \in DOMAIN defaults THEN defaults[k] ELSE {})
     \cup (IF k \in DOMAIN entries THEN entries[k] ELSE {})]

(* `length` maps the values, blanks removed, to how long they are.  *)
EntryRefusal(namespace, keyLength, length) ==
  IF namespace \notin EditableNamespace THEN "unknown_namespace"
  ELSE IF keyLength \notin 1..MaxKeyLength THEN "invalid_key"
  ELSE IF DOMAIN length = {} THEN "values_required"
  ELSE IF Cardinality(DOMAIN length) > MaxValues \/ \E v \in DOMAIN length : length[v] > MaxValueLength
  THEN "values_too_large" ELSE Nothing

UpdateEntry(entries, key, values) ==
  [k \in DOMAIN entries \cup {key} |-> IF k = key THEN values ELSE entries[k]]

RemoveEntry(entries, key) == Only(DOMAIN entries \ {key}, entries)

----
(* The data-use policy of a tenant. *)
Fallback == {"block", "degrade"}
DataUsePolicy ==
  [noTrain: BOOLEAN, optIn: BOOLEAN, contract: {"", "ref"}, requireNoTrain: BOOLEAN,
   fallback: Fallback, customer: Int, audit: Int, export: BOOLEAN, version: Nat]

DefaultPolicy ==
  [noTrain |-> TRUE, optIn |-> FALSE, contract |-> "", requireNoTrain |-> TRUE,
   fallback |-> "block", customer |-> 365, audit |-> 365, export |-> FALSE, version |-> 1]

Patchable == {"noTrain", "optIn", "contract", "requireNoTrain", "fallback", "customer", "audit",
              "export"}

ValidPolicy(p) == p.optIn => p.contract # ""

(* The candidate is built from the policy the request read, and the whole row is   *)
(* written: what another request wrote in between is lost, its version included.   *)
Candidate(read, patch) ==
  [f \in DOMAIN read |-> IF f = "version" THEN read.version + 1
                         ELSE IF f \in DOMAIN patch THEN patch[f] ELSE read[f]]

PatchRefused(read, patch) ==
  \/ ~(DOMAIN patch \subseteq Patchable)
  \/ "fallback" \in DOMAIN patch /\ patch.fallback \notin Fallback
  \/ ~ValidPolicy(Candidate(read, patch))

UpdatePolicy(stored, read, patch) ==
  IF PatchRefused(read, patch) THEN stored ELSE Candidate(read, patch)

NoTrainKeys == {"noTrain", "optIn", "contract", "requireNoTrain", "fallback"}
RetentionKeys == {"customer", "audit"}

PolicyAction(keys) ==
  IF keys \cap NoTrainKeys # {} THEN "policy.no_train.change"
  ELSE IF keys \cap RetentionKeys # {} THEN "policy.retention.change"
  ELSE "policy.setting.change"

(* Training on a tenant's data, and the providers a capability may use. *)
TrainingAllowed(p) == p.optIn /\ p.contract # ""

CapabilityAllowed(p, providers, guaranteed) ==
  p.requireNoTrain => \E i \in DOMAIN providers : providers[i] \in guaranteed

CapabilityStatus(p, providers, guaranteed) ==
  IF CapabilityAllowed(p, providers, guaranteed) THEN "ok" ELSE "temporarily_unavailable"

(* The first provider that trains on nothing, also where none is required. *)
ResolvedProvider(p, providers, guaranteed) ==
  LET safe == {i \in DOMAIN providers : providers[i] \in guaranteed}
  IN IF ~CapabilityAllowed(p, providers, guaranteed) \/ safe = {} THEN Nothing
     ELSE providers[CHOOSE i \in safe : \A j \in safe : i <= j]

RetentionMin == 30
RetentionMax == 3650
Clamp(days) ==
  IF days < RetentionMin THEN RetentionMin
  ELSE IF days > RetentionMax THEN RetentionMax ELSE days

EffectiveRetention(p) == [customer |-> Clamp(p.customer), audit |-> Clamp(p.audit)]

----
(* What is recorded.  An event of the audit log is [tenant, action]; a page of it   *)
(* is cut from the events of the reader's tenant.                                  *)
OfTenant(log, t) == SelectSeq(log, LAMBDA e : e.tenant = t)

Within(n, low, high) == IF n < low THEN low ELSE IF n > high THEN high ELSE n

Page(entries, offset, limit) ==
  LET size == Within(limit, 1, 500)
  IN SubSeq(entries, offset + 1, Within(offset + size, 0, Len(entries)))

ListAuditEvents(log, t, action, offset, limit) ==
  LET chosen == SelectSeq(OfTenant(log, t), LAMBDA e : action = Nothing \/ e.action = action)
  IN [events |-> Page(chosen, offset, limit), total |-> Len(chosen)]

(* An export is recorded after its entries were read and before its format is        *)
(* looked at.                                                                      *)
ExportFormat == {"dict", "jsonl", "csv"}
ExportAudit(log, t, format) ==
  [log |-> Append(log, [tenant |-> t, action |-> "audit.export"]),
   reply |-> IF format \in ExportFormat THEN OfTenant(log, t) ELSE "unsupported"]

(* A snapshot maps paths of keys to values; what stands under a sensitive key is    *)
(* replaced, however deep, and personal data in the texts is masked.              *)
Redacted(snapshot, sensitive, personal) ==
  [path \in DOMAIN snapshot |->
     IF \E i \in DOMAIN path : path[i] \in sensitive THEN "secret"
     ELSE IF snapshot[path] \in personal THEN "masked" ELSE snapshot[path]]

RecordChange(events, t, type, before, after, correlation) ==
  Append(events, [tenant |-> t, type |-> type, before |-> before, after |-> after,
                  correlation |-> correlation, nr |-> Len(events) + 1])

ListConfigEvents(events, t, type, correlation) ==
  SelectSeq(events, LAMBDA e : /\ e.tenant = t
                               /\ type = Nothing \/ e.type = type
                               /\ correlation = Nothing \/ e.correlation = correlation)

----
(* Feedback. A score of five at most; none counts as zero.                         *)
RatingLabel(score) ==
  IF score >= 4 THEN "up" ELSE IF score \in {1, 2} THEN "down" ELSE "neutral"

(* The reason and the citation are looked for in the comment where the request does *)
(* not name them; a subject nobody knows is a user.                                *)
FeedbackRecord(t, answer, subject, score, reason, citation, comment) ==
  [tenant |-> t, answer |-> answer,
   subject |-> IF subject \in {"user", "eval_job"} THEN subject ELSE "user",
   rating |-> RatingLabel(score), score |-> score,
   reason |-> Or(reason, comment.reason), citation |-> Or(citation, comment.citation)]

NewestFirst(s) == [i \in DOMAIN s |-> s[Len(s) - i + 1]]

ListFeedback(items, t, rating, offset, limit) ==
  LET mine == SelectSeq(NewestFirst(items),
                        LAMBDA r : r.tenant = t /\ (rating = Nothing \/ r.rating = rating))
  IN SubSeq(mine, offset + 1, Within(offset + limit, 0, Len(mine)))

(* Runs of an evaluation are kept by id and listed in the order they were created;  *)
(* one saved again keeps the time it was first saved at in the database only.      *)
SaveRun(rows, run, durable) ==
  LET old == rows[run.id]
  IN [rows EXCEPT ![run.id] =
        IF durable /\ old # Nothing
        THEN [run EXCEPT !.created = old.created, !.tenant = old.tenant] ELSE run]

BeforeInTrend(a, b) == a.created < b.created \/ (a.created = b.created /\ a.id <= b.id)

Trend(rows, t, set) ==
  LET mine == {r \in DOMAIN rows : rows[r] # Nothing /\ rows[r].tenant = t
                                   /\ (set = Nothing \/ rows[r].set = set)}
  IN [i \in 1..Cardinality(mine) |->
        CHOOSE r \in mine :
          Cardinality({q \in mine : BeforeInTrend(rows[q], rows[r])}) = i]
===============================================================================
