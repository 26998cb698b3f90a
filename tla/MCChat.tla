--------------------------------- MODULE MCChat --------------------------------
(* Instances of ChatService for TLC. *)
EXTENDS ChatService, SequencesExt, TLC

CONSTANTS s1, s2, c1, c2, d1, d2, p1, p2, manuals

Manuals == d1 :> manuals @@ d2 :> manuals

Said(kind, slots) == [kind |-> kind, slots |-> slots, collection |-> manuals]
Talk ==
  {Said(k, {}) : k \in {"confirm", "refusal", "unclear", "human", "question", "evidence"}}
    \cup {Said("cancel", {"email"}), Said("cancel", Slot)}

Body(sourced, mode) ==
  [sourced |-> sourced, collection |-> manuals, mode |-> mode, channels |-> {},
   intents |-> {"rag_question"}, site |-> TRUE, tagged |-> FALSE]
Bodies ==
  {Body(FALSE, "internal_authenticated"), Body(TRUE, "internal_authenticated")}

ServerSymmetry == Permutations(Server)

----
(* The settings, over the rows of two tenants and three policy ids.               *)
C == INSTANCE ControlPlane WITH
       MappingId <- {"default", "x", "y"},
       DefaultId <- "default", ScopeType <- {"collection", "document"}, Nothing <- None

RowFor(tenant, collection, status, optIn) ==
  [tenant |-> tenant, collection |-> collection, status |-> status, mode |-> "aws_only",
   optIn |-> optIn, needsOptIn |-> TRUE, retention |-> TRUE, training |-> TRUE]
RowSet ==
  {None} \cup {RowFor(t, c, s, "granted") : t \in {"t", "u"}, c \in {None, "c"},
                                          s \in {"active", "inactive"}}
RowSets == [{"default", "x", "y"} -> RowSet]

(* What applies is active, is the tenant's, and belongs to the collection or to     *)
(* none; a row of the collection is preferred to the id that was asked for, and no  *)
(* other tenant's row changes when a policy is saved.                              *)
ASSUME
  \A rows \in RowSets, c \in {None, "c", "d"} :
    LET m == C!GetMapping(rows, "t", c, "x")
    IN /\ m.tenant = "t" /\ m.status = "active" /\ m.collection \in {c, None}
       /\ m.optIn = "granted" => \E p \in {"x", "default"} : rows[p] = m
       /\ rows["default"] = RowFor("t", "c", "active", "granted") /\ c = "c"
            => m = IF rows["x"] = rows["default"] THEN rows["x"] ELSE rows["default"]
ASSUME
  \A rows \in RowSets, status \in {{}, {"inactive"}} :
    LET body == [f \in {"mode", "residency"} |-> "new"]
        after == C!SavePolicy(rows, "t", "x", body)
    IN IF C!Refused(rows, "t", "x") THEN after = rows
       ELSE /\ \A p \in {"default", "y"} : after[p] = rows[p]
            /\ after["x"].mode = "new" /\ "residency" \notin DOMAIN after["x"]
            /\ after["x"].collection = None /\ after["x"].status = "active"

(* A policy of a collection the tenant has opted in for loses both, the collection *)
(* and the consent, when only its mode is changed; an unknown id copies the default *)
(* policy, consent included.                                                       *)
ASSUME
  LET granted == RowFor("t", "c", "active", "granted")
      whole == RowFor("t", None, "active", "granted")
      rows == [p \in {"default", "x", "y"} |-> IF p = "x" THEN granted ELSE None]
      shared == [rows EXCEPT !["default"] = whole]
      mode == [mode |-> "new"]
  IN /\ C!SavePolicy(rows, "t", "x", mode)["x"].optIn = "pending"
     /\ C!GetMapping(C!SavePolicy(rows, "t", "x", mode), "t", "c", "x").optIn = "pending"
     /\ C!SavePolicy(shared, "t", "y", mode)["y"].optIn = "granted"
     /\ C!ListMappings(rows, "t", "d") = {} /\ C!ListMappings(rows, "t", None) = {"x"}
     /\ C!PolicyFromMapping([granted EXCEPT !.optIn = None]).optIn = "pending"
     /\ C!PolicyFromMapping([x \in {} |-> None]).training
     /\ ~C!PolicyFromMapping([granted EXCEPT !.training = None]).training
     /\ C!CapabilityFor(None, None).family = "unknown"

(* What a profile is: saved fields over what was there, one version more each time *)
(* for retrieval profiles, starting from the default; a field a client may not set  *)
(* is not taken.                                                                   *)
ASSUME
  LET empty == [id \in {"default", "x"} |-> None]
      body == [tenant |-> "u", fallback |-> "answer"]
      once(id) == C!UpsertResource(empty, "retrieval-profiles", id, body)
      twice(id) == C!UpsertResource(once(id), "retrieval-profiles", id, body)[id]
  IN /\ once("default")["default"].version = 2 /\ twice("default").version = 3
     /\ once("x")["x"].version = 1 /\ twice("x").version = 2
     /\ \A id \in {"default", "x"} :
          "tenant" \notin DOMAIN twice(id) /\ twice(id).fallback = "answer"
     /\ C!ListResource(empty, "logging-policies") = {"default"}
     /\ C!GetResource(empty, "logging-policies", "x") = None
     /\ C!EventType("provider-policies", {"regions", "mode"}) = "parser_provider_changed"
     /\ C!EventType("provider-policies", {"regions", "optIn"}) = "residency_override"
     /\ C!EventType("query-profiles", {"llm"}) = "model_changed"
     /\ C!DefaultProvider("ocr") = "aws_textract" /\ C!DefaultProvider("x") = "customer_managed"

(* Grants: after any request what is shown was granted, unless the request failed   *)
(* at an unknown scope; nothing a request revokes is taken from the table.         *)
Raw(id, complete, scope) == [id |-> id, complete |-> complete, scope |-> scope, subject |-> "s"]
RawSet == {Raw(id, ok, scope) : id \in {1, 2}, ok \in BOOLEAN, scope \in {"document", "planet"}}
RawSeqs == {<<>>} \cup {<<r>> : r \in RawSet} \cup {<<q, r>> : q, r \in RawSet}
OneGrant == [listing |-> 1 :> [scope |-> "collection", subject |-> "s"] @@ 2 :> None,
             table |-> {[scope |-> "collection", subject |-> "s"]}, events |-> 1]
ASSUME
  \A raws \in RawSeqs, revoked \in SUBSET {1, 2} :
    LET after == C!UpdateAcl(OneGrant, revoked, raws)
    IN /\ OneGrant.table \subseteq after.table
       /\ C!CanRead(after, {"collection"}, {"s"})
       /\ ~C!AclFails(raws) => C!ShownGrants(after) \subseteq after.table
       /\ after.events = 2 <=> C!AclReply(raws) = "ok"
       /\ C!ShownGrants(after) \subseteq after.table \/ C!AclReply(raws) = "error"
       /\ C!ShownGrants(C!RestartAcl(after)) = {}
ASSUME
  \E raws \in RawSeqs :
    LET after == C!UpdateAcl(OneGrant, {1}, raws)
    IN ~(C!ShownGrants(after) \subseteq after.table) /\ after.table # OneGrant.table

(* Budgets: the last limit of the tenant counts; one that is no number is listed    *)
(* and not enforced; what is listed has never been spent on.                       *)
ASSUME
  LET raw(limit) == [id |-> "b", scope |-> C!Own, limit |-> limit, numeric |-> limit # 0]
      listing == [b \in {"b"} |-> None]
      wrong == <<raw(5), raw(0), raw(7)>>
  IN /\ C!EnforcedLimit(None, <<raw(5), raw(7)>>) = 7 /\ C!EnforcedLimit(9, wrong) = 5
     /\ C!UpdateBudgets(listing, wrong)["b"].limit = 0
     /\ C!EnforcedLimit(9, <<[raw(5) EXCEPT !.scope = "collection"]>>) = 9
     /\ C!Budgets(C!UpdateBudgets(listing, wrong), None) = {"b"}

(* Vocabulary: entries are added and a removed one leaves the defaults.            *)
ASSUME
  LET defaults == "stop" :> {"halt"}
      more == C!UpdateEntry([x \in {} |-> {}], "stop", {"quit"})
      length(n, l) == [v \in 1..n |-> l]
  IN /\ C!Resolve(defaults, more)["stop"] = {"halt", "quit"}
     /\ C!Resolve(defaults, C!RemoveEntry(more, "stop")) = defaults
     /\ C!EntryRefusal("synonyms", 100, length(200, 200)) = None
     /\ {C!EntryRefusal("synonyms", k, length(n, l)) : k \in {0, 101}, n \in {1}, l \in {1}}
          = {"invalid_key"}
     /\ C!EntryRefusal("synonyms", 1, length(201, 1)) = "values_too_large"
     /\ C!EntryRefusal("synonyms", 1, length(1, 201)) = "values_too_large"
     /\ C!EntryRefusal("synonyms", 1, length(0, 1)) = "values_required"
     /\ C!EntryRefusal("weather", 1, length(1, 1)) = "unknown_namespace"

(* The data-use policy: whatever is patched in whatever order and from whatever     *)
(* reading, no policy opts in without a contract; two requests that read the same   *)
(* policy leave the change of the second alone, under one version.                 *)
Patches ==
  {[optIn |-> TRUE], [optIn |-> TRUE, contract |-> "ref"], [contract |-> ""], [optIn |-> FALSE],
   [customer |-> 5], [fallback |-> "shrug"], [version |-> 9]}
ASSUME
  \A a, b, c \in Patches :
    LET one == C!UpdatePolicy(C!DefaultPolicy, C!DefaultPolicy, a)
        two == C!UpdatePolicy(one, one, b)
        late == C!UpdatePolicy(two, one, c)
    IN /\ \A p \in {one, two, late} : p \in C!DataUsePolicy /\ C!ValidPolicy(p)
       /\ two.version >= one.version
ASSUME
  LET base == C!Candidate(C!DefaultPolicy, [optIn |-> TRUE, contract |-> "ref"])
      withdrawn == C!UpdatePolicy(base, base, [optIn |-> FALSE])
      late == C!UpdatePolicy(withdrawn, base, [customer |-> 5])
  IN /\ ~C!TrainingAllowed(withdrawn) /\ C!TrainingAllowed(late) /\ late.version = withdrawn.version
     /\ C!EffectiveRetention(late) = [customer |-> 30, audit |-> 365] /\ C!Clamp(4000) = 3650
     /\ C!PolicyAction({"customer", "optIn"}) = "policy.no_train.change"
     /\ C!PolicyAction({"customer"}) = "policy.retention.change"
     /\ C!PolicyAction({"export"}) = "policy.setting.change"

(* A provider is one that trains on nothing or none at all: none also where nothing *)
(* is required and no such provider exists, though the capability is allowed.      *)
ASSUME
  \A n \in 0..3 : \A providers \in [1..n -> {"a", "b", "c"}], safe \in SUBSET {"a", "b", "c"} :
    LET open == [C!DefaultPolicy EXCEPT !.requireNoTrain = FALSE]
        p == C!ResolvedProvider(C!DefaultPolicy, providers, safe)
    IN /\ p \in safe \cup {None}
       /\ (p = None) <=> C!CapabilityStatus(C!DefaultPolicy, providers, safe) # "ok"
       /\ C!ResolvedProvider(open, providers, safe) = p /\ C!CapabilityAllowed(open, providers, safe)

(* An export never holds its own event and is recorded though its format is refused; *)
(* a page is cut from the reader's own events, five hundred at most.               *)
ASSUME
  LET log == <<[tenant |-> "t", action |-> "a"], [tenant |-> "u", action |-> "a"],
               [tenant |-> "t", action |-> "b"]>>
      long == [i \in 1..600 |-> log[1]]
      out(f) == C!ExportAudit(log, "t", f)
  IN /\ out("csv").reply = <<log[1], log[3]>> /\ Len(out("csv").log) = 4
     /\ out("xml").reply = "unsupported" /\ Len(out("xml").log) = 4
     /\ C!ListAuditEvents(log, "t", "b", 0, 5) = [events |-> <<log[3]>>, total |-> 1]
     /\ Len(C!ListAuditEvents(long, "t", None, 0, 900).events) = 500
     /\ Len(C!ListAuditEvents(long, "t", None, 550, 900).events) = 50
     /\ Len(C!ListAuditEvents(log, "t", None, 0, 0).events) = 1
     /\ Len(C!ListAuditEvents(log, "t", None, 5, 5).events) = 0

(* What stands under a sensitive key is never recorded, at any depth.              *)
ASSUME
  LET snapshot == <<"name">> :> "bob" @@ <<"auth", "token">> :> "k" @@ <<"auth", "url">> :> "k"
      r == C!Redacted(snapshot, {"token"}, {"bob"})
      log == C!RecordChange(C!RecordChange(<<>>, "t", "a", 1, 2, "x"), "u", "a", 2, 3, "x")
  IN /\ r[<<"auth", "token">>] = "secret" /\ r[<<"name">>] = "masked" /\ r[<<"auth", "url">>] = "k"
     /\ Len(C!ListConfigEvents(log, "u", None, "x")) = 1 /\ log[2].nr = 2

(* Feedback: four ratings in five pages, newest first; the reason of an older       *)
(* client is found in its comment.                                                 *)
ASSUME
  LET record(score, reason) ==
        C!FeedbackRecord("t", "a", "robot", score, reason, None,
                         [reason |-> "from_comment", citation |-> "q"])
      items == <<record(5, "r"), record(1, None), record(0, "r"), record(2, "r")>>
      scores(s) == [i \in DOMAIN s |-> s[i].score]
  IN /\ scores(C!ListFeedback(items, "t", None, 0, 3)) = <<2, 0, 1>>
     /\ scores(C!ListFeedback(items, "t", "down", 1, 3)) = <<1>>
     /\ C!ListFeedback(items, "u", None, 0, 3) = <<>>
     /\ items[2].reason = "from_comment" /\ items[1].reason = "r" /\ items[1].citation = "q"
     /\ items[1].subject = "user" /\ items[3].rating = "neutral" /\ C!RatingLabel(3) = "neutral"

(* The trend is in the order of creation; a run saved again moves to the end in      *)
(* memory and stays where it was in the database.                                  *)
ASSUME
  LET run(id, created) == [id |-> id, tenant |-> "t", set |-> "s", created |-> created]
      saved(durable) ==
        C!SaveRun(C!SaveRun(C!SaveRun([r \in 1..2 |-> None], run(1, 1), durable), run(2, 2), durable),
                  run(1, 3), durable)
  IN /\ C!Trend(saved(TRUE), "t", None) = <<1, 2>> /\ C!Trend(saved(FALSE), "t", "s") = <<2, 1>>
     /\ C!Trend(saved(TRUE), "u", None) = <<>>
===============================================================================
