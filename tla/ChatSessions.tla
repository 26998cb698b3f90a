------------------------------ MODULE ChatSessions -----------------------------
(* One chat turn as a computation on the session a request has loaded: what the   *)
(* message means, which branch of the dialogue it takes, and what the session     *)
(* looks like afterwards.  The steps that read and write the stores are in        *)
(* ChatService.                                                                   *)
EXTENDS Naturals, FiniteSets, Sequences

----
(* The scenario a tenant's chatbot runs for a cancellation, and the routes that   *)
(* manage it: one row holds the scenario and all its versions, and every route    *)
(* reads the row, changes the copy and writes it back.  A tenant that never       *)
(* changed anything has no row and uses the built-in seed.                        *)
(* Versions are numbered in the order the stored JSON object lists its keys,      *)
(* which is the order rollback looks through, not the order they were made in.    *)
CONSTANTS
  Version,        \* version ids, as positions in the key order of the stored row
  SeedVersion,    \* the seed's version
  Slot,           \* the slots a version may require ("email", "company_name")
  None            \* no row, no version, no value

ASSUME ChatVersionAssumption == Version \subseteq Nat /\ SeedVersion \in Version

VersionStatus == {"draft", "in_review", "approved", "published", "scheduled", "archived"}

ScenarioVersion ==
  [status: VersionStatus, required: SUBSET Slot, approved: BOOLEAN]

ASSUME ChatNoneAssumption == None \notin Nat \cup ScenarioVersion

ChatScenario ==
  [status: VersionStatus, active: Version \cup {None},
   versions: [Version -> ScenarioVersion \cup {None}]]

Seed ==
  [status |-> "published", active |-> SeedVersion,
   versions |-> [v \in Version |->
     IF v = SeedVersion
     THEN [status |-> "published", required |-> Slot, approved |-> TRUE]
     ELSE None]]

(* What a route works on: the tenant's row, or a copy of the seed. *)
TenantScenario(row) == IF row = None THEN Seed ELSE row

(* The version a chat turn runs: None once the active version was archived, or    *)
(* after a create wrote a row with no active version.                             *)
ActiveVersion(scn) == IF scn.active = None THEN None ELSE scn.versions[scn.active]

(* The slots a turn asks for when the scenario has no active version. *)
RequiredSlots(scn) ==
  IF ActiveVersion(scn) = None THEN Slot ELSE ActiveVersion(scn).required

-------------------------------------------------------------------------------
(* create_scenario writes a new row over whatever the tenant had. *)
CreatedScenario(status, v, required) ==
  [status |-> status, active |-> None,
   versions |-> [w \in Version |->
     IF w = v THEN [status |-> "draft", required |-> required, approved |-> FALSE]
     ELSE None]]

Locked(scn, v) ==
  scn.versions[v] # None /\ scn.versions[v].status \in {"published", "archived"}

(* upsert_scenario_version: an empty list of slots keeps the earlier one, and the *)
(* status and the approval of the earlier definition stay with the new one.       *)
UpsertedScenario(scn, v, required) ==
  LET old == scn.versions[v]
      new == IF old = None
             THEN [status |-> "draft", required |-> required, approved |-> FALSE]
             ELSE [old EXCEPT !.required = IF required = {} THEN @ ELSE required]
  IN [scn EXCEPT !.versions[v] = new,
        !.active = IF @ = None /\ new.status = "published" THEN v ELSE @,
        !.status = IF @ \in {"published", "scheduled"} THEN @ ELSE new.status]

ScenarioTarget ==
  [submit |-> "in_review", approve |-> "approved", publish |-> "published",
   schedule |-> "scheduled", archive |-> "archived"]

(* scenario_action: only publishing looks at the version's present status. *)
MayAct_Anytime(scn, v, action) == scn.versions[v] # None

MayAct(scn, v, action) ==
  /\ scn.versions[v] # None
  /\ action = "publish" => scn.versions[v].status = "approved"

ActedScenario(scn, v, action) ==
  LET version == [scn.versions[v] EXCEPT !.status = ScenarioTarget[action],
                                         !.approved = @ \/ action = "approve"]
  IN [scn EXCEPT !.versions[v] = version,
        !.active = IF action = "publish" THEN v
                   ELSE IF action = "archive" /\ @ = v THEN None ELSE @,
        !.status = ScenarioTarget[action]]

(* rollback_scenario: the last published version in key order, which may be the   *)
(* one that is active already.                                                    *)
PublishedVersions(scn) ==
  {v \in Version : scn.versions[v] # None /\ scn.versions[v].status = "published"}

LastPublished(scn, v) ==
  v \in PublishedVersions(scn) /\ \A w \in PublishedVersions(scn) : w <= v

RolledBackScenario(scn, v) == [scn EXCEPT !.status = "published", !.active = v]

----
CONSTANTS
  PolicyId,       \* ids of source policies
  Collection,     \* collections of documents
  Unset,          \* a policy that was never saved, a collection left out
  Session,        \* chat sessions of one tenant
  Document,       \* documents an answer may cite
  MaxTurns        \* bound: turns of a session

(* The rules that say which sources the chatbot may use, and how a turn reads     *)
(* them: before retrieval for the collection the request names, and after it for  *)
(* each citation that came back.                                                  *)
PolicyMode ==
  {"disabled", "internal_authenticated", "external_authenticated", "external_anonymous"}
Channel == {"web_chat", "public_widget"}
NotForRetrieval == {"cancel_subscription", "human_handoff", "high_risk"}

(* A policy as stored: the source or the collection it names, the lists that      *)
(* narrow it (empty for no limit), whether it lists the widget's site and any     *)
(* document tag.                                                                  *)
SourcePolicy(intents) ==
  [sourced: BOOLEAN, collection: Collection \cup {Unset}, mode: PolicyMode,
   channels: SUBSET Channel, intents: SUBSET intents,
   site: BOOLEAN, tagged: BOOLEAN, active: BOOLEAN]

(* A policy for a single source is saved as a draft: retrieval cannot enforce it. *)
SavedPolicy(body) ==
  [sourced |-> body.sourced, collection |-> body.collection, mode |-> body.mode,
   channels |-> body.channels, intents |-> body.intents,
   site |-> body.site, tagged |-> body.tagged, active |-> ~body.sourced]

ModeFits(p, channel) ==
  IF channel = "web_chat"
  THEN p.mode \in {"internal_authenticated", "external_authenticated"}
  ELSE /\ p.mode \in {"external_authenticated", "external_anonymous"}
       /\ p.site
       /\ p.mode = "external_anonymous" => p.tagged

IntentFits(p, intent) ==
  \/ p.intents = {} \/ intent = Unset
  \/ intent \in p.intents
  \/ "rag_question" \in p.intents /\ intent \notin NotForRetrieval

AllowsTurn(p, channel, intent) ==
  /\ ModeFits(p, channel)
  /\ p.channels = {} \/ channel \in p.channels
  /\ IntentFits(p, intent)

(* The collection-wide policies a request may retrieve under; none when it names  *)
(* no collection.                                                                 *)
PreRetrievalPolicies(stored, collection, channel, intent) ==
  {i \in PolicyId :
     /\ stored[i] # Unset
     /\ stored[i].active /\ ~stored[i].sourced
     /\ collection # Unset /\ stored[i].collection = collection
     /\ AllowsTurn(stored[i], channel, intent)}

(* The policies that let a citation through: those of the collection and those    *)
(* that name none.  No stored policy names a source and is active.                *)
CitationPolicies(stored, collection, channel, intent) ==
  {i \in PolicyId :
     /\ stored[i] # Unset
     /\ stored[i].active
     /\ ~stored[i].sourced
     /\ stored[i].collection \in {collection, Unset}
     /\ AllowsTurn(stored[i], channel, intent)}

----
(* What a user message says.  "evidence" and "reformat" are the quick replies     *)
(* that ask for more about the last answer; everything else is free text.         *)
MessageKind ==
  {"confirm", "refusal", "unclear", "human", "risk", "cancel", "pricing", "question",
   "evidence", "reformat"}
Message == [kind: MessageKind, slots: SUBSET Slot, collection: Collection \cup {Unset}]

Intent == {"human_handoff", "high_risk", "cancel_subscription", "pricing_question", "rag_question"}
SessionStatus == {"active", "handoff_pending", "ticket_created"}
BotAction == {"handoff", "ask", "collect", "confirm", "ticket", "answer"}

(* One turn as the transcript keeps it: what the bot did, the documents it cited, *)
(* whether the answer names the policy it was given under, and the slots the      *)
(* scenario required at the time.                                                 *)
Turn ==
  [action: BotAction, cites: SUBSET Document, named: BOOLEAN, required: SUBSET Slot]

(* last_rag as far as a later turn looks at it: whether it names a policy. *)
SessionRow ==
  [channel: Channel, status: SessionStatus, intent: Intent \cup {Unset},
   inScenario: BOOLEAN, slots: SUBSET Slot, package: Nat \cup {None},
   ticket: BOOLEAN, named: BOOLEAN, turns: Seq(Turn)]

NewSession(channel) ==
  [channel |-> channel, status |-> "active", intent |-> Unset, inScenario |-> FALSE,
   slots |-> {}, package |-> None, ticket |-> FALSE, named |-> FALSE, turns |-> <<>>]

(* The session takes no more turns.  "resolved" and "closed" are never set. *)
TerminalSession(row) == row.status = "ticket_created"

-------------------------------------------------------------------------------
(* _classify_intent: words of the message first; a message with none of them has  *)
(* the intent of the turn before, whatever that was.                              *)
SaysIntent ==
  [human |-> "human_handoff", risk |-> "high_risk",
   cancel |-> "cancel_subscription", pricing |-> "pricing_question"]

CurrentIntent(row) == IF row.intent = Unset THEN "rag_question" ELSE row.intent

IntentAfter(row, kind) ==
  IF kind \in {"confirm", "refusal", "unclear"} THEN row.intent
  ELSE IF kind \in DOMAIN SaysIntent THEN SaysIntent[kind]
  ELSE CurrentIntent(row)

(* Which of the branches, in the order the code tries them. *)
Branch(row, kind) ==
  IF kind \in {"refusal", "unclear"} THEN kind
  ELSE IF kind # "confirm" /\ IntentAfter(row, kind) \in {"human_handoff", "high_risk"}
  THEN "handoff"
  ELSE IF \/ kind = "confirm" \/ row.inScenario
          \/ IntentAfter(row, kind) = "cancel_subscription"
  THEN "scenario"
  ELSE "retrieve"

Spoken(row, action) ==
  [row EXCEPT !.turns = Append(@, [action |-> action, cites |-> {}, named |-> FALSE,
                                   required |-> {}])]

-------------------------------------------------------------------------------
(* The cancellation scenario.  It takes the session over for good: the scenario   *)
(* is kept in the session and every later question goes to it.                    *)
ScenarioTurn_YesIsEnough(row, msg, required) ==
  LET slots   == row.slots \cup msg.slots
      missing == required \ slots
      action  == IF msg.kind = "confirm" THEN "ticket"
                 ELSE IF missing # {} THEN "collect" ELSE "confirm"
  IN [row EXCEPT
        !.intent = "cancel_subscription",
        !.inScenario = TRUE,
        !.slots = slots,
        !.ticket = @ \/ action = "ticket",
        !.status = IF action = "ticket" THEN "ticket_created" ELSE @,
        !.turns = Append(@, [action |-> action, cites |-> {}, named |-> FALSE,
                             required |-> required])]

ScenarioTurn(row, msg, required) ==
  LET slots   == row.slots \cup msg.slots
      missing == required \ slots
      action  == IF missing # {} THEN "collect"
                 ELSE IF msg.kind = "confirm" THEN "ticket" ELSE "confirm"
  IN [row EXCEPT
        !.intent = "cancel_subscription",
        !.inScenario = TRUE,
        !.slots = slots,
        !.ticket = @ \/ action = "ticket",
        !.status = IF action = "ticket" THEN "ticket_created" ELSE @,
        !.turns = Append(@, [action |-> action, cites |-> {}, named |-> FALSE,
                             required |-> required])]

-------------------------------------------------------------------------------
(* DialogueManager.last_answer_context: the last answer with citations. *)
LastAnswer(turns, k) ==
  /\ turns[k].action = "answer"
  /\ \A j \in DOMAIN turns : turns[j].action = "answer" => j <= k

LastCites(row) ==
  UNION {row.turns[k].cites : k \in {i \in DOMAIN row.turns : LastAnswer(row.turns, i)}}

(* The quick replies show the last answer again with its own citations; the       *)
(* policy is copied from the session's last retrieval, which a turn in between    *)
(* may have replaced by one that names none.                                      *)
ReusedAnswer(row) ==
  [row EXCEPT !.turns = Append(@, [action |-> "answer", cites |-> LastCites(row),
                                   named |-> row.named, required |-> {}])]

(* An answer from retrieval: kept when the status is ok, a citation is left after *)
(* the policies and the text and the confidence are good enough.                  *)
FreshAnswer(row, cites) ==
  [row EXCEPT !.named = TRUE,
     !.turns = Append(@, [action |-> "answer", cites |-> cites, named |-> TRUE,
                          required |-> {}])]

(* _create_handoff: a session that has a package keeps it, and nothing else of    *)
(* the session changes then, not even its status.                                 *)
HandedOff(row, id) ==
  IF id = row.package THEN row
  ELSE [row EXCEPT !.package = id, !.status = "handoff_pending"]
===============================================================================
