------------------------------- MODULE ChatService -----------------------------
(* The chatbot's routes over its stores.  Every statement commits on its own, so  *)
(* a request is a load, what it computes, and its writes one at a time; a server  *)
(* handles one request, a second server runs beside it, and either may stop at    *)
(* any point.                                                                     *)
EXTENDS ChatSessions

CONSTANTS
  Server,         \* answer-service processes
  Level,          \* the tenant's authority level: which answer engine runs
  UserMessage,    \* messages users send
  RequiredBody,   \* lists of required slots the scenario routes receive
  PolicyBody,     \* bodies the policy route receives
  CollectionOf,   \* the collection of each document
  MaxRequests     \* bound: requests that change something

ASSUME ChatServerAssumption == IsFiniteSet(Server) /\ MaxRequests \in Nat
ASSUME PolicyBodyAssumption ==
  PolicyBody \subseteq
    [sourced: BOOLEAN, collection: Collection \cup {Unset}, mode: PolicyMode,
     channels: SUBSET Channel, intents: SUBSET Intent, site: BOOLEAN, tagged: BOOLEAN]
ASSUME RequiredBodyAssumption == RequiredBody \subseteq SUBSET Slot
ASSUME UserMessageAssumption ==
  UserMessage \subseteq {m \in Message : m.kind = "confirm" => m.slots = {}}

VARIABLES
  chatScenario,   \* the tenant's scenario row (chatbot_scenarios)
  sessions,       \* chatbot_sessions
  packages,       \* chatbot_handoffs
  policies,       \* chatbot source policies
  citable,        \* documents retrieval can return; kept by the knowledge base
  request,        \* per server: the request it handles
  asked           \* requests so far

vars == <<chatScenario, sessions, packages, policies, citable, request, asked>>

HandoffReason ==
  {"insufficient_evidence", "customer_requested_human", "unsupported_high_risk",
   "source_not_enabled_for_chatbot"}
Package == [id: Nat, session: Session, reason: HandoffReason]

(* A write the request still has to do. *)
Write ==
  [store: {"scenario"}, value: ChatScenario]
    \cup [store: {"package"}, value: Package]
    \cup [store: {"session"}, of: Session, value: SessionRow]

Idle == [at |-> "idle"]
Request ==
  {Idle}
    \cup [at: {"loaded", "retrieving"}, of: Session, row: SessionRow, msg: Message,
          known: SUBSET Document]
    \cup [at: {"writing"}, todo: Seq(Write), known: SUBSET Document]

Init ==
  /\ chatScenario = None
  /\ sessions = [c \in Session |-> None]
  /\ packages = {}
  /\ policies = [i \in PolicyId |-> Unset]
  /\ citable = Document
  /\ request = [s \in Server |-> Idle]
  /\ asked = 0

-------------------------------------------------------------------------------
Begins(s) ==
  /\ request[s] = Idle
  /\ asked < MaxRequests
  /\ asked' = asked + 1

Writes(s, todo, known) ==
  request' = [request EXCEPT ![s] =
    IF todo = <<>> THEN Idle ELSE [at |-> "writing", todo |-> todo, known |-> known]]

ScenarioWrite(scn) == [store |-> "scenario", value |-> scn]
SessionWrite(c, row) == [store |-> "session", of |-> c, value |-> row]
PackageWrite(id, c, reason) ==
  [store |-> "package", value |-> [id |-> id, session |-> c, reason |-> reason]]

(* A session that already has a stored package keeps it; else a new id, unlike    *)
(* any stored or about to be stored.                                              *)
UsedIds ==
  {p.id : p \in packages} \cup
  {Head(request[t].todo).value.id :
     t \in {q \in Server : request[q].at = "writing" /\ Head(request[q].todo).store = "package"}}

NewId == CHOOSE n \in 1..(Cardinality(UsedIds) + 1) : n \notin UsedIds

PackageFor(row) == IF row.package \in {p.id : p \in packages} THEN row.package ELSE NewId

(* _create_handoff and the save of the session: the package is written first. *)
HandoffWrites_SessionFirst(c, row, reason) ==
  LET id == PackageFor(row)
      session == SessionWrite(c, HandedOff(row, id))
  IN IF id = row.package THEN <<session>>
     ELSE <<session, PackageWrite(id, c, reason)>>

HandoffWrites(c, row, reason) ==
  LET id == PackageFor(row)
      session == SessionWrite(c, HandedOff(row, id))
  IN IF id = row.package THEN <<session>>
     ELSE <<PackageWrite(id, c, reason), session>>

-------------------------------------------------------------------------------
(* create_session; its initial message is a turn of its own. *)
CreateSession(s, c, channel) ==
  /\ Begins(s)
  /\ sessions[c] = None
  /\ Writes(s, <<SessionWrite(c, NewSession(channel))>>, citable)
  /\ UNCHANGED <<chatScenario, sessions, packages, policies, citable>>

(* submit_message reads the session; a terminal one is written back unchanged. *)
SubmitMessage(s, c, msg) ==
  /\ Begins(s)
  /\ sessions[c] # None
  /\ Len(sessions[c].turns) < MaxTurns
  /\ ~TerminalSession(sessions[c])
  /\ request' = [request EXCEPT ![s] = [at |-> "loaded", of |-> c, row |-> sessions[c],
                                        msg |-> msg, known |-> citable]]
  /\ UNCHANGED <<chatScenario, sessions, packages, policies, citable>>

RefuseTurn(s, c) ==
  /\ Begins(s)
  /\ sessions[c] # None
  /\ TerminalSession(sessions[c])
  /\ Writes(s, <<SessionWrite(c, sessions[c])>>, citable)
  /\ UNCHANGED <<chatScenario, sessions, packages, policies, citable>>

-------------------------------------------------------------------------------
(* The rest of submit_message, after the load.                                    *)
Turning(s, branch) ==
  /\ request[s].at = "loaded"
  /\ Branch(request[s].row, request[s].msg.kind) = branch

(* The loaded session with the intent of this turn. *)
Row(s) ==
  LET r == request[s].row
  IN [r EXCEPT !.intent = IntentAfter(r, request[s].msg.kind)]

TurnWrites(s, todo) == Writes(s, todo, request[s].known)

RefusalTurn(s) ==
  /\ Turning(s, "refusal")
  /\ TurnWrites(s, HandoffWrites(request[s].of,
       [Spoken(Row(s), "handoff") EXCEPT !.named = FALSE], "insufficient_evidence"))
  /\ UNCHANGED <<chatScenario, sessions, packages, policies, citable, asked>>

ClarificationTurn(s) ==
  /\ Turning(s, "unclear")
  /\ TurnWrites(s, <<SessionWrite(request[s].of,
       [Spoken(Row(s), "ask") EXCEPT !.named = FALSE])>>)
  /\ UNCHANGED <<chatScenario, sessions, packages, policies, citable, asked>>

HandoffTurn(s) ==
  /\ Turning(s, "handoff")
  /\ TurnWrites(s, HandoffWrites(request[s].of, Spoken(Row(s), "handoff"),
       IF Row(s).intent = "high_risk" THEN "unsupported_high_risk"
       ELSE "customer_requested_human"))
  /\ UNCHANGED <<chatScenario, sessions, packages, policies, citable, asked>>

(* _tenant_scenario stores a copy of the seed when the tenant has no row. *)
SeedWrite == IF chatScenario = None THEN <<ScenarioWrite(Seed)>> ELSE <<>>

CancelTurn(s) ==
  /\ Turning(s, "scenario")
  /\ TurnWrites(s, SeedWrite \o <<SessionWrite(request[s].of,
       ScenarioTurn(Row(s), request[s].msg, RequiredSlots(TenantScenario(chatScenario))))>>)
  /\ UNCHANGED <<chatScenario, sessions, packages, policies, citable, asked>>

Enabling(s) ==
  PreRetrievalPolicies(policies, request[s].msg.collection, Row(s).channel, Row(s).intent)

MayReuse(s) ==
  /\ request[s].msg.kind \in {"evidence", "reformat"}
  /\ Enabling(s) # {}
  /\ LastCites(Row(s)) # {}

ReuseTurn(s) ==
  /\ Turning(s, "retrieve")
  /\ MayReuse(s)
  /\ TurnWrites(s, <<SessionWrite(request[s].of, ReusedAnswer(Row(s)))>>)
  /\ UNCHANGED <<chatScenario, sessions, packages, policies, citable, asked>>

NoSourceTurn(s) ==
  /\ Turning(s, "retrieve")
  /\ Enabling(s) = {}
  /\ TurnWrites(s, HandoffWrites(request[s].of,
       [Spoken(Row(s), "handoff") EXCEPT !.named = FALSE], "source_not_enabled_for_chatbot"))
  /\ UNCHANGED <<chatScenario, sessions, packages, policies, citable, asked>>

(* The answer engine is called: the request waits while others may run. *)
Retrieve(s) ==
  /\ Turning(s, "retrieve")
  /\ Enabling(s) # {} /\ ~MayReuse(s)
  /\ request' = [request EXCEPT ![s].at = "retrieving"]
  /\ UNCHANGED <<chatScenario, sessions, packages, policies, citable, asked>>

(* What the engine can return.  From level L2 on, a question that only points     *)
(* back at the last answer is answered from its citations without a search.       *)
EngineCites(s) ==
  {{d \in ds : CollectionOf[d] = request[s].msg.collection} : ds \in SUBSET citable}
    \cup (IF Level \in {"L2", "L3", "L4"} /\ request[s].msg.kind = "question"
          THEN {LastCites(Row(s))} ELSE {})

(* The answer comes back: the policies, read again, filter its citations; status, *)
(* text and confidence decide with them whether it is an answer or a hand-off.    *)
Answered(s, cites, good) ==
  /\ request[s].at = "retrieving"
  /\ LET c       == request[s].of
         allowed == CitationPolicies(policies, request[s].msg.collection,
                                     Row(s).channel, Row(s).intent)
         kept    == IF allowed = {} THEN {} ELSE cites
     IN IF good /\ kept # {}
        THEN TurnWrites(s, <<SessionWrite(c, FreshAnswer(Row(s), kept))>>)
        ELSE TurnWrites(s, HandoffWrites(c,
               [Spoken(Row(s), "handoff") EXCEPT !.named = TRUE],
               IF good /\ cites # {} THEN "source_not_enabled_for_chatbot"
               ELSE "insufficient_evidence"))
  /\ UNCHANGED <<chatScenario, sessions, packages, policies, citable, asked>>

(* request_handoff: also for a session that already ended in a ticket. *)
RequestHandoff(s, c) ==
  /\ Begins(s)
  /\ sessions[c] # None
  /\ Writes(s, HandoffWrites(c, sessions[c], "customer_requested_human"), citable)
  /\ UNCHANGED <<chatScenario, sessions, packages, policies, citable>>

-------------------------------------------------------------------------------
(* The scenario routes: read the row, compute, write it back.                     *)
ManageScenario(s, before, after) ==
  /\ Begins(s)
  /\ Writes(s, before \o after, citable)
  /\ UNCHANGED <<chatScenario, sessions, packages, policies, citable>>

CreateScenario(s, status, v, required) ==
  ManageScenario(s, <<>>, <<ScenarioWrite(CreatedScenario(status, v, required))>>)

UpsertScenarioVersion(s, v, required) ==
  LET scn == TenantScenario(chatScenario)
  IN ManageScenario(s, SeedWrite,
       IF Locked(scn, v) THEN <<>>
       ELSE <<ScenarioWrite(UpsertedScenario(scn, v, required))>>)

ScenarioAction(s, v, action) ==
  LET scn == TenantScenario(chatScenario)
  IN ManageScenario(s, SeedWrite,
       IF MayAct(scn, v, action) THEN <<ScenarioWrite(ActedScenario(scn, v, action))>>
       ELSE <<>>)

RollbackScenario(s) ==
  /\ chatScenario # None
  /\ \E v \in Version :
       /\ LastPublished(chatScenario, v)
       /\ ManageScenario(s, <<>>, <<ScenarioWrite(RolledBackScenario(chatScenario, v))>>)

(* upsert_source_policy is a single statement. *)
UpsertSourcePolicy(i, body) ==
  /\ asked < MaxRequests
  /\ asked' = asked + 1
  /\ policies' = [policies EXCEPT ![i] = SavedPolicy(body)]
  /\ UNCHANGED <<chatScenario, sessions, packages, citable, request>>

-------------------------------------------------------------------------------
(* The next write of a request commits; after the last one it is over. *)
Commit(s) ==
  /\ request[s].at = "writing"
  /\ LET w == Head(request[s].todo)
     IN /\ Writes(s, Tail(request[s].todo), request[s].known)
        /\ chatScenario' = IF w.store = "scenario" THEN w.value ELSE chatScenario
        /\ packages' = IF w.store = "package" THEN packages \cup {w.value} ELSE packages
        /\ sessions' = IF w.store = "session" THEN [sessions EXCEPT ![w.of] = w.value]
                       ELSE sessions
  /\ UNCHANGED <<policies, citable, asked>>

(* The server process dies and comes back with no request. *)
Crash(s) ==
  /\ request[s] # Idle
  /\ request' = [request EXCEPT ![s] = Idle]
  /\ UNCHANGED <<chatScenario, sessions, packages, policies, citable, asked>>

(* The knowledge base stops serving a document: deleted, obsolete or no longer    *)
(* readable.                                                                      *)
Withdraw(d) ==
  /\ d \in citable
  /\ citable' = citable \ {d}
  /\ UNCHANGED <<chatScenario, sessions, packages, policies, request, asked>>

SessionRoute(s) ==
  \E c \in Session :
    \/ \E channel \in Channel : CreateSession(s, c, channel)
    \/ \E msg \in UserMessage : SubmitMessage(s, c, msg)
    \/ RefuseTurn(s, c)
    \/ RequestHandoff(s, c)

TurnStep(s) ==
  \/ RefusalTurn(s) \/ ClarificationTurn(s) \/ HandoffTurn(s) \/ CancelTurn(s)
  \/ ReuseTurn(s) \/ NoSourceTurn(s) \/ Retrieve(s)
  \/ /\ request[s].at = "retrieving"
     /\ \E cites \in EngineCites(s), good \in BOOLEAN : Answered(s, cites, good)

ScenarioRoute(s) ==
  \/ \E v \in Version, required \in RequiredBody :
       \/ \E status \in {"draft", "published"} : CreateScenario(s, status, v, required)
       \/ UpsertScenarioVersion(s, v, required)
  \/ \E v \in Version, action \in DOMAIN ScenarioTarget : ScenarioAction(s, v, action)
  \/ RollbackScenario(s)

Next ==
  \/ \E s \in Server : SessionRoute(s) \/ TurnStep(s) \/ ScenarioRoute(s)
                       \/ Commit(s) \/ Crash(s)
  \/ \E i \in PolicyId, body \in PolicyBody : UpsertSourcePolicy(i, body)
  \/ \E d \in Document : Withdraw(d)

Spec == Init /\ [][Next]_vars

-------------------------------------------------------------------------------
(* Every store and every request in flight holds values of its kind. *)
TypeOK ==
  /\ chatScenario \in ChatScenario \cup {None}
  /\ sessions \in [Session -> SessionRow \cup {None}]
  /\ packages \subseteq Package
  /\ policies \in [PolicyId -> SourcePolicy(Intent) \cup {Unset}]
  /\ citable \subseteq Document
  /\ request \in [Server -> Request]
  /\ asked \in 0..MaxRequests

(* A stored session that waits for a person points at a package that is stored    *)
(* and is about this session: an operator who follows it never finds nothing or   *)
(* another customer's conversation, whatever request died half-way                *)
(* (_create_handoff saves the package before submit_message saves the session).   *)
HandoffIsLinked ==
  \A c \in Session :
    sessions[c] # None =>
      /\ sessions[c].status = "handoff_pending" => sessions[c].package # None
      /\ sessions[c].package # None =>
           \E p \in packages : p.id = sessions[c].package /\ p.session = c

(* A cancellation ticket exists only in a session that was shown the collected    *)
(* data and asked to confirm it, unless the scenario's required slots were        *)
(* changed during the conversation or are none (_run_cancel_scenario).            *)
TicketWasOffered ==
  \A c \in Session : sessions[c] # None =>
    \A k \in DOMAIN sessions[c].turns :
      LET turn == sessions[c].turns
      IN turn[k].action = "ticket" /\ turn[k].required # {} =>
           \E j \in 1..(k - 1) :
             \/ turn[j].action = "confirm"
             \/ turn[j].action = "collect" /\ turn[j].required # turn[k].required

(* The version the dialogue runs was approved at some time: creating over it,     *)
(* editing, archiving, submitting again and rolling back never make a version     *)
(* active that no approver has seen (scenario_action, rollback_scenario).         *)
ActiveWasApproved ==
  chatScenario # None =>
    (ActiveVersion(chatScenario) # None => ActiveVersion(chatScenario).approved)

(* A turn never cites a document that had stopped being served before its request *)
(* was received: "A deleted document never reappears in search/answer/citation    *)
(* (SC-003)".                                                                     *)
WithdrawnIsNotCited ==
  \A s \in Server :
    request[s].at = "writing" =>
      \A k \in DOMAIN request[s].todo :
        LET w == request[s].todo[k]
        IN w.store = "session" /\ sessions[w.of] # None
             /\ Len(w.value.turns) > Len(sessions[w.of].turns) =>
             w.value.turns[Len(w.value.turns)].cites \subseteq request[s].known

(* Every answer the chatbot gave names the source policy that allowed it:         *)
(* "System MUST record which source exposure policy and scenario filter allowed   *)
(* each RAG interaction".                                                         *)
AnswerNamesItsPolicy ==
  \A c \in Session : sessions[c] # None =>
    \A k \in DOMAIN sessions[c].turns :
      sessions[c].turns[k].action = "answer" => sessions[c].turns[k].named
===============================================================================
