------------------------------ MODULE PhoneCalls ------------------------------
(***************************************************************************)
(* The phone agent of the answer service (phone/orchestrator.py, domain.py,*)
(* handoff.py) and the rows it keeps (persistence/phone_models.py): calls  *)
(* and the hand-off packages operators take over.                          *)
(*                                                                         *)
(* A server serves one request at a time.  It reads a row, works on its    *)
(* copy and writes the whole row back; the steps of a request are todo[p], *)
(* its locals job[p].  The row of a call does not hold the counters and    *)
(* slots of the dialogue, so they last as long as one request.             *)
(***************************************************************************)
EXTENDS Naturals, FiniteSets, Sequences

-------------------------------------------------------------------------------
(***************************************************************************)
(* Call scenarios of one tenant (phone/scenarios.py) and the row they are  *)
(* kept in (PostgresPhoneScenarioRepository): one scenario whose versions  *)
(* are drafted, reviewed, approved, published and rolled back.  Every      *)
(* request reads the whole row, changes its copy and writes it back.       *)
(*                                                                         *)
(* A payload is a member of Scripts; what the dialogue needs of it is the  *)
(* number of required slots and the hand-off reasons it enables.           *)
(***************************************************************************)
CONSTANTS
    Scripts,      \* payloads of a scenario version
    SlotsOf,      \* SlotsOf[s]: how many slots s requires
    ReasonsOf,    \* ReasonsOf[s]: the hand-off reasons s enables
    DefaultScript, \* the payload create() seeds version 1 with
    MaxVersions,
    NoVersion

Mandatory == {"customer_requested_human", "insufficient_evidence"}

ASSUME ScriptsAssumption ==
    /\ DefaultScript \in Scripts
    /\ SlotsOf \in [Scripts -> Nat]
    /\ NoVersion \notin Nat
    /\ MaxVersions \in Nat

VARIABLE scenario   \* phone_call_scenarios: the row of the tenant's scenario

ScenarioTransitions ==
    [draft |-> {"in_review", "archived"},
     in_review |-> {"approved", "draft", "archived"},
     approved |-> {"scheduled", "published", "archived"},
     scheduled |-> {"published", "archived"},
     published |-> {"archived"},
     archived |-> {}]
ScenarioStatus == DOMAIN ScenarioTransitions
ActionTargets == {"in_review", "approved", "published", "scheduled", "archived"}

Version == [status : ScenarioStatus, approved : BOOLEAN, script : Scripts]
Immutable(version) == version.status \in {"published", "archived"}

(* _ensure_mandatory_handoff_conditions: a version that lists a mandatory  *)
(* reason, even disabled, keeps what it lists.  A script is named by what  *)
(* remains enabled.                                                        *)
NewVersion(status, approved, script) ==
    [status |-> status, approved |-> approved, script |-> script]

NoScenario == [active |-> NoVersion, versions |-> << >>]
ScenarioRow == [active : 1..MaxVersions \cup {NoVersion}, versions : Seq(Version)]

-------------------------------------------------------------------------------
(* What a request makes of the row it read: the new row, or the same row   *)
(* when the service raises a ScenarioError.                                *)

Created(row) ==
    IF row.versions # << >> THEN row
    ELSE [row EXCEPT !.versions = <<NewVersion("draft", FALSE, DefaultScript)>>]

(* Mutant: a version that is live may be edited.                           *)
Upserted_Anytime(row, v, script) ==
    IF v > Len(row.versions) + 1 THEN row
    ELSE IF v = Len(row.versions) + 1
      THEN [row EXCEPT !.versions = Append(@, NewVersion("draft", FALSE, script))]
    ELSE [row EXCEPT !.versions[v].script = script]

(* A new version is a draft; an edit keeps the status and the approval.    *)
Upserted(row, v, script) ==
    IF v > Len(row.versions) + 1 THEN row
    ELSE IF v = Len(row.versions) + 1
      THEN [row EXCEPT !.versions = Append(@, NewVersion("draft", FALSE, script))]
    ELSE IF Immutable(row.versions[v]) THEN row
    ELSE [row EXCEPT !.versions[v].script = script]

(* submit-review, approve, publish, schedule and archive, named by the     *)
(* status they lead to; publish requires an approved or scheduled version. *)
MayMove(version, target) ==
    /\ ~Immutable(version) \/ target = "archived"
    /\ target \in ScenarioTransitions[version.status]

(* Mutant: an archived version stays the active one.                       *)
Acted_KeepsActive(row, v, target) ==
    IF v \notin DOMAIN row.versions \/ ~MayMove(row.versions[v], target) THEN row
    ELSE [row EXCEPT !.versions[v].status = target,
                     !.versions[v].approved = @ \/ target = "approved",
                     !.active = IF target = "published" THEN v ELSE @]

Acted(row, v, target) ==
    IF v \notin DOMAIN row.versions \/ ~MayMove(row.versions[v], target) THEN row
    ELSE LET moved == [row EXCEPT !.versions[v].status = target,
                                  !.versions[v].approved = @ \/ target = "approved"]
         IN  IF target = "published" THEN [moved EXCEPT !.active = v]
             ELSE IF target = "archived" /\ row.active = v
               THEN [moved EXCEPT !.active = NoVersion]
             ELSE moved

(* rollback publishes a copy of an approved version under a new number.    *)
Restorable(version) ==
    version.status \in {"published", "archived", "approved"} /\ version.approved
RolledBack(row, v) ==
    IF v \notin DOMAIN row.versions \/ ~Restorable(row.versions[v]) THEN row
    ELSE [active |-> Len(row.versions) + 1,
          versions |-> Append(row.versions,
                              NewVersion("published", TRUE, row.versions[v].script))]

(* resolve_for_call: the version a turn runs under, read at every turn.    *)
Resolved(row) ==
    IF row.active # NoVersion /\ row.versions[row.active].status = "published"
      THEN row.active ELSE NoVersion

ScenarioTypeOK ==
    /\ scenario \in [active : Nat \cup {NoVersion}, versions : Seq(Version)]
    /\ Len(scenario.versions) <= MaxVersions

-------------------------------------------------------------------------------
CONSTANTS
    Calls,        \* call ids
    Servers,      \* answer services
    Operators,
    MaxPackages,  \* hand-off packages in a behavior
    MaxRequests,  \* requests in a behavior
    MaxScript,    \* utterances of a simulated call
    MaxLow,       \* max_low_confidence_retries
    MaxClarifications,
    NoCall, NoPackage

ASSUME CallsAssumption ==
    /\ NoCall \notin Calls
    /\ MaxPackages \in Nat /\ NoPackage \notin Nat
    /\ MaxRequests \in Nat

VARIABLES
    calls,      \* phone_call_sessions: a partial function from Calls
    packages,   \* phone_handoff_packages: a partial function from 1..MaxPackages
    todo, job,  \* the steps left and the locals of each server
    requests

callTables == <<calls, packages>>
phoneControl == <<todo, job, requests>>

CallTransitions ==
    [ringing |-> {"active", "abandoned", "failed"},
     active |-> {"on_hold", "handoff_pending", "completed", "abandoned", "failed"},
     on_hold |-> {"active", "handoff_pending", "abandoned", "failed"},
     handoff_pending |-> {"transferred", "active", "abandoned", "failed"},
     transferred |-> {}, completed |-> {}, abandoned |-> {}, failed |-> {}]
CallState == DOMAIN CallTransitions
Terminal(call) == call.state \in {"transferred", "completed", "abandoned", "failed"}

(* transcript says what is left of the caller's words, answered whether an *)
(* answer with citations is in it and asked how many re-asks.  low,        *)
(* clarified, missing, awaiting and parked are lost between requests.      *)
Transcript == {"empty", "text", "erased"}
CallRow == [id : Calls, state : CallState, answered : BOOLEAN, asked : Nat,
            package : 1..MaxPackages \cup {NoPackage}, transcript : Transcript,
            low : Nat, clarified : Nat, missing : Nat, awaiting : BOOLEAN, parked : BOOLEAN]
Package == [call : Calls, status : {"queued", "accepted", "callback_requested"},
            operator : Operators \cup {NoCall}, transcript : Transcript]

(* _row_to_call: what a read gives back of the call that was saved.        *)
Persisted(call) ==
    [call EXCEPT !.low = 0, !.clarified = 0, !.missing = 0,
                 !.awaiting = FALSE, !.parked = FALSE]

NewCall(c, version) ==
    [id |-> c, state |-> "active", answered |-> FALSE, asked |-> 0, package |-> NoPackage,
     transcript |-> "empty", low |-> 0, clarified |-> 0,
     missing |-> IF version = NoVersion THEN 0 ELSE SlotsOf[scenario.versions[version].script],
     awaiting |-> FALSE, parked |-> FALSE]

(* Events of a call: what the caller says and how clearly, or what the     *)
(* provider reports.                                                       *)
Signals == {"voice_failure", "failure", "hangup", "hold", "resume"}
Says == {"nothing", "question", "human", "risk", "anger"}
Event ==
    [type : Signals, says : {"nothing"}, clear : {TRUE}]
      \cup [type : {"speech"}, says : Says, clear : BOOLEAN]
      \cup [type : {"dtmf"}, says : {"nothing"}, clear : {TRUE}]

Idle == [arg |-> "idle", call |-> NoCall, script |-> << >>, operator |-> NoCall,
         package |-> NoPackage, local |-> NoCall, copy |-> NoPackage, row |-> NoScenario]

At(p, label) == todo[p] # << >> /\ Head(todo[p]) = label
Move(p, labels, locals) ==
    /\ todo' = [todo EXCEPT ![p] = labels]
    /\ job' = [job EXCEPT ![p] = IF labels = << >> THEN Idle ELSE locals]
    /\ UNCHANGED requests
Continue(p, locals) == Move(p, Tail(todo[p]), locals)
Abort(p) == Move(p, << >>, job[p])
Begin(p, locals, labels) ==
    /\ todo[p] = << >>
    /\ requests < MaxRequests
    /\ requests' = requests + 1
    /\ todo' = [todo EXCEPT ![p] = labels]
    /\ job' = [job EXCEPT ![p] = locals]
    /\ UNCHANGED <<callTables, scenario>>

-------------------------------------------------------------------------------
(* The requests. *)

(* simulate_call: the call is saved, its utterances are executed, and it   *)
(* is saved again.                                                         *)
SimulateCall(p, c, script) ==
    /\ c \notin DOMAIN calls
    /\ Begin(p, [Idle EXCEPT !.arg = "simulate", !.call = c, !.script = script],
             <<"answer", "save_call", "turn", "save_call">>)

SubmitTurn(p, c, event) ==
    /\ c \in DOMAIN calls
    /\ Begin(p, [Idle EXCEPT !.arg = "turn", !.call = c, !.script = <<event>>],
             <<"get_call", "turn", "save_call">>)

AcceptHandoff(p, k, operator) ==
    /\ k \in DOMAIN packages
    /\ Begin(p, [Idle EXCEPT !.arg = "accept", !.call = packages[k].call, !.package = k,
                             !.operator = operator],
             <<"get_package", "save_package", "get_call", "save_call">>)

DeleteCallRequest(p, c) ==
    /\ c \in DOMAIN calls
    /\ Begin(p, [Idle EXCEPT !.arg = "delete", !.call = c],
             <<"get_call", "save_call", "get_package", "save_package">>)

-------------------------------------------------------------------------------
(* Reads and writes of the rows. *)

Erased(row) == [row EXCEPT !.transcript = "erased"]

(* simulate_call answers the phone under the version published now.        *)
Answer(p) ==
    /\ At(p, "answer")
    /\ Continue(p, [job[p] EXCEPT !.local = NewCall(job[p].call, Resolved(scenario))])
    /\ UNCHANGED <<callTables, scenario>>

(* submit_turn refuses a call that has ended, accept_handoff transfers one *)
(* that is waiting and leaves any other alone.                             *)
(* Mutant: an accepted hand-off transfers the call whatever its state.     *)
Refused_TurnsOnly(call, kind) == kind = "turn" /\ Terminal(call)

Refused(call, kind) ==
    \/ kind = "turn" /\ Terminal(call)
    \/ kind = "accept" /\ call.state # "handoff_pending"

GetCall(p) ==
    LET c == job[p].call
        kind == job[p].arg
    IN  /\ At(p, "get_call")
        /\ IF c \notin DOMAIN calls \/ Refused(calls[c], kind)
             THEN Abort(p)
             ELSE Continue(p, [job[p] EXCEPT !.local =
                    IF kind = "delete" THEN Erased(calls[c])
                    ELSE IF kind = "accept" THEN [calls[c] EXCEPT !.state = "transferred"]
                    ELSE calls[c]])
        /\ UNCHANGED <<callTables, scenario>>

SavedCalls(call) ==
    [c \in DOMAIN calls \cup {call.id} |-> IF c = call.id THEN Persisted(call) ELSE calls[c]]

(* Mutant: the hand-off package is left as it is.                          *)
SaveCall_CallOnly(p) ==
    /\ At(p, "save_call")
    /\ calls' = SavedCalls(job[p].local)
    /\ IF job[p].arg = "delete" THEN Abort(p) ELSE Continue(p, job[p])
    /\ UNCHANGED <<packages, scenario>>

SaveCall(p) ==
    LET call == job[p].local
    IN  /\ At(p, "save_call")
        /\ calls' = SavedCalls(call)
        /\ IF job[p].arg # "delete" THEN Continue(p, job[p])
           ELSE IF call.package = NoPackage THEN Abort(p)
           ELSE Continue(p, [job[p] EXCEPT !.package = call.package])
        /\ UNCHANGED <<packages, scenario>>

(* HandoffService.accept has no condition on the package's status.         *)
GetPackage(p) ==
    LET package == packages[job[p].package]
    IN  /\ At(p, "get_package")
        /\ Continue(p, [job[p] EXCEPT !.copy =
             IF job[p].arg = "delete" THEN Erased(package)
             ELSE [package EXCEPT !.status = "accepted", !.operator = job[p].operator]])
        /\ UNCHANGED <<callTables, scenario>>

SavePackage(p) ==
    LET k == job[p].package
    IN  /\ At(p, "save_package")
        /\ packages' = [i \in DOMAIN packages \cup {k} |->
                          IF i = k THEN job[p].copy ELSE packages[i]]
        /\ Continue(p, job[p])
        /\ UNCHANGED <<calls, scenario>>

-------------------------------------------------------------------------------
(* One turn of a call: _execute_turn.  It ends with the next utterance of  *)
(* a simulated call, or with the save.                                     *)

Utterance(p) == Head(job[p].script)
Rest(p, call) ==
    IF Terminal(call) \/ Tail(job[p].script) = << >> THEN Tail(todo[p]) ELSE todo[p]
EndTurn(p, call) ==
    Move(p, Rest(p, call), [job[p] EXCEPT !.local = call, !.script = Tail(@)])

(* The version is resolved at every turn, not once for the call.           *)
ReasonsNow ==
    LET v == Resolved(scenario) IN IF v = NoVersion THEN {} ELSE ReasonsOf[scenario.versions[v].script]
Enabled(reason) == ReasonsNow = {} \/ reason \in ReasonsNow

(* pre_rag_reason: a request for a human is unconditional, the other       *)
(* reasons are subject to the scenario.                                    *)
HandsOff(call, event) ==
    \/ event.says = "human"
    \/ event.says = "risk" /\ Enabled("high_risk_intent")
    \/ event.says = "anger" /\ Enabled("negative_sentiment")
    \/ ~event.clear /\ call.low >= MaxLow /\ Enabled("low_asr_confidence")
    \/ call.clarified >= MaxClarifications /\ Enabled("repeated_misunderstanding")

(* _handoff_turn: the package the call names is used again; a new one is   *)
(* dispatched and saved before the call is.                                *)
Pending(call) ==
    IF call.state \in {"active", "on_hold", "ringing"}
      THEN [call EXCEPT !.state = "handoff_pending"] ELSE call

Fresh == 1..MaxPackages \ (DOMAIN packages \cup {job[q].package : q \in Servers})
NewId == CHOOSE k \in Fresh : TRUE

(* Mutant: the call is saved first.                                        *)
HandOff_CallFirst(p, call) ==
    LET k == NewId
        named == Pending([call EXCEPT !.package = k])
    IN  \/ call.package # NoPackage /\ EndTurn(p, Pending(call))
        \/ \E status \in {"queued", "callback_requested"} :
             /\ call.package = NoPackage
             /\ Fresh # {}
             /\ Move(p, <<"save_call", "save_package">>,
                     [job[p] EXCEPT !.local = named, !.package = k,
                        !.copy = [call |-> call.id, status |-> status, operator |-> NoCall,
                                  transcript |-> call.transcript]])

HandOff(p, call) ==
    LET k == NewId
        named == Pending([call EXCEPT !.package = k])
    IN  \/ call.package # NoPackage /\ EndTurn(p, Pending(call))
        \/ \E status \in {"queued", "callback_requested"} :
             /\ call.package = NoPackage
             /\ Fresh # {}
             /\ Move(p, <<"save_package">> \o Rest(p, named),
                     [job[p] EXCEPT !.local = named, !.script = Tail(@), !.package = k,
                        !.copy = [call |-> call.id, status |-> status, operator |-> NoCall,
                                  transcript |-> call.transcript]])

(* An illegal transition raises: the request fails and nothing is saved.   *)
Transition(p, call, target) ==
    IF target \in CallTransitions[call.state]
      THEN EndTurn(p, [call EXCEPT !.state = target]) ELSE Abort(p)

HangUp(p, call) ==
    Transition(p, call, IF call.state # "handoff_pending" /\ call.answered
                          THEN "completed" ELSE "abandoned")

(* A re-ask of what the caller said, or a prompt for a slot.               *)
AskAgain(p, call) ==
    EndTurn(p, [call EXCEPT !.clarified = @ + 1, !.asked = @ + 1])

(* _rag_turn.  An answer needs status ok, a citation that is not blocked,  *)
(* a text and enough confidence; anything else, and an exception, hands    *)
(* the call off.                                                           *)
Response == [ok : BOOLEAN, cited : BOOLEAN, text : BOOLEAN, confident : BOOLEAN]
Answerable(response) ==
    response.ok /\ response.cited /\ response.text /\ response.confident
AskKnowledge(p, call) ==
    \/ \E response \in Response :
         IF Answerable(response) THEN EndTurn(p, [call EXCEPT !.answered = TRUE])
                                 ELSE HandOff(p, call)
    \/ HandOff(p, call)

(* Slot collection: the question is parked, the next utterance fills the   *)
(* slot, and the parked question is asked when none is missing.            *)
CollectSlots(p, call, event) ==
    LET given == event.type = "dtmf" \/ event.says # "nothing"
        filled == IF given THEN [call EXCEPT !.missing = @ - 1] ELSE call
    IN  IF ~call.awaiting
          THEN EndTurn(p, [call EXCEPT !.awaiting = TRUE,
                                       !.parked = @ \/ event.says # "nothing"])
        ELSE IF filled.missing > 0 THEN EndTurn(p, filled)
        ELSE LET asked == [filled EXCEPT !.awaiting = FALSE, !.parked = FALSE]
             IN  IF event.type = "dtmf" THEN EndTurn(p, asked) ELSE AskKnowledge(p, asked)

Speak(p, call, event) ==
    IF event.type = "speech" /\ ~event.clear
      THEN LET unheard == [call EXCEPT !.low = @ + 1]
           IN  IF HandsOff(unheard, event) THEN HandOff(p, unheard) ELSE AskAgain(p, unheard)
    ELSE IF HandsOff(call, event) THEN HandOff(p, call)
    ELSE IF call.missing > 0 THEN CollectSlots(p, call, event)
    ELSE IF event.type = "dtmf" THEN EndTurn(p, call)
    ELSE AskKnowledge(p, call)

Turn(p) ==
    LET call == job[p].local
        event == Utterance(p)
    IN  /\ At(p, "turn") /\ job[p].script # << >>
        /\ \/ event.type = "voice_failure" /\ EndTurn(p, call)
           \/ event.type = "failure" /\ HandOff(p, call)
           \/ event.type = "hangup" /\ HangUp(p, call)
           \/ event.type = "hold" /\ Transition(p, call, "on_hold")
           \/ event.type = "resume" /\ Transition(p, call, "active")
           \/ event.type \in {"speech", "dtmf"} /\ Speak(p, [call EXCEPT !.transcript = "text"], event)
        /\ UNCHANGED <<callTables, scenario>>

CallStep(p) ==
    \/ Answer(p) \/ GetCall(p) \/ SaveCall(p)
    \/ GetPackage(p) \/ SavePackage(p) \/ Turn(p)

CallsInit ==
    /\ calls = << >>
    /\ packages = << >>
    /\ todo = [p \in Servers |-> << >>]
    /\ job = [p \in Servers |-> Idle]
    /\ requests = 0

CallsTypeOK ==
    /\ DOMAIN calls \subseteq Calls
    /\ \A c \in DOMAIN calls : calls[c] \in CallRow
    /\ DOMAIN packages \subseteq 1..MaxPackages
    /\ \A k \in DOMAIN packages : packages[k] \in Package
    /\ \A p \in Servers :
         job[p].local # NoCall => job[p].local \in CallRow
    /\ requests \in 0..MaxRequests
===============================================================================
