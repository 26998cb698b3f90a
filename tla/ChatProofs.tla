-------------------------------- MODULE ChatProofs -----------------------------
(***************************************************************************)
(* What the chatbot keeps for every number of servers, sessions, versions  *)
(* and policies, however requests overlap and wherever servers die.  Every *)
(* request works on one copy of one row and writes it back whole, so the   *)
(* invariant says of each row, stored or in flight, that it is good by     *)
(* itself; only a session and the package it names are in two stores, and  *)
(* there the order of the writes counts.                                   *)
(***************************************************************************)
EXTENDS ControlPlane, ChatService, FiniteSetTheorems, SequenceTheorems, TLAPS

-------------------------------------------------------------------------------
(* The inductive invariant. *)

(* An approved version was approved, a published one was approved before it *)
(* was published, and so was the active one.                                *)
ApprovedVersion(version) ==
  version.status \in {"approved", "published"} => version.approved
GoodScenario(scn) ==
  /\ \A v \in Version : scn.versions[v] # None => ApprovedVersion(scn.versions[v])
  /\ scn.active # None =>
       scn.versions[scn.active] # None /\ scn.versions[scn.active].approved

(* What a session has collected was shown: the customer was asked to confirm *)
(* it, or something that was required then is missing still.                 *)
Shown(turn, slots) ==
  \/ turn.action = "confirm"
  \/ turn.action = "collect" /\ ~(turn.required \subseteq slots)
Offered(turns, k) ==
  turns[k].action = "ticket" /\ turns[k].required # {} =>
    \E j \in 1..(k - 1) :
      \/ turns[j].action = "confirm"
      \/ turns[j].action = "collect" /\ turns[j].required # turns[k].required
GoodTurns(row) ==
  /\ row.slots # {} => \E j \in DOMAIN row.turns : Shown(row.turns[j], row.slots)
  /\ \A k \in DOMAIN row.turns : Offered(row.turns, k)

(* The package a session names is stored, or is written first. *)
Names(p, c, id) == p.id = id /\ p.session = c
Linked(c, row, stored) ==
  /\ row.status = "handoff_pending" => row.package # None
  /\ row.package # None => \E p \in stored : Names(p, c, row.package)

Pending(todo, k) ==
  {todo[i].value : i \in {j \in 1..(k - 1) : todo[j].store = "package"}}
GoodWrites(todo, stored) ==
  \A k \in DOMAIN todo :
    /\ todo[k].store = "scenario" => GoodScenario(todo[k].value)
    /\ todo[k].store = "session" =>
         /\ GoodTurns(todo[k].value)
         /\ Linked(todo[k].of, todo[k].value, stored \cup Pending(todo, k))

ScenarioIsGood == chatScenario # None => GoodScenario(chatScenario)
SessionsAreGood ==
  \A c \in Session : sessions[c] # None =>
    GoodTurns(sessions[c]) /\ Linked(c, sessions[c], packages)
RequestsAreGood ==
  \A s \in Server :
    /\ request[s].at \in {"loaded", "retrieving"} =>
         /\ request[s].msg.kind = "confirm" => request[s].msg.slots = {}
         /\ GoodTurns(request[s].row)
         /\ Linked(request[s].of, request[s].row, packages)
    /\ request[s].at = "writing" =>
         request[s].todo # <<>> /\ GoodWrites(request[s].todo, packages)

IInv ==
  /\ TypeOK /\ IsFiniteSet(packages)
  /\ ScenarioIsGood /\ SessionsAreGood /\ RequestsAreGood

-------------------------------------------------------------------------------
(* Scenarios: what every route makes of a good one is good. *)

LEMMA SeedIsGood == Seed \in ChatScenario /\ GoodScenario(Seed)
<1> DEFINE first == [status |-> "published", required |-> Slot, approved |-> TRUE]
           all == [v \in Version |-> IF v = SeedVersion THEN first ELSE None]
<1>1. first \in ScenarioVersion /\ first.approved
  BY DEF ScenarioVersion, VersionStatus
<1>2. /\ Seed.status = "published" /\ Seed.active = SeedVersion /\ Seed.versions = all
      /\ Seed = [status |-> "published", active |-> SeedVersion, versions |-> all]
  BY DEF Seed
<1> HIDE DEF first
<1>3. /\ all \in [Version -> ScenarioVersion \cup {None}]
      /\ \A v \in Version : all[v] # None => all[v] = first
  BY <1>1
<1>4. all[SeedVersion] = first
  BY ChatVersionAssumption
<1> HIDE DEF all
<1>6. Seed \in ChatScenario
  BY <1>2, <1>3, ChatVersionAssumption DEF ChatScenario, VersionStatus
<1>7. GoodScenario(Seed)
  BY <1>1, <1>2, <1>3, <1>4, ChatVersionAssumption, ChatNoneAssumption
  DEF GoodScenario, ApprovedVersion
<1> QED
  BY <1>6, <1>7

LEMMA CreatedIsGood ==
  ASSUME NEW v \in Version, NEW required \in RequiredBody,
         NEW status \in {"draft", "published"}
  PROVE  /\ CreatedScenario(status, v, required) \in ChatScenario
         /\ GoodScenario(CreatedScenario(status, v, required))
<1> DEFINE first == [status |-> "draft", required |-> required, approved |-> FALSE]
           all == [w \in Version |-> IF w = v THEN first ELSE None]
           scn == CreatedScenario(status, v, required)
<1>1. first \in ScenarioVersion /\ first.status = "draft"
  BY RequiredBodyAssumption DEF ScenarioVersion, VersionStatus
<1>2. /\ scn = [status |-> status, active |-> None, versions |-> all]
      /\ scn.active = None /\ scn.versions = all
  BY DEF CreatedScenario
<1> HIDE DEF first
<1>3. /\ all \in [Version -> ScenarioVersion \cup {None}]
      /\ \A w \in Version : all[w] # None => all[w] = first
  BY <1>1
<1> HIDE DEF all
<1>4. scn \in ChatScenario
  BY <1>2, <1>3 DEF ChatScenario, VersionStatus
<1>5. GoodScenario(scn)
  BY <1>1, <1>2, <1>3 DEF GoodScenario, ApprovedVersion
<1> QED
  BY <1>4, <1>5

LEMMA UpsertedIsGood ==
  ASSUME NEW scn \in ChatScenario, GoodScenario(scn), NEW v \in Version,
         NEW required \in RequiredBody, ~Locked(scn, v)
  PROVE  /\ UpsertedScenario(scn, v, required) \in ChatScenario
         /\ GoodScenario(UpsertedScenario(scn, v, required))
<1> DEFINE old == scn.versions[v]
           kept == [old EXCEPT !.required = IF required = {} THEN @ ELSE required]
           new == IF old = None
                  THEN [status |-> "draft", required |-> required, approved |-> FALSE]
                  ELSE kept
           active == IF scn.active = None /\ new.status = "published" THEN v ELSE scn.active
           status == IF scn.status \in {"published", "scheduled"} THEN scn.status
                     ELSE new.status
           versions == [scn.versions EXCEPT ![v] = new]
           after == UpsertedScenario(scn, v, required)
<1>1. /\ scn.versions \in [Version -> ScenarioVersion \cup {None}]
      /\ scn.active \in Version \cup {None} /\ scn.status \in VersionStatus
      /\ scn = [status |-> scn.status, active |-> scn.active, versions |-> scn.versions]
  BY DEF ChatScenario
<1>2. after = [scn EXCEPT !.versions[v] = new,
                 !.active = IF @ = None /\ new.status = "published" THEN v ELSE @,
                 !.status = IF @ \in {"published", "scheduled"} THEN @ ELSE new.status]
  BY DEF UpsertedScenario
<1>3. /\ new \in ScenarioVersion /\ new.status # "published" /\ ApprovedVersion(new)
      /\ old # None => new.approved = old.approved
  <2>1. CASE old = None
    BY <2>1, RequiredBodyAssumption DEF ScenarioVersion, VersionStatus, ApprovedVersion
  <2>2. CASE old # None
    <3>1. old \in ScenarioVersion /\ old.status # "published" /\ ApprovedVersion(old)
      BY <1>1, <2>2 DEF Locked, GoodScenario
    <3> HIDE DEF old
    <3>2. /\ kept \in ScenarioVersion /\ kept.status = old.status
          /\ kept.approved = old.approved
      BY <3>1, RequiredBodyAssumption DEF ScenarioVersion
    <3> QED
      BY <2>2, <3>1, <3>2 DEF ApprovedVersion
  <2> QED
    BY <2>1, <2>2
<1> HIDE DEF new, old
<1>4. /\ after.versions = versions /\ after.active = active /\ after.status = status
      /\ after = [status |-> status, active |-> active, versions |-> versions]
  BY <1>1, <1>2
<1>5. active = scn.active
  BY <1>3
<1>6. /\ versions \in [Version -> ScenarioVersion \cup {None}] /\ versions[v] = new
      /\ \A w \in Version \ {v} : versions[w] = scn.versions[w]
  BY <1>1, <1>3
<1>7. status \in VersionStatus
  BY <1>1, <1>3 DEF ScenarioVersion
<1> HIDE DEF versions, active, status, after
<1>8. after \in ChatScenario
  BY <1>1, <1>4, <1>5, <1>6, <1>7 DEF ChatScenario
<1>10. ASSUME NEW w \in Version, after.versions[w] # None
       PROVE  /\ ApprovedVersion(after.versions[w])
              /\ scn.active = w => after.versions[w].approved
  <2>1. CASE w = v
    <3>1. scn.active = v => old # None /\ old.approved
      BY ChatNoneAssumption, ChatVersionAssumption DEF GoodScenario, old
    <3> QED
      BY <2>1, <3>1, <1>3, <1>4, <1>6
  <2>2. CASE w # v
    <3>1. after.versions[w] = scn.versions[w]
      BY <2>2, <1>4, <1>6
    <3> QED
      BY <3>1, <1>10, ChatNoneAssumption, ChatVersionAssumption DEF GoodScenario
  <2> QED
    BY <2>1, <2>2
<1>11. \A w \in Version : scn.versions[w] # None => after.versions[w] # None
  BY <1>3, <1>4, <1>6, ChatNoneAssumption, ChatVersionAssumption
<1>12. GoodScenario(after)
  BY <1>1, <1>4, <1>5, <1>10, <1>11 DEF GoodScenario
<1> QED
  BY <1>8, <1>12 DEF after

LEMMA ActedIsGood ==
  ASSUME NEW scn \in ChatScenario, GoodScenario(scn), NEW v \in Version,
         NEW action \in DOMAIN ScenarioTarget, MayAct(scn, v, action)
  PROVE  /\ ActedScenario(scn, v, action) \in ChatScenario
         /\ GoodScenario(ActedScenario(scn, v, action))
<1> DEFINE old == scn.versions[v]
           to == ScenarioTarget[action]
           new == [old EXCEPT !.status = to, !.approved = @ \/ action = "approve"]
           active == IF action = "publish" THEN v
                     ELSE IF action = "archive" /\ scn.active = v THEN None ELSE scn.active
           versions == [scn.versions EXCEPT ![v] = new]
           after == ActedScenario(scn, v, action)
<1>1. /\ scn.versions \in [Version -> ScenarioVersion \cup {None}]
      /\ scn.active \in Version \cup {None} /\ scn.status \in VersionStatus
      /\ scn = [status |-> scn.status, active |-> scn.active, versions |-> scn.versions]
  BY DEF ChatScenario
<1>2. /\ old \in ScenarioVersion /\ ApprovedVersion(old) /\ old # None
      /\ action = "publish" => old.status = "approved"
  BY <1>1 DEF MayAct, GoodScenario
<1>3. /\ to \in VersionStatus
      /\ to = "published" => action = "publish"
      /\ to = "approved" => action = "approve"
  BY DEF ScenarioTarget, VersionStatus
<1>4. after = [scn EXCEPT
                 !.versions[v] = new,
                 !.active = IF action = "publish" THEN v
                            ELSE IF action = "archive" /\ @ = v THEN None ELSE @,
                 !.status = to]
  BY DEF ActedScenario
<1> HIDE DEF to
<1>5. /\ new \in ScenarioVersion /\ new.status = to
      /\ new.approved = (old.approved \/ action = "approve")
  BY <1>2, <1>3 DEF ScenarioVersion
<1> HIDE DEF new, old
<1>6. /\ after.versions = versions /\ after.active = active /\ after.status = to
      /\ after = [status |-> to, active |-> active, versions |-> versions]
  BY <1>1, <1>4
<1>7. ApprovedVersion(new) /\ (old.approved => new.approved)
  BY <1>2, <1>3, <1>5 DEF ApprovedVersion
<1>8. action = "publish" => new.approved
  BY <1>2, <1>5 DEF ApprovedVersion
<1>9. /\ versions \in [Version -> ScenarioVersion \cup {None}] /\ versions[v] = new
      /\ \A w \in Version \ {v} : versions[w] = scn.versions[w]
  BY <1>1, <1>5
<1>10. active \in Version \cup {None} /\ active \in {scn.active, None, v}
       /\ (active = v => scn.active = v \/ action = "publish")
  BY <1>1, ChatNoneAssumption, ChatVersionAssumption
<1> HIDE DEF versions, active, after
<1>11. after \in ChatScenario
  BY <1>3, <1>6, <1>9, <1>10 DEF ChatScenario
<1>12. ASSUME after.active # None
       PROVE  after.versions[after.active] # None /\ after.versions[after.active].approved
  <2>1. CASE active = v
    <3>1. scn.active = v => old.approved
      BY <1>2, ChatNoneAssumption, ChatVersionAssumption DEF GoodScenario, old
    <3> QED
      BY <2>1, <3>1, <1>5, <1>6, <1>7, <1>8, <1>9, <1>10, ChatNoneAssumption, ChatVersionAssumption
  <2>2. CASE active # v
    <3>1. active = scn.active /\ active \in Version \ {v}
      BY <2>2, <1>6, <1>10, <1>12
    <3>2. after.versions[active] = scn.versions[scn.active]
      BY <3>1, <1>6, <1>9
    <3> QED
      BY <3>1, <3>2, <1>6, <1>12 DEF GoodScenario
  <2> QED
    BY <2>1, <2>2
<1>13. ASSUME NEW w \in Version, after.versions[w] # None
       PROVE  ApprovedVersion(after.versions[w])
  <2>1. CASE w = v
    BY <2>1, <1>6, <1>7, <1>9
  <2>2. CASE w # v
    <3>1. after.versions[w] = scn.versions[w]
      BY <2>2, <1>6, <1>9
    <3> QED
      BY <3>1, <1>13 DEF GoodScenario
  <2> QED
    BY <2>1, <2>2
<1>14. GoodScenario(after)
  BY <1>12, <1>13 DEF GoodScenario
<1> QED
  BY <1>11, <1>14 DEF after

LEMMA RolledBackIsGood ==
  ASSUME NEW scn \in ChatScenario, GoodScenario(scn), NEW v \in Version,
         LastPublished(scn, v)
  PROVE  /\ RolledBackScenario(scn, v) \in ChatScenario
         /\ GoodScenario(RolledBackScenario(scn, v))
<1> DEFINE after == RolledBackScenario(scn, v)
<1>1. /\ scn.versions \in [Version -> ScenarioVersion \cup {None}]
      /\ scn = [status |-> scn.status, active |-> scn.active, versions |-> scn.versions]
  BY DEF ChatScenario
<1>0. after = [scn EXCEPT !.status = "published", !.active = v]
  BY DEF RolledBackScenario
<1>2. after = [status |-> "published", active |-> v, versions |-> scn.versions]
  BY <1>0, <1>1
<1>3. scn.versions[v] # None /\ scn.versions[v].approved
  BY DEF LastPublished, PublishedVersions, GoodScenario, ApprovedVersion
<1>4. after \in ChatScenario
  BY <1>1, <1>2 DEF ChatScenario, VersionStatus
<1>5. GoodScenario(after)
  BY <1>2, <1>3 DEF GoodScenario
<1> QED
  BY <1>4, <1>5

(* What a route or a turn works on when the tenant has a good row or none.        *)
LEMMA TenantIsGood ==
  ASSUME TypeOK, ScenarioIsGood
  PROVE  /\ TenantScenario(chatScenario) \in ChatScenario
         /\ GoodScenario(TenantScenario(chatScenario))
BY SeedIsGood DEF TypeOK, ScenarioIsGood, TenantScenario

LEMMA RequiredAreSlots ==
  ASSUME NEW scn \in ChatScenario
  PROVE  RequiredSlots(scn) \subseteq Slot
<1>1. ActiveVersion(scn) # None => ActiveVersion(scn) \in ScenarioVersion
  BY DEF ChatScenario, ActiveVersion
<1> QED
  BY <1>1 DEF RequiredSlots, ScenarioVersion

-------------------------------------------------------------------------------
(* Turns: what is appended to the transcript of a good session. *)

LEMMA GoodAppend ==
  ASSUME NEW turns \in Seq(Turn), NEW turn \in Turn, NEW before, NEW after,
         before # {} => \E j \in DOMAIN turns : Shown(turns[j], before),
         \A k \in DOMAIN turns : Offered(turns, k),
         after = before \/ Shown(turn, after),
         turn.action = "ticket" /\ turn.required # {} =>
           \E j \in DOMAIN turns :
             \/ turns[j].action = "confirm"
             \/ turns[j].action = "collect" /\ turns[j].required # turn.required
  PROVE  LET all == Append(turns, turn)
         IN /\ all \in Seq(Turn)
            /\ after # {} => \E j \in DOMAIN all : Shown(all[j], after)
            /\ \A k \in DOMAIN all : Offered(all, k)
<1> DEFINE all == Append(turns, turn)
           n == Len(turns)
<1>1. /\ n \in Nat /\ DOMAIN turns = 1..n /\ DOMAIN all = 1..(n + 1)
      /\ all[n + 1] = turn /\ all \in Seq(Turn)
      /\ \A k \in 1..n : all[k] = turns[k]
  OBVIOUS
<1> HIDE DEF all, n
<1>2. ASSUME after # {} PROVE \E j \in 1..(n + 1) : Shown(all[j], after)
  <2>1. CASE after = before
    <3>1. PICK j \in 1..n : Shown(turns[j], before)
      BY <1>1, <1>2, <2>1
    <3> QED
      BY <1>1, <2>1, <3>1
  <2>2. CASE Shown(turn, after)
    BY <1>1, <2>2
  <2> QED
    BY <2>1, <2>2
<1>3. ASSUME NEW k \in 1..(n + 1) PROVE Offered(all, k)
  <2>1. CASE k = n + 1
    BY <1>1, <2>1 DEF Offered
  <2>2. CASE k \in 1..n
    <3>1. Offered(turns, k) /\ \A j \in 1..(k - 1) : j \in 1..n
      BY <1>1, <2>2
    <3> QED
      BY <1>1, <2>2, <3>1 DEF Offered
  <2> QED
    BY <1>1, <2>1, <2>2
<1> QED
  BY <1>1, <1>2, <1>3 DEF all

(* What a turn may do to a session: append to its transcript, note an intent and  *)
(* collect slots; its package and what waits for it stay.                         *)
Plain(turn) == turn.action \notin {"ticket"} /\ turn \in Turn

LEMMA RowFields ==
  ASSUME NEW row \in SessionRow
  PROVE  /\ row.channel \in Channel /\ row.status \in SessionStatus
         /\ row.intent \in Intent \cup {Unset} /\ row.inScenario \in BOOLEAN
         /\ row.slots \subseteq Slot /\ row.package \in Nat \cup {None}
         /\ row.ticket \in BOOLEAN /\ row.named \in BOOLEAN /\ row.turns \in Seq(Turn)
BY DEF SessionRow

LEMMA GoodPlainTurn ==
  ASSUME NEW row \in SessionRow, GoodTurns(row), NEW turn, Plain(turn)
  PROVE  LET new == [row EXCEPT !.turns = Append(@, turn)]
         IN /\ new \in SessionRow /\ GoodTurns(new)
            /\ new.status = row.status /\ new.package = row.package
<1> DEFINE all == Append(row.turns, turn)
           new == [row EXCEPT !.turns = Append(@, turn)]
<1>1. row.turns \in Seq(Turn) /\ turn \in Turn /\ turn.action # "ticket"
  BY RowFields DEF Plain
<1>2. /\ all \in Seq(Turn)
      /\ row.slots # {} => \E j \in DOMAIN all : Shown(all[j], row.slots)
      /\ \A k \in DOMAIN all : Offered(all, k)
  <2>1. row.slots # {} => \E j \in DOMAIN row.turns : Shown(row.turns[j], row.slots)
    BY DEF GoodTurns
  <2>2. \A k \in DOMAIN row.turns : Offered(row.turns, k)
    BY DEF GoodTurns
  <2> QED
    BY <1>1, <2>1, <2>2, GoodAppend
<1>3. /\ new = [row EXCEPT !.turns = all]
      /\ new.turns = all /\ new.slots = row.slots /\ new.status = row.status
      /\ new.package = row.package
  BY DEF SessionRow
<1> HIDE DEF all
<1>4. new \in SessionRow
  BY <1>2, <1>3 DEF SessionRow
<1> HIDE DEF new
<1>5. GoodTurns(new)
  BY <1>2, <1>3 DEF GoodTurns
<1> QED
  BY <1>3, <1>4, <1>5 DEF new

(* Nothing of the transcript depends on the fields a branch sets beside it. *)
LEMMA GoodFields ==
  ASSUME NEW row \in SessionRow, GoodTurns(row), NEW other \in SessionRow,
         other.turns = row.turns, other.slots = row.slots
  PROVE  GoodTurns(other)
BY DEF GoodTurns

LEMMA GoodScenarioTurn ==
  ASSUME NEW row \in SessionRow, GoodTurns(row), NEW msg \in Message,
         msg.kind = "confirm" => msg.slots = {}, NEW required \in SUBSET Slot
  PROVE  LET new == ScenarioTurn(row, msg, required)
         IN /\ new \in SessionRow /\ GoodTurns(new)
            /\ new.status = "handoff_pending" => row.status = "handoff_pending"
            /\ new.package = row.package
<1> DEFINE slots == row.slots \cup msg.slots
           action == IF required \ slots # {} THEN "collect"
                     ELSE IF msg.kind = "confirm" THEN "ticket" ELSE "confirm"
           turn == [action |-> action, cites |-> {}, named |-> FALSE, required |-> required]
           all == Append(row.turns, turn)
           ticket == row.ticket \/ action = "ticket"
           status == IF action = "ticket" THEN "ticket_created" ELSE row.status
           new == ScenarioTurn(row, msg, required)
<1>1. /\ row.turns \in Seq(Turn) /\ row.slots \subseteq Slot /\ msg.slots \subseteq Slot
      /\ row.status \in SessionStatus /\ row.ticket \in BOOLEAN
  BY RowFields DEF Message
<1>2. new = [row EXCEPT !.intent = "cancel_subscription", !.inScenario = TRUE,
                        !.slots = slots, !.ticket = @ \/ action = "ticket",
                        !.status = IF action = "ticket" THEN "ticket_created" ELSE @,
                        !.turns = Append(@, turn)]
  BY DEF ScenarioTurn
<1>3. /\ new = [row EXCEPT !.intent = "cancel_subscription", !.inScenario = TRUE,
                           !.slots = slots, !.ticket = ticket, !.status = status,
                           !.turns = all]
      /\ new.turns = all /\ new.slots = slots /\ new.status = status
      /\ new.package = row.package
  BY <1>2 DEF SessionRow
<1>4. turn \in Turn /\ turn.action = action /\ turn.required = required
  BY DEF Turn, BotAction
<1>5. /\ action = "collect" <=> ~(required \subseteq slots)
      /\ action \in {"collect", "confirm", "ticket"}
      /\ action = "ticket" => slots = row.slots
  OBVIOUS
<1> HIDE DEF action, turn
<1>6. slots = row.slots \/ Shown(turn, slots)
  BY <1>4, <1>5 DEF Shown
<1>7. row.slots # {} => \E j \in DOMAIN row.turns : Shown(row.turns[j], row.slots)
  BY DEF GoodTurns
<1>8. ASSUME turn.action = "ticket", turn.required # {}
      PROVE  \E j \in DOMAIN row.turns :
               \/ row.turns[j].action = "confirm"
               \/ row.turns[j].action = "collect" /\ row.turns[j].required # turn.required
  <2>1. required \subseteq row.slots /\ row.slots # {}
    BY <1>4, <1>5, <1>8
  <2>2. PICK j \in DOMAIN row.turns : Shown(row.turns[j], row.slots)
    BY <1>7, <2>1
  <2> QED
    BY <1>4, <2>1, <2>2 DEF Shown
<1>9. \A k \in DOMAIN row.turns : Offered(row.turns, k)
  BY DEF GoodTurns
<1> HIDE DEF slots
<1>10. /\ all \in Seq(Turn)
       /\ slots # {} => \E j \in DOMAIN all : Shown(all[j], slots)
       /\ \A k \in DOMAIN all : Offered(all, k)
  BY <1>1, <1>4, <1>6, <1>7, <1>8, <1>9, GoodAppend
<1>11. /\ slots \subseteq Slot /\ ticket \in BOOLEAN /\ status \in SessionStatus
       /\ status = "handoff_pending" => row.status = "handoff_pending"
  BY <1>1 DEF slots, SessionStatus
<1> HIDE DEF all, ticket, status, new
<1>12. new \in SessionRow
  BY <1>3, <1>10, <1>11 DEF SessionRow, Intent
<1>13. GoodTurns(new)
  BY <1>3, <1>10 DEF GoodTurns
<1> QED
  BY <1>3, <1>11, <1>12, <1>13 DEF new

-------------------------------------------------------------------------------
(* The identifier of a new package. *)

LEMMA UsedAreFinite ==
  ASSUME IsFiniteSet(packages)
  PROVE  IsFiniteSet(UsedIds)
<1> DEFINE stored == {p.id : p \in packages}
           writing == {q \in Server : /\ request[q].at = "writing"
                                      /\ Head(request[q].todo).store = "package"}
           coming == {Head(request[t].todo).value.id : t \in writing}
           idOf == [p \in packages |-> p.id]
           next == [t \in writing |-> Head(request[t].todo).value.id]
<1>1. IsFiniteSet(stored)
  <2>1. idOf \in Surjection(packages, stored)
    BY DEF Surjection
  <2> QED
    BY <2>1, FS_Surjection
<1>2. IsFiniteSet(coming)
  <2>1. IsFiniteSet(writing)
    BY ChatServerAssumption, FS_Subset
  <2> HIDE DEF writing
  <2>2. next \in Surjection(writing, coming)
    BY DEF Surjection
  <2> QED
    BY <2>1, <2>2, FS_Surjection
<1>3. UsedIds = stored \cup coming
  BY DEF UsedIds
<1> HIDE DEF stored, coming
<1> QED
  BY <1>1, <1>2, <1>3, FS_Union

LEMMA NewIdIsFresh ==
  ASSUME IsFiniteSet(packages)
  PROVE  NewId \in Nat /\ NewId \notin UsedIds
<1> DEFINE n == Cardinality(UsedIds) + 1
<1>1. IsFiniteSet(UsedIds)
  BY UsedAreFinite
<1>2. Cardinality(UsedIds) \in Nat /\ n \in Nat
  BY <1>1, FS_CardinalityType
<1>3. IsFiniteSet(1..n) /\ Cardinality(1..n) = n
  BY <1>2, FS_Interval
<1>4. ~(1..n \subseteq UsedIds)
  <2>1. SUFFICES ASSUME 1..n \subseteq UsedIds PROVE FALSE
    OBVIOUS
  <2>2. Cardinality(1..n) <= Cardinality(UsedIds)
    BY <1>1, <2>1, FS_Subset
  <2> QED
    BY <1>2, <1>3, <2>2
<1>5. NewId \in 1..n /\ NewId \notin UsedIds
  BY <1>4 DEF NewId
<1> QED
  BY <1>2, <1>5

-------------------------------------------------------------------------------
(* Lists of writes. *)

LEMMA ScenarioWriteType ==
  ASSUME NEW scn \in ChatScenario
  PROVE  /\ ScenarioWrite(scn) \in Write
         /\ ScenarioWrite(scn).store = "scenario" /\ ScenarioWrite(scn).value = scn
BY DEF ScenarioWrite, Write

LEMMA SessionWriteType ==
  ASSUME NEW c \in Session, NEW row \in SessionRow
  PROVE  /\ SessionWrite(c, row) \in Write
         /\ SessionWrite(c, row).store = "session" /\ SessionWrite(c, row).value = row
         /\ SessionWrite(c, row).of = c
BY DEF SessionWrite, Write

LEMMA PackageWriteType ==
  ASSUME NEW id \in Nat, NEW c \in Session, NEW reason \in HandoffReason
  PROVE  /\ PackageWrite(id, c, reason) \in Write
         /\ PackageWrite(id, c, reason).store = "package"
         /\ Names(PackageWrite(id, c, reason).value, c, id)
BY DEF PackageWrite, Write, Package, Names

(* A list of writes a request may start on. *)
GoodList(todo) == todo \in Seq(Write) /\ GoodWrites(todo, packages)

LEMMA NoWrites == GoodList(<<>>)
BY DEF GoodList, GoodWrites

LEMMA OneScenarioWrite ==
  ASSUME NEW scn \in ChatScenario, GoodScenario(scn)
  PROVE  GoodList(<<ScenarioWrite(scn)>>) /\ <<ScenarioWrite(scn)>> # <<>>
<1> DEFINE w == ScenarioWrite(scn)
<1>1. w \in Write /\ w.store = "scenario" /\ w.value = scn
  BY ScenarioWriteType
<1> HIDE DEF w
<1>2. <<w>> \in Seq(Write) /\ DOMAIN <<w>> = {1} /\ <<w>>[1] = w /\ <<w>> # <<>>
  BY <1>1
<1>3. GoodWrites(<<w>>, packages)
  BY <1>1, <1>2 DEF GoodWrites
<1> QED
  BY <1>2, <1>3 DEF GoodList, w

LEMMA OneSessionWrite ==
  ASSUME NEW c \in Session, NEW row \in SessionRow, GoodTurns(row), Linked(c, row, packages)
  PROVE  GoodList(<<SessionWrite(c, row)>>) /\ <<SessionWrite(c, row)>> # <<>>
<1> DEFINE w == SessionWrite(c, row)
<1>1. w \in Write /\ w.store = "session" /\ w.value = row /\ w.of = c
  BY SessionWriteType
<1> HIDE DEF w
<1>2. <<w>> \in Seq(Write) /\ DOMAIN <<w>> = {1} /\ <<w>>[1] = w /\ <<w>> # <<>>
  BY <1>1
<1>3. Linked(c, row, packages \cup Pending(<<w>>, 1))
  BY DEF Linked
<1>4. GoodWrites(<<w>>, packages)
  BY <1>1, <1>2, <1>3 DEF GoodWrites
<1> QED
  BY <1>2, <1>4 DEF GoodList, w

(* _create_handoff: the package goes first, so that the session names a stored one. *)
LEMMA HandoffIsGood ==
  ASSUME IsFiniteSet(packages), packages \subseteq Package,
         NEW c \in Session, NEW row \in SessionRow, GoodTurns(row),
         Linked(c, row, packages), NEW reason \in HandoffReason
  PROVE  GoodList(HandoffWrites(c, row, reason)) /\ HandoffWrites(c, row, reason) # <<>>
<1> DEFINE id == PackageFor(row)
           new == HandedOff(row, id)
           s == SessionWrite(c, new)
           p == PackageWrite(id, c, reason)
<1>1. id \in Nat
  BY NewIdIsFresh DEF PackageFor, Package
<1>2. CASE id = row.package
  <2>1. new = row /\ HandoffWrites(c, row, reason) = <<SessionWrite(c, row)>>
    BY <1>2 DEF HandedOff, HandoffWrites
  <2> QED
    BY <2>1, OneSessionWrite
<1>3. CASE id # row.package
  <2> HIDE DEF id
  <2>1. new = [row EXCEPT !.package = id, !.status = "handoff_pending"]
    BY <1>3 DEF HandedOff
  <2>2. /\ new \in SessionRow /\ new.package = id /\ new.turns = row.turns
        /\ new.slots = row.slots
    BY <1>1, <2>1 DEF SessionRow, SessionStatus
  <2>3. GoodTurns(new)
    BY <2>2, GoodFields
  <2> HIDE DEF new
  <2>4. s \in Write /\ s.store = "session" /\ s.value = new /\ s.of = c
    BY <2>2, SessionWriteType
  <2>5. p \in Write /\ p.store = "package" /\ Names(p.value, c, id)
    BY <1>1, PackageWriteType
  <2>6. HandoffWrites(c, row, reason) = <<p, s>>
    BY <1>3 DEF HandoffWrites, id, new
  <2> HIDE DEF s, p
  <2>7. /\ <<p, s>> \in Seq(Write) /\ DOMAIN <<p, s>> = 1..2 /\ <<p, s>> # <<>>
        /\ <<p, s>>[1] = p /\ <<p, s>>[2] = s
    BY <2>4, <2>5
  <2>8. p.value \in Pending(<<p, s>>, 2)
    BY <2>5, <2>7 DEF Pending
  <2>9. Linked(c, new, packages \cup Pending(<<p, s>>, 2))
    BY <1>1, <2>2, <2>5, <2>8, ChatNoneAssumption DEF Linked
  <2>10. GoodWrites(<<p, s>>, packages)
    BY <2>3, <2>4, <2>5, <2>7, <2>9 DEF GoodWrites
  <2> QED
    BY <2>6, <2>7, <2>10 DEF GoodList
<1> QED
  BY <1>2, <1>3

(* Two lists of writes, one behind the other. *)
LEMMA GoodJoin ==
  ASSUME NEW a, NEW b, GoodList(a), GoodList(b)
  PROVE  GoodList(a \o b)
<1> DEFINE ab == a \o b
<1>1. a \in Seq(Write) /\ b \in Seq(Write)
  BY DEF GoodList
<1>2. /\ ab \in Seq(Write) /\ Len(a) \in Nat /\ Len(b) \in Nat
      /\ DOMAIN ab = 1..(Len(a) + Len(b))
      /\ DOMAIN a = 1..Len(a) /\ DOMAIN b = 1..Len(b)
      /\ \A k \in 1..Len(a) : ab[k] = a[k]
      /\ \A k \in 1..Len(b) : ab[Len(a) + k] = b[k]
  BY <1>1, ConcatProperties
<1> HIDE DEF ab
<1>3. ASSUME NEW k \in DOMAIN ab
      PROVE  /\ ab[k].store = "scenario" => GoodScenario(ab[k].value)
             /\ ab[k].store = "session" =>
                  /\ GoodTurns(ab[k].value)
                  /\ Linked(ab[k].of, ab[k].value, packages \cup Pending(ab, k))
  <2>1. CASE k \in 1..Len(a)
    <3>1. ab[k] = a[k] /\ \A j \in 1..(k - 1) : ab[j] = a[j]
      BY <1>2, <2>1
    <3>2. \A x : x \in Pending(a, k) => x \in Pending(ab, k)
      BY <3>1 DEF Pending
    <3> QED
      BY <1>2, <2>1, <3>1, <3>2 DEF GoodList, GoodWrites, Linked
  <2>2. CASE k \notin 1..Len(a)
    <3> DEFINE i == k - Len(a)
    <3>1. i \in DOMAIN b /\ ab[k] = b[i]
      BY <1>2, <2>2
    <3>2. \A j \in 1..(i - 1) : Len(a) + j \in 1..(k - 1) /\ ab[Len(a) + j] = b[j]
      BY <1>2, <3>1
    <3> HIDE DEF i
    <3>3. \A x : x \in Pending(b, i) => x \in Pending(ab, k)
      BY <3>2 DEF Pending
    <3> QED
      BY <3>1, <3>3 DEF GoodList, GoodWrites, Linked
  <2> QED
    BY <2>1, <2>2
<1> QED
  BY <1>2, <1>3 DEF GoodList, GoodWrites, ab

-------------------------------------------------------------------------------
(* Requests in flight. *)

LEMMA RequestKinds ==
  ASSUME NEW held \in Request
  PROVE  /\ held.at \in {"idle", "loaded", "retrieving", "writing"}
         /\ held.at \in {"loaded", "retrieving"} =>
              held \in [at: {"loaded", "retrieving"}, of: Session, row: SessionRow,
                        msg: Message, known: SUBSET Document]
         /\ held.at = "writing" =>
              held \in [at: {"writing"}, todo: Seq(Write), known: SUBSET Document]
BY DEF Request, Idle

(* What each held request must have, on its own. *)
GoodRequest(held, stored) ==
  /\ held.at \in {"loaded", "retrieving"} =>
       /\ held.msg.kind = "confirm" => held.msg.slots = {}
       /\ GoodTurns(held.row)
       /\ Linked(held.of, held.row, stored)
  /\ held.at = "writing" => held.todo # <<>> /\ GoodWrites(held.todo, stored)

LEMMA EachIsGood == RequestsAreGood <=> \A s \in Server : GoodRequest(request[s], packages)
BY DEF RequestsAreGood, GoodRequest

LEMMA MoreIsStored ==
  ASSUME NEW held, NEW stored, NEW more, stored \subseteq more, GoodRequest(held, stored)
  PROVE  GoodRequest(held, more)
<1>1. ASSUME NEW c, NEW row, Linked(c, row, stored)
      PROVE  Linked(c, row, more)
  BY <1>1 DEF Linked
<1>2. ASSUME NEW todo, GoodWrites(todo, stored)
      PROVE  GoodWrites(todo, more)
  <2>1. ASSUME NEW k \in DOMAIN todo, todo[k].store = "session"
        PROVE  Linked(todo[k].of, todo[k].value, more \cup Pending(todo, k))
    <3>1. Linked(todo[k].of, todo[k].value, stored \cup Pending(todo, k))
      BY <1>2, <2>1 DEF GoodWrites
    <3> QED
      BY <3>1 DEF Linked
  <2> QED
    BY <1>2, <2>1 DEF GoodWrites
<1> QED
  BY <1>1, <1>2 DEF GoodRequest

(* A step that replaces what one server holds and leaves the stores alone. *)
LEMMA HeldChanges ==
  ASSUME IInv, NEW s \in Server, NEW held \in Request, GoodRequest(held, packages),
         request' = [request EXCEPT ![s] = held], asked' \in 0..MaxRequests,
         UNCHANGED <<chatScenario, sessions, packages, policies, citable>>
  PROVE  IInv'
<1> USE DEF IInv
<1>1. TypeOK'
  BY DEF TypeOK
<1>2. IsFiniteSet(packages)' /\ ScenarioIsGood' /\ SessionsAreGood'
  BY DEF ScenarioIsGood, SessionsAreGood
<1>3. \A t \in Server : GoodRequest(request[t], packages)
  BY EachIsGood
<1>4. \A t \in Server : GoodRequest(request'[t], packages)
  BY <1>3 DEF TypeOK
<1>5. RequestsAreGood'
  BY <1>4 DEF RequestsAreGood, GoodRequest
<1> QED
  BY <1>1, <1>2, <1>5

LEMMA IdleIsGood == Idle \in Request /\ GoodRequest(Idle, packages)
BY DEF Idle, Request, GoodRequest

LEMMA WritesStart ==
  ASSUME IInv, NEW s \in Server, NEW todo, GoodList(todo), NEW known \in SUBSET Document,
         Writes(s, todo, known), asked' \in 0..MaxRequests,
         UNCHANGED <<chatScenario, sessions, packages, policies, citable>>
  PROVE  IInv'
<1> DEFINE held == [at |-> "writing", todo |-> todo, known |-> known]
<1>1. CASE todo = <<>>
  <2>1. request' = [request EXCEPT ![s] = Idle]
    BY <1>1 DEF Writes
  <2> QED
    BY <2>1, IdleIsGood, HeldChanges
<1>2. CASE todo # <<>>
  <2>1. request' = [request EXCEPT ![s] = held]
    BY <1>2 DEF Writes
  <2>2. held \in Request
    BY DEF Request, GoodList
  <2>3. held.at = "writing" /\ held.todo = todo
    OBVIOUS
  <2> HIDE DEF held
  <2>4. GoodRequest(held, packages)
    BY <1>2, <2>3 DEF GoodRequest, GoodList
  <2> QED
    BY <2>1, <2>2, <2>4, HeldChanges
<1> QED
  BY <1>1, <1>2

-------------------------------------------------------------------------------
(* A write commits. *)

LEMMA RestIsGood ==
  ASSUME NEW todo \in Seq(Write), todo # <<>>, NEW stored, GoodWrites(todo, stored),
         NEW more, stored \subseteq more,
         Head(todo).store = "package" => Head(todo).value \in more
  PROVE  Tail(todo) \in Seq(Write) /\ GoodWrites(Tail(todo), more)
<1> DEFINE rest == Tail(todo)
<1>1. /\ rest \in Seq(Write) /\ Len(todo) \in Nat /\ DOMAIN todo = 1..Len(todo)
      /\ DOMAIN rest = 1..(Len(todo) - 1) /\ Head(todo) = todo[1]
      /\ \A k \in 1..(Len(todo) - 1) : rest[k] = todo[k + 1]
  OBVIOUS
<1> HIDE DEF rest
<1>2. ASSUME NEW k \in DOMAIN rest
      PROVE  /\ rest[k].store = "scenario" => GoodScenario(rest[k].value)
             /\ rest[k].store = "session" =>
                  /\ GoodTurns(rest[k].value)
                  /\ Linked(rest[k].of, rest[k].value, more \cup Pending(rest, k))
  <2>1. rest[k] = todo[k + 1] /\ k + 1 \in DOMAIN todo
    BY <1>1
  <2>2. ASSUME NEW x \in Pending(todo, k + 1)
        PROVE  x \in more \cup Pending(rest, k)
    <3>1. PICK i \in 1..k : todo[i].store = "package" /\ x = todo[i].value
      BY <1>1, <2>2 DEF Pending
    <3>2. CASE i = 1
      BY <1>1, <3>1, <3>2
    <3>3. CASE i # 1
      <4>1. i - 1 \in 1..(k - 1) /\ rest[i - 1] = todo[i]
        BY <1>1, <3>1, <3>3
      <4> QED
        BY <3>1, <4>1 DEF Pending
    <3> QED
      BY <3>2, <3>3
  <2> QED
    BY <2>1, <2>2 DEF GoodWrites, Linked
<1> QED
  BY <1>1, <1>2 DEF GoodWrites, rest

LEMMA CommitInv ==
  ASSUME IInv, NEW s \in Server, Commit(s)
  PROVE  IInv'
<1> USE DEF IInv
<1> DEFINE todo == request[s].todo
           w == Head(todo)
           known == request[s].known
           rest == Tail(todo)
           stored == IF w.store = "package" THEN packages \cup {w.value} ELSE packages
           held == IF rest = <<>> THEN Idle
                   ELSE [at |-> "writing", todo |-> rest, known |-> known]
<1>1. /\ request[s].at = "writing" /\ request' = [request EXCEPT ![s] = held]
      /\ chatScenario' = IF w.store = "scenario" THEN w.value ELSE chatScenario
      /\ packages' = stored
      /\ sessions' = IF w.store = "session" THEN [sessions EXCEPT ![w.of] = w.value]
                     ELSE sessions
      /\ UNCHANGED <<policies, citable, asked>>
  BY DEF Commit, Writes
<1>2. request[s] \in [at: {"writing"}, todo: Seq(Write), known: SUBSET Document]
  BY <1>1, RequestKinds DEF TypeOK
<1>3. todo \in Seq(Write) /\ todo # <<>> /\ known \in SUBSET Document
      /\ GoodWrites(todo, packages)
  BY <1>1, <1>2 DEF RequestsAreGood
<1>4. /\ w \in Write /\ w = todo[1] /\ 1 \in DOMAIN todo
  BY <1>3
<1>5. /\ w.store = "scenario" => w.value \in ChatScenario /\ GoodScenario(w.value)
      /\ w.store = "package" => w.value \in Package
      /\ w.store = "session" => /\ w.of \in Session /\ w.value \in SessionRow
                                /\ GoodTurns(w.value) /\ Linked(w.of, w.value, packages)
  <2>1. Pending(todo, 1) = {}
    BY DEF Pending
  <2>2. w.store = "scenario" => GoodScenario(w.value)
    BY <1>3, <1>4 DEF GoodWrites
  <2>3. w.store = "session" => GoodTurns(w.value) /\ Linked(w.of, w.value, packages)
    BY <1>3, <1>4, <2>1 DEF GoodWrites, Linked
  <2> HIDE DEF w
  <2>4. /\ w.store = "scenario" => w.value \in ChatScenario
        /\ w.store = "package" => w.value \in Package
        /\ w.store = "session" => w.of \in Session /\ w.value \in SessionRow
    BY <1>4 DEF Write
  <2> QED
    BY <2>2, <2>3, <2>4
<1>6. /\ packages \subseteq stored /\ stored \subseteq Package /\ IsFiniteSet(stored)
      /\ w.store = "package" => w.value \in stored
  BY <1>5, FS_AddElement DEF TypeOK
<1>7. rest \in Seq(Write) /\ GoodWrites(rest, stored)
  BY <1>3, <1>6, RestIsGood
<1> HIDE DEF w, rest, stored, todo, known
<1>8. held \in Request /\ GoodRequest(held, stored)
  <2>1. CASE rest = <<>>
    BY <2>1 DEF Idle, Request, GoodRequest
  <2>2. CASE rest # <<>>
    <3> DEFINE h == [at |-> "writing", todo |-> rest, known |-> known]
    <3>1. held = h /\ h.at = "writing" /\ h.todo = rest
      BY <2>2
    <3>2. h \in Request
      BY <1>3, <1>7 DEF Request
    <3> HIDE DEF h, held
    <3> QED
      BY <1>7, <2>2, <3>1, <3>2 DEF GoodRequest
  <2> QED
    BY <2>1, <2>2
<1> HIDE DEF held
<1>9. TypeOK'
  BY <1>1, <1>5, <1>6, <1>8 DEF TypeOK
<1>10. IsFiniteSet(packages)' /\ ScenarioIsGood'
  BY <1>1, <1>5, <1>6 DEF ScenarioIsGood
<1>11. SessionsAreGood'
  BY <1>1, <1>5, <1>6 DEF SessionsAreGood, Linked, TypeOK
<1>12. \A t \in Server : GoodRequest(request[t], stored)
  BY <1>6, EachIsGood, MoreIsStored
<1>13. \A t \in Server : GoodRequest(request'[t], stored)
  BY <1>1, <1>8, <1>12 DEF TypeOK
<1>14. RequestsAreGood'
  BY <1>1, <1>13 DEF RequestsAreGood, GoodRequest
<1> QED
  BY <1>9, <1>10, <1>11, <1>14

LEMMA CrashInv ==
  ASSUME IInv, NEW s \in Server, Crash(s)
  PROVE  IInv'
BY IdleIsGood, HeldChanges DEF Crash, IInv, TypeOK

(* Policies and what may be cited are in no other conjunct than the types. *)
LEMMA OutsideInv ==
  ASSUME IInv, UNCHANGED <<chatScenario, sessions, packages, request>>,
         policies' \in [PolicyId -> SourcePolicy(Intent) \cup {Unset}],
         citable' \subseteq Document, asked' \in 0..MaxRequests
  PROVE  IInv'
<1>1. TypeOK'
  BY DEF IInv, TypeOK
<1> QED
  BY <1>1 DEF IInv, ScenarioIsGood, SessionsAreGood, RequestsAreGood

LEMMA PolicyInv ==
  ASSUME IInv, NEW i \in PolicyId, NEW body \in PolicyBody, UpsertSourcePolicy(i, body)
  PROVE  IInv'
<1>1. SavedPolicy(body) \in SourcePolicy(Intent)
  BY PolicyBodyAssumption DEF SavedPolicy, SourcePolicy
<1>2. policies' \in [PolicyId -> SourcePolicy(Intent) \cup {Unset}]
  BY <1>1 DEF UpsertSourcePolicy, IInv, TypeOK
<1>3. asked' \in 0..MaxRequests
  BY ChatServerAssumption DEF UpsertSourcePolicy, IInv, TypeOK
<1>4. UNCHANGED <<chatScenario, sessions, packages, request>> /\ citable' \subseteq Document
  BY DEF UpsertSourcePolicy, IInv, TypeOK
<1> QED
  BY <1>2, <1>3, <1>4, OutsideInv

LEMMA WithdrawInv ==
  ASSUME IInv, NEW d \in Document, Withdraw(d)
  PROVE  IInv'
<1>1. /\ policies' \in [PolicyId -> SourcePolicy(Intent) \cup {Unset}]
      /\ citable' \subseteq Document /\ asked' \in 0..MaxRequests
  BY DEF Withdraw, IInv, TypeOK
<1> QED
  BY <1>1, OutsideInv DEF Withdraw

-------------------------------------------------------------------------------
(* Requests that begin. *)

LEMMA BeginType ==
  ASSUME IInv, NEW s, Begins(s)
  PROVE  asked' \in 0..MaxRequests /\ citable \in SUBSET Document
BY ChatServerAssumption DEF Begins, IInv, TypeOK

LEMMA CreateSessionInv ==
  ASSUME IInv, NEW s \in Server, NEW c \in Session, NEW channel \in Channel,
         CreateSession(s, c, channel)
  PROVE  IInv'
<1> DEFINE row == NewSession(channel)
<1>1. /\ row \in SessionRow /\ row.slots = {} /\ row.turns = <<>>
      /\ row.status = "active" /\ row.package = None
  BY DEF NewSession, SessionRow, SessionStatus
<1> HIDE DEF row
<1>2. GoodTurns(row) /\ Linked(c, row, packages)
  BY <1>1 DEF GoodTurns, Linked
<1>3. GoodList(<<SessionWrite(c, row)>>)
  BY <1>1, <1>2, OneSessionWrite
<1>4. /\ Writes(s, <<SessionWrite(c, row)>>, citable)
      /\ UNCHANGED <<chatScenario, sessions, packages, policies, citable>>
      /\ Begins(s)
  BY DEF CreateSession, row
<1> QED
  BY <1>3, <1>4, BeginType, WritesStart

LEMMA StoredSession ==
  ASSUME IInv, NEW c \in Session, sessions[c] # None
  PROVE  /\ sessions[c] \in SessionRow /\ GoodTurns(sessions[c])
         /\ Linked(c, sessions[c], packages)
BY DEF IInv, TypeOK, SessionsAreGood

LEMMA RefuseTurnInv ==
  ASSUME IInv, NEW s \in Server, NEW c \in Session, RefuseTurn(s, c)
  PROVE  IInv'
<1>1. GoodList(<<SessionWrite(c, sessions[c])>>)
  BY StoredSession, OneSessionWrite DEF RefuseTurn
<1> QED
  BY <1>1, BeginType, WritesStart DEF RefuseTurn

LEMMA RequestHandoffInv ==
  ASSUME IInv, NEW s \in Server, NEW c \in Session, RequestHandoff(s, c)
  PROVE  IInv'
<1>1. "customer_requested_human" \in HandoffReason
  BY DEF HandoffReason
<1>2. GoodList(HandoffWrites(c, sessions[c], "customer_requested_human"))
  BY <1>1, StoredSession, HandoffIsGood DEF RequestHandoff, IInv, TypeOK
<1> QED
  BY <1>2, BeginType, WritesStart DEF RequestHandoff

LEMMA SubmitMessageInv ==
  ASSUME IInv, NEW s \in Server, NEW c \in Session, NEW msg \in UserMessage,
         SubmitMessage(s, c, msg)
  PROVE  IInv'
<1> DEFINE held == [at |-> "loaded", of |-> c, row |-> sessions[c], msg |-> msg,
                    known |-> citable]
<1>1. /\ sessions[c] \in SessionRow /\ GoodTurns(sessions[c])
      /\ Linked(c, sessions[c], packages)
  BY StoredSession DEF SubmitMessage
<1>2. msg \in Message /\ (msg.kind = "confirm" => msg.slots = {})
  BY UserMessageAssumption
<1>3. held \in Request
  BY <1>1, <1>2 DEF Request, IInv, TypeOK
<1>4. /\ held.at = "loaded" /\ held.msg = msg /\ held.row = sessions[c] /\ held.of = c
  OBVIOUS
<1>5. /\ request' = [request EXCEPT ![s] = held] /\ Begins(s)
      /\ UNCHANGED <<chatScenario, sessions, packages, policies, citable>>
  BY DEF SubmitMessage
<1> HIDE DEF held
<1>6. GoodRequest(held, packages)
  BY <1>1, <1>2, <1>4 DEF GoodRequest
<1> QED
  BY <1>3, <1>5, <1>6, BeginType, HeldChanges

-------------------------------------------------------------------------------
(* The branches of a turn. *)

LEMMA IntentType ==
  ASSUME NEW row \in SessionRow, NEW kind \in MessageKind
  PROVE  IntentAfter(row, kind) \in Intent \cup {Unset}
<1>1. row.intent \in Intent \cup {Unset}
  BY RowFields
<1>2. CurrentIntent(row) \in Intent
  BY <1>1 DEF CurrentIntent, Intent
<1>3. kind \in DOMAIN SaysIntent => SaysIntent[kind] \in Intent
  BY DEF SaysIntent, Intent
<1> QED
  BY <1>1, <1>2, <1>3 DEF IntentAfter

(* The session a turn works on is good, and so is it with the turn's intent.      *)
LEMMA LoadedRow ==
  ASSUME IInv, NEW s \in Server, request[s].at \in {"loaded", "retrieving"}
  PROVE  /\ request[s].of \in Session /\ request[s].msg \in Message
         /\ request[s].known \in SUBSET Document
         /\ request[s].msg.kind = "confirm" => request[s].msg.slots = {}
         /\ Row(s) \in SessionRow /\ GoodTurns(Row(s))
         /\ Linked(request[s].of, Row(s), packages)
<1> DEFINE r == request[s].row
           intent == IntentAfter(r, request[s].msg.kind)
<1>1. request[s] \in [at: {"loaded", "retrieving"}, of: Session, row: SessionRow,
                      msg: Message, known: SUBSET Document]
  BY RequestKinds DEF IInv, TypeOK
<1>2. /\ request[s].msg.kind = "confirm" => request[s].msg.slots = {}
      /\ GoodTurns(r) /\ Linked(request[s].of, r, packages)
  BY DEF IInv, RequestsAreGood
<1>3. r \in SessionRow /\ request[s].msg \in Message
  BY <1>1
<1>4. request[s].msg.kind \in MessageKind
  BY <1>3 DEF Message
<1>5. intent \in Intent \cup {Unset}
  BY <1>3, <1>4, IntentType
<1>6. Row(s) = [r EXCEPT !.intent = intent]
  BY DEF Row
<1> HIDE DEF r, intent
<1>7. /\ Row(s) \in SessionRow /\ Row(s).turns = r.turns /\ Row(s).slots = r.slots
      /\ Row(s).status = r.status /\ Row(s).package = r.package
  BY <1>3, <1>5, <1>6 DEF SessionRow
<1>8. GoodTurns(Row(s)) /\ Linked(request[s].of, Row(s), packages)
  BY <1>2, <1>3, <1>7, GoodFields DEF Linked
<1> QED
  BY <1>1, <1>2, <1>7, <1>8

(* A row after a turn that is no ticket and names the session's policy or not.    *)
LEMMA NamedRow ==
  ASSUME NEW row \in SessionRow, GoodTurns(row), NEW c, Linked(c, row, packages),
         NEW named \in BOOLEAN
  PROVE  LET new == [row EXCEPT !.named = named]
         IN new \in SessionRow /\ GoodTurns(new) /\ Linked(c, new, packages)
<1> DEFINE new == [row EXCEPT !.named = named]
<1>1. /\ new \in SessionRow /\ new.turns = row.turns /\ new.slots = row.slots
      /\ new.status = row.status /\ new.package = row.package
  BY DEF SessionRow
<1> HIDE DEF new
<1>2. GoodTurns(new) /\ Linked(c, new, packages)
  BY <1>1, GoodFields DEF Linked
<1> QED
  BY <1>1, <1>2 DEF new

LEMMA SpokenRow ==
  ASSUME NEW row \in SessionRow, GoodTurns(row), NEW c, Linked(c, row, packages),
         NEW action \in {"handoff", "ask"}
  PROVE  LET new == Spoken(row, action)
         IN new \in SessionRow /\ GoodTurns(new) /\ Linked(c, new, packages)
<1> DEFINE turn == [action |-> action, cites |-> {}, named |-> FALSE, required |-> {}]
           new == Spoken(row, action)
<1>1. Plain(turn)
  BY DEF Plain, Turn, BotAction
<1>2. new = [row EXCEPT !.turns = Append(@, turn)]
  BY DEF Spoken
<1> HIDE DEF turn
<1>3. /\ new \in SessionRow /\ GoodTurns(new)
      /\ new.status = row.status /\ new.package = row.package
  BY <1>1, <1>2, GoodPlainTurn
<1> HIDE DEF new
<1> QED
  BY <1>3 DEF Linked, new

LEMMA TurnEnds ==
  ASSUME IInv, NEW s \in Server, request[s].at \in {"loaded", "retrieving"},
         NEW todo, GoodList(todo), TurnWrites(s, todo),
         UNCHANGED <<chatScenario, sessions, packages, policies, citable, asked>>
  PROVE  IInv'
<1>1. asked' \in 0..MaxRequests
  BY DEF IInv, TypeOK
<1>2. request[s].known \in SUBSET Document
  BY LoadedRow
<1>3. Writes(s, todo, request[s].known)
  BY DEF TurnWrites
<1> QED
  BY <1>1, <1>2, <1>3, WritesStart

LEMMA HandoffTurnsInv ==
  ASSUME IInv, NEW s \in Server, request[s].at \in {"loaded", "retrieving"},
         NEW reason \in HandoffReason, NEW row,
         \/ row = Spoken(Row(s), "handoff")
         \/ \E named \in BOOLEAN : row = [Spoken(Row(s), "handoff") EXCEPT !.named = named],
         TurnWrites(s, HandoffWrites(request[s].of, row, reason)),
         UNCHANGED <<chatScenario, sessions, packages, policies, citable, asked>>
  PROVE  IInv'
<1> DEFINE c == request[s].of
           spoken == Spoken(Row(s), "handoff")
<1>1. /\ c \in Session /\ Row(s) \in SessionRow /\ GoodTurns(Row(s))
      /\ Linked(c, Row(s), packages)
  BY LoadedRow
<1>2. spoken \in SessionRow /\ GoodTurns(spoken) /\ Linked(c, spoken, packages)
  BY <1>1, SpokenRow
<1> HIDE DEF spoken
<1>3. row \in SessionRow /\ GoodTurns(row) /\ Linked(c, row, packages)
  <2>1. CASE row = spoken
    BY <1>2, <2>1
  <2>2. ASSUME NEW named \in BOOLEAN, row = [spoken EXCEPT !.named = named]
        PROVE  row \in SessionRow /\ GoodTurns(row) /\ Linked(c, row, packages)
    BY <1>2, <2>2, NamedRow
  <2> QED
    BY <2>1, <2>2 DEF spoken
<1>4. GoodList(HandoffWrites(c, row, reason))
  BY <1>1, <1>3, HandoffIsGood DEF IInv, TypeOK
<1> QED
  BY <1>4, TurnEnds

LEMMA SessionTurnsInv ==
  ASSUME IInv, NEW s \in Server, request[s].at \in {"loaded", "retrieving"},
         NEW row \in SessionRow, GoodTurns(row), Linked(request[s].of, row, packages),
         TurnWrites(s, <<SessionWrite(request[s].of, row)>>),
         UNCHANGED <<chatScenario, sessions, packages, policies, citable, asked>>
  PROVE  IInv'
<1>1. request[s].of \in Session
  BY LoadedRow
<1>2. GoodList(<<SessionWrite(request[s].of, row)>>)
  BY <1>1, OneSessionWrite
<1> QED
  BY <1>2, TurnEnds

LEMMA RefusalTurnInv ==
  ASSUME IInv, NEW s \in Server, RefusalTurn(s)
  PROVE  IInv'
<1>1. "insufficient_evidence" \in HandoffReason
  BY DEF HandoffReason
<1> QED
  BY <1>1, HandoffTurnsInv DEF RefusalTurn, Turning

LEMMA NoSourceTurnInv ==
  ASSUME IInv, NEW s \in Server, NoSourceTurn(s)
  PROVE  IInv'
<1>1. "source_not_enabled_for_chatbot" \in HandoffReason
  BY DEF HandoffReason
<1> QED
  BY <1>1, HandoffTurnsInv DEF NoSourceTurn, Turning

LEMMA HandoffTurnInv ==
  ASSUME IInv, NEW s \in Server, HandoffTurn(s)
  PROVE  IInv'
<1>1. (IF Row(s).intent = "high_risk" THEN "unsupported_high_risk"
       ELSE "customer_requested_human") \in HandoffReason
  BY DEF HandoffReason
<1> QED
  BY <1>1, HandoffTurnsInv DEF HandoffTurn, Turning

LEMMA ClarificationTurnInv ==
  ASSUME IInv, NEW s \in Server, ClarificationTurn(s)
  PROVE  IInv'
<1> DEFINE row == [Spoken(Row(s), "ask") EXCEPT !.named = FALSE]
<1>1. /\ Row(s) \in SessionRow /\ GoodTurns(Row(s))
      /\ Linked(request[s].of, Row(s), packages)
  BY LoadedRow DEF ClarificationTurn, Turning
<1>2. /\ Spoken(Row(s), "ask") \in SessionRow /\ GoodTurns(Spoken(Row(s), "ask"))
      /\ Linked(request[s].of, Spoken(Row(s), "ask"), packages)
  BY <1>1, SpokenRow
<1>3. row \in SessionRow /\ GoodTurns(row) /\ Linked(request[s].of, row, packages)
  BY <1>2, NamedRow
<1> QED
  BY <1>3, SessionTurnsInv DEF ClarificationTurn, Turning

LEMMA CancelTurnInv ==
  ASSUME IInv, NEW s \in Server, CancelTurn(s)
  PROVE  IInv'
<1> DEFINE c == request[s].of
           required == RequiredSlots(TenantScenario(chatScenario))
           row == ScenarioTurn(Row(s), request[s].msg, required)
<1>1. /\ Row(s) \in SessionRow /\ GoodTurns(Row(s)) /\ Linked(c, Row(s), packages)
      /\ c \in Session /\ request[s].msg \in Message
      /\ request[s].msg.kind = "confirm" => request[s].msg.slots = {}
  BY LoadedRow DEF CancelTurn, Turning
<1>2. required \in SUBSET Slot
  BY TenantIsGood, RequiredAreSlots DEF IInv
<1> HIDE DEF required
<1>3. /\ row \in SessionRow /\ GoodTurns(row) /\ row.package = Row(s).package
      /\ row.status = "handoff_pending" => Row(s).status = "handoff_pending"
  BY <1>1, <1>2, GoodScenarioTurn
<1> HIDE DEF row
<1>4. Linked(c, row, packages)
  BY <1>1, <1>3 DEF Linked
<1>5. GoodList(<<SessionWrite(c, row)>>)
  BY <1>1, <1>3, <1>4, OneSessionWrite
<1>6. GoodList(SeedWrite)
  BY SeedIsGood, OneScenarioWrite, NoWrites DEF SeedWrite
<1>7. GoodList(SeedWrite \o <<SessionWrite(c, row)>>)
  BY <1>5, <1>6, GoodJoin
<1> QED
  BY <1>7, TurnEnds DEF CancelTurn, Turning, row, required

LEMMA CitesAreDocuments ==
  ASSUME NEW row \in SessionRow
  PROVE  LastCites(row) \subseteq Document
<1>1. row.turns \in Seq(Turn)
  BY RowFields
<1>2. ASSUME NEW k \in DOMAIN row.turns
      PROVE  row.turns[k].cites \subseteq Document
  <2>1. row.turns[k] \in Turn
    BY <1>1
  <2> QED
    BY <2>1 DEF Turn
<1> QED
  BY <1>2 DEF LastCites

LEMMA AnswerRow ==
  ASSUME NEW row \in SessionRow, GoodTurns(row), NEW c, Linked(c, row, packages),
         NEW cites \in SUBSET Document, NEW named \in BOOLEAN
  PROVE  LET turn == [action |-> "answer", cites |-> cites, named |-> named, required |-> {}]
             new == [row EXCEPT !.turns = Append(@, turn)]
         IN new \in SessionRow /\ GoodTurns(new) /\ Linked(c, new, packages)
<1> DEFINE turn == [action |-> "answer", cites |-> cites, named |-> named, required |-> {}]
           new == [row EXCEPT !.turns = Append(@, turn)]
<1>1. Plain(turn)
  BY DEF Plain, Turn, BotAction
<1> HIDE DEF turn
<1>2. /\ new \in SessionRow /\ GoodTurns(new)
      /\ new.status = row.status /\ new.package = row.package
  BY <1>1, GoodPlainTurn
<1> HIDE DEF new
<1>3. Linked(c, new, packages)
  BY <1>2 DEF Linked
<1> QED
  BY <1>2, <1>3 DEF new, turn

LEMMA ReuseTurnInv ==
  ASSUME IInv, NEW s \in Server, ReuseTurn(s)
  PROVE  IInv'
<1> DEFINE row == ReusedAnswer(Row(s))
<1>1. /\ Row(s) \in SessionRow /\ GoodTurns(Row(s))
      /\ Linked(request[s].of, Row(s), packages)
  BY LoadedRow DEF ReuseTurn, Turning
<1>2. LastCites(Row(s)) \in SUBSET Document /\ Row(s).named \in BOOLEAN
  BY <1>1, CitesAreDocuments, RowFields
<1>3. row \in SessionRow /\ GoodTurns(row) /\ Linked(request[s].of, row, packages)
  BY <1>1, <1>2, AnswerRow DEF ReusedAnswer
<1> QED
  BY <1>3, SessionTurnsInv DEF ReuseTurn, Turning

LEMMA RetrieveInv ==
  ASSUME IInv, NEW s \in Server, Retrieve(s)
  PROVE  IInv'
<1> DEFINE held == [request[s] EXCEPT !.at = "retrieving"]
<1>1. request[s].at = "loaded"
  BY DEF Retrieve, Turning
<1>2. request[s] \in [at: {"loaded", "retrieving"}, of: Session, row: SessionRow,
                      msg: Message, known: SUBSET Document]
  BY <1>1, RequestKinds DEF IInv, TypeOK
<1>3. /\ held \in [at: {"loaded", "retrieving"}, of: Session, row: SessionRow,
                   msg: Message, known: SUBSET Document]
      /\ held.at = "retrieving" /\ held.of = request[s].of /\ held.row = request[s].row
      /\ held.msg = request[s].msg
  BY <1>2
<1>4. request' = [request EXCEPT ![s] = held]
  BY DEF Retrieve, IInv, TypeOK
<1> HIDE DEF held
<1>5. held \in Request
  BY <1>3 DEF Request
<1>6. GoodRequest(held, packages)
  BY <1>1, <1>3 DEF GoodRequest, IInv, RequestsAreGood
<1>7. asked' \in 0..MaxRequests
  BY DEF Retrieve, IInv, TypeOK
<1> QED
  BY <1>4, <1>5, <1>6, <1>7, HeldChanges DEF Retrieve

LEMMA AnsweredInv ==
  ASSUME IInv, NEW s \in Server, request[s].at = "retrieving",
         NEW cites \in EngineCites(s), NEW good \in BOOLEAN, Answered(s, cites, good)
  PROVE  IInv'
<1> DEFINE c == request[s].of
           allowed == CitationPolicies(policies, request[s].msg.collection,
                                       Row(s).channel, Row(s).intent)
           kept == IF allowed = {} THEN {} ELSE cites
           row == FreshAnswer(Row(s), kept)
           reason == IF good /\ cites # {} THEN "source_not_enabled_for_chatbot"
                     ELSE "insufficient_evidence"
           spoken == [Spoken(Row(s), "handoff") EXCEPT !.named = TRUE]
<1>1. /\ Row(s) \in SessionRow /\ GoodTurns(Row(s)) /\ Linked(c, Row(s), packages)
  BY LoadedRow
<1>2. cites \in SUBSET Document
  <2>1. citable \subseteq Document
    BY DEF IInv, TypeOK
  <2> QED
    BY <1>1, <2>1, CitesAreDocuments DEF EngineCites
<1>3. kept \in SUBSET Document /\ reason \in HandoffReason
  BY <1>2 DEF HandoffReason
<1>4. /\ IF good /\ kept # {} THEN TurnWrites(s, <<SessionWrite(c, row)>>)
         ELSE TurnWrites(s, HandoffWrites(c, spoken, reason))
      /\ UNCHANGED <<chatScenario, sessions, packages, policies, citable, asked>>
  BY DEF Answered
<1> HIDE DEF kept, reason
<1>5. row \in SessionRow /\ GoodTurns(row) /\ Linked(c, row, packages)
  <2> DEFINE turn == [action |-> "answer", cites |-> kept, named |-> TRUE, required |-> {}]
             said == [Row(s) EXCEPT !.turns = Append(@, turn)]
  <2>1. said \in SessionRow /\ GoodTurns(said) /\ Linked(c, said, packages)
    BY <1>1, <1>3, AnswerRow
  <2>2. row = [said EXCEPT !.named = TRUE]
    BY <1>1 DEF FreshAnswer, SessionRow
  <2> HIDE DEF said, row
  <2> QED
    BY <2>1, <2>2, NamedRow
<1> HIDE DEF row
<1>6. CASE good /\ kept # {}
  BY <1>4, <1>5, <1>6, SessionTurnsInv
<1>7. CASE ~(good /\ kept # {})
  BY <1>3, <1>4, <1>7, HandoffTurnsInv
<1> QED
  BY <1>6, <1>7

-------------------------------------------------------------------------------
(* The scenario routes. *)

LEMMA SeedListIsGood ==
  ASSUME IInv
  PROVE  GoodList(SeedWrite)
BY NoWrites, SeedIsGood, OneScenarioWrite DEF SeedWrite

LEMMA ManageInv ==
  ASSUME IInv, NEW s \in Server, NEW before, NEW after, GoodList(before), GoodList(after),
         ManageScenario(s, before, after)
  PROVE  IInv'
<1>1. GoodList(before \o after)
  BY GoodJoin
<1>2. /\ Begins(s) /\ Writes(s, before \o after, citable)
      /\ UNCHANGED <<chatScenario, sessions, packages, policies, citable>>
  BY DEF ManageScenario
<1>3. asked' \in 0..MaxRequests /\ citable \in SUBSET Document
  BY <1>2, BeginType
<1> QED
  BY <1>1, <1>2, <1>3, WritesStart

LEMMA ScenarioRouteInv ==
  ASSUME IInv, NEW s \in Server, ScenarioRoute(s)
  PROVE  IInv'
<1> DEFINE scn == TenantScenario(chatScenario)
<1>1. scn \in ChatScenario /\ GoodScenario(scn)
  BY TenantIsGood DEF IInv
<1>2. ASSUME NEW v \in Version, NEW required \in RequiredBody,
             NEW status \in {"draft", "published"}, CreateScenario(s, status, v, required)
      PROVE  IInv'
  BY <1>2, NoWrites, CreatedIsGood, OneScenarioWrite, ManageInv DEF CreateScenario
<1>3. ASSUME NEW v \in Version, NEW required \in RequiredBody,
             UpsertScenarioVersion(s, v, required)
      PROVE  IInv'
  <2> DEFINE after == IF Locked(scn, v) THEN <<>>
                      ELSE <<ScenarioWrite(UpsertedScenario(scn, v, required))>>
  <2>1. GoodList(after)
    BY <1>1, NoWrites, UpsertedIsGood, OneScenarioWrite
  <2>2. ManageScenario(s, SeedWrite, after)
    BY <1>3 DEF UpsertScenarioVersion
  <2> HIDE DEF after
  <2> QED
    BY <2>1, <2>2, SeedListIsGood, ManageInv
<1>4. ASSUME NEW v \in Version, NEW action \in DOMAIN ScenarioTarget,
             ScenarioAction(s, v, action)
      PROVE  IInv'
  <2> DEFINE after == IF MayAct(scn, v, action)
                      THEN <<ScenarioWrite(ActedScenario(scn, v, action))>> ELSE <<>>
  <2>1. GoodList(after)
    BY <1>1, NoWrites, ActedIsGood, OneScenarioWrite
  <2>2. ManageScenario(s, SeedWrite, after)
    BY <1>4 DEF ScenarioAction
  <2> HIDE DEF after
  <2> QED
    BY <2>1, <2>2, SeedListIsGood, ManageInv
<1>5. ASSUME RollbackScenario(s)
      PROVE  IInv'
  <2>1. PICK v \in Version :
          /\ LastPublished(chatScenario, v)
          /\ ManageScenario(s, <<>>, <<ScenarioWrite(RolledBackScenario(chatScenario, v))>>)
    BY <1>5 DEF RollbackScenario
  <2>2. chatScenario \in ChatScenario /\ GoodScenario(chatScenario)
    BY <1>5 DEF RollbackScenario, IInv, TypeOK, ScenarioIsGood
  <2>3. GoodList(<<ScenarioWrite(RolledBackScenario(chatScenario, v))>>)
    BY <2>1, <2>2, RolledBackIsGood, OneScenarioWrite
  <2> QED
    BY <2>1, <2>3, NoWrites, ManageInv
<1> QED
  BY <1>2, <1>3, <1>4, <1>5 DEF ScenarioRoute

-------------------------------------------------------------------------------
(* The system. *)

LEMMA InitIInv == Init => IInv
<1> SUFFICES ASSUME Init PROVE IInv
  OBVIOUS
<1>1. TypeOK
  BY ChatServerAssumption DEF Init, TypeOK, Request
<1>2. IsFiniteSet(packages)
  BY FS_EmptySet DEF Init
<1>3. ScenarioIsGood /\ SessionsAreGood
  BY DEF Init, ScenarioIsGood, SessionsAreGood
<1>4. RequestsAreGood
  BY DEF Init, RequestsAreGood, Idle
<1> QED
  BY <1>1, <1>2, <1>3, <1>4 DEF IInv

LEMMA SessionRouteInv ==
  ASSUME IInv, NEW s \in Server, SessionRoute(s)
  PROVE  IInv'
<1>1. \A msg \in UserMessage : msg \in Message /\ (msg.kind = "confirm" => msg.slots = {})
  BY UserMessageAssumption
<1> QED
  BY <1>1, CreateSessionInv, SubmitMessageInv, RefuseTurnInv, RequestHandoffInv
     DEF SessionRoute

LEMMA TurnStepInv ==
  ASSUME IInv, NEW s \in Server, TurnStep(s)
  PROVE  IInv'
BY RefusalTurnInv, ClarificationTurnInv, HandoffTurnInv, CancelTurnInv, ReuseTurnInv,
   NoSourceTurnInv, RetrieveInv, AnsweredInv DEF TurnStep

LEMMA NextIInv == IInv /\ [Next]_vars => IInv'
<1> SUFFICES ASSUME IInv, [Next]_vars PROVE IInv'
  OBVIOUS
<1>1. CASE UNCHANGED vars
  BY <1>1 DEF vars, IInv, TypeOK, ScenarioIsGood, SessionsAreGood, RequestsAreGood
<1>2. CASE Next
  BY <1>2, SessionRouteInv, TurnStepInv, ScenarioRouteInv, CommitInv, CrashInv, PolicyInv,
     WithdrawInv DEF Next
<1> QED
  BY <1>1, <1>2

LEMMA AlwaysIInv == Spec => []IInv
BY InitIInv, NextIInv, PTL DEF Spec

(* Every row the chatbot stores and every request in flight holds values of its   *)
(* kind, for any scenario bodies, messages and policies.                          *)
THEOREM TypeCorrect == Spec => []TypeOK
<1>1. IInv => TypeOK
  BY DEF IInv
<1> QED
  BY <1>1, AlwaysIInv, PTL

(* The scenario version a customer talks to was approved at some time, however    *)
(* the scenario routes of any number of administrators overlap: each works on a   *)
(* copy of the whole row, and no copy ever held an active version that was not    *)
(* approved (scenario_action, upsert_scenario_version, rollback_scenario).        *)
THEOREM ActiveStaysApproved == Spec => []ActiveWasApproved
<1>1. IInv => ActiveWasApproved
  BY DEF IInv, ScenarioIsGood, GoodScenario, ActiveWasApproved, ActiveVersion
<1> QED
  BY <1>1, AlwaysIInv, PTL

(* A ticket follows the summary it confirms, or a question for data that the      *)
(* scenario required then and changed since, in every session and whatever turns  *)
(* ran at the same time (_run_cancel_scenario).                                   *)
THEOREM TicketsWereOffered == Spec => []TicketWasOffered
<1>1. IInv => TicketWasOffered
  BY DEF IInv, SessionsAreGood, GoodTurns, Offered, TicketWasOffered
<1> QED
  BY <1>1, AlwaysIInv, PTL

(* A session handed to a person names a stored package about itself, wherever a   *)
(* server died: _create_handoff stores the package before submit_message stores   *)
(* the session, and no copy of a session names a package that is not stored.      *)
THEOREM HandoffStaysLinked == Spec => []HandoffIsLinked
<1>1. IInv => HandoffIsLinked
  BY DEF IInv, SessionsAreGood, Linked, Names, HandoffIsLinked
<1> QED
  BY <1>1, AlwaysIInv, PTL

----
(* The settings (ControlPlane): what one call of a route gives or changes, for   *)
(* all stored rows.                                                               *)

(* A tenant for whom no row applies has not opted in: nothing leaves for a provider *)
(* on account of a row that is missing, inactive, of another tenant or of another  *)
(* collection.                                                                    *)
THEOREM FailClosed ==
  ASSUME NEW rows, NEW t, NEW c, NEW id, Applicable(rows, t, c, id) = {}
  PROVE  /\ GetMapping(rows, t, c, id).optIn = "pending"
         /\ GetMapping(rows, t, c, id).needsOptIn
  BY DEF GetMapping, DefaultMapping, BuiltIn, Only, DefaultProviderPolicy

(* The policy a tenant is given is its own, whatever other tenants stored. *)
THEOREM AppliedIsTenants ==
  ASSUME NEW rows, NEW t, NEW c, NEW id
  PROVE  GetMapping(rows, t, c, id).tenant = t
<1> DEFINE A == Applicable(rows, t, c, id)
           R(p) == Rank(rows, c, id, p)
<1>1. CASE A = {}
  BY <1>1 DEF GetMapping, DefaultMapping
<1>2. CASE A # {}
  <2>1. A \subseteq {id, DefaultId} /\ \A p \in A : rows[p].tenant = t
    BY DEF Applicable
  <2>2. \A p, q : R(p) <= R(q) \/ R(q) <= R(p)
    BY DEF Rank
  <2>3. \A p : R(p) <= R(p)
    BY DEF Rank
  <2> HIDE DEF A, R
  <2>4. \E p \in A : \A q \in A : R(q) <= R(p)
    BY <1>2, <2>1, <2>2, <2>3
  <2> USE DEF A, R
  <2>5. BestOf(rows, t, c, id) \in A
    BY <2>4 DEF BestOf
  <2>6. QED
    BY <1>2, <2>1, <2>5 DEF GetMapping
<1>3. QED
  BY <1>1, <1>2

(* A request of one tenant never changes a policy of another, not even one whose id *)
(* it names.                                                                       *)
THEOREM OthersKeepTheirPolicies ==
  ASSUME NEW rows, NEW t, NEW id, NEW body, NEW p \in DOMAIN rows,
         rows[p] # Nothing, rows[p].tenant # t
  PROVE  SavePolicy(rows, t, id, body)[p] = rows[p]
  BY DEF SavePolicy, UpsertPolicy, Refused

(* A policy that is saved without naming its collection applies to the whole tenant *)
(* afterwards, and one that is saved without a status is active: the route starts  *)
(* from what applies without a collection, not from the row it is about to write.  *)
THEOREM SaveDetaches ==
  ASSUME NEW rows, NEW t, NEW id \in DOMAIN rows, NEW body, ~Refused(rows, t, id),
         "collection" \notin DOMAIN body, "status" \notin DOMAIN body,
         NEW m, m = GetMapping(rows, t, Nothing, id),
         {"collection", "status"} \subseteq DOMAIN m,
         m.collection = Nothing, m.status = "active"
  PROVE  /\ SavePolicy(rows, t, id, body)[id].collection = Nothing
         /\ SavePolicy(rows, t, id, body)[id].status = "active"
<1> DEFINE item == Merged(m, Clean(body))
           whole == Merged(GetMapping(rows, t, item.collection, id), item)
<1>1. /\ "collection" \in DOMAIN item /\ item.collection = Nothing
      /\ "status" \in DOMAIN item /\ item.status = "active"
  BY DEF Merged, Clean, Only
<1> HIDE DEF item
<1>2. /\ "collection" \in DOMAIN whole /\ whole.collection = Nothing
      /\ "status" \in DOMAIN whole /\ whole.status = "active"
  BY <1>1 DEF Merged
<1>3. SavePolicy(rows, t, id, body) = [rows EXCEPT ![id] = RowOf(t, whole)]
  BY DEF SavePolicy, UpsertPolicy, item
<1> HIDE DEF whole
<1>4. RowOf(t, whole).collection = Nothing /\ RowOf(t, whole).status = "active"
  BY <1>2 DEF RowOf, Merged, Only, PolicyColumns
<1>5. QED
  BY <1>3, <1>4

(* Revoking takes a grant off the listing and nothing else: whoever could read      *)
(* before can read after, though no grant of it is shown.                          *)
THEOREM RevocationKeepsTheGrant ==
  ASSUME NEW acl, NEW revoked, NEW scopes, NEW subjects
  PROVE  /\ CanRead(UpdateAcl(acl, revoked, <<>>), scopes, subjects)
              <=> CanRead(acl, scopes, subjects)
         /\ \A g \in DOMAIN acl.listing \cap revoked :
              UpdateAcl(acl, revoked, <<>>).listing[g] = Nothing
  BY DEF UpdateAcl, AddGrants, UpdateListing, Granted, ListedOf, Reached, CanRead

(* What a request that went through shows was granted, if it was before; a request *)
(* that failed midway may show a grant nobody has.                                *)
THEOREM ShownIsGranted ==
  ASSUME NEW acl, NEW revoked, NEW raws, ~AclFails(raws), ShownGrants(acl) \subseteq acl.table,
         \A g \in DOMAIN acl.listing :
           LET mine == {i \in ListedOf(raws) : raws[i].id = g}
           IN mine # {} => LastOf(mine) \in mine
  PROVE  ShownGrants(UpdateAcl(acl, revoked, raws)) \subseteq UpdateAcl(acl, revoked, raws).table
<1> DEFINE after == UpdateListing(acl.listing, revoked, raws)
           table == AddGrants(acl.table, raws)
<1>1. DOMAIN after = DOMAIN acl.listing
  BY DEF UpdateListing
<1>2. ASSUME NEW g \in DOMAIN acl.listing, after[g] # Nothing
      PROVE  after[g] \in table
  <2> DEFINE mine == {i \in ListedOf(raws) : raws[i].id = g}
  <2>1. CASE mine = {}
    <3>1. after[g] = acl.listing[g] \/ after[g] = Nothing
      BY <2>1 DEF UpdateListing
    <3>2. QED
      BY <3>1, <1>2 DEF ShownGrants, AddGrants
  <2>2. CASE mine # {}
    <3>1. after[g] = GrantOf(raws[LastOf(mine)])
      BY <2>2 DEF UpdateListing
    <3>2. LastOf(mine) \in Granted(raws)
      BY <2>2 DEF AclFails, ListedOf, Reached
    <3>3. QED
      BY <3>1, <3>2 DEF AddGrants
  <2>3. QED
    BY <2>1, <2>2
<1> HIDE DEF after, table
<1>3. \A x \in {after[g] : g \in DOMAIN after} \ {Nothing} : x \in table
  BY <1>1, <1>2
<1>4. QED
  BY <1>3 DEF ShownGrants, UpdateAcl, after, table

(* A tenant can add to what is detected and said, never take from it, and a removed *)
(* entry leaves the built-in vocabulary of its key.                                *)
THEOREM DefaultsAreKept ==
  ASSUME NEW defaults, NEW entries, NEW k \in DOMAIN defaults
  PROVE  /\ defaults[k] \subseteq Resolve(defaults, entries)[k]
         /\ Resolve(defaults, RemoveEntry(entries, k))[k] = defaults[k]
  BY DEF Resolve, RemoveEntry, Only

(* No update stores a policy that opts in without a contract, also when it was made *)
(* from a policy that another request has replaced since.                          *)
THEOREM OptInNeedsContract ==
  ASSUME NEW stored, NEW read, NEW patch, ValidPolicy(stored)
  PROVE  /\ ValidPolicy(UpdatePolicy(stored, read, patch))
         /\ UpdatePolicy(stored, read, patch).optIn
              => TrainingAllowed(UpdatePolicy(stored, read, patch))
  BY DEF UpdatePolicy, PatchRefused, ValidPolicy, TrainingAllowed
===============================================================================
