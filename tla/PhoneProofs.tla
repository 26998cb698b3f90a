----------------------------- MODULE PhoneProofs ------------------------------
(***************************************************************************)
(* Proofs about the phone agent, for every number of services, calls and   *)
(* requests and every scenario.                                            *)
(*                                                                         *)
(* The scenario: each row a request may write is sound by itself, so that  *)
(* the active version is a published one holds even when requests overlap. *)
(* That a published version is never changed needs the row a request will  *)
(* write to extend the row that is stored, which only holds if the         *)
(* requests on the scenario come one at a time.                            *)
(*                                                                         *)
(* The calls, with the requests on one call one at a time: ServerOK says,  *)
(* per request and remaining step, what the service knows of the rows it   *)
(* read; a step of one service leaves the rows of another's call alone.    *)
(***************************************************************************)
EXTENDS PhoneAgent, SequenceTheorems, TLAPS

-------------------------------------------------------------------------------
(* The scenario. *)

AnyRow == [active : Nat \cup {NoVersion}, versions : Seq(Version)]

ApprovedIfLive(version) ==
    version.status \in {"approved", "scheduled", "published"} => version.approved

SoundRow(row) ==
    /\ row \in AnyRow /\ Len(row.versions) <= MaxVersions
    /\ \A v \in DOMAIN row.versions : ApprovedIfLive(row.versions[v])
    /\ row.active # NoVersion =>
         row.active \in DOMAIN row.versions /\ row.versions[row.active].status = "published"

(* What a published version is in before, it is in after. *)
Extends(before, after) ==
    \A v \in DOMAIN before.versions :
        Immutable(before.versions[v]) =>
          /\ v \in DOMAIN after.versions
          /\ Immutable(after.versions[v])
          /\ after.versions[v].script = before.versions[v].script

(* The row a service has computed and not yet written. *)
Editing(p) == todo[p] = <<"save_scenario">>

(* A version or a row is replaced as a whole. *)
LEMMA Statuses ==
    ScenarioStatus = {"draft", "in_review", "approved", "scheduled", "published", "archived"}
BY DEF ScenarioStatus, ScenarioTransitions

LEMMA NewVersionType ==
    ASSUME NEW status \in {"draft", "published"}, NEW approved \in BOOLEAN, NEW script \in Scripts
    PROVE  LET version == NewVersion(status, approved, script)
           IN  /\ version \in Version
               /\ version.status = status /\ version.approved = approved
BY Statuses DEF NewVersion, Version

LEMMA SingleRow ==
    ASSUME NEW version \in Version
    PROVE  LET after == [active |-> NoVersion, versions |-> <<version>>]
           IN  /\ after \in AnyRow /\ Len(after.versions) = 1
               /\ DOMAIN after.versions = {1} /\ after.versions[1] = version
<1>1. <<version>> \in Seq(Version) /\ Len(<<version>>) = 1 /\ <<version>>[1] = version
  OBVIOUS
<1>2. DOMAIN <<version>> = {1}
  OBVIOUS
<1> QED
  BY <1>1, <1>2 DEF AnyRow

LEMMA ReplaceVersion ==
    ASSUME NEW row \in AnyRow, NEW v \in DOMAIN row.versions, NEW version \in Version,
           NEW active \in Nat \cup {NoVersion}
    PROVE  LET after == [active |-> active, versions |-> [row.versions EXCEPT ![v] = version]]
           IN  /\ after \in AnyRow /\ DOMAIN after.versions = DOMAIN row.versions
               /\ Len(after.versions) = Len(row.versions) /\ after.active = active
               /\ after.versions[v] = version
               /\ \A w \in DOMAIN row.versions : w # v => after.versions[w] = row.versions[w]
BY DEF AnyRow

LEMMA AppendRow ==
    ASSUME NEW row \in AnyRow, NEW version \in Version, NEW active \in Nat \cup {NoVersion}
    PROVE  LET after == [active |-> active, versions |-> Append(row.versions, version)]
           IN  /\ after \in AnyRow
               /\ DOMAIN after.versions = 1..(Len(row.versions) + 1)
               /\ DOMAIN row.versions = 1..Len(row.versions) /\ Len(row.versions) \in Nat
               /\ Len(after.versions) = Len(row.versions) + 1
               /\ after.versions[Len(row.versions) + 1] = version
               /\ \A v \in DOMAIN row.versions : after.versions[v] = row.versions[v]
BY DEF AnyRow

LEMMA CreatedIsSound ==
    ASSUME NEW row, SoundRow(row), ~(Len(Created(row).versions) > MaxVersions)
    PROVE  SoundRow(Created(row)) /\ Extends(row, Created(row))
<1> DEFINE version == NewVersion("draft", FALSE, DefaultScript)
<1>1. CASE row.versions # << >>
  BY <1>1 DEF Created, Extends
<1>2. CASE row.versions = << >>
  <2>1. /\ version \in Version /\ ApprovedIfLive(version)
    BY ScriptsAssumption, NewVersionType DEF ApprovedIfLive
  <2>2. /\ row \in AnyRow /\ row.active = NoVersion
    BY <1>2 DEF SoundRow
  <2> DEFINE after == Created(row)
  <2>3. after = [active |-> NoVersion, versions |-> <<version>>]
    BY <1>2, <2>2 DEF Created, AnyRow
  <2> HIDE DEF version
  <2>4. /\ after \in AnyRow /\ Len(after.versions) = 1 /\ DOMAIN after.versions = {1}
        /\ after.versions[1] = version /\ after.active = NoVersion
    BY <2>1, <2>3, SingleRow
  <2> HIDE DEF after
  <2>5. SoundRow(after)
    <3>1. Len(after.versions) <= MaxVersions
      BY <2>4, ScriptsAssumption DEF after
    <3> QED
      BY <2>1, <2>3, <2>4, <3>1 DEF SoundRow
  <2>6. Extends(row, after)
    BY <1>2 DEF Extends
  <2> QED
    BY <2>5, <2>6 DEF after
<1> QED
  BY <1>1, <1>2

LEMMA UpsertedIsSound ==
    ASSUME NEW row, SoundRow(row), NEW v \in 1..MaxVersions, NEW script \in Scripts,
           ~(Len(Upserted(row, v, script).versions) > MaxVersions)
    PROVE  SoundRow(Upserted(row, v, script)) /\ Extends(row, Upserted(row, v, script))
<1> DEFINE after == Upserted(row, v, script)
           version == NewVersion("draft", FALSE, script)
<1>0. /\ row \in AnyRow /\ Len(row.versions) \in Nat /\ DOMAIN row.versions = 1..Len(row.versions)
      /\ MaxVersions \in Nat /\ v \in Nat
  BY ScriptsAssumption DEF SoundRow, AnyRow
<1>1. CASE after = row
  BY <1>1 DEF Extends
<1>2. CASE v = Len(row.versions) + 1
  <2>1. /\ version \in Version /\ ApprovedIfLive(version)
    BY NewVersionType DEF ApprovedIfLive
  <2>2. after = [row EXCEPT !.versions = Append(row.versions, version)]
    BY <1>0, <1>2 DEF Upserted
  <2>3. after = [active |-> row.active, versions |-> Append(row.versions, version)]
    BY <2>2, <1>0 DEF AnyRow
  <2>4. /\ after \in AnyRow /\ DOMAIN after.versions = 1..(Len(row.versions) + 1)
        /\ after.versions[Len(row.versions) + 1] = version /\ after.active = row.active
        /\ \A w \in DOMAIN row.versions : after.versions[w] = row.versions[w]
    <3>1. row.active \in Nat \cup {NoVersion}
      BY <1>0 DEF AnyRow
    <3> HIDE DEF version, after
    <3> QED
      BY <1>0, <2>1, <2>3, <3>1, AppendRow
  <2> HIDE DEF after, version
  <2>5. \A w \in DOMAIN after.versions : w \in DOMAIN row.versions \/ w = Len(row.versions) + 1
    BY <1>0, <2>4
  <2>6. SoundRow(after)
    BY <1>0, <2>1, <2>4, <2>5 DEF SoundRow, after
  <2>7. Extends(row, after)
    BY <1>0, <2>4 DEF Extends
  <2> QED
    BY <2>6, <2>7 DEF after
<1>3. CASE /\ v \in DOMAIN row.versions /\ ~Immutable(row.versions[v])
           /\ after = [row EXCEPT !.versions[v].script = script]
  <2> DEFINE edited == [row.versions[v] EXCEPT !.script = script]
  <2>1. edited \in Version /\ edited.status = row.versions[v].status
        /\ edited.approved = row.versions[v].approved
    <3>1. row.versions[v] \in Version
      BY <1>0, <1>3 DEF AnyRow
    <3> QED
      BY <3>1 DEF Version
  <2>2. after = [active |-> row.active, versions |-> [row.versions EXCEPT ![v] = edited]]
    BY <1>0, <1>3 DEF AnyRow
  <2> HIDE DEF edited, after
  <2>3. /\ after \in AnyRow /\ DOMAIN after.versions = DOMAIN row.versions
        /\ Len(after.versions) = Len(row.versions) /\ after.active = row.active
        /\ after.versions[v] = edited
        /\ \A w \in DOMAIN row.versions : w # v => after.versions[w] = row.versions[w]
    <3>1. row.active \in Nat \cup {NoVersion}
      BY <1>0 DEF AnyRow
    <3>2. v \in DOMAIN row.versions /\ edited \in Version
      BY <1>3, <2>1
    <3> QED
      BY <1>0, <2>2, <3>1, <3>2, ReplaceVersion
  <2>4. SoundRow(after)
    BY <2>1, <2>3 DEF SoundRow, ApprovedIfLive
  <2>5. Extends(row, after)
    BY <1>3, <2>3 DEF Extends
  <2> QED
    BY <2>4, <2>5 DEF after
<1>4. \/ after = row \/ v = Len(row.versions) + 1
      \/ /\ v \in DOMAIN row.versions /\ ~Immutable(row.versions[v])
         /\ after = [row EXCEPT !.versions[v].script = script]
  <2>1. v <= Len(row.versions) => v \in DOMAIN row.versions
    BY <1>0
  <2>2. CASE v > Len(row.versions) + 1
    BY <2>2 DEF Upserted
  <2>3. CASE v <= Len(row.versions)
    <3>1. ~(v > Len(row.versions) + 1) /\ v # Len(row.versions) + 1
      BY <1>0, <2>3
    <3> QED
      BY <2>1, <2>3, <3>1 DEF Upserted
  <2> QED
    BY <1>0, <2>2, <2>3
<1> QED
  BY <1>1, <1>2, <1>3, <1>4

LEMMA ActedIsSound ==
    ASSUME NEW row, SoundRow(row), NEW v, NEW target \in ActionTargets
    PROVE  SoundRow(Acted(row, v, target)) /\ Extends(row, Acted(row, v, target))
<1> DEFINE after == Acted(row, v, target)
<1>1. CASE v \notin DOMAIN row.versions \/ ~MayMove(row.versions[v], target)
  BY <1>1 DEF Acted, Extends
<1>2. CASE v \in DOMAIN row.versions /\ MayMove(row.versions[v], target)
  <2> DEFINE version == row.versions[v]
             moved == [version EXCEPT !.status = target, !.approved = @ \/ target = "approved"]
             active == IF target = "published" THEN v
                       ELSE IF target = "archived" /\ row.active = v THEN NoVersion
                       ELSE row.active
  <2>0. /\ row \in AnyRow /\ v \in Nat /\ version \in Version /\ ApprovedIfLive(version)
        /\ DOMAIN row.versions = 1..Len(row.versions)
    BY <1>2 DEF SoundRow, AnyRow
  <2>1. /\ target \in ScenarioTransitions[version.status]
        /\ Immutable(version) => target = "archived"
    BY <1>2 DEF MayMove
  <2>2. /\ moved \in Version /\ moved.status = target /\ moved.script = version.script
        /\ moved.approved = (version.approved \/ target = "approved")
    BY <2>0 DEF Version, ActionTargets, ScenarioStatus, ScenarioTransitions
  <2>3. /\ ApprovedIfLive(moved)
        /\ version.status = "published" => target = "archived"
    <3>1. version.status \in {"draft", "in_review", "approved", "scheduled", "published", "archived"}
      BY <2>0, Statuses DEF Version
    <3>2. version.status \in {"draft", "in_review", "archived"} =>
            target \in {"in_review", "approved", "draft", "archived"}
      BY <2>1 DEF ScenarioTransitions
    <3>3. version.status = "published" => target = "archived"
      BY <2>1 DEF ScenarioTransitions
    <3> HIDE DEF moved
    <3> QED
      BY <2>0, <2>2, <3>1, <3>2, <3>3 DEF ApprovedIfLive
  <2>4. after = [active |-> active, versions |-> [row.versions EXCEPT ![v] = moved]]
    BY <1>2, <2>0 DEF Acted, AnyRow
  <2>5. active \in Nat \cup {NoVersion}
    BY <2>0 DEF AnyRow
  <2> HIDE DEF after, moved
  <2>6. /\ after \in AnyRow /\ DOMAIN after.versions = DOMAIN row.versions
        /\ Len(after.versions) = Len(row.versions) /\ after.active = active
        /\ after.versions[v] = moved
        /\ \A w \in DOMAIN row.versions : w # v => after.versions[w] = row.versions[w]
    <3> HIDE DEF active
    <3> QED
      BY <1>2, <2>0, <2>2, <2>4, <2>5, ReplaceVersion
  <2>7. SoundRow(after)
    BY <1>2, <2>2, <2>3, <2>6 DEF SoundRow
  <2>8. Extends(row, after)
    BY <2>1, <2>2, <2>6 DEF Extends, Immutable
  <2> QED
    BY <2>7, <2>8 DEF after
<1> QED
  BY <1>1, <1>2

LEMMA RolledBackIsSound ==
    ASSUME NEW row, SoundRow(row), NEW v, ~(Len(RolledBack(row, v).versions) > MaxVersions)
    PROVE  SoundRow(RolledBack(row, v)) /\ Extends(row, RolledBack(row, v))
<1> DEFINE after == RolledBack(row, v)
<1>1. CASE v \notin DOMAIN row.versions \/ ~Restorable(row.versions[v])
  BY <1>1 DEF RolledBack, Extends
<1>2. CASE v \in DOMAIN row.versions /\ Restorable(row.versions[v])
  <2> DEFINE version == NewVersion("published", TRUE, row.versions[v].script)
  <2>0. /\ row \in AnyRow /\ Len(row.versions) \in Nat
        /\ DOMAIN row.versions = 1..Len(row.versions)
    BY DEF SoundRow, AnyRow
  <2>1. /\ version \in Version /\ ApprovedIfLive(version) /\ version.status = "published"
    <3>1. row.versions[v] \in Version
      BY <1>2, <2>0 DEF AnyRow
    <3>2. row.versions[v].script \in Scripts
      BY <3>1 DEF Version
    <3> QED
      BY <3>2, NewVersionType DEF ApprovedIfLive
  <2>2. after = [active |-> Len(row.versions) + 1, versions |-> Append(row.versions, version)]
    BY <1>2 DEF RolledBack
  <2> HIDE DEF version
  <2>3. /\ after \in AnyRow /\ DOMAIN after.versions = 1..(Len(row.versions) + 1)
        /\ after.versions[Len(row.versions) + 1] = version
        /\ after.active = Len(row.versions) + 1 /\ Len(after.versions) = Len(row.versions) + 1
        /\ \A w \in DOMAIN row.versions : after.versions[w] = row.versions[w]
    BY <2>0, <2>1, <2>2, AppendRow
  <2> HIDE DEF after
  <2>4. \A w \in DOMAIN after.versions : w \in DOMAIN row.versions \/ w = Len(row.versions) + 1
    BY <2>0, <2>3
  <2>5. SoundRow(after)
    <3>1. Len(after.versions) <= MaxVersions
      BY <2>0, <2>3, ScriptsAssumption DEF after
    <3> QED
      BY <2>0, <2>1, <2>3, <2>4, <3>1 DEF SoundRow
  <2>6. Extends(row, after)
    BY <2>0, <2>3 DEF Extends
  <2> QED
    BY <2>5, <2>6 DEF after
<1> QED
  BY <1>1, <1>2

-------------------------------------------------------------------------------
(* What a service holds between two steps of a request. *)

Simulating == {<<"answer", "save_call", "turn", "save_call">>, <<"save_call", "turn", "save_call">>}
InTurn == {<<"turn", "save_call">>, <<"save_package", "turn", "save_call">>,
           <<"save_package", "save_call">>, <<"save_call">>}
Accepting == {<<"get_package", "save_package", "get_call", "save_call">>,
              <<"save_package", "get_call", "save_call">>, <<"get_call", "save_call">>,
              <<"save_call">>}
Deleting == {<<"get_call", "save_call", "get_package", "save_package">>,
             <<"save_call", "get_package", "save_package">>,
             <<"get_package", "save_package">>, <<"save_package">>}

(* The steps that may be left of a request. *)
StepsLeft(arg, labels) ==
    \/ arg = "idle" /\ labels = << >>
    \/ arg = "simulate" /\ labels \in Simulating \cup InTurn
    \/ arg = "turn" /\ labels \in {<<"get_call", "turn", "save_call">>} \cup InTurn
    \/ arg = "accept" /\ labels \in Accepting
    \/ arg = "delete" /\ labels \in Deleting
    \/ arg = "scenario" /\ labels \in {<<"get_scenario", "save_scenario">>, <<"save_scenario">>}

JobRow ==
    [arg : {"idle", "simulate", "turn", "accept", "delete", "scenario"},
     call : Calls \cup {NoCall}, script : Seq(Event), operator : Operators \cup {NoCall},
     package : 1..MaxPackages \cup {NoPackage}, local : CallRow \cup {NoCall},
     copy : Package \cup {NoPackage}, row : AnyRow]

(* The service works on a row of the call. *)
HasLocal(arg, labels) ==
    \/ arg \in {"simulate", "turn"}
         /\ labels \in InTurn \cup {<<"save_call", "turn", "save_call">>}
    \/ arg = "accept" /\ labels = <<"save_call">>
    \/ arg = "delete" /\ labels = <<"save_call", "get_package", "save_package">>

Fetching == {<<"get_package", "save_package", "get_call", "save_call">>,
             <<"get_package", "save_package">>}
Storing == {<<"save_package", "turn", "save_call">>, <<"save_package", "save_call">>,
            <<"save_package", "get_call", "save_call">>, <<"save_package">>}

HeldTyped(held, labels, known) ==
    /\ held \in JobRow
    /\ StepsLeft(held.arg, labels)
    /\ held.arg \notin {"idle", "scenario"} => held.call \in Calls
    /\ labels = <<"save_scenario">> => SoundRow(held.row)
    /\ HasLocal(held.arg, labels) =>
         /\ held.local \in CallRow
         /\ \/ held.local.package \in known \cup {NoPackage}
            \/ labels \in Storing /\ held.local.package = held.package
    /\ labels \in Fetching => held.package \in known
    /\ labels \in Storing => held.package \in 1..MaxPackages /\ held.copy \in Package

ServerTyped(p) == HeldTyped(job[p], todo[p], DOMAIN packages)

RowsTyped ==
    /\ DOMAIN calls \subseteq Calls
    /\ \A c \in DOMAIN calls :
         calls[c] \in CallRow /\ calls[c].package \in DOMAIN packages \cup {NoPackage}
    /\ DOMAIN packages \subseteq 1..MaxPackages
    /\ \A k \in DOMAIN packages : packages[k] \in Package

TypeInv ==
    /\ SoundRow(scenario)
    /\ RowsTyped
    /\ DOMAIN todo = Servers /\ DOMAIN job = Servers
    /\ requests \in 0..MaxRequests
    /\ \A p \in Servers : ServerTyped(p)

-------------------------------------------------------------------------------
(* Requests on one call come one at a time. *)

Owned(c, k) == k \in DOMAIN packages /\ packages[k].call = c

Exclusive ==
    \A p, q \in Servers : p # q /\ job[p].call \in Calls => job[p].call # job[q].call

OneEditor ==
    \A p, q \in Servers : p # q /\ job[p].arg = "scenario" => job[q].arg # "scenario"

(* A turn, alone or of a simulated call. *)
TurnOK(p) ==
    LET call == job[p].local
        c == job[p].call
    IN  /\ c \in DOMAIN calls /\ ~Terminal(calls[c])
        /\ call.id = c /\ call.state # "transferred"
        /\ call.state = "handoff_pending" => call.package # NoPackage
        /\ call.package # NoPackage =>
             Owned(c, call.package) \/ (todo[p] \in Storing /\ call.package = job[p].package)
        /\ c \in erased => todo[p] = <<"turn", "save_call">>
        /\ todo[p] \in Storing =>
             /\ job[p].package \notin DOMAIN packages
             /\ \A q \in Servers : q # p => job[q].package # job[p].package
             /\ job[p].copy.call = c

NewOK(p) ==
    LET call == job[p].local
        c == job[p].call
    IN  /\ c \notin DOMAIN calls
        /\ todo[p] = <<"save_call", "turn", "save_call">> =>
             call.id = c /\ call.state = "active" /\ call.package = NoPackage

AcceptOK(p) ==
    LET c == job[p].call
        k == job[p].package
    IN  /\ Owned(c, k)
        /\ todo[p] = <<"save_package", "get_call", "save_call">> =>
             /\ job[p].copy.call = c /\ job[p].copy.status = "accepted"
             /\ job[p].copy.transcript = packages[k].transcript
        /\ todo[p] \in {<<"get_call", "save_call">>, <<"save_call">>} =>
             packages[k].status = "accepted"
        /\ todo[p] = <<"save_call">> =>
             /\ c \in DOMAIN calls /\ calls[c].state = "handoff_pending"
             /\ job[p].local = [calls[c] EXCEPT !.state = "transferred"]

DeleteOK(p) ==
    LET c == job[p].call
        k == job[p].package
    IN  /\ c \in DOMAIN calls
        /\ todo[p] = <<"save_call", "get_package", "save_package">> =>
             job[p].local = Erased(calls[c])
        /\ todo[p] \in {<<"get_package", "save_package">>, <<"save_package">>} =>
             k = calls[c].package /\ k # NoPackage /\ calls[c].transcript = "erased"
        /\ todo[p] = <<"save_package">> => job[p].copy = Erased(packages[k])

CallOK(p) ==
    /\ job[p].arg \in {"simulate", "turn"} /\ todo[p] \in InTurn => TurnOK(p)
    /\ job[p].arg = "simulate" /\ todo[p] \in Simulating => NewOK(p)
    /\ job[p].arg = "accept" => AcceptOK(p)
    /\ job[p].arg = "delete" => DeleteOK(p)

EditOK(p) == todo[p] = <<"save_scenario">> => Extends(scenario, job[p].row)

EditInv == OneEditor /\ \A p \in Servers : EditOK(p)

RowOK(c) ==
    /\ calls[c].id = c
    /\ calls[c].package # NoPackage => Owned(c, calls[c].package)
    /\ calls[c].state = "handoff_pending" => calls[c].package # NoPackage
    /\ calls[c].state = "transferred" =>
         \E k \in DOMAIN packages : packages[k].call = c /\ packages[k].status = "accepted"

ErasedOK(c) ==
    /\ c \in DOMAIN calls /\ calls[c].transcript # "text"
    /\ calls[c].package # NoPackage => packages[calls[c].package].transcript # "text"

CallsInv ==
    /\ Exclusive
    /\ \A c \in DOMAIN calls : RowOK(c)
    /\ \A c \in erased : ErasedOK(c)
    /\ \A p \in Servers : CallOK(p)

-------------------------------------------------------------------------------
(* Steps of a request. *)

LEMMA StepLabels ==
    ASSUME NEW arg, NEW s, StepsLeft(arg, s), s # << >>
    PROVE  \/ arg = "simulate" /\ s = <<"answer", "save_call", "turn", "save_call">>
                /\ Head(s) = "answer" /\ Tail(s) = <<"save_call", "turn", "save_call">>
           \/ arg = "simulate" /\ s = <<"save_call", "turn", "save_call">>
                /\ Head(s) = "save_call" /\ Tail(s) = <<"turn", "save_call">>
           \/ arg \in {"simulate", "turn"} /\ s = <<"turn", "save_call">>
                /\ Head(s) = "turn" /\ Tail(s) = <<"save_call">>
           \/ arg \in {"simulate", "turn"} /\ s = <<"save_package", "turn", "save_call">>
                /\ Head(s) = "save_package" /\ Tail(s) = <<"turn", "save_call">>
           \/ arg \in {"simulate", "turn"} /\ s = <<"save_package", "save_call">>
                /\ Head(s) = "save_package" /\ Tail(s) = <<"save_call">>
           \/ arg \in {"simulate", "turn", "accept"} /\ s = <<"save_call">>
                /\ Head(s) = "save_call" /\ Tail(s) = << >>
           \/ arg = "turn" /\ s = <<"get_call", "turn", "save_call">>
                /\ Head(s) = "get_call" /\ Tail(s) = <<"turn", "save_call">>
           \/ arg = "accept" /\ s = <<"get_package", "save_package", "get_call", "save_call">>
                /\ Head(s) = "get_package" /\ Tail(s) = <<"save_package", "get_call", "save_call">>
           \/ arg = "accept" /\ s = <<"save_package", "get_call", "save_call">>
                /\ Head(s) = "save_package" /\ Tail(s) = <<"get_call", "save_call">>
           \/ arg = "accept" /\ s = <<"get_call", "save_call">>
                /\ Head(s) = "get_call" /\ Tail(s) = <<"save_call">>
           \/ arg = "delete" /\ s = <<"get_call", "save_call", "get_package", "save_package">>
                /\ Head(s) = "get_call" /\ Tail(s) = <<"save_call", "get_package", "save_package">>
           \/ arg = "delete" /\ s = <<"save_call", "get_package", "save_package">>
                /\ Head(s) = "save_call" /\ Tail(s) = <<"get_package", "save_package">>
           \/ arg = "delete" /\ s = <<"get_package", "save_package">>
                /\ Head(s) = "get_package" /\ Tail(s) = <<"save_package">>
           \/ arg = "delete" /\ s = <<"save_package">>
                /\ Head(s) = "save_package" /\ Tail(s) = << >>
           \/ arg = "scenario" /\ s = <<"get_scenario", "save_scenario">>
                /\ Head(s) = "get_scenario" /\ Tail(s) = <<"save_scenario">>
           \/ arg = "scenario" /\ s = <<"save_scenario">>
                /\ Head(s) = "save_scenario" /\ Tail(s) = << >>
<1>1. \/ arg = "simulate" /\ s = <<"answer", "save_call", "turn", "save_call">>
      \/ arg = "simulate" /\ s = <<"save_call", "turn", "save_call">>
      \/ arg \in {"simulate", "turn"} /\ s = <<"turn", "save_call">>
      \/ arg \in {"simulate", "turn"} /\ s = <<"save_package", "turn", "save_call">>
      \/ arg \in {"simulate", "turn"} /\ s = <<"save_package", "save_call">>
      \/ arg \in {"simulate", "turn", "accept"} /\ s = <<"save_call">>
      \/ arg = "turn" /\ s = <<"get_call", "turn", "save_call">>
      \/ arg = "accept" /\ s = <<"get_package", "save_package", "get_call", "save_call">>
      \/ arg = "accept" /\ s = <<"save_package", "get_call", "save_call">>
      \/ arg = "accept" /\ s = <<"get_call", "save_call">>
      \/ arg = "delete" /\ s = <<"get_call", "save_call", "get_package", "save_package">>
      \/ arg = "delete" /\ s = <<"save_call", "get_package", "save_package">>
      \/ arg = "delete" /\ s = <<"get_package", "save_package">>
      \/ arg = "delete" /\ s = <<"save_package">>
      \/ arg = "scenario" /\ s = <<"get_scenario", "save_scenario">>
      \/ arg = "scenario" /\ s = <<"save_scenario">>
  BY DEF StepsLeft, Simulating, InTurn, Accepting, Deleting
<1>2. s = <<"answer", "save_call", "turn", "save_call">> =>
        Head(s) = "answer" /\ Tail(s) = <<"save_call", "turn", "save_call">>
  OBVIOUS
<1>3. s = <<"save_call", "turn", "save_call">> =>
        Head(s) = "save_call" /\ Tail(s) = <<"turn", "save_call">>
  OBVIOUS
<1>4. s = <<"turn", "save_call">> =>
        Head(s) = "turn" /\ Tail(s) = <<"save_call">>
  OBVIOUS
<1>5. s = <<"save_package", "turn", "save_call">> =>
        Head(s) = "save_package" /\ Tail(s) = <<"turn", "save_call">>
  OBVIOUS
<1>6. s = <<"save_package", "save_call">> =>
        Head(s) = "save_package" /\ Tail(s) = <<"save_call">>
  OBVIOUS
<1>7. s = <<"save_call">> =>
        Head(s) = "save_call" /\ Tail(s) = << >>
  OBVIOUS
<1>8. s = <<"get_call", "turn", "save_call">> =>
        Head(s) = "get_call" /\ Tail(s) = <<"turn", "save_call">>
  OBVIOUS
<1>9. s = <<"get_package", "save_package", "get_call", "save_call">> =>
        Head(s) = "get_package" /\ Tail(s) = <<"save_package", "get_call", "save_call">>
  OBVIOUS
<1>10. s = <<"save_package", "get_call", "save_call">> =>
        Head(s) = "save_package" /\ Tail(s) = <<"get_call", "save_call">>
  OBVIOUS
<1>11. s = <<"get_call", "save_call">> =>
        Head(s) = "get_call" /\ Tail(s) = <<"save_call">>
  OBVIOUS
<1>12. s = <<"get_call", "save_call", "get_package", "save_package">> =>
        Head(s) = "get_call" /\ Tail(s) = <<"save_call", "get_package", "save_package">>
  OBVIOUS
<1>13. s = <<"save_call", "get_package", "save_package">> =>
        Head(s) = "save_call" /\ Tail(s) = <<"get_package", "save_package">>
  OBVIOUS
<1>14. s = <<"get_package", "save_package">> =>
        Head(s) = "get_package" /\ Tail(s) = <<"save_package">>
  OBVIOUS
<1>15. s = <<"save_package">> =>
        Head(s) = "save_package" /\ Tail(s) = << >>
  OBVIOUS
<1>16. s = <<"get_scenario", "save_scenario">> =>
        Head(s) = "get_scenario" /\ Tail(s) = <<"save_scenario">>
  OBVIOUS
<1>17. s = <<"save_scenario">> =>
        Head(s) = "save_scenario" /\ Tail(s) = << >>
  OBVIOUS
<1> QED
  BY ONLY <1>1, <1>2, <1>3, <1>4, <1>5, <1>6, <1>7, <1>8, <1>9, <1>10, <1>11, <1>12, <1>13, <1>14, <1>15, <1>16, <1>17

(* Labels put before the ones that are left. *)
LEMMA PutFirst ==
    ASSUME NEW a, NEW b, NEW c
    PROVE  <<a>> \o <<b>> = <<a, b>> /\ <<a>> \o <<b, c>> = <<a, b, c>>
<1> DEFINE S == {a, b, c}
<1>1. <<a>> \o <<b>> = <<a, b>>
  <2> DEFINE t == <<a>> \o <<b>>
             u == <<a, b>>
  <2>1. /\ <<a>> \in Seq(S) /\ <<b>> \in Seq(S) /\ u \in Seq(S)
        /\ Len(<<a>>) = 1 /\ Len(<<b>>) = 1 /\ <<a>>[1] = a /\ <<b>>[1] = b
        /\ Len(u) = 2 /\ u[1] = a /\ u[2] = b
    OBVIOUS
  <2>2. /\ t \in Seq(S) /\ Len(t) = Len(<<a>>) + Len(<<b>>)
        /\ \A i \in 1..Len(<<a>>) + Len(<<b>>) :
             t[i] = IF i <= Len(<<a>>) THEN <<a>>[i] ELSE <<b>>[i - Len(<<a>>)]
    BY <2>1, ConcatProperties
  <2>3. Len(t) = 2 /\ t[1] = a /\ t[2] = b
    BY <2>1, <2>2
  <2> HIDE DEF t, u
  <2>4. \A i \in 1..Len(t) : t[i] = u[i]
    BY <2>1, <2>3
  <2> QED
    BY <2>1, <2>2, <2>3, <2>4, SeqEqual DEF t, u
<1>2. <<a>> \o <<b, c>> = <<a, b, c>>
  <2> DEFINE t == <<a>> \o <<b, c>>
             u == <<a, b, c>>
  <2>1. /\ <<a>> \in Seq(S) /\ <<b, c>> \in Seq(S) /\ u \in Seq(S)
        /\ Len(<<a>>) = 1 /\ Len(<<b, c>>) = 2
        /\ <<a>>[1] = a /\ <<b, c>>[1] = b /\ <<b, c>>[2] = c
        /\ Len(u) = 3 /\ u[1] = a /\ u[2] = b /\ u[3] = c
    OBVIOUS
  <2>2. /\ t \in Seq(S) /\ Len(t) = Len(<<a>>) + Len(<<b, c>>)
        /\ \A i \in 1..Len(<<a>>) + Len(<<b, c>>) :
             t[i] = IF i <= Len(<<a>>) THEN <<a>>[i] ELSE <<b, c>>[i - Len(<<a>>)]
    BY <2>1, ConcatProperties
  <2>3. Len(t) = 3 /\ t[1] = a /\ t[2] = b /\ t[3] = c
    BY <2>1, <2>2
  <2> HIDE DEF t, u
  <2>4. \A i \in 1..Len(t) : t[i] = u[i]
    BY <2>1, <2>3
  <2> QED
    BY <2>1, <2>2, <2>3, <2>4, SeqEqual DEF t, u
<1> QED
  BY <1>1, <1>2

LEMMA MoveChanges ==
    ASSUME NEW p \in Servers, NEW labels, NEW locals, DOMAIN todo = Servers, DOMAIN job = Servers,
           Move(p, labels, locals)
    PROVE  /\ DOMAIN todo' = Servers /\ DOMAIN job' = Servers /\ requests' = requests
           /\ todo'[p] = labels
           /\ labels = << >> => job'[p] = Idle
           /\ labels # << >> => job'[p] = locals
           /\ \A q \in Servers : q # p => todo'[q] = todo[q] /\ job'[q] = job[q]
BY DEF Move

LEMMA BeginChanges ==
    ASSUME NEW p \in Servers, NEW labels, NEW locals, DOMAIN todo = Servers, DOMAIN job = Servers,
           requests \in 0..MaxRequests, Begin(p, locals, labels)
    PROVE  /\ DOMAIN todo' = Servers /\ DOMAIN job' = Servers /\ requests' \in 0..MaxRequests
           /\ todo'[p] = labels /\ job'[p] = locals /\ todo[p] = << >>
           /\ calls' = calls /\ packages' = packages /\ scenario' = scenario
           /\ \A q \in Servers : q # p => todo'[q] = todo[q] /\ job'[q] = job[q]
<1>1. requests + 1 \in 0..MaxRequests /\ requests' = requests + 1
  BY CallsAssumption DEF Begin
<1> QED
  BY <1>1 DEF Begin, callTables

LEMMA IdleRow ==
    /\ Idle \in JobRow /\ Idle.arg = "idle" /\ Idle.call = NoCall
    /\ Idle.package = NoPackage /\ Idle.script = << >>
<1>1. NoScenario \in AnyRow
  BY DEF NoScenario, AnyRow
<1>2. << >> \in Seq(Event)
  OBVIOUS
<1> QED
  BY <1>1, <1>2 DEF Idle, JobRow

LEMMA IdleTyped == ASSUME NEW known PROVE HeldTyped(Idle, << >>, known)
<1>1. StepsLeft("idle", << >>) /\ ~HasLocal("idle", << >>)
  BY DEF StepsLeft, HasLocal
<1>2. << >> # <<"save_scenario">> /\ << >> \notin Fetching /\ << >> \notin Storing
  BY DEF Fetching, Storing
<1> QED
  BY <1>1, <1>2, IdleRow DEF HeldTyped

(* What is known of a package stays known: none is ever removed. *)
LEMMA HeldStays ==
    ASSUME NEW held, NEW labels, NEW before, NEW after, HeldTyped(held, labels, before), before \subseteq after
    PROVE  HeldTyped(held, labels, after)
BY DEF HeldTyped

(* A step of p, as far as types go: what p holds afterwards, and the rows. *)
LEMMA StepTyped ==
    ASSUME TypeInv, NEW p \in Servers, NEW labels, NEW locals, Move(p, labels, locals),
           labels # << >> => HeldTyped(locals, labels, DOMAIN packages'),
           DOMAIN packages \subseteq DOMAIN packages', RowsTyped', SoundRow(scenario)'
    PROVE  TypeInv'
<1>1. /\ DOMAIN todo' = Servers /\ DOMAIN job' = Servers /\ requests' = requests
      /\ todo'[p] = labels
      /\ labels = << >> => job'[p] = Idle
      /\ labels # << >> => job'[p] = locals
      /\ \A q \in Servers : q # p => todo'[q] = todo[q] /\ job'[q] = job[q]
  BY MoveChanges DEF TypeInv
<1>2. ServerTyped(p)'
  <2>1. CASE labels = << >>
    BY <1>1, <2>1, IdleTyped, HeldStays DEF ServerTyped
  <2>2. CASE labels # << >>
    BY <1>1, <2>2 DEF ServerTyped
  <2> QED
    BY <2>1, <2>2
<1>3. ASSUME NEW q \in Servers, q # p PROVE ServerTyped(q)'
  BY <1>1, <1>3, HeldStays DEF ServerTyped, TypeInv
<1> QED
  BY <1>1, <1>2, <1>3 DEF TypeInv

(* A step that leaves the rows alone. *)
LEMMA ReadTyped ==
    ASSUME TypeInv, NEW p \in Servers, NEW labels, NEW locals, Move(p, labels, locals),
           labels # << >> => HeldTyped(locals, labels, DOMAIN packages),
           UNCHANGED <<callTables, scenario>>
    PROVE  TypeInv'
<1>1. calls' = calls /\ packages' = packages /\ scenario' = scenario
  BY DEF callTables
<1>2. labels # << >> => HeldTyped(locals, labels, DOMAIN packages')
  BY <1>1, HeldStays
<1>3. RowsTyped' /\ SoundRow(scenario)'
  BY <1>1 DEF TypeInv, RowsTyped
<1> QED
  BY <1>1, <1>2, <1>3, StepTyped

LEMMA RequestTyped ==
    ASSUME TypeInv, NEW p \in Servers, NEW labels, NEW locals, Begin(p, locals, labels),
           HeldTyped(locals, labels, DOMAIN packages)
    PROVE  TypeInv'
<1>1. /\ DOMAIN todo' = Servers /\ DOMAIN job' = Servers /\ requests' \in 0..MaxRequests
      /\ todo'[p] = labels /\ job'[p] = locals
      /\ calls' = calls /\ packages' = packages /\ scenario' = scenario
      /\ \A q \in Servers : q # p => todo'[q] = todo[q] /\ job'[q] = job[q]
  BY BeginChanges DEF TypeInv
<1>2. ServerTyped(p)'
  BY <1>1, HeldStays DEF ServerTyped
<1>3. ASSUME NEW q \in Servers, q # p PROVE ServerTyped(q)'
  BY <1>1, <1>3, HeldStays DEF ServerTyped, TypeInv
<1> QED
  BY <1>1, <1>2, <1>3 DEF TypeInv, RowsTyped

(* What a service about to take a step of a given name holds. *)
LEMMA AtStep ==
    ASSUME TypeInv, NEW p \in Servers, NEW label, At(p, label)
    PROVE  /\ todo[p] # << >> /\ Head(todo[p]) = label
           /\ StepsLeft(job[p].arg, todo[p]) /\ HeldTyped(job[p], todo[p], DOMAIN packages)
           /\ job[p] \in JobRow
BY DEF At, TypeInv, ServerTyped, HeldTyped

-------------------------------------------------------------------------------
(* The requests and the steps that read or write a row. *)

LEMMA AskTyped ==
    ASSUME TypeInv, Ask
    PROVE  TypeInv'
<1> USE DEF HeldTyped, StepsLeft, HasLocal, Fetching, Storing, Simulating, InTurn, Accepting, Deleting
<1>1. ASSUME NEW p \in Servers, NEW c \in Calls, NEW n \in 1..MaxScript,
             NEW script \in [1..n -> Events], SimulateCall(p, c, script)
      PROVE  TypeInv'
  <2> DEFINE held == [Idle EXCEPT !.arg = "simulate", !.call = c, !.script = script]
  <2>1. script \in Seq(Event)
    BY <1>1, EventsAssumption
  <2>2. held \in JobRow /\ held.arg = "simulate" /\ held.call = c
    BY <2>1, IdleRow DEF JobRow
  <2> HIDE DEF held
  <2>3. HeldTyped(held, <<"answer", "save_call", "turn", "save_call">>, DOMAIN packages)
    BY <2>2
  <2> QED
    BY <1>1, <2>3, RequestTyped DEF SimulateCall, held
<1>2. ASSUME NEW p \in Servers, NEW c \in Calls, NEW event \in Events, SubmitTurn(p, c, event)
      PROVE  TypeInv'
  <2> DEFINE held == [Idle EXCEPT !.arg = "turn", !.call = c, !.script = <<event>>]
  <2>1. <<event>> \in Seq(Event)
    BY <1>2, EventsAssumption
  <2>2. held \in JobRow /\ held.arg = "turn" /\ held.call = c
    BY <2>1, IdleRow DEF JobRow
  <2> HIDE DEF held
  <2>3. HeldTyped(held, <<"get_call", "turn", "save_call">>, DOMAIN packages)
    BY <2>2
  <2> QED
    BY <1>2, <2>3, RequestTyped DEF SubmitTurn, held
<1>3. ASSUME NEW p \in Servers, NEW k \in DOMAIN packages, NEW operator \in Operators,
             AcceptHandoff(p, k, operator)
      PROVE  TypeInv'
  <2> DEFINE held == [Idle EXCEPT !.arg = "accept", !.call = packages[k].call, !.package = k,
                                  !.operator = operator]
  <2>1. packages[k].call \in Calls /\ k \in 1..MaxPackages
    BY <1>3 DEF TypeInv, RowsTyped, Package
  <2>2. /\ held \in JobRow /\ held.arg = "accept" /\ held.call = packages[k].call
        /\ held.package = k
    BY <2>1, IdleRow DEF JobRow
  <2> HIDE DEF held
  <2>3. HeldTyped(held, <<"get_package", "save_package", "get_call", "save_call">>, DOMAIN packages)
    BY <2>1, <2>2
  <2> QED
    BY <1>3, <2>3, RequestTyped DEF AcceptHandoff, held
<1>4. ASSUME NEW p \in Servers, NEW c \in Calls, DeleteCallRequest(p, c)
      PROVE  TypeInv'
  <2> DEFINE held == [Idle EXCEPT !.arg = "delete", !.call = c]
  <2>1. held \in JobRow /\ held.arg = "delete" /\ held.call = c
    BY IdleRow DEF JobRow
  <2> HIDE DEF held
  <2>2. HeldTyped(held, <<"get_call", "save_call", "get_package", "save_package">>, DOMAIN packages)
    BY <2>1
  <2> QED
    BY <1>4, <2>2, RequestTyped DEF DeleteCallRequest, held
<1>5. ASSUME NEW p \in Servers, EditScenario(p)
      PROVE  TypeInv'
  <2> DEFINE held == [Idle EXCEPT !.arg = "scenario"]
  <2>1. held \in JobRow /\ held.arg = "scenario"
    BY IdleRow DEF JobRow
  <2> HIDE DEF held
  <2>2. HeldTyped(held, <<"get_scenario", "save_scenario">>, DOMAIN packages)
    BY <2>1
  <2> QED
    BY <1>5, <2>2, RequestTyped DEF EditScenario, held
<1> QED
  BY <1>1, <1>2, <1>3, <1>4, <1>5 DEF Ask, Caller

LEMMA AnswerTyped ==
    ASSUME TypeInv, NEW p \in Servers, Answer(p)
    PROVE  TypeInv'
<1> DEFINE call == NewCall(job[p].call, Resolved(scenario))
           held == [job[p] EXCEPT !.local = call]
<1>1. /\ job[p].arg = "simulate" /\ Tail(todo[p]) = <<"save_call", "turn", "save_call">>
      /\ job[p] \in JobRow /\ job[p].call \in Calls
  BY AtStep, StepLabels DEF Answer, HeldTyped
<1>2. call \in CallRow /\ call.package = NoPackage
  <2>1. Resolved(scenario) # NoVersion =>
          SlotsOf[scenario.versions[Resolved(scenario)].script] \in Nat
    <3>1. ASSUME Resolved(scenario) # NoVersion
          PROVE  Resolved(scenario) = scenario.active /\ scenario.active # NoVersion
      BY <3>1 DEF Resolved
    <3>2. ASSUME scenario.active # NoVersion PROVE scenario.versions[scenario.active] \in Version
      BY <3>2 DEF TypeInv, SoundRow, AnyRow
    <3> QED
      BY <3>1, <3>2, ScriptsAssumption DEF Version
  <2>2. "active" \in CallState
    BY DEF CallState, CallTransitions
  <2> QED
    BY <1>1, <2>1, <2>2 DEF NewCall, CallRow, Transcript
<1> HIDE DEF call
<1>3. /\ held \in JobRow /\ held.arg = "simulate" /\ held.call = job[p].call /\ held.local = call
  BY <1>1, <1>2 DEF JobRow
<1> HIDE DEF held
<1>4. HeldTyped(held, <<"save_call", "turn", "save_call">>, DOMAIN packages)
  BY <1>1, <1>2, <1>3 DEF HeldTyped, StepsLeft, HasLocal, Fetching, Storing, Simulating, InTurn
<1> QED
  BY <1>1, <1>4, ReadTyped DEF Answer, Continue, call, held

LEMMA GetCallTyped ==
    ASSUME TypeInv, NEW p \in Servers, GetCall(p)
    PROVE  TypeInv'
<1> DEFINE c == job[p].call
           kind == job[p].arg
           row == IF kind = "delete" THEN Erased(calls[c])
                  ELSE IF kind = "accept" THEN [calls[c] EXCEPT !.state = "transferred"]
                  ELSE calls[c]
           held == [job[p] EXCEPT !.local = row]
<1>0. At(p, "get_call") /\ UNCHANGED <<callTables, scenario>>
  BY DEF GetCall
<1>1. CASE Abort(p)
  BY <1>0, <1>1, ReadTyped DEF Abort
<1>2. CASE c \in DOMAIN calls /\ Continue(p, held)
  <2>1. /\ job[p] \in JobRow /\ c \in Calls
        /\ \/ kind = "turn" /\ Tail(todo[p]) = <<"turn", "save_call">>
           \/ kind = "accept" /\ Tail(todo[p]) = <<"save_call">>
           \/ kind = "delete" /\ Tail(todo[p]) = <<"save_call", "get_package", "save_package">>
    BY <1>0, AtStep, StepLabels DEF HeldTyped
  <2>2. calls[c] \in CallRow /\ calls[c].package \in DOMAIN packages \cup {NoPackage}
    BY <1>2 DEF TypeInv, RowsTyped
  <2>3. row \in CallRow /\ row.package = calls[c].package
    <3>1. "transferred" \in CallState /\ "erased" \in Transcript
      BY DEF CallState, CallTransitions, Transcript
    <3> QED
      BY <2>2, <3>1 DEF CallRow, Erased
  <2> HIDE DEF row
  <2>4. held \in JobRow /\ held.arg = kind /\ held.call = c /\ held.local = row
    BY <2>1, <2>3 DEF JobRow
  <2> HIDE DEF held
  <2>5. HeldTyped(held, Tail(todo[p]), DOMAIN packages)
    BY <2>1, <2>2, <2>3, <2>4
       DEF HeldTyped, StepsLeft, HasLocal, Fetching, Storing, Accepting, InTurn, Deleting
  <2> QED
    BY <1>0, <1>2, <2>5, ReadTyped DEF Continue
<1> QED
  BY <1>1, <1>2 DEF GetCall

(* The rows a save leaves. *)
LEMMA SavedRows ==
    ASSUME RowsTyped, NEW call \in CallRow, calls' = SavedCalls(call), packages' = packages,
           call.package \in DOMAIN packages \cup {NoPackage}
    PROVE  RowsTyped'
<1>1. Persisted(call) \in CallRow /\ Persisted(call).package = call.package
  BY DEF Persisted, CallRow
<1>2. call.id \in Calls
  BY DEF CallRow
<1>3. /\ DOMAIN calls' = DOMAIN calls \cup {call.id}
      /\ calls'[call.id] = Persisted(call)
      /\ \A c \in DOMAIN calls : c # call.id => calls'[c] = calls[c]
  BY DEF SavedCalls
<1> QED
  BY <1>1, <1>2, <1>3 DEF RowsTyped

LEMMA SaveCallTyped ==
    ASSUME TypeInv, NEW p \in Servers, SaveCall(p)
    PROVE  TypeInv'
<1> DEFINE call == job[p].local
<1>1. /\ At(p, "save_call") /\ calls' = SavedCalls(call)
      /\ packages' = packages /\ scenario' = scenario
  BY DEF SaveCall
<1>2. /\ job[p] \in JobRow /\ HeldTyped(job[p], todo[p], DOMAIN packages) /\ HasLocal(job[p].arg, todo[p])
      /\ todo[p] \notin Storing
      /\ \/ job[p].arg = "simulate" /\ Tail(todo[p]) = <<"turn", "save_call">>
         \/ job[p].arg \in {"simulate", "turn", "accept"} /\ Tail(todo[p]) = << >>
         \/ job[p].arg = "delete" /\ Tail(todo[p]) = <<"get_package", "save_package">>
  <2>1. /\ job[p] \in JobRow /\ HeldTyped(job[p], todo[p], DOMAIN packages)
        /\ \/ job[p].arg = "simulate" /\ todo[p] = <<"save_call", "turn", "save_call">>
                /\ Tail(todo[p]) = <<"turn", "save_call">>
           \/ job[p].arg \in {"simulate", "turn", "accept"} /\ todo[p] = <<"save_call">>
                /\ Tail(todo[p]) = << >>
           \/ job[p].arg = "delete" /\ todo[p] = <<"save_call", "get_package", "save_package">>
                /\ Tail(todo[p]) = <<"get_package", "save_package">>
    BY <1>1, AtStep, StepLabels
  <2>2. HasLocal(job[p].arg, todo[p])
    BY <2>1 DEF HasLocal, InTurn
  <2>3. todo[p] \notin Storing
    BY <2>1 DEF Storing
  <2> QED
    BY <2>1, <2>2, <2>3
<1>3. call \in CallRow /\ call.package \in DOMAIN packages \cup {NoPackage}
  BY <1>2 DEF HeldTyped
<1>4. RowsTyped' /\ SoundRow(scenario)' /\ DOMAIN packages \subseteq DOMAIN packages'
  BY <1>1, <1>3, SavedRows DEF TypeInv
<1>5. CASE job[p].arg # "delete"
  <2>1. Move(p, Tail(todo[p]), job[p])
    BY <1>5 DEF SaveCall, Continue
  <2>2. Tail(todo[p]) # << >> => HeldTyped(job[p], Tail(todo[p]), DOMAIN packages)
    BY <1>2, <1>3, <1>5 DEF HeldTyped, StepsLeft, HasLocal, Fetching, Storing, InTurn
  <2> QED
    BY <1>1, <1>4, <2>1, <2>2, HeldStays, StepTyped
<1>6. CASE job[p].arg = "delete" /\ call.package = NoPackage
  BY <1>1, <1>4, <1>6, StepTyped DEF SaveCall, Abort
<1>7. CASE job[p].arg = "delete" /\ call.package # NoPackage
  <2> DEFINE held == [job[p] EXCEPT !.package = call.package]
  <2>1. Move(p, Tail(todo[p]), held)
    BY <1>7 DEF SaveCall, Continue
  <2>2. call.package \in DOMAIN packages /\ call.package \in 1..MaxPackages
    BY <1>3, <1>7 DEF TypeInv, RowsTyped
  <2>3. /\ held \in JobRow /\ held.arg = "delete" /\ held.call = job[p].call
        /\ held.package = call.package
    BY <1>2, <1>7, <2>2 DEF JobRow
  <2> HIDE DEF held
  <2>4. HeldTyped(held, Tail(todo[p]), DOMAIN packages)
    BY <1>2, <1>7, <2>2, <2>3 DEF HeldTyped, StepsLeft, HasLocal, Fetching, Storing, Deleting
  <2> QED
    BY <1>1, <1>4, <2>1, <2>4, HeldStays, StepTyped
<1> QED
  BY <1>5, <1>6, <1>7

LEMMA GetPackageTyped ==
    ASSUME TypeInv, NEW p \in Servers, GetPackage(p)
    PROVE  TypeInv'
<1> DEFINE package == packages[job[p].package]
           copy == IF job[p].arg = "delete" THEN Erased(package)
                   ELSE [package EXCEPT !.status = "accepted", !.operator = job[p].operator]
           held == [job[p] EXCEPT !.copy = copy]
<1>1. /\ At(p, "get_package") /\ UNCHANGED <<callTables, scenario>>
      /\ Move(p, Tail(todo[p]), held)
  BY DEF GetPackage, Continue
<1>2. /\ job[p] \in JobRow /\ HeldTyped(job[p], todo[p], DOMAIN packages) /\ todo[p] \in Fetching
      /\ \/ job[p].arg = "accept" /\ Tail(todo[p]) = <<"save_package", "get_call", "save_call">>
         \/ job[p].arg = "delete" /\ Tail(todo[p]) = <<"save_package">>
  <2>1. /\ job[p] \in JobRow /\ HeldTyped(job[p], todo[p], DOMAIN packages)
        /\ \/ job[p].arg = "accept" /\ Tail(todo[p]) = <<"save_package", "get_call", "save_call">>
                /\ todo[p] = <<"get_package", "save_package", "get_call", "save_call">>
           \/ job[p].arg = "delete" /\ Tail(todo[p]) = <<"save_package">>
                /\ todo[p] = <<"get_package", "save_package">>
    <3>1. /\ job[p] \in JobRow /\ HeldTyped(job[p], todo[p], DOMAIN packages)
          /\ StepsLeft(job[p].arg, todo[p]) /\ todo[p] # << >> /\ Head(todo[p]) = "get_package"
      BY <1>1, AtStep
    <3> QED
      BY <3>1, StepLabels
  <2> QED
    BY <2>1 DEF Fetching
<1>3. /\ package \in Package /\ job[p].package \in 1..MaxPackages
      /\ job[p].operator \in Operators \cup {NoCall} /\ job[p].call \in Calls
  BY <1>2 DEF HeldTyped, TypeInv, RowsTyped, JobRow
<1>4. copy \in Package
  <2>1. "erased" \in Transcript
    BY DEF Transcript
  <2> QED
    BY <1>3, <2>1 DEF Package, Erased
<1> HIDE DEF copy
<1>5. /\ held \in JobRow /\ held.arg = job[p].arg /\ held.call = job[p].call
      /\ held.package = job[p].package /\ held.copy = copy
  BY <1>2, <1>4 DEF JobRow
<1> HIDE DEF held
<1>6. HeldTyped(held, Tail(todo[p]), DOMAIN packages)
  BY <1>2, <1>3, <1>4, <1>5
     DEF HeldTyped, StepsLeft, HasLocal, Fetching, Storing, Accepting, Deleting
<1> QED
  BY <1>1, <1>6, ReadTyped

LEMMA SavePackageTyped ==
    ASSUME TypeInv, NEW p \in Servers, SavePackage(p)
    PROVE  TypeInv'
<1> DEFINE k == job[p].package
<1>1. /\ At(p, "save_package") /\ calls' = calls /\ scenario' = scenario
      /\ Move(p, Tail(todo[p]), job[p])
      /\ packages' = [i \in DOMAIN packages \cup {k} |-> IF i = k THEN job[p].copy ELSE packages[i]]
  BY DEF SavePackage, Continue
<1>2. /\ job[p] \in JobRow /\ HeldTyped(job[p], todo[p], DOMAIN packages) /\ todo[p] \in Storing
      /\ \/ /\ job[p].arg \in {"simulate", "turn"} /\ HasLocal(job[p].arg, todo[p])
            /\ Tail(todo[p]) \in {<<"turn", "save_call">>, <<"save_call">>}
         \/ job[p].arg = "accept" /\ Tail(todo[p]) = <<"get_call", "save_call">>
         \/ job[p].arg = "delete" /\ Tail(todo[p]) = << >>
  <2>1. /\ job[p] \in JobRow /\ HeldTyped(job[p], todo[p], DOMAIN packages)
        /\ \/ /\ job[p].arg \in {"simulate", "turn"}
              /\ todo[p] = <<"save_package", "turn", "save_call">>
              /\ Tail(todo[p]) = <<"turn", "save_call">>
           \/ /\ job[p].arg \in {"simulate", "turn"} /\ todo[p] = <<"save_package", "save_call">>
              /\ Tail(todo[p]) = <<"save_call">>
           \/ /\ job[p].arg = "accept" /\ todo[p] = <<"save_package", "get_call", "save_call">>
              /\ Tail(todo[p]) = <<"get_call", "save_call">>
           \/ job[p].arg = "delete" /\ todo[p] = <<"save_package">> /\ Tail(todo[p]) = << >>
    BY <1>1, AtStep, StepLabels
  <2> QED
    BY <2>1 DEF HasLocal, InTurn, Storing
<1>3. k \in 1..MaxPackages /\ job[p].copy \in Package
  BY <1>2 DEF HeldTyped
<1>4. /\ DOMAIN packages' = DOMAIN packages \cup {k} /\ packages'[k] = job[p].copy
      /\ \A i \in DOMAIN packages : i # k => packages'[i] = packages[i]
  BY <1>1
<1>5. RowsTyped' /\ SoundRow(scenario)' /\ DOMAIN packages \subseteq DOMAIN packages'
  BY <1>1, <1>3, <1>4 DEF TypeInv, RowsTyped
<1>6. Tail(todo[p]) # << >> => HeldTyped(job[p], Tail(todo[p]), DOMAIN packages')
  <2>1. HasLocal(job[p].arg, todo[p]) =>
          job[p].local \in CallRow /\ job[p].local.package \in DOMAIN packages' \cup {NoPackage}
    BY <1>2, <1>4 DEF HeldTyped
  <2>2. job[p].arg \in {"simulate", "turn", "accept"} => job[p].call \in Calls
    BY <1>2 DEF HeldTyped
  <2>3. Tail(todo[p]) # << >> =>
          /\ StepsLeft(job[p].arg, Tail(todo[p]))
          /\ HasLocal(job[p].arg, Tail(todo[p])) => HasLocal(job[p].arg, todo[p])
          /\ Tail(todo[p]) \notin Fetching \cup Storing \cup {<<"save_scenario">>}
    BY <1>2 DEF StepsLeft, HasLocal, Fetching, Storing, Accepting, InTurn
  <2>4. job[p] \in JobRow /\ (Tail(todo[p]) # << >> => job[p].arg \in {"simulate", "turn", "accept"})
    BY <1>2
  <2> QED
    BY <2>1, <2>2, <2>3, <2>4 DEF HeldTyped
<1> QED
  BY <1>1, <1>5, <1>6, StepTyped

(* Every row a request on the scenario may write. *)
LEMMA GetScenarioRow ==
    ASSUME NEW before, SoundRow(before),
           NEW row \in Rewritten(before),
           ~(Len(row.versions) > MaxVersions)
    PROVE  SoundRow(row) /\ Extends(before, row)
<1>1. CASE row = Created(before)
  BY <1>1, CreatedIsSound
<1>2. ASSUME NEW v \in 1..MaxVersions, NEW s \in Scripts, row = Upserted(before, v, s)
      PROVE  SoundRow(row) /\ Extends(before, row)
  BY <1>2, UpsertedIsSound
<1>3. ASSUME NEW v \in 1..MaxVersions, NEW target \in ActionTargets, row = Acted(before, v, target)
      PROVE  SoundRow(row) /\ Extends(before, row)
  BY <1>3, ActedIsSound
<1>4. ASSUME NEW v \in 1..MaxVersions, row = RolledBack(before, v)
      PROVE  SoundRow(row) /\ Extends(before, row)
  BY <1>4, RolledBackIsSound
<1> QED
  BY <1>1, <1>2, <1>3, <1>4 DEF Rewritten

LEMMA GetScenarioTyped ==
    ASSUME TypeInv, NEW p \in Servers, GetScenario(p)
    PROVE  TypeInv'
<1>1. /\ At(p, "get_scenario") /\ UNCHANGED <<callTables, scenario>>
      /\ job[p] \in JobRow /\ job[p].arg = "scenario" /\ Tail(todo[p]) = <<"save_scenario">>
  BY AtStep, StepLabels DEF GetScenario
<1>2. CASE Abort(p)
  BY <1>1, <1>2, ReadTyped DEF Abort
<1>3. ASSUME NEW row, SoundRow(row), Continue(p, [job[p] EXCEPT !.row = row])
      PROVE  TypeInv'
  <2> DEFINE held == [job[p] EXCEPT !.row = row]
  <2>1. held \in JobRow /\ held.arg = "scenario" /\ held.row = row
    BY <1>1, <1>3 DEF JobRow, SoundRow
  <2>2. Move(p, Tail(todo[p]), held)
    BY <1>3 DEF Continue
  <2> HIDE DEF held
  <2>3. HeldTyped(held, Tail(todo[p]), DOMAIN packages)
    BY <1>1, <1>3, <2>1 DEF HeldTyped, StepsLeft, HasLocal, Fetching, Storing
  <2> QED
    BY <1>1, <2>2, <2>3, ReadTyped
<1>4. SoundRow(scenario)
  BY DEF TypeInv
<1>5. PICK row \in Rewritten(scenario) :
         IF row = scenario \/ Len(row.versions) > MaxVersions THEN Abort(p)
         ELSE Continue(p, [job[p] EXCEPT !.row = row])
  BY DEF GetScenario
<1>6. CASE row = scenario \/ Len(row.versions) > MaxVersions
  BY <1>2, <1>5, <1>6
<1>7. CASE ~(row = scenario \/ Len(row.versions) > MaxVersions)
  <2>1. SoundRow(row)
    BY <1>4, <1>5, <1>7, GetScenarioRow
  <2> QED
    BY <1>3, <1>5, <1>7, <2>1
<1> QED
  BY <1>6, <1>7

LEMMA SaveScenarioTyped ==
    ASSUME TypeInv, NEW p \in Servers, SaveScenario(p)
    PROVE  TypeInv'
<1>1. /\ At(p, "save_scenario") /\ calls' = calls /\ packages' = packages
      /\ scenario' = job[p].row /\ Move(p, Tail(todo[p]), job[p])
  BY DEF SaveScenario, Continue, callTables
<1>2. todo[p] = <<"save_scenario">> /\ Tail(todo[p]) = << >> /\ HeldTyped(job[p], todo[p], DOMAIN packages)
  BY <1>1, AtStep, StepLabels
<1>3. SoundRow(scenario)' /\ RowsTyped' /\ DOMAIN packages \subseteq DOMAIN packages'
  BY <1>1, <1>2 DEF HeldTyped, TypeInv, RowsTyped
<1> QED
  BY <1>1, <1>2, <1>3, StepTyped

-------------------------------------------------------------------------------
(* A turn.  It moves the call along in memory, raises, or hands it off. *)

TurnRow(before, after) ==
    /\ after \in CallRow /\ after.id = before.id /\ after.package = before.package
    /\ after.state = "transferred" => before.state = "transferred"
    /\ after.state = "handoff_pending" =>
         before.state = "handoff_pending" \/ after.package # NoPackage

TurnEnds(p, call) ==
    \/ Abort(p)
    \/ \E row : TurnRow(call, row) /\ (EndTurn(p, row) \/ HandOff(p, row))

LEMMA RowUpdates ==
    ASSUME NEW before, NEW call, TurnRow(before, call)
    PROVE  /\ TurnRow(before, [call EXCEPT !.transcript = "text"])
           /\ TurnRow(before, [call EXCEPT !.low = @ + 1])
           /\ TurnRow(before, [call EXCEPT !.clarified = @ + 1, !.asked = @ + 1])
           /\ TurnRow(before, [call EXCEPT !.answered = TRUE])
           /\ \A parked \in BOOLEAN :
                TurnRow(before, [call EXCEPT !.awaiting = TRUE, !.parked = parked])
           /\ TurnRow(before, [call EXCEPT !.awaiting = FALSE, !.parked = FALSE])
           /\ call.missing > 0 => TurnRow(before, [call EXCEPT !.missing = @ - 1])
           /\ \A target \in {"active", "on_hold", "completed", "abandoned"} :
                TurnRow(before, [call EXCEPT !.state = target])
<1>1. call \in CallRow
  BY DEF TurnRow
<1>2. TurnRow(before, [call EXCEPT !.transcript = "text"])
  BY <1>1 DEF TurnRow, CallRow, Transcript
<1>3. TurnRow(before, [call EXCEPT !.low = @ + 1])
  BY <1>1 DEF TurnRow, CallRow
<1>4. TurnRow(before, [call EXCEPT !.clarified = @ + 1, !.asked = @ + 1])
  <2>1. call.clarified + 1 \in Nat /\ call.asked + 1 \in Nat
    BY <1>1 DEF CallRow
  <2> DEFINE clarified == call.clarified + 1
             asked == call.asked + 1
  <2> HIDE DEF clarified, asked
  <2>2. TurnRow(before, [call EXCEPT !.clarified = clarified, !.asked = asked])
    BY <1>1, <2>1 DEF TurnRow, CallRow, clarified, asked
  <2> QED
    BY <2>2 DEF clarified, asked
<1>5. TurnRow(before, [call EXCEPT !.answered = TRUE])
  BY <1>1 DEF TurnRow, CallRow
<1>6. ASSUME NEW parked \in BOOLEAN
      PROVE  TurnRow(before, [call EXCEPT !.awaiting = TRUE, !.parked = parked])
  BY <1>1 DEF TurnRow, CallRow
<1>7. TurnRow(before, [call EXCEPT !.awaiting = FALSE, !.parked = FALSE])
  BY <1>1 DEF TurnRow, CallRow
<1>8. ASSUME call.missing > 0 PROVE TurnRow(before, [call EXCEPT !.missing = @ - 1])
  <2>1. call.missing - 1 \in Nat
    BY <1>1, <1>8 DEF CallRow
  <2> QED
    BY <1>1, <2>1 DEF TurnRow, CallRow
<1>9. ASSUME NEW target \in {"active", "on_hold", "completed", "abandoned"}
      PROVE  TurnRow(before, [call EXCEPT !.state = target])
  <2>1. target \in CallState /\ target # "transferred" /\ target # "handoff_pending"
    BY DEF CallState, CallTransitions
  <2> QED
    BY <1>1, <2>1 DEF TurnRow, CallRow
<1> QED
  BY <1>2, <1>3, <1>4, <1>5, <1>6, <1>7, <1>8, <1>9

LEMMA AskKnowledgeEnds ==
    ASSUME NEW p, NEW before, NEW call, TurnRow(before, call), AskKnowledge(p, call)
    PROVE  TurnEnds(p, before)
<1>1. TurnRow(before, [call EXCEPT !.answered = TRUE])
  BY RowUpdates
<1>2. EndTurn(p, [call EXCEPT !.answered = TRUE]) \/ HandOff(p, call)
  BY DEF AskKnowledge
<1> QED
  BY <1>1, <1>2 DEF TurnEnds

LEMMA CollectSlotsEnds ==
    ASSUME NEW p, NEW before, NEW call, NEW event, TurnRow(before, call), call.missing > 0,
           CollectSlots(p, call, event)
    PROVE  TurnEnds(p, before)
<1> DEFINE given == event.type = "dtmf" \/ event.says # "nothing"
           filled == IF given THEN [call EXCEPT !.missing = @ - 1] ELSE call
           parked == call.parked \/ event.says # "nothing"
           opened == [call EXCEPT !.awaiting = TRUE, !.parked = parked]
           asked == [filled EXCEPT !.awaiting = FALSE, !.parked = FALSE]
<1>1. TurnRow(before, filled)
  BY RowUpdates
<1>2. TurnRow(before, asked)
  BY <1>1, RowUpdates
<1>3. TurnRow(before, opened)
  <2>1. parked \in BOOLEAN
    OBVIOUS
  <2> HIDE DEF parked
  <2> QED
    BY <2>1, RowUpdates
<1>4. EndTurn(p, opened) \/ EndTurn(p, filled) \/ EndTurn(p, asked) \/ AskKnowledge(p, asked)
  BY DEF CollectSlots
<1> HIDE DEF filled, opened, asked
<1> QED
  BY <1>1, <1>2, <1>3, <1>4, AskKnowledgeEnds DEF TurnEnds

LEMMA SpeakEnds ==
    ASSUME NEW p, NEW before, NEW call, NEW event, TurnRow(before, call), Speak(p, call, event)
    PROVE  TurnEnds(p, before)
<1> DEFINE unheard == [call EXCEPT !.low = @ + 1]
           again == [unheard EXCEPT !.clarified = @ + 1, !.asked = @ + 1]
<1>1. TurnRow(before, unheard)
  BY RowUpdates
<1>2. TurnRow(before, again)
  BY <1>1, RowUpdates
<1>3. \/ HandOff(p, unheard) \/ EndTurn(p, again) \/ HandOff(p, call) \/ EndTurn(p, call)
      \/ call.missing > 0 /\ CollectSlots(p, call, event)
      \/ AskKnowledge(p, call)
  BY DEF Speak, AskAgain
<1> HIDE DEF unheard, again
<1> QED
  BY <1>1, <1>2, <1>3, CollectSlotsEnds, AskKnowledgeEnds DEF TurnEnds

LEMMA TurnEndsAs ==
    ASSUME NEW p, job[p].local \in CallRow, Turn(p)
    PROVE  TurnEnds(p, job[p].local)
<1> DEFINE call == job[p].local
           event == Utterance(p)
           heard == [call EXCEPT !.transcript = "text"]
<1>1. TurnRow(call, call)
  BY DEF TurnRow
<1>2. TurnRow(call, heard)
  BY <1>1, RowUpdates
<1>3. ASSUME NEW target \in {"active", "on_hold", "completed", "abandoned"},
             Transition(p, call, target)
      PROVE  TurnEnds(p, call)
  <2>1. TurnRow(call, [call EXCEPT !.state = target])
    BY <1>1, RowUpdates
  <2>2. EndTurn(p, [call EXCEPT !.state = target]) \/ Abort(p)
    BY <1>3 DEF Transition
  <2> QED
    BY <2>1, <2>2 DEF TurnEnds
<1>4. CASE HangUp(p, call)
  BY <1>3, <1>4 DEF HangUp
<1>5. \/ EndTurn(p, call) \/ HandOff(p, call) \/ HangUp(p, call)
      \/ Transition(p, call, "on_hold") \/ Transition(p, call, "active")
      \/ Speak(p, heard, event)
  BY DEF Turn
<1> HIDE DEF heard, event
<1>6. CASE EndTurn(p, call) \/ HandOff(p, call)
  BY <1>1, <1>6 DEF TurnEnds
<1>7. CASE Transition(p, call, "on_hold") \/ Transition(p, call, "active")
  BY <1>3, <1>7
<1>8. CASE Speak(p, heard, event)
  BY <1>2, <1>8, SpeakEnds
<1> QED
  BY <1>4, <1>5, <1>6, <1>7, <1>8

(* The package id a hand-off takes is not in use. *)
LEMMA FreshId ==
    ASSUME Fresh # {}
    PROVE  /\ NewId \in 1..MaxPackages /\ NewId \notin DOMAIN packages
           /\ \A q \in Servers : job[q].package # NewId
<1>1. NewId \in Fresh
  BY DEF NewId
<1> QED
  BY <1>1 DEF Fresh

LEMMA PendingRow ==
    ASSUME NEW call \in CallRow
    PROVE  /\ Pending(call) \in CallRow /\ Pending(call).id = call.id
           /\ Pending(call).package = call.package
           /\ Pending(call).state = "transferred" => call.state = "transferred"
<1>1. "handoff_pending" \in CallState
  BY DEF CallState, CallTransitions
<1> QED
  BY <1>1 DEF Pending, CallRow

(* How a turn leaves the service: the steps left and what it holds. *)
TurnLeft == {<<"turn", "save_call">>, <<"save_call">>}

Dispatched(p, call, row, status) ==
    [job[p] EXCEPT !.local = row, !.script = Tail(@), !.package = NewId,
                   !.copy = [call |-> call.id, status |-> status, operator |-> NoCall,
                             transcript |-> call.transcript]]
Turned(p, row) == [job[p] EXCEPT !.local = row, !.script = Tail(@)]

LEMMA TurnMoves ==
    ASSUME TypeInv, NEW p \in Servers, Turn(p)
    PROVE  \/ Abort(p)
           \/ \E row : /\ TurnRow(job[p].local, row)
                       /\ \E labels \in TurnLeft : Move(p, labels, Turned(p, row))
           \/ \E call \in CallRow, row \in CallRow, status \in {"queued", "callback_requested"} :
                /\ Fresh # {}
                /\ call.id = job[p].local.id /\ row.id = call.id /\ row.package = NewId
                /\ row.state = "transferred" => job[p].local.state = "transferred"
                /\ \E labels \in {<<"save_package", "turn", "save_call">>,
                                  <<"save_package", "save_call">>} :
                     Move(p, labels, Dispatched(p, call, row, status))
<1>1. /\ At(p, "turn") /\ UNCHANGED <<callTables, scenario>>
      /\ todo[p] = <<"turn", "save_call">> /\ Tail(todo[p]) = <<"save_call">>
      /\ HeldTyped(job[p], todo[p], DOMAIN packages) /\ HasLocal(job[p].arg, todo[p])
  <2>1. /\ At(p, "turn") /\ UNCHANGED <<callTables, scenario>>
    BY DEF Turn
  <2>2. /\ todo[p] = <<"turn", "save_call">> /\ Tail(todo[p]) = <<"save_call">>
        /\ HeldTyped(job[p], todo[p], DOMAIN packages) /\ job[p].arg \in {"simulate", "turn"}
    BY <2>1, AtStep, StepLabels
  <2>3. HasLocal(job[p].arg, todo[p])
    BY <2>2 DEF HasLocal, InTurn
  <2> QED
    BY <2>1, <2>2, <2>3
<1>2. job[p].local \in CallRow
  BY <1>1 DEF HeldTyped
<1>3. ASSUME NEW row PROVE Rest(p, row) \in TurnLeft
  BY <1>1 DEF Rest, TurnLeft
<1>4. ASSUME NEW row, EndTurn(p, row)
      PROVE  \E labels \in TurnLeft : Move(p, labels, Turned(p, row))
  BY <1>3, <1>4 DEF EndTurn, Turned
<1>5. CASE \E row : TurnRow(job[p].local, row) /\ EndTurn(p, row)
  BY <1>4, <1>5
<1>6. CASE \E row : TurnRow(job[p].local, row) /\ HandOff(p, row)
  <2>1. PICK call : TurnRow(job[p].local, call) /\ HandOff(p, call)
    BY <1>6
  <2>2. call \in CallRow
    BY <2>1 DEF TurnRow
  <2>3. CASE call.package # NoPackage /\ EndTurn(p, Pending(call))
    <3>1. TurnRow(job[p].local, Pending(call))
      BY <2>1, <2>2, <2>3, PendingRow DEF TurnRow
    <3> QED
      BY <1>4, <2>3, <3>1
  <2>4. CASE call.package = NoPackage
    <3> DEFINE row == Pending([call EXCEPT !.package = NewId])
    <3>1. PICK status \in {"queued", "callback_requested"} :
             /\ Fresh # {}
             /\ Move(p, <<"save_package">> \o Rest(p, row), Dispatched(p, call, row, status))
      BY <2>1, <2>4 DEF HandOff, Dispatched
    <3>2. /\ [call EXCEPT !.package = NewId] \in CallRow
          /\ [call EXCEPT !.package = NewId].id = call.id
          /\ [call EXCEPT !.package = NewId].package = NewId
          /\ [call EXCEPT !.package = NewId].state = call.state
      BY <2>2, <3>1, FreshId DEF CallRow
    <3>3. /\ row \in CallRow /\ row.id = call.id /\ row.package = NewId
          /\ row.state = "transferred" => call.state = "transferred"
      BY <3>2, PendingRow
    <3>4. call.id = job[p].local.id /\ (call.state = "transferred" => job[p].local.state = "transferred")
      BY <2>1 DEF TurnRow
    <3>5. <<"save_package">> \o Rest(p, row) \in
            {<<"save_package", "turn", "save_call">>, <<"save_package", "save_call">>}
      BY <1>3, PutFirst DEF TurnLeft
    <3> HIDE DEF row
    <3> QED
      BY <2>2, <3>1, <3>3, <3>4, <3>5
  <2> QED
    BY <2>1, <2>3, <2>4 DEF HandOff
<1> QED
  BY <1>2, <1>5, <1>6, TurnEndsAs DEF TurnEnds

LEMMA TurnTyped ==
    ASSUME TypeInv, NEW p \in Servers, Turn(p)
    PROVE  TypeInv'
<1>1. /\ job[p] \in JobRow /\ HeldTyped(job[p], todo[p], DOMAIN packages)
      /\ job[p].arg \in {"simulate", "turn"} /\ todo[p] = <<"turn", "save_call">>
      /\ UNCHANGED <<callTables, scenario>> /\ job[p].script # << >>
  BY AtStep, StepLabels DEF Turn
<1>2. /\ job[p].local \in CallRow /\ job[p].call \in Calls
      /\ job[p].local.package \in DOMAIN packages \cup {NoPackage}
  BY <1>1 DEF HeldTyped, HasLocal, InTurn, Storing
<1>3. Tail(job[p].script) \in Seq(Event)
  BY <1>1 DEF JobRow
<1>4. CASE Abort(p)
  BY <1>1, <1>4, ReadTyped DEF Abort
<1>5. ASSUME NEW row, TurnRow(job[p].local, row), NEW labels \in TurnLeft,
             Move(p, labels, Turned(p, row))
      PROVE  TypeInv'
  <2> DEFINE held == Turned(p, row)
  <2>1. row \in CallRow /\ row.package = job[p].local.package
    BY <1>5 DEF TurnRow
  <2>2. /\ held \in JobRow /\ held.arg = job[p].arg /\ held.call = job[p].call
        /\ held.local = row
    BY <1>1, <1>3, <2>1 DEF Turned, JobRow
  <2> HIDE DEF held
  <2>3. HeldTyped(held, labels, DOMAIN packages)
    BY <1>1, <1>2, <1>5, <2>1, <2>2
       DEF HeldTyped, TurnLeft, StepsLeft, HasLocal, Fetching, Storing, InTurn
  <2> QED
    BY <1>1, <1>5, <2>3, ReadTyped DEF held
<1>6. ASSUME NEW call \in CallRow, NEW row \in CallRow,
             NEW status \in {"queued", "callback_requested"}, Fresh # {}, row.package = NewId,
             NEW labels \in {<<"save_package", "turn", "save_call">>, <<"save_package", "save_call">>},
             Move(p, labels, Dispatched(p, call, row, status))
      PROVE  TypeInv'
  <2> DEFINE copy == [call |-> call.id, status |-> status, operator |-> NoCall,
                      transcript |-> call.transcript]
             held == Dispatched(p, call, row, status)
  <2>1. copy \in Package /\ NewId \in 1..MaxPackages
    BY <1>6, FreshId DEF Package, CallRow
  <2>2. held = [job[p] EXCEPT !.local = row, !.script = Tail(@), !.package = NewId, !.copy = copy]
    BY DEF Dispatched
  <2> HIDE DEF copy
  <2>3. /\ held \in JobRow /\ held.arg = job[p].arg /\ held.call = job[p].call
        /\ held.local = row /\ held.package = NewId /\ held.copy = copy
    BY <1>1, <1>3, <2>1, <2>2 DEF JobRow
  <2> HIDE DEF held
  <2>4. HeldTyped(held, labels, DOMAIN packages)
    BY <1>1, <1>2, <1>6, <2>1, <2>3
       DEF HeldTyped, StepsLeft, HasLocal, Fetching, Storing, InTurn
  <2> QED
    BY <1>1, <1>6, <2>4, ReadTyped DEF held
<1> QED
  BY <1>4, <1>5, <1>6, TurnMoves

LEMMA InitTyped == Init => TypeInv
<1> SUFFICES ASSUME Init PROVE TypeInv
  OBVIOUS
<1>1. /\ scenario = NoScenario /\ calls = << >> /\ packages = << >> /\ requests = 0
      /\ todo = [p \in Servers |-> << >>] /\ job = [p \in Servers |-> Idle]
  BY DEF Init, CallsInit
<1>2. SoundRow(scenario)
  <2>1. /\ scenario.versions = << >> /\ scenario.active = NoVersion /\ scenario \in AnyRow
    BY <1>1 DEF NoScenario, AnyRow
  <2>2. Len(scenario.versions) = 0 /\ DOMAIN scenario.versions = {}
    BY <2>1
  <2> QED
    BY <2>1, <2>2, ScriptsAssumption DEF SoundRow
<1>3. RowsTyped
  BY <1>1 DEF RowsTyped
<1>4. requests \in 0..MaxRequests
  BY <1>1, CallsAssumption
<1> QED
  BY <1>1, <1>2, <1>3, <1>4, IdleTyped DEF TypeInv, ServerTyped

LEMMA NextTyped ==
    ASSUME TypeInv, [Next]_vars
    PROVE  TypeInv'
<1>1. CASE UNCHANGED vars
  BY <1>1 DEF vars, callTables, phoneControl, TypeInv, RowsTyped, ServerTyped
<1>2. CASE Ask
  BY <1>2, AskTyped
<1>3. ASSUME NEW p \in Servers, Serve(p) PROVE TypeInv'
  <2>1. CASE CallStep(p)
    BY <2>1, AnswerTyped, GetCallTyped, SaveCallTyped, GetPackageTyped, SavePackageTyped, TurnTyped
       DEF CallStep
  <2> QED
    BY <1>3, <2>1, GetScenarioTyped, SaveScenarioTyped DEF Serve
<1>4. ASSUME NEW p \in Servers, Die(p) PROVE TypeInv'
  BY <1>4, ReadTyped DEF Die
<1> QED
  BY <1>1, <1>2, <1>3, <1>4 DEF Next

LEMMA Typed == Spec => []TypeInv
BY InitTyped, NextTyped, PTL DEF Spec

(* Every row, and what every service holds of one, has its type: a call    *)
(* keeps its fields through every turn, save, hand-off and deletion, and a *)
(* scenario never has more versions than the bound.                        *)
THEOREM TypeCorrect == Spec => []TypeOK
<1>1. TypeInv => TypeOK
  <2> SUFFICES ASSUME TypeInv PROVE TypeOK
    OBVIOUS
  <2>1. ScenarioTypeOK
    BY DEF TypeInv, SoundRow, AnyRow, ScenarioTypeOK
  <2>2. \A p \in Servers : job[p].local # NoCall => job[p].local \in CallRow
    <3>1. \A p \in Servers : job[p] \in JobRow
      BY DEF TypeInv, ServerTyped, HeldTyped
    <3> QED
      BY <3>1 DEF JobRow
  <2> QED
    BY <2>1, <2>2 DEF TypeInv, RowsTyped, TypeOK, CallsTypeOK
<1> QED
  BY <1>1, Typed, PTL

(* The active version of a scenario is a published and approved one, even  *)
(* when services edit the scenario at the same time and overwrite each     *)
(* other: each row any of them writes has the property by itself           *)
(* (scenarios.py writes the whole scenario).                               *)
THEOREM ActiveWasPublished == Spec => []ActiveIsPublished
<1>1. TypeInv => ActiveIsPublished
  BY DEF TypeInv, SoundRow, ApprovedIfLive, ActiveIsPublished
<1> QED
  BY <1>1, Typed, PTL

-------------------------------------------------------------------------------
(* The scenario, edited by one request at a time. *)

LEMMA EditStep ==
    ASSUME TypeInv, EditInv, ~Overlapping, [Next]_vars
    PROVE  EditInv' /\ Extends(scenario, scenario')
<1>0. << >> # <<"save_scenario">>
  OBVIOUS
<1>1. Extends(scenario, scenario)
  BY DEF Extends
<1>2. ASSUME NEW p \in Servers, NEW labels, NEW locals, Move(p, labels, locals),
             locals.arg = job[p].arg, scenario' = scenario,
             labels = <<"save_scenario">> => Extends(scenario, locals.row)
      PROVE  EditInv'
  <2>1. /\ todo'[p] = labels
        /\ labels = << >> => job'[p] = Idle
        /\ labels # << >> => job'[p] = locals
        /\ \A q \in Servers : q # p => todo'[q] = todo[q] /\ job'[q] = job[q]
    BY <1>2, MoveChanges DEF TypeInv
  <2>2. job'[p].arg \in {job[p].arg, "idle"}
    BY <1>2, <2>1, IdleRow
  <2>3. EditOK(p)'
    <3>1. CASE labels = << >>
      BY <1>0, <2>1, <3>1 DEF EditOK
    <3>2. CASE labels # << >>
      BY <1>2, <2>1, <3>2 DEF EditOK
    <3> QED
      BY <3>1, <3>2
  <2> QED
    BY <1>2, <2>1, <2>2, <2>3 DEF EditInv, OneEditor, EditOK
<1>3. ASSUME NEW p \in Servers, NEW labels, NEW locals, Begin(p, locals, labels),
             labels # <<"save_scenario">>,
             locals.arg = "scenario" => FreeScenario
      PROVE  EditInv' /\ scenario' = scenario
  <2>1. /\ todo'[p] = labels /\ job'[p] = locals /\ scenario' = scenario
        /\ \A q \in Servers : q # p => todo'[q] = todo[q] /\ job'[q] = job[q]
    BY <1>3, BeginChanges DEF TypeInv
  <2> QED
    BY <1>3, <2>1 DEF EditInv, OneEditor, EditOK, FreeScenario
<1>4. CASE UNCHANGED vars
  BY <1>1, <1>4 DEF vars, callTables, phoneControl, EditInv, OneEditor, EditOK
<1>5. CASE Ask
  <2>1. ASSUME NEW p \in Servers, NEW c, NEW script, SimulateCall(p, c, script)
        PROVE  EditInv' /\ scenario' = scenario
    <3>1. [Idle EXCEPT !.arg = "simulate", !.call = c, !.script = script].arg # "scenario"
      BY IdleRow DEF JobRow
    <3> QED
      BY <1>3, <2>1, <3>1 DEF SimulateCall
  <2>2. ASSUME NEW p \in Servers, NEW c, NEW event, SubmitTurn(p, c, event)
        PROVE  EditInv' /\ scenario' = scenario
    <3>1. [Idle EXCEPT !.arg = "turn", !.call = c, !.script = <<event>>].arg # "scenario"
      BY IdleRow DEF JobRow
    <3> QED
      BY <1>3, <2>2, <3>1 DEF SubmitTurn
  <2>3. ASSUME NEW p \in Servers, NEW k, NEW operator, AcceptHandoff(p, k, operator)
        PROVE  EditInv' /\ scenario' = scenario
    <3>1. [Idle EXCEPT !.arg = "accept", !.call = packages[k].call, !.package = k,
                       !.operator = operator].arg # "scenario"
      BY IdleRow DEF JobRow
    <3> QED
      BY <1>3, <2>3, <3>1 DEF AcceptHandoff
  <2>4. ASSUME NEW p \in Servers, NEW c, DeleteCallRequest(p, c)
        PROVE  EditInv' /\ scenario' = scenario
    <3>1. [Idle EXCEPT !.arg = "delete", !.call = c].arg # "scenario"
      BY IdleRow DEF JobRow
    <3> QED
      BY <1>3, <2>4, <3>1 DEF DeleteCallRequest
  <2>5. ASSUME NEW p \in Servers, EditScenario(p)
        PROVE  EditInv' /\ scenario' = scenario
    BY <1>3, <2>5 DEF EditScenario
  <2> QED
    BY <1>1, <1>5, <2>1, <2>2, <2>3, <2>4, <2>5 DEF Ask, Caller
<1>6. ASSUME NEW p \in Servers, CallStep(p)
      PROVE  EditInv' /\ scenario' = scenario
  <2>0. job[p] \in JobRow /\ scenario' = scenario
    BY <1>6 DEF TypeInv, ServerTyped, HeldTyped, CallStep, Answer, GetCall, SaveCall, GetPackage,
                SavePackage, Turn
  <2>1. job[p].arg # "scenario" /\ (todo[p] # << >> => Tail(todo[p]) # <<"save_scenario">>)
    BY <1>6, AtStep, StepLabels DEF CallStep, Answer, GetCall, SaveCall, GetPackage, SavePackage, Turn
  <2>2. \A labels, locals : /\ Move(p, labels, locals) /\ locals.arg = job[p].arg
                            /\ labels # <<"save_scenario">>
                            => EditInv'
    BY <1>2, <2>0
  <2>3. CASE Abort(p)
    BY <1>0, <1>2, <2>0, <2>3 DEF Abort
  <2>4. ASSUME NEW locals, Continue(p, locals), locals.arg = job[p].arg, todo[p] # << >>
        PROVE  EditInv'
    BY <2>1, <2>2, <2>4 DEF Continue
  <2>5. /\ \A local : [job[p] EXCEPT !.local = local].arg = job[p].arg
        /\ \A copy : [job[p] EXCEPT !.copy = copy].arg = job[p].arg
        /\ \A package : [job[p] EXCEPT !.package = package].arg = job[p].arg
        /\ \A row : Turned(p, row).arg = job[p].arg
        /\ \A call, row, status : Dispatched(p, call, row, status).arg = job[p].arg
    BY <2>0 DEF JobRow, Turned, Dispatched
  <2>6. CASE Answer(p)
    BY <2>4, <2>5, <2>6 DEF Answer, At
  <2>7. CASE GetCall(p)
    BY <2>3, <2>4, <2>5, <2>7 DEF GetCall, At
  <2>8. CASE SaveCall(p)
    BY <2>3, <2>4, <2>5, <2>8 DEF SaveCall, At
  <2>9. CASE GetPackage(p)
    BY <2>4, <2>5, <2>9 DEF GetPackage, At
  <2>10. CASE SavePackage(p)
    BY <2>4, <2>10 DEF SavePackage, At
  <2>11. CASE Turn(p)
    <3>1. \A labels \in TurnLeft \cup {<<"save_package", "turn", "save_call">>,
                                       <<"save_package", "save_call">>} :
            labels # <<"save_scenario">>
      BY DEF TurnLeft
    <3>2. ASSUME NEW row, NEW labels \in TurnLeft, Move(p, labels, Turned(p, row))
          PROVE  EditInv'
      BY <2>2, <2>5, <3>1, <3>2
    <3>3. ASSUME NEW call, NEW row, NEW status,
                 NEW labels \in {<<"save_package", "turn", "save_call">>,
                                 <<"save_package", "save_call">>},
                 Move(p, labels, Dispatched(p, call, row, status))
          PROVE  EditInv'
      BY <2>2, <2>5, <3>1, <3>3
    <3> QED
      <4>1. \/ Abort(p)
            \/ \E row : \E labels \in TurnLeft : Move(p, labels, Turned(p, row))
            \/ \E call, row, status :
                 \E labels \in {<<"save_package", "turn", "save_call">>,
                               <<"save_package", "save_call">>} :
                   Move(p, labels, Dispatched(p, call, row, status))
        BY <2>11, TurnMoves
      <4> QED
        BY <2>0, <2>3, <3>2, <3>3, <4>1
  <2> QED
    BY <1>6, <2>0, <2>6, <2>7, <2>8, <2>9, <2>10, <2>11 DEF CallStep
<1>7. ASSUME NEW p \in Servers, GetScenario(p)
      PROVE  EditInv' /\ scenario' = scenario
  <2>1. At(p, "get_scenario") /\ scenario' = scenario /\ job[p] \in JobRow
    BY <1>7, AtStep DEF GetScenario
  <2>2. CASE Abort(p)
    BY <1>2, <2>1, <2>2 DEF Abort
  <2>3. ASSUME NEW row, Extends(scenario, row), Continue(p, [job[p] EXCEPT !.row = row])
        PROVE  EditInv'
    <3>1. /\ [job[p] EXCEPT !.row = row].arg = job[p].arg
          /\ [job[p] EXCEPT !.row = row].row = row
      BY <2>1 DEF JobRow
    <3> QED
      BY <1>2, <2>1, <2>3, <3>1 DEF Continue
  <2>4. PICK row \in Rewritten(scenario) :
          IF row = scenario \/ Len(row.versions) > MaxVersions THEN Abort(p)
          ELSE Continue(p, [job[p] EXCEPT !.row = row])
    BY <1>7 DEF GetScenario
  <2> QED
    BY <2>1, <2>2, <2>3, <2>4, GetScenarioRow DEF TypeInv
<1>8. ASSUME NEW p \in Servers, SaveScenario(p)
      PROVE  EditInv' /\ Extends(scenario, scenario')
  <2>1. /\ todo[p] = <<"save_scenario">> /\ Tail(todo[p]) = << >> /\ job[p].arg = "scenario"
        /\ scenario' = job[p].row /\ Move(p, << >>, job[p])
    <3>1. /\ At(p, "save_scenario") /\ scenario' = job[p].row
          /\ Move(p, Tail(todo[p]), job[p])
      BY <1>8 DEF SaveScenario, Continue
    <3>2. /\ StepsLeft(job[p].arg, todo[p]) /\ todo[p] # << >>
          /\ Head(todo[p]) = "save_scenario"
      BY <3>1, AtStep
    <3> QED
      BY <3>1, <3>2, StepLabels
  <2>2. /\ todo'[p] = << >> /\ job'[p] = Idle
        /\ \A q \in Servers : q # p => todo'[q] = todo[q] /\ job'[q] = job[q]
    BY <2>1, MoveChanges DEF TypeInv
  <2>3. Extends(scenario, scenario')
    BY <2>1 DEF EditInv, EditOK
  <2>4. ASSUME NEW q \in Servers, q # p PROVE todo[q] # <<"save_scenario">>
    <3>1. job[q].arg # "scenario" /\ StepsLeft(job[q].arg, todo[q])
      BY <2>1, <2>4 DEF EditInv, OneEditor, TypeInv, ServerTyped, HeldTyped
    <3> QED
      BY <3>1 DEF StepsLeft, Simulating, InTurn, Accepting, Deleting
  <2>5. << >> # <<"save_scenario">>
    OBVIOUS
  <2> QED
    BY <2>2, <2>3, <2>4, <2>5, IdleRow DEF EditInv, OneEditor, EditOK
<1>9. ASSUME NEW p \in Servers, Die(p)
      PROVE  EditInv' /\ scenario' = scenario
  BY <1>2, <1>9 DEF Die
<1> QED
  BY <1>1, <1>4, <1>5, <1>6, <1>7, <1>8, <1>9 DEF Next, Serve

(* A published version keeps its payload and is never removed, however     *)
(* many services edit, publish, archive and roll the scenario back one     *)
(* after the other (scenarios.py:4).  With two of them at a time the write *)
(* of the slower one may lose a version the faster one published.          *)
THEOREM PublishedStaysFrozen == ~Overlapping => (Spec => PublishedIsFrozen)
<1> SUFFICES ASSUME ~Overlapping PROVE Spec => PublishedIsFrozen
  OBVIOUS
<1>1. Init => EditInv
  <2>1. << >> # <<"save_scenario">> /\ Idle.arg # "scenario"
    BY IdleRow
  <2> QED
    BY <2>1 DEF Init, CallsInit, EditInv, OneEditor, EditOK
<1>2. TypeInv /\ EditInv /\ [Next]_vars => EditInv' /\ Extends(scenario, scenario')
  BY EditStep
<1>3. Extends(scenario, scenario') =>
        \A v \in DOMAIN scenario.versions :
          Immutable(scenario.versions[v]) =>
            /\ v \in DOMAIN scenario'.versions
            /\ Immutable(scenario'.versions[v])
            /\ scenario'.versions[v].script = scenario.versions[v].script
  BY DEF Extends
<1> QED
  BY <1>1, <1>2, <1>3, Typed, PTL DEF Spec, PublishedIsFrozen

-------------------------------------------------------------------------------
(* The calls, with the requests on one call one at a time.                 *)

(* What a step of p may change: its own call, the packages of that call,   *)
(* and a package under the id it holds.                                    *)
OwnOnly(p) ==
    /\ \A c \in Calls : c # job[p].call =>
         /\ c \in DOMAIN calls' <=> c \in DOMAIN calls
         /\ c \in DOMAIN calls => calls'[c] = calls[c]
         /\ c \in erased' <=> c \in erased
    /\ DOMAIN packages \subseteq DOMAIN packages'
    /\ \A k \in DOMAIN packages : packages[k].call # job[p].call => packages'[k] = packages[k]
    /\ \A k \in DOMAIN packages : packages'[k].call = packages[k].call
    /\ \A k \in DOMAIN packages : packages[k].status = "accepted" => packages'[k].status = "accepted"
    /\ \A k \in DOMAIN packages' \ DOMAIN packages : k = job[p].package
    /\ \/ job'[p].package \in DOMAIN packages \cup {NoPackage, job[p].package}
       \/ \A q \in Servers : q # p => job[q].package # job'[p].package
    /\ \A q \in Servers : q # p => todo'[q] = todo[q] /\ job'[q] = job[q]

LEMMA OthersKeep ==
    ASSUME TypeInv, CallsInv, NEW p \in Servers, NEW q \in Servers, q # p, OwnOnly(p)
    PROVE  CallOK(q)'
<1>1. /\ todo'[q] = todo[q] /\ job'[q] = job[q] /\ CallOK(q)
      /\ HeldTyped(job[q], todo[q], DOMAIN packages)
  BY DEF OwnOnly, CallsInv, TypeInv, ServerTyped
<1> DEFINE c == job[q].call
<1>2. job[q].arg \notin {"idle", "scenario"} => c \in Calls /\ c # job[p].call
  BY <1>1 DEF HeldTyped, CallsInv, Exclusive
<1>3. ASSUME c \in Calls, c # job[p].call
      PROVE  /\ c \in DOMAIN calls' <=> c \in DOMAIN calls
             /\ c \in DOMAIN calls => calls'[c] = calls[c]
             /\ c \in erased' <=> c \in erased
             /\ \A k : Owned(c, k) => Owned(c, k)' /\ packages'[k] = packages[k]
  BY <1>3 DEF OwnOnly, Owned
<1>4. ASSUME job[q].arg \in {"simulate", "turn"}, todo[q] \in InTurn PROVE TurnOK(q)'
  <2>1. TurnOK(q)
    BY <1>1, <1>4 DEF CallOK
  <2>2. todo[q] \in Storing =>
          /\ job[q].package \notin DOMAIN packages'
          /\ \A r \in Servers : r # q => job'[r].package # job[q].package
    <3>1. ASSUME todo[q] \in Storing
          PROVE  /\ job[q].package \notin DOMAIN packages /\ job[q].package # NoPackage
                 /\ \A r \in Servers : r # q => job[r].package # job[q].package
      BY <1>1, <2>1, <3>1, CallsAssumption DEF TurnOK, HeldTyped
    <3> QED
      BY <3>1 DEF OwnOnly
  <2> QED
    BY <1>1, <1>2, <1>3, <1>4, <2>1, <2>2 DEF TurnOK
<1>5. ASSUME job[q].arg = "simulate", todo[q] \in Simulating PROVE NewOK(q)'
  BY <1>1, <1>2, <1>3, <1>5 DEF CallOK, NewOK
<1>6. ASSUME job[q].arg = "accept" PROVE AcceptOK(q)'
  BY <1>1, <1>2, <1>3, <1>6 DEF CallOK, AcceptOK
<1>7. ASSUME job[q].arg = "delete" PROVE DeleteOK(q)'
  <2>1. DeleteOK(q) /\ c \in DOMAIN calls /\ RowOK(c)
    BY <1>1, <1>7 DEF CallOK, DeleteOK, CallsInv
  <2>2. ASSUME todo[q] = <<"save_package">>
        PROVE  packages'[job[q].package] = packages[job[q].package]
    <3>1. Owned(c, job[q].package)
      BY <2>1, <2>2 DEF DeleteOK, RowOK
    <3> QED
      BY <1>2, <1>3, <1>7, <3>1
  <2> QED
    BY <1>1, <1>2, <1>3, <1>7, <2>1, <2>2 DEF DeleteOK
<1> QED
  BY <1>1, <1>4, <1>5, <1>6, <1>7 DEF CallOK

LEMMA StepKeeps ==
    ASSUME TypeInv, CallsInv, NEW p \in Servers, OwnOnly(p),
           job'[p].call \in Calls =>
             \A q \in Servers : q # p => job[q].call # job'[p].call,
           CallOK(p)',
           \A c : c = job[p].call => (c \in DOMAIN calls' => RowOK(c)'),
           \A c : c = job[p].call => (c \in erased' => ErasedOK(c)'),
           DOMAIN calls' \subseteq Calls, erased' \subseteq Calls
    PROVE  CallsInv'
<1>1. Exclusive'
  BY DEF OwnOnly, CallsInv, Exclusive
<1>2. \A q \in Servers : CallOK(q)'
  BY OthersKeep
<1>3. ASSUME NEW c \in DOMAIN calls', c # job[p].call PROVE RowOK(c)'
  <2>1. c \in DOMAIN calls /\ calls'[c] = calls[c] /\ RowOK(c)
    BY <1>3 DEF OwnOnly, CallsInv
  <2>2. \A k : Owned(c, k) => Owned(c, k)'
    BY DEF OwnOnly, Owned
  <2>3. (\E k \in DOMAIN packages : packages[k].call = c /\ packages[k].status = "accepted")
          => (\E k \in DOMAIN packages' : packages'[k].call = c /\ packages'[k].status = "accepted")
    BY DEF OwnOnly
  <2> QED
    BY <2>1, <2>2, <2>3 DEF RowOK
<1>4. ASSUME NEW c \in erased', c # job[p].call PROVE ErasedOK(c)'
  <2>1. c \in Calls /\ c \in erased /\ ErasedOK(c)
    BY <1>4 DEF OwnOnly, CallsInv
  <2>2. c \in DOMAIN calls' /\ calls'[c] = calls[c] /\ RowOK(c)
    BY <1>4, <2>1 DEF OwnOnly, CallsInv, ErasedOK
  <2>3. calls[c].package # NoPackage => packages'[calls[c].package] = packages[calls[c].package]
    BY <1>4, <2>2 DEF RowOK, Owned, OwnOnly
  <2> QED
    BY <2>1, <2>2, <2>3 DEF ErasedOK
<1>5. (\A c \in DOMAIN calls : RowOK(c))'
  BY <1>3
<1>6. (\A c \in erased : ErasedOK(c))'
  BY <1>4
<1> QED
  BY <1>1, <1>2, <1>5, <1>6 DEF CallsInv

(* A step that leaves the rows alone and goes on with the same call. *)
LEMMA ReadKeeps ==
    ASSUME TypeInv, CallsInv, NEW p \in Servers, NEW labels, NEW locals, Move(p, labels, locals),
           locals.call = job[p].call,
           \/ locals.package \in DOMAIN packages \cup {NoPackage, job[p].package}
           \/ \A q \in Servers : q # p => job[q].package # locals.package,
           labels # << >> => CallOK(p)',
           UNCHANGED <<callTables, scenario>>, erased' \in {erased, erased \ {job[p].call}}
    PROVE  CallsInv'
<1>1. /\ todo'[p] = labels
      /\ labels = << >> => job'[p] = Idle
      /\ labels # << >> => job'[p] = locals
      /\ \A q \in Servers : q # p => todo'[q] = todo[q] /\ job'[q] = job[q]
  BY MoveChanges DEF TypeInv
<1>2. calls' = calls /\ packages' = packages
  BY DEF callTables
<1>3. CASE labels = << >>
  <2>1. CallOK(p)'
    BY <1>1, <1>3, IdleRow DEF CallOK
  <2>2. OwnOnly(p) /\ job'[p].call \notin Calls
    BY <1>1, <1>2, <1>3, IdleRow, CallsAssumption DEF OwnOnly
  <2>3. \A c : c \in DOMAIN calls' => RowOK(c)'
    BY <1>2 DEF CallsInv, RowOK, Owned
  <2>4. \A c : c \in erased' => ErasedOK(c)'
    BY <1>2 DEF CallsInv, ErasedOK
  <2>5. DOMAIN calls' \subseteq Calls /\ erased' \subseteq Calls
    BY <1>2 DEF TypeInv, RowsTyped, CallsInv, ErasedOK
  <2> QED
    BY <2>1, <2>2, <2>3, <2>4, <2>5, StepKeeps
<1>4. CASE labels # << >>
  <2>1. OwnOnly(p)
    BY <1>1, <1>2, <1>4 DEF OwnOnly
  <2>2. job'[p].call \in Calls => \A q \in Servers : q # p => job[q].call # job'[p].call
    BY <1>1, <1>4 DEF CallsInv, Exclusive
  <2>3. \A c : c \in DOMAIN calls' => RowOK(c)'
    BY <1>2 DEF CallsInv, RowOK, Owned
  <2>4. \A c : c \in erased' => ErasedOK(c)'
    BY <1>2 DEF CallsInv, ErasedOK
  <2>5. DOMAIN calls' \subseteq Calls /\ erased' \subseteq Calls
    BY <1>2 DEF TypeInv, RowsTyped, CallsInv, ErasedOK
  <2> QED
    BY <1>4, <2>1, <2>2, <2>3, <2>4, <2>5, StepKeeps
<1> QED
  BY <1>3, <1>4

(* What a step adds to or removes from the history of deletions. *)
ErasedStep(p) ==
    erased' = IF job[p].arg = "delete" /\ todo'[p] = << >> THEN erased \cup {job[p].call}
              ELSE IF At(p, "turn") THEN erased \ {job[p].call}
              ELSE erased

LEMMA AskKeeps ==
    ASSUME TypeInv, CallsInv, ~Overlapping, Ask
    PROVE  CallsInv'
<1>1. ASSUME NEW p \in Servers, NEW labels, NEW locals, Begin(p, locals, labels),
             locals.package \in DOMAIN packages \cup {NoPackage},
             locals.call \in Calls => Free(locals.call),
             CallOK(p)', erased' = erased
      PROVE  CallsInv'
  <2>1. /\ todo'[p] = labels /\ job'[p] = locals
        /\ calls' = calls /\ packages' = packages
        /\ \A q \in Servers : q # p => todo'[q] = todo[q] /\ job'[q] = job[q]
    BY <1>1, BeginChanges DEF TypeInv
  <2>2. OwnOnly(p)
    BY <1>1, <2>1 DEF OwnOnly
  <2>3. job'[p].call \in Calls => \A q \in Servers : q # p => job[q].call # job'[p].call
    BY <1>1, <2>1 DEF Free
  <2>4. \A c : c \in DOMAIN calls' => RowOK(c)'
    BY <2>1 DEF CallsInv, RowOK, Owned
  <2>5. \A c : c \in erased' => ErasedOK(c)'
    BY <1>1, <2>1 DEF CallsInv, ErasedOK
  <2>6. DOMAIN calls' \subseteq Calls /\ erased' \subseteq Calls
    BY <1>1, <2>1 DEF TypeInv, RowsTyped, CallsInv, ErasedOK
  <2> QED
    BY <1>1, <2>2, <2>3, <2>4, <2>5, <2>6, StepKeeps
<1>0. erased' = erased
  BY DEF Ask
<1>2. ASSUME NEW p \in Servers, NEW c \in Calls, Free(c), NEW script, SimulateCall(p, c, script)
      PROVE  CallsInv'
  <2> DEFINE held == [Idle EXCEPT !.arg = "simulate", !.call = c, !.script = script]
             labels == <<"answer", "save_call", "turn", "save_call">>
  <2>1. held.arg = "simulate" /\ held.call = c /\ held.package = NoPackage
    BY IdleRow DEF JobRow
  <2>2. Begin(p, held, labels) /\ c \notin DOMAIN calls
    BY <1>2 DEF SimulateCall
  <2> HIDE DEF held, labels
  <2>3. todo'[p] = labels /\ job'[p] = held /\ calls' = calls
    BY <2>2, BeginChanges DEF TypeInv
  <2>4. CallOK(p)'
    <3>1. labels \notin InTurn /\ labels # <<"save_call", "turn", "save_call">>
      BY DEF InTurn, labels
    <3> QED
      BY <2>1, <2>2, <2>3, <3>1 DEF CallOK, NewOK
  <2> QED
    BY <1>0, <1>1, <1>2, <2>1, <2>2, <2>4
<1>3. ASSUME NEW p \in Servers, NEW c \in Calls, Free(c), NEW event, SubmitTurn(p, c, event)
      PROVE  CallsInv'
  <2> DEFINE held == [Idle EXCEPT !.arg = "turn", !.call = c, !.script = <<event>>]
             labels == <<"get_call", "turn", "save_call">>
  <2>1. held.arg = "turn" /\ held.call = c /\ held.package = NoPackage
    BY IdleRow DEF JobRow
  <2>2. Begin(p, held, labels)
    BY <1>3 DEF SubmitTurn
  <2> HIDE DEF held, labels
  <2>3. todo'[p] = labels /\ job'[p] = held
    BY <2>2, BeginChanges DEF TypeInv
  <2>4. CallOK(p)'
    <3>1. labels \notin InTurn
      BY DEF InTurn, labels
    <3> QED
      BY <2>1, <2>3, <3>1 DEF CallOK
  <2> QED
    BY <1>0, <1>1, <1>3, <2>1, <2>2, <2>4
<1>4. ASSUME NEW p \in Servers, NEW k \in DOMAIN packages, NEW operator,
             Free(packages[k].call), AcceptHandoff(p, k, operator)
      PROVE  CallsInv'
  <2> DEFINE held == [Idle EXCEPT !.arg = "accept", !.call = packages[k].call, !.package = k,
                                  !.operator = operator]
             labels == <<"get_package", "save_package", "get_call", "save_call">>
  <2>1. held.arg = "accept" /\ held.call = packages[k].call /\ held.package = k
    BY IdleRow DEF JobRow
  <2>2. Begin(p, held, labels)
    BY <1>4 DEF AcceptHandoff
  <2> HIDE DEF held, labels
  <2>3. todo'[p] = labels /\ job'[p] = held /\ packages' = packages
    BY <2>2, BeginChanges DEF TypeInv
  <2>4. CallOK(p)'
    <3>1. labels \notin {<<"save_package", "get_call", "save_call">>, <<"get_call", "save_call">>,
                         <<"save_call">>}
      BY DEF labels
    <3> QED
      BY <2>1, <2>3, <3>1 DEF CallOK, AcceptOK, Owned
  <2> QED
    BY <1>0, <1>1, <1>4, <2>1, <2>2, <2>4
<1>5. ASSUME NEW p \in Servers, NEW c \in Calls, Free(c), DeleteCallRequest(p, c)
      PROVE  CallsInv'
  <2> DEFINE held == [Idle EXCEPT !.arg = "delete", !.call = c]
             labels == <<"get_call", "save_call", "get_package", "save_package">>
  <2>1. held.arg = "delete" /\ held.call = c /\ held.package = NoPackage
    BY IdleRow DEF JobRow
  <2>2. Begin(p, held, labels) /\ c \in DOMAIN calls
    BY <1>5 DEF DeleteCallRequest
  <2> HIDE DEF held, labels
  <2>3. todo'[p] = labels /\ job'[p] = held /\ calls' = calls
    BY <2>2, BeginChanges DEF TypeInv
  <2>4. CallOK(p)'
    <3>1. labels \notin {<<"save_call", "get_package", "save_package">>,
                         <<"get_package", "save_package">>, <<"save_package">>}
      BY DEF labels
    <3> QED
      BY <2>1, <2>2, <2>3, <3>1 DEF CallOK, DeleteOK
  <2> QED
    BY <1>0, <1>1, <1>5, <2>1, <2>2, <2>4
<1>6. ASSUME NEW p \in Servers, EditScenario(p)
      PROVE  CallsInv'
  <2> DEFINE held == [Idle EXCEPT !.arg = "scenario"]
             labels == <<"get_scenario", "save_scenario">>
  <2>1. held.arg = "scenario" /\ held.call = NoCall /\ held.package = NoPackage
    BY IdleRow DEF JobRow
  <2>2. Begin(p, held, labels)
    BY <1>6 DEF EditScenario
  <2> HIDE DEF held, labels
  <2>3. job'[p] = held
    BY <2>2, BeginChanges DEF TypeInv
  <2>4. CallOK(p)'
    BY <2>1, <2>3 DEF CallOK
  <2> QED
    BY <1>0, <1>1, <2>1, <2>2, <2>4, CallsAssumption
<1> QED
  BY <1>2, <1>3, <1>4, <1>5, <1>6 DEF Ask, Caller

LEMMA AnswerKeeps ==
    ASSUME TypeInv, CallsInv, NEW p \in Servers, Answer(p), ErasedStep(p)
    PROVE  CallsInv'
<1> DEFINE row == NewCall(job[p].call, Resolved(scenario))
           held == [job[p] EXCEPT !.local = row]
           labels == <<"save_call", "turn", "save_call">>
<1>1. /\ At(p, "answer") /\ job[p] \in JobRow /\ UNCHANGED <<callTables, scenario>>
      /\ job[p].arg = "simulate" /\ Move(p, labels, held) /\ todo[p] \in Simulating
  <2>1. /\ job[p] \in JobRow /\ StepsLeft(job[p].arg, todo[p]) /\ todo[p] # << >>
        /\ Head(todo[p]) = "answer"
    BY AtStep DEF Answer
  <2>2. /\ job[p].arg = "simulate" /\ Tail(todo[p]) = labels
        /\ todo[p] = <<"answer", "save_call", "turn", "save_call">>
    BY <2>1, StepLabels
  <2> QED
    BY <2>1, <2>2 DEF Answer, Continue, Simulating
<1>2. row.id = job[p].call /\ row.state = "active" /\ row.package = NoPackage
  BY DEF NewCall
<1>3. erased' = erased
  BY <1>1 DEF ErasedStep, At
<1> HIDE DEF row
<1>4. /\ held.arg = "simulate" /\ held.call = job[p].call /\ held.local = row
      /\ held.package = job[p].package
  BY <1>1 DEF JobRow
<1>5. labels \notin InTurn /\ labels # << >>
  BY DEF InTurn
<1> HIDE DEF held
<1>6. todo'[p] = labels /\ job'[p] = held /\ calls' = calls
  BY <1>1, <1>5, MoveChanges DEF TypeInv, callTables
<1>7. CallOK(p)'
  <2>1. job[p].call \notin DOMAIN calls
    BY <1>1 DEF CallsInv, CallOK, NewOK
  <2> QED
    BY <1>2, <1>4, <1>5, <1>6, <2>1 DEF CallOK, NewOK
<1> QED
  BY <1>1, <1>3, <1>4, <1>7, ReadKeeps

LEMMA GetCallKeeps ==
    ASSUME TypeInv, CallsInv, NEW p \in Servers, GetCall(p), ErasedStep(p)
    PROVE  CallsInv'
<1> DEFINE c == job[p].call
           kind == job[p].arg
           row == IF kind = "delete" THEN Erased(calls[c])
                  ELSE IF kind = "accept" THEN [calls[c] EXCEPT !.state = "transferred"]
                  ELSE calls[c]
           held == [job[p] EXCEPT !.local = row]
<1>1. /\ At(p, "get_call") /\ job[p] \in JobRow /\ UNCHANGED <<callTables, scenario>>
      /\ \/ kind = "turn" /\ Tail(todo[p]) = <<"turn", "save_call">>
         \/ kind = "accept" /\ todo[p] = <<"get_call", "save_call">> /\ Tail(todo[p]) = <<"save_call">>
         \/ kind = "delete" /\ Tail(todo[p]) = <<"save_call", "get_package", "save_package">>
      /\ CallOK(p)
  <2>1. /\ job[p] \in JobRow /\ StepsLeft(job[p].arg, todo[p]) /\ todo[p] # << >>
        /\ Head(todo[p]) = "get_call" /\ At(p, "get_call")
    BY AtStep DEF GetCall
  <2> QED
    BY <2>1, StepLabels DEF GetCall, CallsInv
<1>2. CASE Abort(p) /\ (c \notin DOMAIN calls \/ Refused(calls[c], kind))
  <2>1. kind # "delete"
    BY <1>1, <1>2 DEF CallOK, DeleteOK, Refused
  <2>2. erased' = erased
    BY <1>1, <2>1 DEF ErasedStep, At
  <2> QED
    BY <1>1, <1>2, <2>2, ReadKeeps DEF Abort
<1>3. CASE Continue(p, held) /\ c \in DOMAIN calls /\ ~Refused(calls[c], kind)
  <2>0. Tail(todo[p]) # << >> /\ Move(p, Tail(todo[p]), held)
    BY <1>1, <1>3 DEF Continue
  <2>1. /\ held.arg = kind /\ held.call = c /\ held.local = row /\ held.package = job[p].package
    BY <1>1 DEF JobRow
  <2>2. calls[c] \in CallRow /\ RowOK(c)
    BY <1>3 DEF TypeInv, RowsTyped, CallsInv
  <2> HIDE DEF row, held
  <2>3. /\ todo'[p] = Tail(todo[p]) /\ job'[p] = held
        /\ calls' = calls /\ packages' = packages
    BY <1>1, <2>0, MoveChanges DEF TypeInv, callTables
  <2>4. erased' = erased
    BY <1>1, <2>0, <2>3 DEF ErasedStep, At
  <2>5. CallOK(p)'
    <3>1. CASE kind = "turn"
      <4>1. row = calls[c] /\ ~Terminal(calls[c]) /\ todo'[p] = <<"turn", "save_call">>
        BY <1>1, <1>3, <2>3, <3>1 DEF row, Refused
      <4>2. <<"turn", "save_call">> \notin Storing
        BY DEF Storing
      <4>3. TurnOK(p)'
        BY <1>3, <2>1, <2>2, <2>3, <4>1, <4>2 DEF TurnOK, RowOK, Owned, Terminal
      <4> QED
        BY <2>1, <2>3, <3>1, <4>3 DEF CallOK
    <3>2. CASE kind = "accept"
      <4>1. /\ row = [calls[c] EXCEPT !.state = "transferred"] /\ calls[c].state = "handoff_pending"
            /\ todo'[p] = <<"save_call">>
        BY <1>1, <1>3, <2>3, <3>2 DEF row, Refused
      <4>2. AcceptOK(p)'
        <5>1. AcceptOK(p)
          BY <1>1, <3>2 DEF CallOK
        <5>2. <<"save_call">> # <<"save_package", "get_call", "save_call">>
          OBVIOUS
        <5> QED
          BY <1>1, <1>3, <2>1, <2>3, <3>2, <4>1, <5>1, <5>2 DEF AcceptOK, Owned
      <4> QED
        BY <2>1, <2>3, <3>2, <4>2 DEF CallOK
    <3>3. CASE kind = "delete"
      <4>1. row = Erased(calls[c]) /\ todo'[p] = <<"save_call", "get_package", "save_package">>
        BY <1>1, <2>3, <3>3 DEF row
      <4>2. <<"save_call", "get_package", "save_package">> \notin
              {<<"get_package", "save_package">>, <<"save_package">>}
        OBVIOUS
      <4>3. DeleteOK(p)'
        BY <1>3, <2>1, <2>3, <4>1, <4>2 DEF DeleteOK, Erased
      <4> QED
        BY <2>1, <2>3, <3>3, <4>3 DEF CallOK
    <3> QED
      BY <1>1, <3>1, <3>2, <3>3
  <2> QED
    BY <1>1, <2>0, <2>1, <2>4, <2>5, ReadKeeps
<1> QED
  BY <1>2, <1>3 DEF GetCall

(* What a save makes of the rows. *)
LEMMA SavedCall ==
    ASSUME NEW call \in CallRow, calls' = SavedCalls(call)
    PROVE  /\ DOMAIN calls' = DOMAIN calls \cup {call.id}
           /\ calls'[call.id] \in CallRow
           /\ calls'[call.id].id = call.id /\ calls'[call.id].state = call.state
           /\ calls'[call.id].package = call.package
           /\ calls'[call.id].transcript = call.transcript
           /\ \A c \in Calls : c # call.id =>
                /\ c \in DOMAIN calls' <=> c \in DOMAIN calls
                /\ c \in DOMAIN calls => calls'[c] = calls[c]
<1>1. /\ Persisted(call) \in CallRow /\ Persisted(call).id = call.id
      /\ Persisted(call).state = call.state /\ Persisted(call).package = call.package
      /\ Persisted(call).transcript = call.transcript
  BY DEF Persisted, CallRow
<1>2. DOMAIN calls' = DOMAIN calls \cup {call.id}
  BY DEF SavedCalls
<1>3. calls'[call.id] = Persisted(call)
  BY DEF SavedCalls
<1>4. \A c \in DOMAIN calls : c # call.id => calls'[c] = calls[c]
  BY DEF SavedCalls
<1> QED
  BY <1>1, <1>2, <1>3, <1>4

(* What a service about to save a call knows of it. *)
LEMMA SaveCallKnows ==
    ASSUME TypeInv, CallsInv, NEW p \in Servers, SaveCall(p)
    PROVE  LET call == job[p].local
               c == job[p].call
           IN  /\ job[p] \in JobRow /\ call \in CallRow /\ call.id = c /\ c \in Calls
               /\ calls' = SavedCalls(call) /\ packages' = packages /\ ~At(p, "turn")
               /\ call.package # NoPackage => Owned(c, call.package)
               /\ call.state = "handoff_pending" => call.package # NoPackage
               /\ call.state = "transferred" =>
                    \E k \in DOMAIN packages : packages[k].call = c /\ packages[k].status = "accepted"
               /\ \/ /\ job[p].arg = "simulate" /\ Tail(todo[p]) = <<"turn", "save_call">>
                     /\ c \notin DOMAIN calls /\ call.state = "active" /\ call.package = NoPackage
                  \/ /\ job[p].arg \in {"simulate", "turn", "accept"} /\ Tail(todo[p]) = << >>
                     /\ c \in DOMAIN calls /\ ~Terminal(calls[c])
                     /\ c \in erased => job[p].arg = "accept"
                     /\ job[p].arg = "accept" => call = [calls[c] EXCEPT !.state = "transferred"]
                  \/ /\ job[p].arg = "delete" /\ Tail(todo[p]) = <<"get_package", "save_package">>
                     /\ c \in DOMAIN calls /\ call = Erased(calls[c])
<1> DEFINE call == job[p].local
           c == job[p].call
<1>1. /\ At(p, "save_call") /\ calls' = SavedCalls(call) /\ packages' = packages
      /\ job[p] \in JobRow /\ HeldTyped(job[p], todo[p], DOMAIN packages)
      /\ StepsLeft(job[p].arg, todo[p]) /\ todo[p] # << >> /\ Head(todo[p]) = "save_call"
      /\ CallOK(p)
  BY AtStep DEF SaveCall, CallsInv
<1>2. ~At(p, "turn")
  BY <1>1 DEF At
<1>3. \/ job[p].arg = "simulate" /\ todo[p] = <<"save_call", "turn", "save_call">>
           /\ Tail(todo[p]) = <<"turn", "save_call">>
      \/ job[p].arg \in {"simulate", "turn"} /\ todo[p] = <<"save_call">> /\ Tail(todo[p]) = << >>
      \/ job[p].arg = "accept" /\ todo[p] = <<"save_call">> /\ Tail(todo[p]) = << >>
      \/ job[p].arg = "delete" /\ todo[p] = <<"save_call", "get_package", "save_package">>
           /\ Tail(todo[p]) = <<"get_package", "save_package">>
  BY <1>1, StepLabels
<1>4. call \in CallRow /\ c \in Calls
  BY <1>1, <1>3 DEF HeldTyped, HasLocal, InTurn
<1>5. CASE job[p].arg = "simulate" /\ todo[p] = <<"save_call", "turn", "save_call">>
             /\ Tail(todo[p]) = <<"turn", "save_call">>
  <2>1. NewOK(p)
    BY <1>1, <1>5 DEF CallOK, Simulating
  <2> QED
    BY <1>1, <1>2, <1>4, <1>5, <2>1 DEF NewOK
<1>6. CASE job[p].arg \in {"simulate", "turn"} /\ todo[p] = <<"save_call">> /\ Tail(todo[p]) = << >>
  <2>1. TurnOK(p)
    BY <1>1, <1>6 DEF CallOK, InTurn
  <2>2. todo[p] \notin Storing /\ todo[p] # <<"turn", "save_call">>
    BY <1>6 DEF Storing
  <2> QED
    BY <1>1, <1>2, <1>4, <1>6, <2>1, <2>2 DEF TurnOK
<1>7. CASE job[p].arg = "accept" /\ todo[p] = <<"save_call">> /\ Tail(todo[p]) = << >>
  <2>1. /\ Owned(c, job[p].package) /\ packages[job[p].package].status = "accepted"
        /\ c \in DOMAIN calls /\ calls[c].state = "handoff_pending"
        /\ call = [calls[c] EXCEPT !.state = "transferred"]
    BY <1>1, <1>7 DEF CallOK, AcceptOK
  <2>2. calls[c] \in CallRow /\ RowOK(c)
    BY <2>1 DEF TypeInv, RowsTyped, CallsInv
  <2>3. call.id = c /\ call.package = calls[c].package /\ call.state = "transferred"
    BY <2>1, <2>2 DEF RowOK, CallRow
  <2> QED
    BY <1>1, <1>2, <1>4, <1>7, <2>1, <2>2, <2>3 DEF RowOK, Owned, Terminal
<1>8. CASE job[p].arg = "delete" /\ todo[p] = <<"save_call", "get_package", "save_package">>
             /\ Tail(todo[p]) = <<"get_package", "save_package">>
  <2>1. c \in DOMAIN calls /\ call = Erased(calls[c])
    BY <1>1, <1>8 DEF CallOK, DeleteOK
  <2>2. calls[c] \in CallRow /\ RowOK(c)
    BY <2>1 DEF TypeInv, RowsTyped, CallsInv
  <2>3. call.id = c /\ call.package = calls[c].package /\ call.state = calls[c].state
    BY <2>1, <2>2 DEF RowOK, CallRow, Erased
  <2> QED
    BY <1>1, <1>2, <1>4, <1>8, <2>1, <2>2, <2>3 DEF RowOK
<1> QED
  BY <1>3, <1>5, <1>6, <1>7, <1>8

LEMMA SaveCallKeeps ==
    ASSUME TypeInv, CallsInv, NEW p \in Servers, SaveCall(p), ErasedStep(p)
    PROVE  CallsInv'
<1> DEFINE call == job[p].local
           c == job[p].call
           stay == Tail(todo[p])
<1>1. /\ job[p] \in JobRow /\ call \in CallRow /\ call.id = c /\ c \in Calls
      /\ calls' = SavedCalls(call) /\ packages' = packages /\ ~At(p, "turn")
      /\ call.package # NoPackage => Owned(c, call.package)
      /\ call.state = "handoff_pending" => call.package # NoPackage
      /\ call.state = "transferred" =>
           \E k \in DOMAIN packages : packages[k].call = c /\ packages[k].status = "accepted"
  BY SaveCallKnows
<1>2. /\ DOMAIN calls' = DOMAIN calls \cup {c} /\ calls'[c].id = c
      /\ calls'[c].state = call.state /\ calls'[c].package = call.package
      /\ calls'[c].transcript = call.transcript
      /\ \A d \in Calls : d # c => /\ d \in DOMAIN calls' <=> d \in DOMAIN calls
                                   /\ d \in DOMAIN calls => calls'[d] = calls[d]
  BY <1>1, SavedCall
<1>3. \A d : d = job[p].call => (d \in DOMAIN calls' => RowOK(d)')
  <2> SUFFICES ASSUME NEW d, d = c PROVE RowOK(d)'
    OBVIOUS
  <2>1. /\ calls'[d].id = d /\ calls'[d].state = call.state /\ calls'[d].package = call.package
        /\ call.package # NoPackage => Owned(d, call.package)
        /\ call.state = "transferred" =>
             \E k \in DOMAIN packages : packages[k].call = d /\ packages[k].status = "accepted"
    BY <1>1, <1>2
  <2> QED
    BY <1>1, <2>1 DEF RowOK, Owned
<1>4. DOMAIN calls' \subseteq Calls
  BY <1>1, <1>2 DEF TypeInv, RowsTyped
<1>5. c \in DOMAIN calls => calls[c] \in CallRow /\ RowOK(c)
  BY DEF TypeInv, RowsTyped, CallsInv
<1>6. ASSUME NEW labels, NEW locals, Move(p, labels, locals), locals.call = c,
             locals.package \in DOMAIN packages \cup {NoPackage, job[p].package},
             labels # << >> => CallOK(p)',
             job[p].arg = "delete" \/ erased' = erased,
             erased' \subseteq erased \cup {c},
             c \in erased' => call.transcript # "text" /\ (call.package # NoPackage =>
               packages[call.package].transcript # "text")
      PROVE  CallsInv'
  <2>1. /\ todo'[p] = labels
        /\ labels = << >> => job'[p] = Idle
        /\ labels # << >> => job'[p] = locals
        /\ \A q \in Servers : q # p => todo'[q] = todo[q] /\ job'[q] = job[q]
    BY <1>6, MoveChanges DEF TypeInv
  <2>2. job'[p].call \in {c, NoCall} /\ CallOK(p)'
        /\ job'[p].package \in DOMAIN packages \cup {NoPackage, job[p].package}
    BY <1>6, <2>1, IdleRow DEF CallOK
  <2>3. /\ \A d \in Calls : d # c => (d \in erased' <=> d \in erased)
        /\ erased' \subseteq Calls
    <3>1. erased \subseteq Calls
      BY DEF CallsInv, ErasedOK, TypeInv, RowsTyped
    <3>2. erased' = erased \/ (job[p].arg = "delete" /\ erased' = erased \cup {c})
      BY <1>1, <1>6 DEF ErasedStep
    <3> QED
      BY <1>1, <3>1, <3>2
  <2>4. OwnOnly(p)
    BY <1>1, <1>2, <2>1, <2>2, <2>3 DEF OwnOnly
  <2>5. job'[p].call \in Calls => \A q \in Servers : q # p => job[q].call # job'[p].call
    BY <1>1, <2>2, CallsAssumption DEF CallsInv, Exclusive
  <2>6. \A d : d = job[p].call => (d \in erased' => ErasedOK(d)')
    BY <1>1, <1>2, <1>6 DEF ErasedOK
  <2> QED
    BY <1>3, <1>4, <2>2, <2>3, <2>4, <2>5, <2>6, StepKeeps
<1>7. CASE /\ job[p].arg = "simulate" /\ stay = <<"turn", "save_call">>
           /\ c \notin DOMAIN calls /\ call.state = "active" /\ call.package = NoPackage
  <2>1. Move(p, stay, job[p]) /\ erased' = erased /\ c \notin erased
    BY <1>1, <1>7 DEF SaveCall, Continue, ErasedStep, CallsInv, ErasedOK
  <2>2. todo'[p] = stay /\ job'[p] = job[p]
    <3>1. stay # << >>
      BY <1>7
    <3> HIDE DEF stay
    <3> QED
      BY <2>1, <3>1, MoveChanges DEF TypeInv
  <2>3. CallOK(p)'
    <3>1. stay \in InTurn /\ stay \notin Simulating /\ stay \notin Storing
      BY <1>7 DEF InTurn, Simulating, Storing
    <3>2. TurnOK(p)'
      BY <1>1, <1>2, <1>7, <2>1, <2>2, <3>1 DEF TurnOK, Terminal
    <3> QED
      BY <1>7, <2>2, <3>1, <3>2 DEF CallOK
  <2> QED
    BY <1>6, <2>1, <2>3
<1>8. CASE /\ job[p].arg \in {"simulate", "turn", "accept"} /\ stay = << >>
           /\ c \in DOMAIN calls /\ ~Terminal(calls[c])
           /\ c \in erased => job[p].arg = "accept"
           /\ job[p].arg = "accept" => call = [calls[c] EXCEPT !.state = "transferred"]
  <2>1. Move(p, << >>, job[p]) /\ erased' = erased
    BY <1>1, <1>8 DEF SaveCall, Continue, ErasedStep
  <2>2. c \in erased => call.transcript # "text" /\ (call.package # NoPackage =>
          packages[call.package].transcript # "text")
    <3>1. job[p].arg = "accept" =>
            call.transcript = calls[c].transcript /\ call.package = calls[c].package
      BY <1>5, <1>8 DEF CallRow
    <3> QED
      BY <1>8, <3>1 DEF CallsInv, ErasedOK
  <2> QED
    BY <1>6, <2>1, <2>2
<1>9. CASE /\ job[p].arg = "delete" /\ stay = <<"get_package", "save_package">>
           /\ c \in DOMAIN calls /\ call = Erased(calls[c])
  <2>1. /\ call.transcript = "erased" /\ call.package = calls[c].package
    BY <1>5, <1>9 DEF Erased, CallRow
  <2>2. c \in erased => (call.package # NoPackage => packages[call.package].transcript # "text")
    BY <2>1 DEF CallsInv, ErasedOK
  <2>3. CASE call.package = NoPackage
    <3>1. Move(p, << >>, job[p])
      BY <1>9, <2>3 DEF SaveCall, Abort
    <3>2. erased' \subseteq erased \cup {c}
      BY <1>1 DEF ErasedStep
    <3> QED
      BY <1>6, <1>9, <2>1, <2>3, <3>1, <3>2
  <2>4. CASE call.package # NoPackage
    <3> DEFINE held == [job[p] EXCEPT !.package = call.package]
    <3>1. Move(p, stay, held)
      BY <1>9, <2>4 DEF SaveCall, Continue
    <3>2. /\ held.arg = "delete" /\ held.call = c /\ held.package = call.package
      BY <1>1, <1>9 DEF JobRow
    <3> HIDE DEF held
    <3>3. todo'[p] = stay /\ job'[p] = held
      <4>0. <<"get_package", "save_package">> # << >>
        OBVIOUS
      <4>1. stay # << >>
        BY <4>0, <1>9
      <4> HIDE DEF stay
      <4> QED
        BY <3>1, <4>1, MoveChanges DEF TypeInv
    <3>4. CallOK(p)'
      <4>1. DeleteOK(p)'
        <5>1. /\ stay \notin {<<"save_call", "get_package", "save_package">>, <<"save_package">>}
          BY <1>9
        <5> QED
          BY <1>1, <1>2, <2>1, <2>4, <3>2, <3>3, <5>1 DEF DeleteOK
      <4> QED
        BY <3>2, <3>3, <4>1 DEF CallOK
    <3>5. erased' = erased
      BY <1>1, <1>9, <3>3 DEF ErasedStep
    <3> QED
      BY <1>1, <1>6, <2>1, <2>2, <2>4, <3>1, <3>2, <3>4, <3>5 DEF Owned
  <2> QED
    BY <2>3, <2>4
<1> QED
  BY <1>7, <1>8, <1>9, SaveCallKnows

LEMMA GetPackageKeeps ==
    ASSUME TypeInv, CallsInv, NEW p \in Servers, GetPackage(p), ErasedStep(p)
    PROVE  CallsInv'
<1> DEFINE k == job[p].package
           c == job[p].call
           copy == IF job[p].arg = "delete" THEN Erased(packages[k])
                   ELSE [packages[k] EXCEPT !.status = "accepted", !.operator = job[p].operator]
           held == [job[p] EXCEPT !.copy = copy]
           stay == Tail(todo[p])
<1>1. /\ At(p, "get_package") /\ job[p] \in JobRow /\ UNCHANGED <<callTables, scenario>>
      /\ Move(p, stay, held) /\ CallOK(p) /\ HeldTyped(job[p], todo[p], DOMAIN packages)
      /\ \/ job[p].arg = "accept" /\ stay = <<"save_package", "get_call", "save_call">>
              /\ todo[p] = <<"get_package", "save_package", "get_call", "save_call">>
         \/ job[p].arg = "delete" /\ stay = <<"save_package">>
              /\ todo[p] = <<"get_package", "save_package">>
  <2>1. /\ job[p] \in JobRow /\ StepsLeft(job[p].arg, todo[p]) /\ todo[p] # << >>
        /\ Head(todo[p]) = "get_package" /\ At(p, "get_package")
        /\ HeldTyped(job[p], todo[p], DOMAIN packages)
    BY AtStep DEF GetPackage
  <2>2. \/ job[p].arg = "accept" /\ stay = <<"save_package", "get_call", "save_call">>
              /\ todo[p] = <<"get_package", "save_package", "get_call", "save_call">>
        \/ job[p].arg = "delete" /\ stay = <<"save_package">>
              /\ todo[p] = <<"get_package", "save_package">>
    BY <2>1, StepLabels
  <2> QED
    BY <2>1, <2>2 DEF GetPackage, CallsInv, Continue
<1>2. packages[k] \in Package /\ k \in DOMAIN packages
  BY <1>1 DEF HeldTyped, Fetching, TypeInv, RowsTyped
<1>3. job[p].arg = "accept" =>
        copy.call = packages[k].call /\ copy.status = "accepted"
          /\ copy.transcript = packages[k].transcript
  BY <1>2 DEF Package
<1>4. job[p].arg = "delete" => copy = Erased(packages[k])
  OBVIOUS
<1> HIDE DEF copy
<1>5. /\ held.arg = job[p].arg /\ held.call = c /\ held.package = k /\ held.copy = copy
  BY <1>1 DEF JobRow
<1>6. stay # << >>
  <2>1. <<"save_package">> # << >> /\ <<"save_package", "get_call", "save_call">> # << >>
    OBVIOUS
  <2> QED
    BY <1>1, <2>1
<1> HIDE DEF held
<1>7. todo'[p] = stay /\ job'[p] = held /\ calls' = calls /\ packages' = packages
  <2> HIDE DEF stay
  <2> QED
    BY <1>1, <1>6, MoveChanges DEF TypeInv, callTables
<1>8. erased' = erased
  BY <1>1, <1>6, <1>7 DEF ErasedStep, At
<1>9. CASE job[p].arg = "accept"
  <2>1. stay = <<"save_package", "get_call", "save_call">>
    BY <1>1, <1>9
  <2>2. stay \notin {<<"get_call", "save_call">>, <<"save_call">>}
    BY <2>1
  <2>3. Owned(c, k)
    BY <1>1, <1>9 DEF CallOK, AcceptOK
  <2> HIDE DEF stay
  <2>4. AcceptOK(p)'
    BY <1>3, <1>5, <1>7, <1>9, <2>2, <2>3 DEF AcceptOK, Owned
  <2>5. CallOK(p)'
    BY <1>5, <1>7, <1>9, <2>4 DEF CallOK
  <2> QED
    BY <1>1, <1>5, <1>8, <2>5, ReadKeeps
<1>10. CASE job[p].arg = "delete"
  <2>1. stay = <<"save_package">>
    BY <1>1, <1>10
  <2>2. stay \notin {<<"save_call", "get_package", "save_package">>}
    BY <2>1
  <2>3. c \in DOMAIN calls /\ k = calls[c].package /\ k # NoPackage /\ calls[c].transcript = "erased"
    BY <1>1, <1>10 DEF CallOK, DeleteOK
  <2> HIDE DEF stay
  <2>4. DeleteOK(p)'
    BY <1>4, <1>5, <1>7, <1>10, <2>2, <2>3 DEF DeleteOK, Erased
  <2>5. CallOK(p)'
    BY <1>5, <1>7, <1>10, <2>4 DEF CallOK
  <2> QED
    BY <1>1, <1>5, <1>8, <2>5, ReadKeeps
<1> QED
  BY <1>1, <1>9, <1>10

LEMMA SavePackageKeeps ==
    ASSUME TypeInv, CallsInv, NEW p \in Servers, SavePackage(p), ErasedStep(p)
    PROVE  CallsInv'
<1> DEFINE k == job[p].package
           c == job[p].call
           copy == job[p].copy
           stay == Tail(todo[p])
<1>1. /\ At(p, "save_package") /\ job[p] \in JobRow /\ calls' = calls
      /\ packages' = [i \in DOMAIN packages \cup {k} |-> IF i = k THEN copy ELSE packages[i]]
      /\ Move(p, stay, job[p]) /\ CallOK(p) /\ ~At(p, "turn")
      /\ HeldTyped(job[p], todo[p], DOMAIN packages)
      /\ \/ /\ job[p].arg \in {"simulate", "turn"} /\ todo[p] \in InTurn \cap Storing
            /\ stay \in {<<"turn", "save_call">>, <<"save_call">>}
         \/ /\ job[p].arg = "accept" /\ todo[p] = <<"save_package", "get_call", "save_call">>
            /\ stay = <<"get_call", "save_call">>
         \/ job[p].arg = "delete" /\ todo[p] = <<"save_package">> /\ stay = << >>
  <2>1. /\ job[p] \in JobRow /\ StepsLeft(job[p].arg, todo[p]) /\ todo[p] # << >>
        /\ Head(todo[p]) = "save_package" /\ At(p, "save_package")
        /\ HeldTyped(job[p], todo[p], DOMAIN packages)
    BY AtStep DEF SavePackage
  <2>2. \/ /\ job[p].arg \in {"simulate", "turn"}
           /\ todo[p] \in {<<"save_package", "turn", "save_call">>, <<"save_package", "save_call">>}
           /\ stay \in {<<"turn", "save_call">>, <<"save_call">>}
        \/ /\ job[p].arg = "accept" /\ todo[p] = <<"save_package", "get_call", "save_call">>
           /\ stay = <<"get_call", "save_call">>
        \/ job[p].arg = "delete" /\ todo[p] = <<"save_package">> /\ stay = << >>
    BY <2>1, StepLabels
  <2>3. {<<"save_package", "turn", "save_call">>, <<"save_package", "save_call">>}
          \subseteq InTurn \cap Storing
    BY DEF InTurn, Storing
  <2>4. ~At(p, "turn")
    BY <2>1 DEF At
  <2> QED
    BY <2>1, <2>2, <2>3, <2>4 DEF SavePackage, CallsInv, Continue
<1>2. /\ DOMAIN packages' = DOMAIN packages \cup {k} /\ packages'[k] = copy
      /\ \A i \in DOMAIN packages : i # k => packages'[i] = packages[i]
  BY <1>1
<1>3. /\ todo'[p] = stay
      /\ stay = << >> => job'[p] = Idle
      /\ stay # << >> => job'[p] = job[p]
      /\ \A q \in Servers : q # p => todo'[q] = todo[q] /\ job'[q] = job[q]
  BY <1>1, MoveChanges DEF TypeInv
<1>4. c \in Calls /\ k \in 1..MaxPackages
  BY <1>1 DEF HeldTyped, Storing
(* The old package under this id, if there is one, belongs to the call and *)
(* only its words or its operator change.                                  *)
<1>5. k \in DOMAIN packages =>
        /\ packages[k].call = c /\ copy.call = c
        /\ packages[k].status = "accepted" => copy.status = "accepted"
        /\ packages[k].transcript # "text" => copy.transcript # "text"
  <2>1. CASE job[p].arg \in {"simulate", "turn"} /\ todo[p] \in InTurn \cap Storing
    BY <1>1, <2>1 DEF CallOK, TurnOK
  <2>2. CASE job[p].arg = "accept" /\ todo[p] = <<"save_package", "get_call", "save_call">>
    BY <1>1, <2>2 DEF CallOK, AcceptOK, Owned
  <2>3. CASE job[p].arg = "delete" /\ todo[p] = <<"save_package">>
    <3>1. /\ c \in DOMAIN calls /\ k = calls[c].package /\ k # NoPackage
          /\ copy = Erased(packages[k])
      BY <1>1, <2>3 DEF CallOK, DeleteOK
    <3>2. Owned(c, k) /\ packages[k] \in Package
      BY <3>1 DEF CallsInv, RowOK, Owned, TypeInv, RowsTyped
    <3> QED
      BY <3>1, <3>2 DEF Owned, Erased, Package
  <2> QED
    BY <1>1, <2>1, <2>2, <2>3
<1>6. job'[p].package \in {NoPackage, k} /\ job'[p].call \in {NoCall, c}
  BY <1>3, IdleRow
<1>7. erased' = erased \/ (erased' = erased \cup {c} /\ job[p].arg = "delete" /\ stay = << >>)
  BY <1>1, <1>3 DEF ErasedStep
<1>8. OwnOnly(p)
  <2>1. \A d \in Calls : d # c =>
          /\ d \in DOMAIN calls' <=> d \in DOMAIN calls
          /\ d \in DOMAIN calls => calls'[d] = calls[d]
          /\ d \in erased' <=> d \in erased
    BY <1>1, <1>7
  <2>2. /\ \A i \in DOMAIN packages : packages[i].call # c => packages'[i] = packages[i]
        /\ \A i \in DOMAIN packages : packages'[i].call = packages[i].call
        /\ \A i \in DOMAIN packages : packages[i].status = "accepted" => packages'[i].status = "accepted"
    BY <1>2, <1>5
  <2> HIDE DEF stay, copy
  <2> QED
    BY <1>2, <1>3, <1>6, <2>1, <2>2 DEF OwnOnly
<1>9. job'[p].call \in Calls => \A q \in Servers : q # p => job[q].call # job'[p].call
  BY <1>6, CallsAssumption DEF CallsInv, Exclusive
<1>10. \A d : d = c => (d \in DOMAIN calls' => RowOK(d)')
  <2> SUFFICES ASSUME NEW d, d = c, d \in DOMAIN calls PROVE RowOK(d)'
    BY <1>1
  <2>1. RowOK(d) /\ \A i : Owned(d, i) => Owned(d, i)'
    BY <1>8 DEF CallsInv, OwnOnly, Owned
  <2>2. (\E i \in DOMAIN packages : packages[i].call = d /\ packages[i].status = "accepted")
          => (\E i \in DOMAIN packages' : packages'[i].call = d /\ packages'[i].status = "accepted")
    BY <1>8 DEF OwnOnly
  <2> QED
    BY <1>1, <2>1, <2>2 DEF RowOK
<1>11. \A d : d = c => (d \in erased' => ErasedOK(d)')
  <2> SUFFICES ASSUME NEW d, d = c, d \in erased' PROVE ErasedOK(d)'
    OBVIOUS
  <2>1. CASE d \in erased
    <3>1. ErasedOK(d) /\ (calls[d].package # NoPackage => calls[d].package \in DOMAIN packages)
      BY <2>1 DEF CallsInv, ErasedOK, RowOK, Owned
    <3> QED
      BY <1>1, <1>2, <1>5, <3>1 DEF ErasedOK
  <2>2. CASE job[p].arg = "delete" /\ stay = << >>
    <3>1. /\ d \in DOMAIN calls /\ k = calls[d].package /\ k # NoPackage
          /\ calls[d].transcript = "erased" /\ copy = Erased(packages[k])
      <4>1. todo[p] = <<"save_package">>
        <5>1. <<"get_call", "save_call">> # << >> /\ <<"turn", "save_call">> # << >>
          OBVIOUS
        <5> QED
          BY <1>1, <2>2
      <4> QED
        BY <1>1, <2>2, <4>1 DEF CallOK, DeleteOK
    <3>2. packages[k] \in Package
      BY <3>1 DEF CallsInv, RowOK, Owned, TypeInv, RowsTyped
    <3>3. copy.transcript = "erased"
      BY <3>1, <3>2 DEF Erased, Package
    <3> QED
      BY <1>1, <1>2, <3>1, <3>3 DEF ErasedOK
  <2> QED
    BY <1>7, <2>1, <2>2
<1>12. DOMAIN calls' \subseteq Calls /\ erased' \subseteq Calls
  BY <1>1, <1>4, <1>7 DEF TypeInv, RowsTyped, CallsInv, ErasedOK
<1>13. CallOK(p)'
  <2>1. CASE job[p].arg \in {"simulate", "turn"} /\ todo[p] \in InTurn \cap Storing
               /\ stay \in {<<"turn", "save_call">>, <<"save_call">>}
    <3>1. /\ stay # << >> /\ stay \in InTurn /\ stay \notin Storing /\ stay \notin Simulating
      <4>1. \A labels \in {<<"turn", "save_call">>, <<"save_call">>} :
              /\ labels # << >> /\ labels \in InTurn
              /\ labels \notin Storing /\ labels \notin Simulating
        BY DEF InTurn, Storing, Simulating
      <4> HIDE DEF stay
      <4> QED
        BY <2>1, <4>1
    <3>0. todo[p] # <<"turn", "save_call">>
      BY <2>1 DEF Storing
    <3>2. TurnOK(p) /\ todo[p] \in Storing
      BY <1>1, <2>1 DEF CallOK
    <3>3. erased' = erased /\ c \notin erased
      BY <1>7, <3>0, <3>1, <3>2 DEF TurnOK
    <3>4. job'[p] = job[p] /\ todo'[p] = stay
      BY <1>3, <3>1
    <3> HIDE DEF stay
    <3>5. TurnOK(p)'
      BY <1>1, <1>2, <1>8, <3>1, <3>2, <3>3, <3>4 DEF TurnOK, Owned, OwnOnly
    <3> QED
      BY <2>1, <3>1, <3>4, <3>5 DEF CallOK
  <2>2. CASE job[p].arg = "accept" /\ todo[p] = <<"save_package", "get_call", "save_call">>
               /\ stay = <<"get_call", "save_call">>
    <3>1. stay # << >> /\ stay \notin {<<"save_package", "get_call", "save_call">>, <<"save_call">>}
      BY <2>2
    <3>2. job'[p] = job[p] /\ todo'[p] = stay
      BY <1>3, <3>1
    <3> HIDE DEF stay
    <3>3. Owned(c, k) /\ copy.call = c /\ copy.status = "accepted"
      BY <1>1, <2>2 DEF CallOK, AcceptOK
    <3>4. AcceptOK(p)'
      BY <1>2, <3>1, <3>2, <3>3 DEF AcceptOK, Owned
    <3> QED
      BY <2>2, <3>2, <3>4 DEF CallOK
  <2>3. CASE stay = << >>
    BY <1>3, <2>3, IdleRow DEF CallOK
  <2> QED
    BY <1>1, <2>1, <2>2, <2>3
<1> QED
  BY <1>8, <1>9, <1>10, <1>11, <1>12, <1>13, StepKeeps

LEMMA TurnKeeps ==
    ASSUME TypeInv, CallsInv, NEW p \in Servers, Turn(p), ErasedStep(p)
    PROVE  CallsInv'
<1> DEFINE c == job[p].call
<1>1. /\ At(p, "turn") /\ job[p] \in JobRow /\ UNCHANGED <<callTables, scenario>>
      /\ job[p].arg \in {"simulate", "turn"} /\ todo[p] = <<"turn", "save_call">>
      /\ job[p].local \in CallRow /\ TurnOK(p)
  <2>1. /\ job[p] \in JobRow /\ StepsLeft(job[p].arg, todo[p]) /\ todo[p] # << >>
        /\ Head(todo[p]) = "turn" /\ At(p, "turn") /\ HeldTyped(job[p], todo[p], DOMAIN packages)
        /\ CallOK(p)
    BY AtStep DEF Turn, CallsInv
  <2>2. job[p].arg \in {"simulate", "turn"} /\ todo[p] = <<"turn", "save_call">>
    BY <2>1, StepLabels
  <2> QED
    BY <2>1, <2>2 DEF Turn, HeldTyped, HasLocal, InTurn, CallOK
<1>2. calls' = calls /\ packages' = packages
  BY <1>1 DEF callTables
<1>3. erased' = erased \ {c}
  BY <1>1 DEF ErasedStep
<1>4. todo[p] \notin Storing
  BY <1>1 DEF Storing
<1>5. CASE Abort(p)
  BY <1>1, <1>3, <1>5, ReadKeeps DEF Abort
<1>6. ASSUME NEW row, TurnRow(job[p].local, row), NEW labels \in TurnLeft,
             Move(p, labels, Turned(p, row))
      PROVE  CallsInv'
  <2> DEFINE held == Turned(p, row)
  <2>1. /\ held.arg = job[p].arg /\ held.call = c /\ held.local = row
        /\ held.package = job[p].package
    BY <1>1 DEF Turned, JobRow
  <2>2. labels # << >> /\ labels \in InTurn /\ labels \notin Storing /\ labels \notin Simulating
    BY DEF TurnLeft, InTurn, Storing, Simulating
  <2> HIDE DEF held
  <2>3. todo'[p] = labels /\ job'[p] = held
    BY <1>6, <2>2, MoveChanges DEF TypeInv, held
  <2>4. TurnOK(p)'
    BY <1>1, <1>2, <1>3, <1>4, <1>6, <2>1, <2>2, <2>3 DEF TurnOK, TurnRow, Owned
  <2>5. CallOK(p)'
    BY <1>1, <2>1, <2>2, <2>3, <2>4 DEF CallOK
  <2>6. Move(p, labels, held)
    BY <1>6 DEF held
  <2> QED
    BY <1>1, <1>3, <2>1, <2>5, <2>6, ReadKeeps
<1>7. ASSUME NEW call \in CallRow, NEW row \in CallRow,
             NEW status \in {"queued", "callback_requested"}, Fresh # {},
             call.id = job[p].local.id, row.id = call.id, row.package = NewId,
             row.state = "transferred" => job[p].local.state = "transferred",
             NEW labels \in {<<"save_package", "turn", "save_call">>, <<"save_package", "save_call">>},
             Move(p, labels, Dispatched(p, call, row, status))
      PROVE  CallsInv'
  <2> DEFINE copy == [call |-> call.id, status |-> status, operator |-> NoCall,
                      transcript |-> call.transcript]
             held == Dispatched(p, call, row, status)
  <2>1. copy.call = c
    BY <1>1, <1>7 DEF TurnOK
  <2>2. held = [job[p] EXCEPT !.local = row, !.script = Tail(@), !.package = NewId, !.copy = copy]
    BY DEF Dispatched
  <2> HIDE DEF copy
  <2>3. /\ held.arg = job[p].arg /\ held.call = c
        /\ held.local = row /\ held.package = NewId /\ held.copy = copy
    BY <1>1, <2>2 DEF JobRow
  <2>4. labels # << >> /\ labels \in InTurn /\ labels \in Storing /\ labels \notin Simulating
    BY DEF InTurn, Storing, Simulating
  <2>5. Move(p, labels, held)
    BY <1>7
  <2> HIDE DEF held
  <2>6. /\ todo'[p] = labels /\ job'[p] = held
        /\ \A q \in Servers : q # p => job'[q] = job[q]
    BY <2>4, <2>5, MoveChanges DEF TypeInv
  <2>7. /\ NewId \in 1..MaxPackages /\ NewId \notin DOMAIN packages /\ NewId # NoPackage
        /\ \A q \in Servers : job[q].package # NewId
    BY <1>7, FreshId, CallsAssumption
  <2>8. TurnOK(p)'
    <3>1. row.id = c /\ row.state # "transferred" /\ c \notin erased'
      BY <1>1, <1>3, <1>7 DEF TurnOK
    <3> QED
      BY <1>1, <1>2, <1>7, <2>1, <2>3, <2>4, <2>6, <2>7, <3>1 DEF TurnOK
  <2>9. CallOK(p)'
    BY <1>1, <2>3, <2>4, <2>6, <2>8 DEF CallOK
  <2> QED
    BY <1>1, <1>3, <2>3, <2>5, <2>7, <2>9, ReadKeeps
<1>8. \/ Abort(p)
      \/ \E row : TurnRow(job[p].local, row) /\ \E labels \in TurnLeft : Move(p, labels, Turned(p, row))
      \/ \E call \in CallRow, row \in CallRow, status \in {"queued", "callback_requested"} :
           /\ Fresh # {}
           /\ call.id = job[p].local.id /\ row.id = call.id /\ row.package = NewId
           /\ row.state = "transferred" => job[p].local.state = "transferred"
           /\ \E labels \in {<<"save_package", "turn", "save_call">>,
                             <<"save_package", "save_call">>} :
                Move(p, labels, Dispatched(p, call, row, status))
  BY TurnMoves
<1> QED
  BY <1>5, <1>6, <1>7, <1>8

LEMMA CallsStep ==
    ASSUME TypeInv, CallsInv, ~Overlapping, [Next]_vars
    PROVE  CallsInv'
<1>1. CASE UNCHANGED vars
  <2>1. /\ calls' = calls /\ packages' = packages /\ todo' = todo /\ job' = job
        /\ erased' = erased
    BY <1>1 DEF vars, callTables, phoneControl
  <2>2. \A p \in Servers : CallOK(p)'
    BY <2>1 DEF CallsInv, CallOK, TurnOK, NewOK, AcceptOK, DeleteOK, Owned
  <2> QED
    BY <2>1, <2>2 DEF CallsInv, Exclusive, RowOK, ErasedOK, Owned
<1>2. CASE Ask
  BY <1>2, AskKeeps
<1>3. ASSUME NEW p \in Servers, Serve(p) PROVE CallsInv'
  <2>1. ErasedStep(p)
    BY <1>3 DEF Serve, ErasedStep
  <2>2. CASE CallStep(p)
    BY <2>1, <2>2, AnswerKeeps, GetCallKeeps, SaveCallKeeps, GetPackageKeeps, SavePackageKeeps,
       TurnKeeps DEF CallStep
(* A step on the scenario concerns no call. *)
  <2>3. ASSUME NEW labels, NEW locals, Move(p, labels, locals), job[p].arg = "scenario",
               locals.arg = "scenario", locals.call = job[p].call,
               locals.package = job[p].package, calls' = calls, packages' = packages,
               ~At(p, "turn")
        PROVE  CallsInv'
    <3>1. /\ todo'[p] = labels
          /\ labels = << >> => job'[p] = Idle
          /\ labels # << >> => job'[p] = locals
          /\ \A q \in Servers : q # p => todo'[q] = todo[q] /\ job'[q] = job[q]
      BY <2>3, MoveChanges DEF TypeInv
    <3>2. job'[p].arg \in {"idle", "scenario"} /\ job'[p].call \in {NoCall, job[p].call}
          /\ job'[p].package \in {NoPackage, job[p].package}
      BY <2>3, <3>1, IdleRow
    <3>3. erased' = erased
      BY <2>1, <2>3 DEF ErasedStep
    <3>4. OwnOnly(p)
      BY <2>3, <3>1, <3>2, <3>3 DEF OwnOnly
    <3>5. CallOK(p)'
      BY <3>2 DEF CallOK
    <3>6. job'[p].call \in Calls => \A q \in Servers : q # p => job[q].call # job'[p].call
      BY <3>2, CallsAssumption DEF CallsInv, Exclusive
    <3>7. \A c : c \in DOMAIN calls' => RowOK(c)'
      BY <2>3 DEF CallsInv, RowOK, Owned
    <3>8. \A c : c \in erased' => ErasedOK(c)'
      BY <2>3, <3>3 DEF CallsInv, ErasedOK
    <3>9. DOMAIN calls' \subseteq Calls /\ erased' \subseteq Calls
      BY <2>3, <3>3 DEF TypeInv, RowsTyped, CallsInv, ErasedOK
    <3> QED
      BY <3>4, <3>5, <3>6, <3>7, <3>8, <3>9, StepKeeps
  <2>4. CASE GetScenario(p)
    <3>1. /\ At(p, "get_scenario") /\ ~At(p, "turn") /\ job[p] \in JobRow
          /\ calls' = calls /\ packages' = packages
      BY <2>4, AtStep DEF GetScenario, callTables, At
    <3>2. job[p].arg = "scenario"
      BY <3>1, AtStep, StepLabels
    <3>3. \A row : LET held == [job[p] EXCEPT !.row = row]
                   IN  held.arg = job[p].arg /\ held.call = job[p].call
                         /\ held.package = job[p].package
      BY <3>1 DEF JobRow
    <3>4. Abort(p) \/ \E row : Continue(p, [job[p] EXCEPT !.row = row])
      BY <2>4 DEF GetScenario
    <3> QED
      BY <2>3, <3>1, <3>2, <3>3, <3>4 DEF Abort, Continue
  <2>5. CASE SaveScenario(p)
    <3>1. /\ At(p, "save_scenario") /\ ~At(p, "turn") /\ Move(p, Tail(todo[p]), job[p])
          /\ calls' = calls /\ packages' = packages
      BY <2>5 DEF SaveScenario, callTables, At, Continue
    <3>2. job[p].arg = "scenario"
      BY <3>1, AtStep, StepLabels
    <3> QED
      BY <2>3, <3>1, <3>2
  <2> QED
    BY <1>3, <2>2, <2>4, <2>5 DEF Serve
<1>4. ASSUME NEW p \in Servers, Die(p) PROVE CallsInv'
  <2>1. /\ Move(p, << >>, job[p]) /\ UNCHANGED <<callTables, scenario>> /\ erased' = erased
    BY <1>4 DEF Die
  <2> QED
    BY <2>1, ReadKeeps
<1> QED
  BY <1>1, <1>2, <1>3, <1>4 DEF Next

LEMMA CallsHold == ~Overlapping => (Spec => []CallsInv)
<1> SUFFICES ASSUME ~Overlapping PROVE Spec => []CallsInv
  OBVIOUS
<1>1. Init => CallsInv
  <2> SUFFICES ASSUME Init PROVE CallsInv
    OBVIOUS
  <2>1. /\ DOMAIN calls = {} /\ erased = {}
        /\ \A p \in Servers : job[p] = Idle
    BY DEF Init, CallsInit
  <2> QED
    BY <2>1, IdleRow, CallsAssumption DEF CallsInv, Exclusive, CallOK
<1>2. TypeInv /\ CallsInv /\ [Next]_vars => CallsInv'
  BY CallsStep
<1> QED
  BY <1>1, <1>2, Typed, PTL DEF Spec

(* An operator finds a package for every call that waits for one, and a    *)
(* call is shown as transferred only if a package of it was accepted, with *)
(* any number of services that may die between the two saves               *)
(* (orchestrator.py, handoff.py).                                          *)
THEOREM HandoffStaysKept == ~Overlapping => (Spec => []HandoffIsKept)
<1> SUFFICES ASSUME ~Overlapping PROVE Spec => []HandoffIsKept
  OBVIOUS
<1>1. CallsInv => HandoffIsKept
  BY DEF CallsInv, RowOK, Owned, HandoffIsKept
<1> QED
  BY <1>1, CallsHold, PTL

(* After a deletion completed nothing the caller said is left in the call  *)
(* or in the package it names, until the caller speaks again (FR-047).     *)
THEOREM ErasedStaysErased == ~Overlapping => (Spec => []ErasedIsErased)
<1> SUFFICES ASSUME ~Overlapping PROVE Spec => []ErasedIsErased
  OBVIOUS
<1>1. CallsInv => ErasedIsErased
  BY DEF CallsInv, ErasedOK, ErasedIsErased
<1> QED
  BY <1>1, CallsHold, PTL

(* A call that ended keeps the state it ended in (domain.py:45): a turn    *)
(* is refused, an operator's acceptance needs a waiting call and a         *)
(* deletion only removes words.                                            *)
THEOREM EndedStaysAsItEnded == ~Overlapping => (Spec => EndedStaysEnded)
<1> SUFFICES ASSUME ~Overlapping PROVE Spec => EndedStaysEnded
  OBVIOUS
<1>1. TypeInv /\ CallsInv /\ [Next]_vars =>
        \A c \in DOMAIN calls : Terminal(calls[c]) => calls'[c].state = calls[c].state
  <2> SUFFICES ASSUME TypeInv, CallsInv, [Next]_vars, NEW c \in DOMAIN calls, Terminal(calls[c])
               PROVE  calls'[c].state = calls[c].state
    OBVIOUS
  <2>1. CASE calls' = calls
    BY <2>1
  <2>2. ASSUME NEW p \in Servers, SaveCall(p) PROVE calls'[c].state = calls[c].state
    <3> DEFINE call == job[p].local
    <3>1. /\ call \in CallRow /\ calls' = SavedCalls(call)
          /\ \/ call.id \notin DOMAIN calls
             \/ call.id \in DOMAIN calls /\ ~Terminal(calls[call.id])
             \/ call.id \in DOMAIN calls /\ call = Erased(calls[call.id])
      BY <2>2, SaveCallKnows
    <3>2. c # call.id => calls'[c] = calls[c]
      BY <3>1, SavedCall DEF TypeInv, RowsTyped
    <3>3. c = call.id => calls'[c].state = call.state /\ call = Erased(calls[c])
      BY <3>1, SavedCall
    <3>4. Erased(calls[c]).state = calls[c].state
      BY DEF Erased, TypeInv, RowsTyped, CallRow
    <3> QED
      BY <3>2, <3>3, <3>4
  <2>3. \/ calls' = calls \/ \E p \in Servers : SaveCall(p)
    BY DEF Next, vars, Ask, Caller, Serve, Die, CallStep, callTables, Begin, SimulateCall, SubmitTurn,
           AcceptHandoff, DeleteCallRequest, EditScenario, Answer, GetCall, GetPackage, SavePackage,
           Turn, GetScenario, SaveScenario
  <2> QED
    BY <2>1, <2>2, <2>3
<1> QED
  BY <1>1, Typed, CallsHold, PTL DEF Spec, EndedStaysEnded
===============================================================================
