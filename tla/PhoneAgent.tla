------------------------------ MODULE PhoneAgent ------------------------------
(***************************************************************************)
(* The phone agent as the answer services run it together: callers whose   *)
(* turns arrive one by one or as a simulated call, operators who accept    *)
(* hand-offs, administrators who delete calls and edit the scenario.       *)
(* Every read and every save is a transaction of its own; a service may    *)
(* die between any two.                                                    *)
(*                                                                         *)
(* Overlapping = FALSE is the discipline the guarantees need: no two       *)
(* requests on one call, or on the scenario, at a time.  The code does not *)
(* enforce it.                                                             *)
(***************************************************************************)
EXTENDS PhoneCalls

CONSTANTS
    Events,       \* the events of the instance
    Kinds,        \* the requests of the instance
    Overlapping

ASSUME EventsAssumption == Events \subseteq Event /\ Overlapping \in BOOLEAN

VARIABLE erased   \* history: calls whose deletion completed after their last turn

vars == <<scenario, callTables, phoneControl, erased>>

Free(c) == Overlapping \/ \A p \in Servers : job[p].call # c
FreeScenario == Overlapping \/ \A p \in Servers : job[p].arg # "scenario"

-------------------------------------------------------------------------------
(* Requests on the scenario: read, compute, write back.                    *)
EditScenario(p) ==
    /\ FreeScenario
    /\ Begin(p, [Idle EXCEPT !.arg = "scenario"], <<"get_scenario", "save_scenario">>)

(* Any operation of the service on the row it read.                        *)
Rewritten(row) ==
    {Created(row)}
      \cup {Upserted(row, v, s) : v \in 1..MaxVersions, s \in Scripts}
      \cup {Acted(row, v, target) : v \in 1..MaxVersions, target \in ActionTargets}
      \cup {RolledBack(row, v) : v \in 1..MaxVersions}

GetScenario(p) ==
    /\ At(p, "get_scenario")
    /\ \E row \in Rewritten(scenario) :
         IF row = scenario \/ Len(row.versions) > MaxVersions THEN Abort(p)
         ELSE Continue(p, [job[p] EXCEPT !.row = row])
    /\ UNCHANGED <<callTables, scenario>>

SaveScenario(p) ==
    /\ At(p, "save_scenario")
    /\ scenario' = job[p].row
    /\ Continue(p, job[p])
    /\ UNCHANGED callTables

-------------------------------------------------------------------------------
Caller(p, c) ==
    \/ /\ "simulate" \in Kinds
       /\ \E n \in 1..MaxScript : \E script \in [1..n -> Events] : SimulateCall(p, c, script)
    \/ /\ "turn" \in Kinds
       /\ \E event \in Events : SubmitTurn(p, c, event)

Ask ==
    /\ \E p \in Servers :
         \/ \E c \in Calls : Free(c) /\ Caller(p, c)
         \/ \E c \in Calls :
              "delete" \in Kinds /\ Free(c) /\ DeleteCallRequest(p, c)
         \/ \E k \in DOMAIN packages, operator \in Operators :
              "accept" \in Kinds /\ Free(packages[k].call) /\ AcceptHandoff(p, k, operator)
         \/ "scenario" \in Kinds /\ EditScenario(p)
    /\ UNCHANGED erased

Serve(p) ==
    /\ CallStep(p) \/ GetScenario(p) \/ SaveScenario(p)
    /\ erased' =
         IF job[p].arg = "delete" /\ todo'[p] = << >> THEN erased \cup {job[p].call}
         ELSE IF At(p, "turn") THEN erased \ {job[p].call}
         ELSE erased

Die(p) ==
    /\ todo[p] # << >>
    /\ Move(p, << >>, job[p])
    /\ UNCHANGED <<callTables, scenario, erased>>

Init == scenario = NoScenario /\ CallsInit /\ erased = {}

Next == Ask \/ \E p \in Servers : Serve(p) \/ Die(p)

Spec == Init /\ [][Next]_vars

-------------------------------------------------------------------------------
(* What the rows hold.                                                     *)
TypeOK == ScenarioTypeOK /\ CallsTypeOK

(* An operator finds every call that waits for one, and a call is shown as *)
(* transferred only if an operator accepted a package of it: package and   *)
(* call are saved in different transactions, in this order, and a service  *)
(* that dies between them leaves a package no call names.                  *)
HandoffIsKept ==
    \A c \in DOMAIN calls :
        /\ calls[c].state = "handoff_pending" =>
             calls[c].package \in DOMAIN packages /\ packages[calls[c].package].call = c
        /\ calls[c].state = "transferred" =>
             \E k \in DOMAIN packages : packages[k].call = c /\ packages[k].status = "accepted"

(* A call that ended stays as it ended: turns, operators and deletions     *)
(* that come later leave its state alone (domain.py:45, no transition out  *)
(* of a terminal state).                                                   *)
EndedStaysEnded ==
    [][\A c \in DOMAIN calls : Terminal(calls[c]) => calls'[c].state = calls[c].state]_vars

(* After a deletion request completed nothing of what the caller said is   *)
(* left in the call or in the hand-off package it names (FR-047).          *)
ErasedIsErased ==
    \A c \in erased :
        /\ calls[c].transcript # "text"
        /\ calls[c].package # NoPackage => packages[calls[c].package].transcript # "text"

(* The active version of the scenario is a published one that was approved, *)
(* after any sequence of edits, publications, archivals and rollbacks by    *)
(* services that rewrite the whole scenario (scenarios.py).                 *)
ActiveIsPublished ==
    scenario.active # NoVersion =>
        /\ scenario.active \in DOMAIN scenario.versions
        /\ scenario.versions[scenario.active].status = "published"
        /\ scenario.versions[scenario.active].approved

(* A published version is what callers were told was approved: its payload  *)
(* never changes and it is never removed (scenarios.py:4, published         *)
(* versions are immutable).                                                 *)
PublishedIsFrozen ==
    [][\A v \in DOMAIN scenario.versions :
         Immutable(scenario.versions[v]) =>
           /\ v \in DOMAIN scenario'.versions
           /\ Immutable(scenario'.versions[v])
           /\ scenario'.versions[v].script = scenario.versions[v].script]_vars

(* The caller is not asked to repeat more often than the threshold allows  *)
(* (orchestrator.py: low ASR confidence leads to a bounded re-ask, then to *)
(* a transfer).                                                            *)
ReaskIsBounded == \A c \in DOMAIN calls : calls[c].asked <= MaxClarifications
===============================================================================
