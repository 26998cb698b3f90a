---------------------------- MODULE AutoSyncScheduler --------------------------
(***************************************************************************)
(* services/sync_scheduler.py on top of SourceSyncSystem: every answer     *)
(* service task runs a thread that, once a minute, reads the schedule of   *)
(* the data source and, when the source is due, posts a sync request under *)
(* the key of the current slot.  One source, one schedule, and time in     *)
(* units of which a slot has Period.                                       *)
(***************************************************************************)
EXTENDS SourceSyncSystem, Integers

CONSTANTS
    Daily,      \* kind = "daily", else "interval"
    Period,     \* a day, or interval_seconds
    At,         \* a daily schedule's time of day
    KeyOf,      \* KeyOf[s]: "auto-sync:<source_id>:<slot s>", as a sync
    Never,      \* last_synced_at is NULL
    Horizon     \* bound: the last instant looked at

(* The slot of instant t; slot 0 of a daily schedule began the day before. *)
SlotKey(t) == IF Daily THEN (t - At) \div Period + 1 ELSE t \div Period

(* _daily_threshold: the last fire time at or before t. *)
DailyThreshold(t) ==
    LET candidate == (t \div Period) * Period + At
    IN  IF candidate > t THEN candidate - Period ELSE candidate

ASSUME ScheduleAssumption ==
    /\ Daily \in BOOLEAN
    /\ Period \in Nat \ {0}
    /\ At \in 0..(Period - 1)
    /\ Horizon \in Nat
    /\ KeyOf \in [0..SlotKey(Horizon) -> Syncs]
    /\ \A s, t \in DOMAIN KeyOf : KeyOf[s] = KeyOf[t] => s = t
    /\ Never \notin Nat

VARIABLES
    now,
    lastSynced   \* data_sources.last_synced_at, which no statement writes

timeVars == <<now, lastSynced>>

(* Mutant: the interval is compared with one unit less. *)
IsDue_OffByOne(last, t) ==
    last # Never =>
        IF Daily THEN last <= DailyThreshold(t) ELSE t - last >= Period - 1

IsDue(last, t) ==
    last # Never =>
        IF Daily THEN last < DailyThreshold(t) ELSE t - last >= Period

AutoInit == Init /\ now = 0 /\ lastSynced = Never

ClockTicks ==
    /\ now < Horizon
    /\ now' = now + 1
    /\ UNCHANGED <<vars, lastSynced>>

(* A tick that fires; the request of a tick runs on the same task's server.*)
Tick(r) ==
    /\ IsDue(lastSynced, now)
    /\ Request(r, KeyOf[SlotKey(now)])
    /\ UNCHANGED timeVars

(* Every request is the scheduler's. *)
AutoNext ==
    \/ ClockTicks
    \/ \E r \in Requesters : Tick(r)
    \/ CalmStep /\ UNCHANGED timeVars

AutoSpec == AutoInit /\ [][AutoNext]_<<vars, timeVars>>

(* The same with tasks of the answer service that end and start anywhere.  *)
RestartNext ==
    AutoNext \/ \E r \in Requesters : RequestDies(r) /\ UNCHANGED timeVars

RestartSpec == AutoInit /\ [][RestartNext]_<<vars, timeVars>>

-------------------------------------------------------------------------------
(* A restart or an overlapping tick never enqueues the same slot twice, as *)
(* the docstring says, and no slot is enqueued before it has begun.        *)
SlotEnqueuedOnce ==
    /\ RequestedOnce
    /\ \A m \in Msgs, s \in DOMAIN KeyOf : body[m] = KeyOf[s] => s <= SlotKey(now)

(* is_due and slot_key agree: a source synced within the current slot is   *)
(* not due, so that the key of a due slot is always a new one.             *)
DueMeansNewSlot ==
    \A last \in 0..now : IsDue(last, now) => SlotKey(last) < SlotKey(now)

(* No tick requests the slot that the source has been synced for already:  *)
(* "Already synced after today's 03:00 -> not due again today", says       *)
(* tests/unit/test_sync_scheduler.py.                                      *)
SyncedSlotIsNotFired ==
    [][source.status = "succeeded" /\ source.run = KeyOf[SlotKey(now)]
           => \A r \in Requesters : reqPc[r] = "idle" => reqPc'[r] = "idle"
      ]_<<vars, timeVars>>
===============================================================================
