----------------------------- MODULE SourceSyncProofs --------------------------
(***************************************************************************)
(* RequestedOnce for every number of requesters, workers, syncs and        *)
(* messages, whatever dies, raises or comes back: the message of a sync is *)
(* sent by the one request that inserted its run (create_queued answers    *)
(* "created" once), because no step ever takes a run back to "absent" and  *)
(* no worker sends a message for a sync.                                   *)
(*                                                                         *)
(* NoOrphanChild, NeverLooksSuccessful and SucceededWasWalked for one      *)
(* worker and any number of requesters, jobs, documents and messages:      *)
(* OrphanInv says who answers for a child without a message, LooksInv why  *)
(* the source cannot look complete over an open document, WalkedInv why a  *)
(* single sync is never marked before its walk has ended.                  *)
(*                                                                         *)
(* QuietAgrees for one worker and one sync that nothing interrupts: by     *)
(* CalmInv the message of the sync is walked once, the walk counts the     *)
(* rows it leaves behind, and each refresh sets the state of the source to *)
(* the rows before the worker takes another message.                       *)
(***************************************************************************)
EXTENDS AutoSyncScheduler, FiniteSetTheorems, TLAPS

-------------------------------------------------------------------------------
(* The inductive invariant. *)

States == [status : SourceStatus, run : Jobs \cup {NoJob},
           observed : Int, changed : Int, failed : Int]
Locals ==
    [msg : Msgs \cup {NoMsg}, receipt : Nat, todo : SUBSET Children,
     failed : Nat, open : Nat, child : Children \cup {NoJob}, row : Rows,
     state : States, result : {"none", "failed", "dead_letter"},
     then : {"none", "ack", "defer", "idle"}]
RequestPcs == {"idle", "openNew", "open", "enqueue", "stamp"}
WorkerPcs ==
    InWalk \cup {"idle", "sync", "open", "openState", "ack", "defer", "fail",
                 "failDelete", "syncFailed", "syncFailedState", "register", "run",
                 "work", "project", "refresh", "readDocs", "markParent", "writeSource"}

(* Counts are left unbounded: their bound plays no part. *)
Typed ==
    /\ body \in [Msgs -> Jobs \cup {NoJob}]
    /\ place \in [Msgs -> Places]
    /\ receives \in [Msgs -> Nat]
    /\ status \in [Jobs -> RunStatus]
    /\ docStatus \in [Docs -> RunStatus]
    /\ source \in States
    /\ reqPc \in [Requesters -> RequestPcs]
    /\ reqSync \in [Requesters -> Syncs \cup {NoJob}]
    /\ pc \in [Workers -> WorkerPcs]
    /\ ctx \in [Workers -> Locals]

(* A request that is under way has a sync; the run it names is registered. *)
RequestHasSync ==
    \A r \in Requesters : reqPc[r] # "idle" =>
        reqSync[r] \in Syncs /\ status[reqSync[r]] # "absent"

(* A worker at work has a message; one in a sync has that of a sync, and   *)
(* one that is about to send has a child to send; what a failed child and a *)
(* refreshed parent are marked with is known by then.                      *)
SyncPcs == InWalk \cup {"sync", "open", "openState", "syncFailed", "syncFailedState"}
Refreshing == {"refresh", "readDocs", "markParent", "writeSource"}
WorkerHasJob ==
    \A w \in Workers :
        /\ pc[w] # "idle" => ctx[w].msg \in Msgs
        /\ pc[w] \in SyncPcs => body[ctx[w].msg] \in Syncs
        /\ pc[w] \in {"send", "requeue"} => ctx[w].child \in Children
        /\ pc[w] = "project" => ctx[w].result # "none"
        /\ pc[w] \in Refreshing => ctx[w].then # "none"
        /\ pc[w] = "markParent" => ctx[w].state.status # "none"

UnsentIsEmpty == \A m \in Msgs : place[m] = "unsent" => body[m] = NoJob
SentIsRegistered ==
    \A m \in Msgs : body[m] \in Syncs => status[body[m]] # "absent"

(* The request that still owes the message of a sync is alone, and nothing *)
(* was sent for that sync so far.                                          *)
Owes(r) == reqPc[r] \in {"openNew", "enqueue"}
OwesAlone ==
    \A r \in Requesters : Owes(r) =>
        /\ \A q \in Requesters : Owes(q) /\ reqSync[q] = reqSync[r] => q = r
        /\ \A m \in Msgs : body[m] # reqSync[r]

IInv ==
    /\ Typed /\ RequestHasSync /\ WorkerHasJob
    /\ UnsentIsEmpty /\ SentIsRegistered /\ OwesAlone /\ RequestedOnce

-------------------------------------------------------------------------------
(* What the store and the recomputation return. *)

LEMMA VerdictType ==
    ASSUME NEW o, NEW c, NEW f
    PROVE  /\ Verdict(o, c, f) \in {"syncing", "failed", "partially_succeeded", "succeeded"}
           /\ RunOf(Verdict(o, c, f)) \in RunStatus \ {"absent"}
BY DEF Verdict, RunOf, RunStatus

LEMMA KnownIsFinite ==
    ASSUME NEW S
    PROVE  Cardinality(Known) \in Nat /\ KnownIn(S) \in Nat
<1>1. IsFiniteSet(Known) /\ IsFiniteSet({d \in Known : docStatus[d] \in S})
  BY FiniteAssumption, FS_Subset DEF Known, ChildDocs
<1> QED BY <1>1, FS_CardinalityType DEF KnownIn

LEMMA RecomputedType ==
    ASSUME NEW old \in States
    PROVE  Recomputed(old) \in States
<1> DEFINE n == Cardinality(Known)
           c == KnownIn({"succeeded"})
           f == KnownIn({"failed", "dead_letter"})
           o == IF old.observed > n THEN old.observed ELSE n
<1>1. n \in Nat /\ c \in Nat /\ f \in Nat BY KnownIsFinite
<1>2. o \in Int BY <1>1 DEF States
<1>3. Verdict(o, c, f) \in SourceStatus BY VerdictType DEF SourceStatus
<1>4. Recomputed(old) = State(Verdict(o, c, f), old.run, o, c, f) BY DEF Recomputed
<1> QED BY <1>1, <1>2, <1>3, <1>4 DEF State, States

LEMMA CloseWithType ==
    ASSUME NEW w, NEW c \in Locals, JobOf(w) \in Syncs
    PROVE  CloseWith(w, c) \in States
<1> DEFINE n == Cardinality(Manifest[JobOf(w)])
<1>1. IsFiniteSet(Manifest[JobOf(w)]) BY FiniteAssumption, FS_Subset, SyncAssumption
<1>2. n \in Nat BY <1>1, FS_CardinalityType
<1>3. n - c.failed - c.open \in Int /\ c.failed \in Int BY <1>2 DEF Locals
<1>4. Verdict(n, n - c.failed - c.open, c.failed) \in SourceStatus
  BY VerdictType DEF SourceStatus
<1>5. JobOf(w) \in Jobs BY SyncAssumption
<1>6. CloseWith(w, c) = State(Verdict(n, n - c.failed - c.open, c.failed), JobOf(w),
                              n, n - c.failed - c.open, c.failed)
  BY DEF CloseWith
<1> QED BY <1>2, <1>3, <1>4, <1>5, <1>6 DEF State, States

-------------------------------------------------------------------------------
(* The initial states. *)

LEMMA BlankType == Blank \in Locals
BY DEF Blank, Locals, NoRow, NoState, State, States, Rows, RunStatus, SourceStatus

LEMMA InitIInv == Init => IInv
<1> SUFFICES ASSUME Init PROVE IInv OBVIOUS
<1> USE DEF Init, QueueInit, StoreInit, SyncInit
<1>2. NoState \in States BY DEF NoState, State, States, SourceStatus
<1>3. Typed BY BlankType, <1>2 DEF Typed, Places, RunStatus, RequestPcs, WorkerPcs
<1>4. RequestHasSync /\ WorkerHasJob /\ UnsentIsEmpty /\ OwesAlone
  BY DEF RequestHasSync, WorkerHasJob, SyncPcs, InWalk, Refreshing, UnsentIsEmpty,
     OwesAlone, Owes
<1>5. SentIsRegistered /\ RequestedOnce
  BY NoJobAssumption, SyncAssumption DEF SentIsRegistered, RequestedOnce
<1> QED BY <1>3, <1>4, <1>5 DEF IInv

-------------------------------------------------------------------------------
(* No step of a worker or of the queue sends the message of a sync. *)

(* A registered run stays registered. *)
Registered == \A j \in Jobs : status[j] # "absent" => status'[j] # "absent"

LEMMA NoSyncSent ==
    ASSUME IInv, Typed', WorkerHasJob', Registered, UNCHANGED <<reqPc, reqSync>>,
           \A m \in Msgs : body'[m] = body[m] \/ body'[m] \in Children,
           \A m \in Msgs : place'[m] = "unsent" => place[m] = "unsent" /\ body'[m] = body[m]
    PROVE  IInv'
<1> USE DEF IInv
<1>1. RequestHasSync' BY SyncAssumption DEF RequestHasSync, Registered
<1>2. UnsentIsEmpty' BY DEF UnsentIsEmpty
<1>3. SentIsRegistered' BY SyncAssumption DEF SentIsRegistered, Registered, Children
<1>4. OwesAlone' BY DEF OwesAlone, Owes, RequestHasSync, Children
<1>5. RequestedOnce' BY DEF RequestedOnce, Children
<1> QED BY <1>1, <1>2, <1>3, <1>4, <1>5

LEMMA MarkRunIsRegistered ==
    ASSUME Typed, NEW j, NEW s \in RunStatus \ {"absent"}, MarkRun(j, s)
    PROVE  /\ Registered
           /\ status' \in [Jobs -> RunStatus]
           /\ docStatus' \in [Docs -> RunStatus]
BY DEF Typed, MarkRun, Registered

LEMMA CreateQueuedIsRegistered ==
    ASSUME Typed, NEW j, CreateQueued(j)
    PROVE  /\ Registered
           /\ status' \in [Jobs -> RunStatus]
           /\ docStatus' \in [Docs -> RunStatus]
           /\ j \in Jobs => status'[j] # "absent"
BY DEF Typed, CreateQueued, Registered, RunStatus

-------------------------------------------------------------------------------
(* The steps of a worker. *)

LEMMA TallyType ==
    ASSUME NEW c \in Locals, NEW j, NEW s
    PROVE  Tally(c, j, s) \in Locals /\ Tally(c, j, s).msg = c.msg
<1> DEFINE o == IF s \in {"queued", "running"} THEN 1 ELSE 0
           f == IF s \in {"failed", "dead_letter"} THEN 1 ELSE 0
<1>1. NoRow \in Rows BY DEF NoRow, Rows, RunStatus
<1>2. o \in Nat /\ f \in Nat OBVIOUS
<1> HIDE DEF o, f
<1>3. Tally(c, j, s) = [c EXCEPT !.todo = @ \ {j}, !.child = NoJob, !.row = NoRow,
                                 !.open = @ + o, !.failed = @ + f]
  BY DEF Tally, o, f
<1>4. /\ c.todo \ {j} \in SUBSET Children
      /\ c.open + o \in Nat /\ c.failed + f \in Nat
  BY <1>2 DEF Locals
<1> DEFINE todo == c.todo \ {j}
           open == c.open + o
           failed == c.failed + f
<1>5. Tally(c, j, s) = [c EXCEPT !.todo = todo, !.child = NoJob, !.row = NoRow,
                                 !.open = open, !.failed = failed]
  BY <1>3
<1>6. todo \in SUBSET Children /\ open \in Nat /\ failed \in Nat BY <1>4
<1> HIDE DEF todo, open, failed
<1> QED BY <1>1, <1>5, <1>6 DEF Locals

LEMMA SentRowType == [status |-> "queued", stamped |-> FALSE] \in Rows
BY DEF Rows, RunStatus

LEMMA ContinueInv ==
    ASSUME IInv, NEW w \in Workers, pc[w] \in Refreshing, Continue(w), UNCHANGED body
    PROVE  /\ pc' \in [Workers -> WorkerPcs]
           /\ ctx' \in [Workers -> Locals]
           /\ WorkerHasJob'
<1> USE DEF IInv, Continue, Goto, Set, Rest
<1> DEFINE c == [Blank EXCEPT !.msg = ctx[w].msg, !.receipt = ctx[w].receipt,
                              !.then = ctx[w].then]
<1>1. c \in Locals BY BlankType DEF Typed, Locals
<1>2. ctx[w].msg \in Msgs /\ c.msg = ctx[w].msg BY DEF WorkerHasJob, Refreshing, Blank
<1>3. CASE ctx[w].then = "idle"
  <2>1. pc' \in [Workers -> WorkerPcs] /\ ctx' \in [Workers -> Locals]
    BY <1>3, BlankType DEF Typed, WorkerPcs
  <2>2. WorkerHasJob'
    BY <1>3 DEF WorkerHasJob, Typed, SyncPcs, InWalk, Refreshing
  <2> QED BY <2>1, <2>2
<1>4. CASE ctx[w].then # "idle"
  <2>1. ctx[w].then \in {"ack", "defer"} BY <1>4 DEF Typed, Locals, WorkerHasJob
  <2>2. pc' = [pc EXCEPT ![w] = ctx[w].then] /\ ctx' = [ctx EXCEPT ![w] = c]
    BY <1>4
  <2> HIDE DEF c
  <2>3. pc' \in [Workers -> WorkerPcs] /\ ctx' \in [Workers -> Locals]
    BY <1>1, <2>1, <2>2 DEF Typed, WorkerPcs
  <2>4. WorkerHasJob'
    BY <1>2, <2>1, <2>2 DEF WorkerHasJob, Typed, SyncPcs, InWalk, Refreshing
  <2> QED BY <2>3, <2>4
<1> QED BY <1>3, <1>4

LEMMA ReceiveInv ==
    ASSUME IInv, NEW w \in Workers, NEW m \in Msgs, Receive(w, m)
    PROVE  IInv'
<1> USE DEF IInv, Receive, ReceiveMessage
<1>n. receives'[m] \in Nat BY DEF Typed, ReceiveMessage
<1>0. Registered BY DEF Registered, storeVars
<1>r. [Blank EXCEPT !.msg = m, !.receipt = receives'[m]] \in Locals
  BY <1>n, BlankType DEF Locals
<1>1. Typed'
  BY <1>n, <1>r DEF Typed, Set, Goto, Rest, WorkerPcs, InWalk, storeVars, requestVars,
     queueVars, workerVars, Places
<1>2. WorkerHasJob'
  BY <1>n, <1>r DEF WorkerHasJob, SyncPcs, Refreshing, InWalk, Set, Goto, Rest, Typed,
     Locals, Blank, storeVars, requestVars, queueVars, workerVars, Places
<1>3. UNCHANGED <<reqPc, reqSync>> BY DEF storeVars, requestVars, queueVars, workerVars
<1>4. \A n \in Msgs : body'[n] = body[n] \/ body'[n] \in Children
  BY DEF Typed, WorkerHasJob, storeVars, requestVars, queueVars, workerVars, Places
<1>5. \A n \in Msgs : place'[n] = "unsent" => place[n] = "unsent" /\ body'[n] = body[n]
  BY DEF Typed, Places, storeVars, requestVars, queueVars, workerVars, Places
<1> QED BY <1>0, <1>1, <1>2, <1>3, <1>4, <1>5, NoSyncSent

LEMMA SyncBeginInv ==
    ASSUME IInv, NEW w \in Workers, SyncBegin(w)
    PROVE  IInv'
<1> USE DEF IInv, SyncBegin
<1>0. Registered BY DEF Registered, storeVars
<1>1. Typed'
  BY DEF Typed, Set, Goto, Rest, WorkerPcs, InWalk, storeVars, requestVars, queueVars,
     workerVars
<1>2. WorkerHasJob'
  BY DEF WorkerHasJob, SyncPcs, Refreshing, InWalk, Set, Goto, Rest, Typed, Locals,
     Blank, storeVars, requestVars, queueVars, workerVars
<1>3. UNCHANGED <<reqPc, reqSync>> BY DEF storeVars, requestVars, queueVars, workerVars
<1>4. \A n \in Msgs : body'[n] = body[n] \/ body'[n] \in Children
  BY DEF Typed, WorkerHasJob, storeVars, requestVars, queueVars, workerVars
<1>5. \A n \in Msgs : place'[n] = "unsent" => place[n] = "unsent" /\ body'[n] = body[n]
  BY DEF Typed, Places, storeVars, requestVars, queueVars, workerVars
<1> QED BY <1>0, <1>1, <1>2, <1>3, <1>4, <1>5, NoSyncSent

LEMMA SyncOpenRunInv ==
    ASSUME IInv, NEW w \in Workers, SyncOpenRun(w)
    PROVE  IInv'
<1> USE DEF IInv, SyncOpenRun
<1>0. /\ Registered
      /\ status' \in [Jobs -> RunStatus]
      /\ docStatus' \in [Docs -> RunStatus]
  BY MarkRunIsRegistered DEF RunStatus
<1>1. Typed'
  BY <1>0 DEF Typed, Set, Goto, Rest, WorkerPcs, InWalk, storeVars, requestVars,
     queueVars, workerVars, MarkRun
<1>2. WorkerHasJob'
  BY DEF WorkerHasJob, SyncPcs, Refreshing, InWalk, Set, Goto, Rest, Typed, Locals,
     Blank, storeVars, requestVars, queueVars, workerVars, MarkRun
<1>3. UNCHANGED <<reqPc, reqSync>> BY DEF storeVars, requestVars, queueVars, workerVars
<1>4. \A n \in Msgs : body'[n] = body[n] \/ body'[n] \in Children
  BY DEF Typed, WorkerHasJob, storeVars, requestVars, queueVars, workerVars, MarkRun
<1>5. \A n \in Msgs : place'[n] = "unsent" => place[n] = "unsent" /\ body'[n] = body[n]
  BY DEF Typed, Places, storeVars, requestVars, queueVars, workerVars, MarkRun
<1> QED BY <1>0, <1>1, <1>2, <1>3, <1>4, <1>5, NoSyncSent

LEMMA SyncOpenStateInv ==
    ASSUME IInv, NEW w \in Workers, SyncOpenState(w)
    PROVE  IInv'
<1> USE DEF IInv, SyncOpenState
<1>j. JobOf(w) \in Syncs /\ JobOf(w) \in Jobs
  BY SyncAssumption DEF JobOf, WorkerHasJob, SyncPcs, InWalk
<1>s. State("syncing", JobOf(w), 0, 0, 0) \in States
  BY <1>j DEF State, States, SourceStatus
<1>m. Manifest[JobOf(w)] \in SUBSET Children BY <1>j, SyncAssumption DEF Children
<1>0. Registered BY DEF Registered, storeVars
<1>r. [ctx[w] EXCEPT !.todo = Manifest[JobOf(w)]] \in Locals
  BY <1>m DEF Typed, Locals
<1>1. Typed'
  BY <1>j, <1>s, <1>m, <1>r DEF Typed, Set, Goto, Rest, WorkerPcs, InWalk, storeVars,
     requestVars, queueVars, workerVars
<1>2. WorkerHasJob'
  BY <1>j, <1>s, <1>m, <1>r DEF WorkerHasJob, SyncPcs, Refreshing, InWalk, Set, Goto,
     Rest, Typed, Locals, Blank, storeVars, requestVars, queueVars, workerVars
<1>3. UNCHANGED <<reqPc, reqSync>> BY DEF storeVars, requestVars, queueVars, workerVars
<1>4. \A n \in Msgs : body'[n] = body[n] \/ body'[n] \in Children
  BY DEF Typed, WorkerHasJob, storeVars, requestVars, queueVars, workerVars
<1>5. \A n \in Msgs : place'[n] = "unsent" => place[n] = "unsent" /\ body'[n] = body[n]
  BY DEF Typed, Places, storeVars, requestVars, queueVars, workerVars
<1> QED BY <1>0, <1>1, <1>2, <1>3, <1>4, <1>5, NoSyncSent

LEMMA VisitInv ==
    ASSUME IInv, NEW w \in Workers, NEW j \in Children, Visit(w, j)
    PROVE  IInv'
<1> USE DEF IInv, Visit, queueVars, requestVars
<1> DEFINE new == [status |-> "queued", stamped |-> FALSE]
           row == [status |-> status[j], stamped |-> j \in stamped]
<1>1. ASSUME NEW s, NEW r \in Rows, Goto(w, ChildPath(j, s)), Registered,
             status' \in [Jobs -> RunStatus], docStatus' \in [Docs -> RunStatus],
             Set(w, [ctx[w] EXCEPT !.child = j, !.row = r])
      PROVE  IInv'
  <2>1. [ctx[w] EXCEPT !.child = j, !.row = r] \in Locals BY DEF Typed, Locals
  <2>2. ChildPath(j, s) \in {"ingest", "send", "requeue"} BY DEF ChildPath
  <2>3. Typed' BY <1>1, <2>1, <2>2 DEF Typed, Goto, Set, WorkerPcs, InWalk
  <2>4. WorkerHasJob'
    BY <1>1, <2>2 DEF WorkerHasJob, Goto, Set, Typed, Locals, SyncPcs, InWalk,
       Refreshing
  <2> QED BY <1>1, <2>3, <2>4, NoSyncSent
<1>2. CASE CreateQueued(j) /\ Goto(w, ChildPath(j, "queued"))
           /\ Set(w, [ctx[w] EXCEPT !.child = j, !.row = new])
  BY <1>1, <1>2, SentRowType, CreateQueuedIsRegistered
<1>3. CASE Goto(w, ChildPath(j, status[j])) /\ UNCHANGED storeVars
           /\ Set(w, [ctx[w] EXCEPT !.child = j, !.row = row])
  <2>1. row \in Rows BY DEF Children, Typed, Rows
  <2>2. /\ Registered
        /\ status' \in [Jobs -> RunStatus] /\ docStatus' \in [Docs -> RunStatus]
    BY <1>3 DEF Registered, Typed, storeVars
  <2> HIDE DEF row
  <2> QED BY <1>1, <1>3, <2>1, <2>2
<1>4. CASE Set(w, Tally(ctx[w], j, "succeeded")) /\ UNCHANGED <<storeVars, pc>>
  <2>1. /\ Tally(ctx[w], j, "succeeded") \in Locals
        /\ Tally(ctx[w], j, "succeeded").msg = ctx[w].msg
    BY TallyType DEF Typed
  <2>2. Registered BY <1>4 DEF Registered, storeVars
  <2>3. Typed' BY <1>4, <2>1 DEF Typed, Set, storeVars
  <2>4. WorkerHasJob'
    BY <1>4, <2>1 DEF WorkerHasJob, Set, Typed, SyncPcs, InWalk, Refreshing
  <2> QED BY <1>4, <2>2, <2>3, <2>4, NoSyncSent
<1> QED BY <1>2, <1>3, <1>4

LEMMA RequeueChildInv ==
    ASSUME IInv, NEW w \in Workers, RequeueChild(w)
    PROVE  IInv'
<1> USE DEF IInv, RequeueChild
<1>0. /\ Registered
      /\ status' \in [Jobs -> RunStatus]
      /\ docStatus' \in [Docs -> RunStatus]
  BY DEF MarkQueued, Registered, Typed, RunStatus
<1>r. [ctx[w] EXCEPT !.row = [status |-> "queued", stamped |-> FALSE]] \in Locals
  BY SentRowType DEF Typed, Locals
<1>1. Typed'
  BY <1>0, <1>r DEF Typed, Set, Goto, Rest, WorkerPcs, InWalk, storeVars, requestVars,
     queueVars, workerVars, MarkQueued
<1>2. WorkerHasJob'
  BY <1>r DEF WorkerHasJob, SyncPcs, Refreshing, InWalk, Set, Goto, Rest, Typed, Locals,
     Blank, storeVars, requestVars, queueVars, workerVars, MarkQueued
<1>3. UNCHANGED <<reqPc, reqSync>> BY DEF storeVars, requestVars, queueVars, workerVars
<1>4. \A n \in Msgs : body'[n] = body[n] \/ body'[n] \in Children
  BY DEF Typed, WorkerHasJob, storeVars, requestVars, queueVars, workerVars, MarkQueued
<1>5. \A n \in Msgs : place'[n] = "unsent" => place[n] = "unsent" /\ body'[n] = body[n]
  BY DEF Typed, Places, storeVars, requestVars, queueVars, workerVars, MarkQueued
<1> QED BY <1>0, <1>1, <1>2, <1>3, <1>4, <1>5, NoSyncSent

LEMMA SendChildInv ==
    ASSUME IInv, NEW w \in Workers, NEW m \in Msgs, SendChild(w, m)
    PROVE  IInv'
<1> USE DEF IInv, SendChild
<1>c. ctx[w].child \in Children /\ ctx[w].child \in Jobs
  BY DEF WorkerHasJob, Children
<1>e. body[m] \notin Syncs
  BY NoJobAssumption, SyncAssumption DEF UnsentIsEmpty, EnqueueMessage
<1>0. Registered BY DEF Registered, storeVars
<1>1. Typed'
  BY <1>c, <1>e DEF Typed, Set, Goto, Rest, WorkerPcs, InWalk, storeVars, requestVars,
     queueVars, workerVars, EnqueueMessage, UnsentIsEmpty, Places, Children
<1>2. WorkerHasJob'
  BY <1>c, <1>e DEF WorkerHasJob, SyncPcs, Refreshing, InWalk, Set, Goto, Rest, Typed,
     Locals, Blank, storeVars, requestVars, queueVars, workerVars, EnqueueMessage,
     UnsentIsEmpty, Places, Children
<1>3. UNCHANGED <<reqPc, reqSync>> BY DEF storeVars, requestVars, queueVars, workerVars
<1>4. \A n \in Msgs : body'[n] = body[n] \/ body'[n] \in Children
  BY DEF Typed, WorkerHasJob, storeVars, requestVars, queueVars, workerVars,
     EnqueueMessage, UnsentIsEmpty, Places, Children
<1>5. \A n \in Msgs : place'[n] = "unsent" => place[n] = "unsent" /\ body'[n] = body[n]
  BY DEF Typed, Places, storeVars, requestVars, queueVars, workerVars, EnqueueMessage,
     UnsentIsEmpty, Places, Children
<1> QED BY <1>0, <1>1, <1>2, <1>3, <1>4, <1>5, NoSyncSent

LEMMA ChildAlreadySentInv ==
    ASSUME IInv, NEW w \in Workers, ChildAlreadySent(w)
    PROVE  IInv'
<1> USE DEF IInv, ChildAlreadySent
<1>t. /\ Tally(ctx[w], ctx[w].child, ctx[w].row.status) \in Locals
      /\ Tally(ctx[w], ctx[w].child, ctx[w].row.status).msg = ctx[w].msg
  BY TallyType DEF Typed
<1>0. Registered BY DEF Registered, storeVars
<1>1. Typed'
  BY <1>t DEF Typed, Set, Goto, Rest, WorkerPcs, InWalk, storeVars, requestVars,
     queueVars, workerVars
<1>2. WorkerHasJob'
  BY <1>t DEF WorkerHasJob, SyncPcs, Refreshing, InWalk, Set, Goto, Rest, Typed, Locals,
     Blank, storeVars, requestVars, queueVars, workerVars
<1>3. UNCHANGED <<reqPc, reqSync>> BY DEF storeVars, requestVars, queueVars, workerVars
<1>4. \A n \in Msgs : body'[n] = body[n] \/ body'[n] \in Children
  BY DEF Typed, WorkerHasJob, storeVars, requestVars, queueVars, workerVars
<1>5. \A n \in Msgs : place'[n] = "unsent" => place[n] = "unsent" /\ body'[n] = body[n]
  BY DEF Typed, Places, storeVars, requestVars, queueVars, workerVars
<1> QED BY <1>0, <1>1, <1>2, <1>3, <1>4, <1>5, NoSyncSent

LEMMA StampChildInv ==
    ASSUME IInv, NEW w \in Workers, StampChild(w)
    PROVE  IInv'
<1> USE DEF IInv, StampChild
<1>0. Registered BY DEF Registered, StampMessageId
<1>t. /\ Tally(ctx[w], ctx[w].child, "queued") \in Locals
      /\ Tally(ctx[w], ctx[w].child, "queued").msg = ctx[w].msg
  BY TallyType DEF Typed
<1>1. Typed'
  BY <1>0, <1>t DEF Typed, Set, Goto, Rest, WorkerPcs, InWalk, storeVars, requestVars,
     queueVars, workerVars, StampMessageId
<1>2. WorkerHasJob'
  BY <1>t DEF WorkerHasJob, SyncPcs, Refreshing, InWalk, Set, Goto, Rest, Typed, Locals,
     Blank, storeVars, requestVars, queueVars, workerVars, StampMessageId
<1>3. UNCHANGED <<reqPc, reqSync>> BY DEF storeVars, requestVars, queueVars, workerVars
<1>4. \A n \in Msgs : body'[n] = body[n] \/ body'[n] \in Children
  BY DEF Typed, WorkerHasJob, storeVars, requestVars, queueVars, workerVars,
     StampMessageId
<1>5. \A n \in Msgs : place'[n] = "unsent" => place[n] = "unsent" /\ body'[n] = body[n]
  BY DEF Typed, Places, storeVars, requestVars, queueVars, workerVars, StampMessageId
<1> QED BY <1>0, <1>1, <1>2, <1>3, <1>4, <1>5, NoSyncSent

LEMMA IngestTextInv ==
    ASSUME IInv, NEW w \in Workers, IngestText(w)
    PROVE  IInv'
<1> USE DEF IInv, IngestText
<1>0. /\ Registered
      /\ status' \in [Jobs -> RunStatus]
      /\ docStatus' \in [Docs -> RunStatus]
  BY MarkRunIsRegistered DEF RunStatus
<1>1. Typed'
  BY <1>0 DEF Typed, Set, Goto, Rest, WorkerPcs, InWalk, storeVars, requestVars,
     queueVars, workerVars, MarkRun
<1>2. WorkerHasJob'
  BY DEF WorkerHasJob, SyncPcs, Refreshing, InWalk, Set, Goto, Rest, Typed, Locals,
     Blank, storeVars, requestVars, queueVars, workerVars, MarkRun
<1>3. UNCHANGED <<reqPc, reqSync>> BY DEF storeVars, requestVars, queueVars, workerVars
<1>4. \A n \in Msgs : body'[n] = body[n] \/ body'[n] \in Children
  BY DEF Typed, WorkerHasJob, storeVars, requestVars, queueVars, workerVars, MarkRun
<1>5. \A n \in Msgs : place'[n] = "unsent" => place[n] = "unsent" /\ body'[n] = body[n]
  BY DEF Typed, Places, storeVars, requestVars, queueVars, workerVars, MarkRun
<1> QED BY <1>0, <1>1, <1>2, <1>3, <1>4, <1>5, NoSyncSent

LEMMA TextIngestedInv ==
    ASSUME IInv, NEW w \in Workers, TextIngested(w)
    PROVE  IInv'
<1> USE DEF IInv, TextIngested
<1>t. \A s : /\ Tally(ctx[w], ctx[w].child, s) \in Locals
            /\ Tally(ctx[w], ctx[w].child, s).msg = ctx[w].msg
  BY TallyType DEF Typed
<1>0. /\ Registered
      /\ status' \in [Jobs -> RunStatus]
      /\ docStatus' \in [Docs -> RunStatus]
  BY MarkRunIsRegistered DEF RunStatus
<1>1. Typed'
  BY <1>t, <1>0 DEF Typed, Set, Goto, Rest, WorkerPcs, InWalk, storeVars, requestVars,
     queueVars, workerVars, MarkRun
<1>2. WorkerHasJob'
  BY <1>t DEF WorkerHasJob, SyncPcs, Refreshing, InWalk, Set, Goto, Rest, Typed, Locals,
     Blank, storeVars, requestVars, queueVars, workerVars, MarkRun
<1>3. UNCHANGED <<reqPc, reqSync>> BY DEF storeVars, requestVars, queueVars, workerVars
<1>4. \A n \in Msgs : body'[n] = body[n] \/ body'[n] \in Children
  BY DEF Typed, WorkerHasJob, storeVars, requestVars, queueVars, workerVars, MarkRun
<1>5. \A n \in Msgs : place'[n] = "unsent" => place[n] = "unsent" /\ body'[n] = body[n]
  BY DEF Typed, Places, storeVars, requestVars, queueVars, workerVars, MarkRun
<1> QED BY <1>0, <1>1, <1>2, <1>3, <1>4, <1>5, NoSyncSent

LEMMA SyncCloseRunInv ==
    ASSUME IInv, NEW w \in Workers, SyncCloseRun(w)
    PROVE  IInv'
<1> USE DEF IInv, SyncCloseRun
<1>v. RunOf(CloseWith(w, ctx[w]).status) \in RunStatus \ {"absent"}
  BY VerdictType DEF CloseWith, State
<1>0. /\ Registered
      /\ status' \in [Jobs -> RunStatus]
      /\ docStatus' \in [Docs -> RunStatus]
  BY <1>v, MarkRunIsRegistered
<1>1. Typed'
  BY <1>v, <1>0 DEF Typed, Set, Goto, Rest, WorkerPcs, InWalk, storeVars, requestVars,
     queueVars, workerVars, MarkRun
<1>2. WorkerHasJob'
  BY <1>v DEF WorkerHasJob, SyncPcs, Refreshing, InWalk, Set, Goto, Rest, Typed, Locals,
     Blank, storeVars, requestVars, queueVars, workerVars, MarkRun
<1>3. UNCHANGED <<reqPc, reqSync>> BY DEF storeVars, requestVars, queueVars, workerVars
<1>4. \A n \in Msgs : body'[n] = body[n] \/ body'[n] \in Children
  BY DEF Typed, WorkerHasJob, storeVars, requestVars, queueVars, workerVars, MarkRun
<1>5. \A n \in Msgs : place'[n] = "unsent" => place[n] = "unsent" /\ body'[n] = body[n]
  BY DEF Typed, Places, storeVars, requestVars, queueVars, workerVars, MarkRun
<1> QED BY <1>0, <1>1, <1>2, <1>3, <1>4, <1>5, NoSyncSent

LEMMA SyncCloseStateInv ==
    ASSUME IInv, NEW w \in Workers, SyncCloseState(w)
    PROVE  IInv'
<1> USE DEF IInv, SyncCloseState
<1>j. JobOf(w) \in Syncs /\ JobOf(w) \in Jobs
  BY SyncAssumption DEF JobOf, WorkerHasJob, SyncPcs, InWalk
<1>s. CloseWith(w, ctx[w]) \in States BY <1>j, CloseWithType DEF Typed
<1>0. Registered BY DEF Registered, storeVars
<1>r. [Blank EXCEPT !.msg = ctx[w].msg, !.receipt = ctx[w].receipt] \in Locals
  BY BlankType DEF Typed, Locals
<1>1. Typed'
  BY <1>j, <1>s, <1>r DEF Typed, Set, Goto, Rest, WorkerPcs, InWalk, storeVars,
     requestVars, queueVars, workerVars
<1>2. WorkerHasJob'
  BY <1>j, <1>s, <1>r DEF WorkerHasJob, SyncPcs, Refreshing, InWalk, Set, Goto, Rest,
     Typed, Locals, Blank, storeVars, requestVars, queueVars, workerVars
<1>3. UNCHANGED <<reqPc, reqSync>> BY DEF storeVars, requestVars, queueVars, workerVars
<1>4. \A n \in Msgs : body'[n] = body[n] \/ body'[n] \in Children
  BY DEF Typed, WorkerHasJob, storeVars, requestVars, queueVars, workerVars
<1>5. \A n \in Msgs : place'[n] = "unsent" => place[n] = "unsent" /\ body'[n] = body[n]
  BY DEF Typed, Places, storeVars, requestVars, queueVars, workerVars
<1> QED BY <1>0, <1>1, <1>2, <1>3, <1>4, <1>5, NoSyncSent

LEMMA RegisterInv ==
    ASSUME IInv, NEW w \in Workers, Register(w)
    PROVE  IInv'
<1> USE DEF IInv, Register
<1>0. Registered BY DEF Registered, storeVars
<1>1. Typed'
  BY DEF Typed, Set, Goto, Rest, WorkerPcs, InWalk, storeVars, requestVars, queueVars,
     workerVars
<1>2. WorkerHasJob'
  BY DEF WorkerHasJob, SyncPcs, Refreshing, InWalk, Set, Goto, Rest, Typed, Locals,
     Blank, storeVars, requestVars, queueVars, workerVars
<1>3. UNCHANGED <<reqPc, reqSync>> BY DEF storeVars, requestVars, queueVars, workerVars
<1>4. \A n \in Msgs : body'[n] = body[n] \/ body'[n] \in Children
  BY DEF Typed, WorkerHasJob, storeVars, requestVars, queueVars, workerVars
<1>5. \A n \in Msgs : place'[n] = "unsent" => place[n] = "unsent" /\ body'[n] = body[n]
  BY DEF Typed, Places, storeVars, requestVars, queueVars, workerVars
<1> QED BY <1>0, <1>1, <1>2, <1>3, <1>4, <1>5, NoSyncSent

LEMMA RunChildInv ==
    ASSUME IInv, NEW w \in Workers, RunChild(w)
    PROVE  IInv'
<1> USE DEF IInv, RunChild
<1>0. /\ Registered
      /\ status' \in [Jobs -> RunStatus]
      /\ docStatus' \in [Docs -> RunStatus]
  BY DEF Registered, Typed, RunStatus
<1>1. Typed'
  BY <1>0 DEF Typed, Set, Goto, Rest, WorkerPcs, InWalk, storeVars, requestVars,
     queueVars, workerVars
<1>2. WorkerHasJob'
  BY DEF WorkerHasJob, SyncPcs, Refreshing, InWalk, Set, Goto, Rest, Typed, Locals,
     Blank, storeVars, requestVars, queueVars, workerVars
<1>3. UNCHANGED <<reqPc, reqSync>> BY DEF storeVars, requestVars, queueVars, workerVars
<1>4. \A n \in Msgs : body'[n] = body[n] \/ body'[n] \in Children
  BY DEF Typed, WorkerHasJob, storeVars, requestVars, queueVars, workerVars
<1>5. \A n \in Msgs : place'[n] = "unsent" => place[n] = "unsent" /\ body'[n] = body[n]
  BY DEF Typed, Places, storeVars, requestVars, queueVars, workerVars
<1> QED BY <1>0, <1>1, <1>2, <1>3, <1>4, <1>5, NoSyncSent

LEMMA WorkInv ==
    ASSUME IInv, NEW w \in Workers, Work(w)
    PROVE  IInv'
<1> USE DEF IInv, Work
<1>0. /\ Registered
      /\ status' \in [Jobs -> RunStatus]
      /\ docStatus' \in [Docs -> RunStatus]
  BY MarkRunIsRegistered DEF RunStatus, storeVars, Registered, Typed
<1>a. [ctx[w] EXCEPT !.then = "ack"] \in Locals
  BY DEF Typed, Locals
<1>d. [ctx[w] EXCEPT !.then = "defer"] \in Locals
  BY DEF Typed, Locals
<1>1. Typed'
  BY <1>0, <1>a, <1>d DEF Typed, Set, Goto, Rest, WorkerPcs, InWalk, storeVars,
     requestVars, queueVars, workerVars, MarkRun
<1>2. WorkerHasJob'
  BY <1>a, <1>d DEF WorkerHasJob, SyncPcs, Refreshing, InWalk, Set, Goto, Rest, Typed,
     Locals, Blank, storeVars, requestVars, queueVars, workerVars, MarkRun
<1>3. UNCHANGED <<reqPc, reqSync>> BY DEF storeVars, requestVars, queueVars, workerVars
<1>4. \A n \in Msgs : body'[n] = body[n] \/ body'[n] \in Children
  BY DEF Typed, WorkerHasJob, storeVars, requestVars, queueVars, workerVars, MarkRun
<1>5. \A n \in Msgs : place'[n] = "unsent" => place[n] = "unsent" /\ body'[n] = body[n]
  BY DEF Typed, Places, storeVars, requestVars, queueVars, workerVars, MarkRun
<1> QED BY <1>0, <1>1, <1>2, <1>3, <1>4, <1>5, NoSyncSent

LEMMA ChildFailedInv ==
    ASSUME IInv, NEW w \in Workers, ChildFailed(w)
    PROVE  IInv'
<1> USE DEF IInv, ChildFailed
<1>v. ctx[w].result \in RunStatus \ {"absent"}
  BY DEF Typed, Locals, WorkerHasJob, RunStatus
<1>0. /\ Registered
      /\ status' \in [Jobs -> RunStatus]
      /\ docStatus' \in [Docs -> RunStatus]
  BY <1>v, MarkRunIsRegistered
<1>r. [ctx[w] EXCEPT !.then = "idle"] \in Locals
  BY DEF Typed, Locals
<1>1. Typed'
  BY <1>v, <1>0, <1>r DEF Typed, Set, Goto, Rest, WorkerPcs, InWalk, storeVars,
     requestVars, queueVars, workerVars, MarkRun
<1>2. WorkerHasJob'
  BY <1>v, <1>r DEF WorkerHasJob, SyncPcs, Refreshing, InWalk, Set, Goto, Rest, Typed,
     Locals, Blank, storeVars, requestVars, queueVars, workerVars, MarkRun
<1>3. UNCHANGED <<reqPc, reqSync>> BY DEF storeVars, requestVars, queueVars, workerVars
<1>4. \A n \in Msgs : body'[n] = body[n] \/ body'[n] \in Children
  BY DEF Typed, WorkerHasJob, storeVars, requestVars, queueVars, workerVars, MarkRun
<1>5. \A n \in Msgs : place'[n] = "unsent" => place[n] = "unsent" /\ body'[n] = body[n]
  BY DEF Typed, Places, storeVars, requestVars, queueVars, workerVars, MarkRun
<1> QED BY <1>0, <1>1, <1>2, <1>3, <1>4, <1>5, NoSyncSent

LEMMA ReadSourceInv ==
    ASSUME IInv, NEW w \in Workers, ReadSource(w)
    PROVE  IInv'
<1> USE DEF IInv, ReadSource, storeVars, queueVars, requestVars
<1>1. Registered BY DEF Registered
<1>2. CASE Continue(w)
  <2>1. WorkerHasJob' /\ Typed' BY <1>2, ContinueInv DEF Refreshing, Typed
  <2> QED BY <1>1, <2>1, NoSyncSent
<1>3. CASE Goto(w, "readDocs") /\ Set(w, [ctx[w] EXCEPT !.state = source])
  <2>1. [ctx[w] EXCEPT !.state = source] \in Locals BY DEF Typed, Locals
  <2>2. Typed' BY <1>3, <2>1 DEF Typed, Goto, Set, WorkerPcs
  <2>3. WorkerHasJob'
    BY <1>3 DEF WorkerHasJob, Goto, Set, SyncPcs, InWalk, Refreshing, Typed, Locals
  <2> QED BY <1>1, <2>2, <2>3, NoSyncSent
<1> QED BY <1>2, <1>3

LEMMA ReadDocsInv ==
    ASSUME IInv, NEW w \in Workers, ReadDocs(w)
    PROVE  IInv'
<1> USE DEF IInv, ReadDocs
<1>s. /\ Recomputed(ctx[w].state) \in States
      /\ Recomputed(ctx[w].state).status # "none"
  BY RecomputedType, VerdictType DEF Typed, Locals, Recomputed, State
<1>0. Registered BY DEF Registered, storeVars
<1>r. [ctx[w] EXCEPT !.state = Recomputed(ctx[w].state)] \in Locals
  BY <1>s DEF Typed, Locals
<1>1. Typed'
  BY <1>s, <1>r DEF Typed, Set, Goto, Rest, WorkerPcs, InWalk, storeVars, requestVars,
     queueVars, workerVars
<1>2. WorkerHasJob'
  BY <1>s, <1>r DEF WorkerHasJob, SyncPcs, Refreshing, InWalk, Set, Goto, Rest, Typed,
     Locals, Blank, storeVars, requestVars, queueVars, workerVars
<1>3. UNCHANGED <<reqPc, reqSync>> BY DEF storeVars, requestVars, queueVars, workerVars
<1>4. \A n \in Msgs : body'[n] = body[n] \/ body'[n] \in Children
  BY DEF Typed, WorkerHasJob, storeVars, requestVars, queueVars, workerVars
<1>5. \A n \in Msgs : place'[n] = "unsent" => place[n] = "unsent" /\ body'[n] = body[n]
  BY DEF Typed, Places, storeVars, requestVars, queueVars, workerVars
<1> QED BY <1>0, <1>1, <1>2, <1>3, <1>4, <1>5, NoSyncSent

LEMMA MarkParentInv ==
    ASSUME IInv, NEW w \in Workers, MarkParent(w)
    PROVE  IInv'
<1> USE DEF IInv, MarkParent
<1>v. RunOf(ctx[w].state.status) \in RunStatus \ {"absent"}
  BY DEF Typed, Locals, States, WorkerHasJob, RunOf, SourceStatus, RunStatus
<1>0. /\ Registered
      /\ status' \in [Jobs -> RunStatus]
      /\ docStatus' \in [Docs -> RunStatus]
  BY <1>v, MarkRunIsRegistered
<1>1. Typed'
  BY <1>v, <1>0 DEF Typed, Set, Goto, Rest, WorkerPcs, InWalk, storeVars, requestVars,
     queueVars, workerVars, MarkRun
<1>2. WorkerHasJob'
  BY <1>v DEF WorkerHasJob, SyncPcs, Refreshing, InWalk, Set, Goto, Rest, Typed, Locals,
     Blank, storeVars, requestVars, queueVars, workerVars, MarkRun
<1>3. UNCHANGED <<reqPc, reqSync>> BY DEF storeVars, requestVars, queueVars, workerVars
<1>4. \A n \in Msgs : body'[n] = body[n] \/ body'[n] \in Children
  BY DEF Typed, WorkerHasJob, storeVars, requestVars, queueVars, workerVars, MarkRun
<1>5. \A n \in Msgs : place'[n] = "unsent" => place[n] = "unsent" /\ body'[n] = body[n]
  BY DEF Typed, Places, storeVars, requestVars, queueVars, workerVars, MarkRun
<1> QED BY <1>0, <1>1, <1>2, <1>3, <1>4, <1>5, NoSyncSent

LEMMA WriteSourceInv ==
    ASSUME IInv, NEW w \in Workers, WriteSource(w)
    PROVE  IInv'
<1> USE DEF IInv, WriteSource, storeVars, queueVars, requestVars
<1>1. Registered BY DEF Registered
<1>2. source' \in States BY DEF Typed, Locals
<1>3. WorkerHasJob' /\ Typed' BY <1>2, ContinueInv DEF Refreshing, Typed
<1> QED BY <1>1, <1>3, NoSyncSent

LEMMA AckInv ==
    ASSUME IInv, NEW w \in Workers, Ack(w)
    PROVE  IInv'
<1> USE DEF IInv, Ack
<1>0. Registered BY DEF Registered, storeVars
<1>b. Blank \in Locals
  BY BlankType
<1>1. Typed'
  BY <1>b DEF Typed, Set, Goto, Rest, WorkerPcs, InWalk, storeVars, requestVars,
     queueVars, workerVars, DeleteMessage, Places
<1>2. WorkerHasJob'
  BY <1>b DEF WorkerHasJob, SyncPcs, Refreshing, InWalk, Set, Goto, Rest, Typed, Locals,
     Blank, storeVars, requestVars, queueVars, workerVars, DeleteMessage, Places
<1>3. UNCHANGED <<reqPc, reqSync>> BY DEF storeVars, requestVars, queueVars, workerVars
<1>4. \A n \in Msgs : body'[n] = body[n] \/ body'[n] \in Children
  BY DEF Typed, WorkerHasJob, storeVars, requestVars, queueVars, workerVars,
     DeleteMessage, Places
<1>5. \A n \in Msgs : place'[n] = "unsent" => place[n] = "unsent" /\ body'[n] = body[n]
  BY DEF Typed, Places, storeVars, requestVars, queueVars, workerVars, DeleteMessage,
     Places
<1> QED BY <1>0, <1>1, <1>2, <1>3, <1>4, <1>5, NoSyncSent

LEMMA DeferInv ==
    ASSUME IInv, NEW w \in Workers, Defer(w)
    PROVE  IInv'
<1> USE DEF IInv, Defer
<1>0. Registered BY DEF Registered, storeVars
<1>b. Blank \in Locals
  BY BlankType
<1>1. Typed'
  BY <1>b DEF Typed, Set, Goto, Rest, WorkerPcs, InWalk, storeVars, requestVars,
     queueVars, workerVars, MakeVisible, Places
<1>2. WorkerHasJob'
  BY <1>b DEF WorkerHasJob, SyncPcs, Refreshing, InWalk, Set, Goto, Rest, Typed, Locals,
     Blank, storeVars, requestVars, queueVars, workerVars, MakeVisible, Places
<1>3. UNCHANGED <<reqPc, reqSync>> BY DEF storeVars, requestVars, queueVars, workerVars
<1>4. \A n \in Msgs : body'[n] = body[n] \/ body'[n] \in Children
  BY DEF Typed, WorkerHasJob, storeVars, requestVars, queueVars, workerVars,
     MakeVisible, Places
<1>5. \A n \in Msgs : place'[n] = "unsent" => place[n] = "unsent" /\ body'[n] = body[n]
  BY DEF Typed, Places, storeVars, requestVars, queueVars, workerVars, MakeVisible,
     Places
<1> QED BY <1>0, <1>1, <1>2, <1>3, <1>4, <1>5, NoSyncSent

LEMMA FailCopyInv ==
    ASSUME IInv, NEW w \in Workers, FailCopy(w)
    PROVE  IInv'
<1> USE DEF IInv, FailCopy
<1>0. Registered BY DEF Registered, storeVars
<1>1. Typed'
  BY DEF Typed, Set, Goto, Rest, WorkerPcs, InWalk, storeVars, requestVars, queueVars,
     workerVars, CopyToDlq
<1>2. WorkerHasJob'
  BY DEF WorkerHasJob, SyncPcs, Refreshing, InWalk, Set, Goto, Rest, Typed, Locals,
     Blank, storeVars, requestVars, queueVars, workerVars, CopyToDlq
<1>3. UNCHANGED <<reqPc, reqSync>> BY DEF storeVars, requestVars, queueVars, workerVars
<1>4. \A n \in Msgs : body'[n] = body[n] \/ body'[n] \in Children
  BY DEF Typed, WorkerHasJob, storeVars, requestVars, queueVars, workerVars, CopyToDlq
<1>5. \A n \in Msgs : place'[n] = "unsent" => place[n] = "unsent" /\ body'[n] = body[n]
  BY DEF Typed, Places, storeVars, requestVars, queueVars, workerVars, CopyToDlq
<1> QED BY <1>0, <1>1, <1>2, <1>3, <1>4, <1>5, NoSyncSent

LEMMA FailDeleteInv ==
    ASSUME IInv, NEW w \in Workers, FailDelete(w)
    PROVE  IInv'
<1> USE DEF IInv, FailDelete
<1>0. Registered BY DEF Registered, storeVars
<1>b. Blank \in Locals
  BY BlankType
<1>r. [ctx[w] EXCEPT !.result = "dead_letter"] \in Locals
  BY DEF Typed, Locals
<1>1. Typed'
  BY <1>b, <1>r DEF Typed, Set, Goto, Rest, WorkerPcs, InWalk, storeVars, requestVars,
     queueVars, workerVars, DeleteMessage, Project, Places
<1>2. WorkerHasJob'
  BY <1>b, <1>r DEF WorkerHasJob, SyncPcs, Refreshing, InWalk, Set, Goto, Rest, Typed,
     Locals, Blank, storeVars, requestVars, queueVars, workerVars, DeleteMessage,
     Project, Places
<1>3. UNCHANGED <<reqPc, reqSync>> BY DEF storeVars, requestVars, queueVars, workerVars
<1>4. \A n \in Msgs : body'[n] = body[n] \/ body'[n] \in Children
  BY DEF Typed, WorkerHasJob, storeVars, requestVars, queueVars, workerVars,
     DeleteMessage, Project, Places
<1>5. \A n \in Msgs : place'[n] = "unsent" => place[n] = "unsent" /\ body'[n] = body[n]
  BY DEF Typed, Places, storeVars, requestVars, queueVars, workerVars, DeleteMessage,
     Project, Places
<1> QED BY <1>0, <1>1, <1>2, <1>3, <1>4, <1>5, NoSyncSent

LEMMA FailReleaseInv ==
    ASSUME IInv, NEW w \in Workers, FailRelease(w)
    PROVE  IInv'
<1> USE DEF IInv, FailRelease
<1>0. Registered BY DEF Registered, storeVars
<1>b. Blank \in Locals
  BY BlankType
<1>r. \A r \in {"failed", "dead_letter"} : [ctx[w] EXCEPT !.result = r] \in Locals
  BY DEF Typed, Locals
<1>1. Typed'
  BY <1>b, <1>r DEF Typed, Set, Goto, Rest, WorkerPcs, InWalk, storeVars, requestVars,
     queueVars, workerVars, MakeVisible, Project, Places
<1>2. WorkerHasJob'
  BY <1>b, <1>r DEF WorkerHasJob, SyncPcs, Refreshing, InWalk, Set, Goto, Rest, Typed,
     Locals, Blank, storeVars, requestVars, queueVars, workerVars, MakeVisible, Project,
     Places
<1>3. UNCHANGED <<reqPc, reqSync>> BY DEF storeVars, requestVars, queueVars, workerVars
<1>4. \A n \in Msgs : body'[n] = body[n] \/ body'[n] \in Children
  BY DEF Typed, WorkerHasJob, storeVars, requestVars, queueVars, workerVars,
     MakeVisible, Project, Places
<1>5. \A n \in Msgs : place'[n] = "unsent" => place[n] = "unsent" /\ body'[n] = body[n]
  BY DEF Typed, Places, storeVars, requestVars, queueVars, workerVars, MakeVisible,
     Project, Places
<1> QED BY <1>0, <1>1, <1>2, <1>3, <1>4, <1>5, NoSyncSent

LEMMA SyncRaisesInv ==
    ASSUME IInv, NEW w \in Workers, SyncRaises(w)
    PROVE  IInv'
<1> USE DEF IInv, SyncRaises
<1>0. Registered BY DEF Registered, storeVars
<1>1. Typed'
  BY DEF Typed, Set, Goto, Rest, WorkerPcs, InWalk, storeVars, requestVars, queueVars,
     workerVars
<1>2. WorkerHasJob'
  BY DEF WorkerHasJob, SyncPcs, Refreshing, InWalk, Set, Goto, Rest, Typed, Locals,
     Blank, storeVars, requestVars, queueVars, workerVars
<1>3. UNCHANGED <<reqPc, reqSync>> BY DEF storeVars, requestVars, queueVars, workerVars
<1>4. \A n \in Msgs : body'[n] = body[n] \/ body'[n] \in Children
  BY DEF Typed, WorkerHasJob, storeVars, requestVars, queueVars, workerVars
<1>5. \A n \in Msgs : place'[n] = "unsent" => place[n] = "unsent" /\ body'[n] = body[n]
  BY DEF Typed, Places, storeVars, requestVars, queueVars, workerVars
<1> QED BY <1>0, <1>1, <1>2, <1>3, <1>4, <1>5, NoSyncSent

LEMMA SyncFailedRunInv ==
    ASSUME IInv, NEW w \in Workers, SyncFailedRun(w)
    PROVE  IInv'
<1> USE DEF IInv, SyncFailedRun
<1>0. /\ Registered
      /\ status' \in [Jobs -> RunStatus]
      /\ docStatus' \in [Docs -> RunStatus]
  BY MarkRunIsRegistered DEF RunStatus
<1>1. Typed'
  BY <1>0 DEF Typed, Set, Goto, Rest, WorkerPcs, InWalk, storeVars, requestVars,
     queueVars, workerVars, MarkRun
<1>2. WorkerHasJob'
  BY DEF WorkerHasJob, SyncPcs, Refreshing, InWalk, Set, Goto, Rest, Typed, Locals,
     Blank, storeVars, requestVars, queueVars, workerVars, MarkRun
<1>3. UNCHANGED <<reqPc, reqSync>> BY DEF storeVars, requestVars, queueVars, workerVars
<1>4. \A n \in Msgs : body'[n] = body[n] \/ body'[n] \in Children
  BY DEF Typed, WorkerHasJob, storeVars, requestVars, queueVars, workerVars, MarkRun
<1>5. \A n \in Msgs : place'[n] = "unsent" => place[n] = "unsent" /\ body'[n] = body[n]
  BY DEF Typed, Places, storeVars, requestVars, queueVars, workerVars, MarkRun
<1> QED BY <1>0, <1>1, <1>2, <1>3, <1>4, <1>5, NoSyncSent

LEMMA SyncFailedStateInv ==
    ASSUME IInv, NEW w \in Workers, SyncFailedState(w)
    PROVE  IInv'
<1> USE DEF IInv, SyncFailedState
<1>j. JobOf(w) \in Syncs /\ JobOf(w) \in Jobs
  BY SyncAssumption DEF JobOf, WorkerHasJob, SyncPcs, InWalk
<1>s. State("failed", JobOf(w), 0, 0, 1) \in States
  BY <1>j DEF State, States, SourceStatus
<1>0. Registered BY DEF Registered, storeVars
<1>1. Typed'
  BY <1>j, <1>s DEF Typed, Set, Goto, Rest, WorkerPcs, InWalk, storeVars, requestVars,
     queueVars, workerVars
<1>2. WorkerHasJob'
  BY <1>j, <1>s DEF WorkerHasJob, SyncPcs, Refreshing, InWalk, Set, Goto, Rest, Typed,
     Locals, Blank, storeVars, requestVars, queueVars, workerVars
<1>3. UNCHANGED <<reqPc, reqSync>> BY DEF storeVars, requestVars, queueVars, workerVars
<1>4. \A n \in Msgs : body'[n] = body[n] \/ body'[n] \in Children
  BY DEF Typed, WorkerHasJob, storeVars, requestVars, queueVars, workerVars
<1>5. \A n \in Msgs : place'[n] = "unsent" => place[n] = "unsent" /\ body'[n] = body[n]
  BY DEF Typed, Places, storeVars, requestVars, queueVars, workerVars
<1> QED BY <1>0, <1>1, <1>2, <1>3, <1>4, <1>5, NoSyncSent

LEMMA StepRaisesInv ==
    ASSUME IInv, NEW w \in Workers, StepRaises(w)
    PROVE  IInv'
<1> USE DEF IInv, StepRaises
<1>0. Registered BY DEF Registered, storeVars
<1>r. [Blank EXCEPT !.msg = ctx[w].msg, !.receipt = ctx[w].receipt] \in Locals
  BY BlankType DEF Typed, Locals
<1>1. Typed'
  BY <1>r DEF Typed, Set, Goto, Rest, WorkerPcs, InWalk, storeVars, requestVars,
     queueVars, workerVars
<1>2. WorkerHasJob'
  BY <1>r DEF WorkerHasJob, SyncPcs, Refreshing, InWalk, Set, Goto, Rest, Typed, Locals,
     Blank, storeVars, requestVars, queueVars, workerVars
<1>3. UNCHANGED <<reqPc, reqSync>> BY DEF storeVars, requestVars, queueVars, workerVars
<1>4. \A n \in Msgs : body'[n] = body[n] \/ body'[n] \in Children
  BY DEF Typed, WorkerHasJob, storeVars, requestVars, queueVars, workerVars
<1>5. \A n \in Msgs : place'[n] = "unsent" => place[n] = "unsent" /\ body'[n] = body[n]
  BY DEF Typed, Places, storeVars, requestVars, queueVars, workerVars
<1> QED BY <1>0, <1>1, <1>2, <1>3, <1>4, <1>5, NoSyncSent

LEMMA AckRaisesInv ==
    ASSUME IInv, NEW w \in Workers, AckRaises(w)
    PROVE  IInv'
<1> USE DEF IInv, AckRaises
<1>0. Registered BY DEF Registered, storeVars
<1>r. [Blank EXCEPT !.msg = ctx[w].msg, !.receipt = ctx[w].receipt] \in Locals
  BY BlankType DEF Typed, Locals
<1>1. Typed'
  BY <1>r DEF Typed, Set, Goto, Rest, WorkerPcs, InWalk, storeVars, requestVars,
     queueVars, workerVars
<1>2. WorkerHasJob'
  BY <1>r DEF WorkerHasJob, SyncPcs, Refreshing, InWalk, Set, Goto, Rest, Typed, Locals,
     Blank, storeVars, requestVars, queueVars, workerVars
<1>3. UNCHANGED <<reqPc, reqSync>> BY DEF storeVars, requestVars, queueVars, workerVars
<1>4. \A n \in Msgs : body'[n] = body[n] \/ body'[n] \in Children
  BY DEF Typed, WorkerHasJob, storeVars, requestVars, queueVars, workerVars
<1>5. \A n \in Msgs : place'[n] = "unsent" => place[n] = "unsent" /\ body'[n] = body[n]
  BY DEF Typed, Places, storeVars, requestVars, queueVars, workerVars
<1> QED BY <1>0, <1>1, <1>2, <1>3, <1>4, <1>5, NoSyncSent

LEMMA DiesInv ==
    ASSUME IInv, NEW w \in Workers, Dies(w)
    PROVE  IInv'
<1> USE DEF IInv, Dies
<1>0. Registered BY DEF Registered, storeVars
<1>b. Blank \in Locals
  BY BlankType
<1>1. Typed'
  BY <1>b DEF Typed, Set, Goto, Rest, WorkerPcs, InWalk, storeVars, requestVars,
     queueVars, workerVars
<1>2. WorkerHasJob'
  BY <1>b DEF WorkerHasJob, SyncPcs, Refreshing, InWalk, Set, Goto, Rest, Typed, Locals,
     Blank, storeVars, requestVars, queueVars, workerVars
<1>3. UNCHANGED <<reqPc, reqSync>> BY DEF storeVars, requestVars, queueVars, workerVars
<1>4. \A n \in Msgs : body'[n] = body[n] \/ body'[n] \in Children
  BY DEF Typed, WorkerHasJob, storeVars, requestVars, queueVars, workerVars
<1>5. \A n \in Msgs : place'[n] = "unsent" => place[n] = "unsent" /\ body'[n] = body[n]
  BY DEF Typed, Places, storeVars, requestVars, queueVars, workerVars
<1> QED BY <1>0, <1>1, <1>2, <1>3, <1>4, <1>5, NoSyncSent

LEMMA WorkerInv == IInv /\ WorkerNext => IInv'
<1> SUFFICES ASSUME IInv, NEW w \in Workers,
                    \/ \E m \in Msgs : Receive(w, m)
                    \/ WorkerStep(w) \/ SyncRaises(w) \/ StepRaises(w) \/ AckRaises(w)
                    \/ Dies(w)
             PROVE  IInv'
  BY DEF WorkerNext, WorkerMove
<1>1. CASE \E m \in Msgs : Receive(w, m) BY <1>1, ReceiveInv
<1>2. CASE SyncRaises(w) \/ StepRaises(w) \/ AckRaises(w) \/ Dies(w)
  BY <1>2, SyncRaisesInv, StepRaisesInv, AckRaisesInv, DiesInv
<1>3. CASE SyncBegin(w) \/ SyncOpenRun(w) \/ SyncOpenState(w) \/ SyncCloseRun(w)
           \/ SyncCloseState(w) \/ SyncFailedRun(w) \/ SyncFailedState(w)
  BY <1>3, SyncBeginInv, SyncOpenRunInv, SyncOpenStateInv, SyncCloseRunInv,
     SyncCloseStateInv, SyncFailedRunInv, SyncFailedStateInv
<1>4. CASE \E j \in Children : Visit(w, j) BY <1>4, VisitInv
<1>5. CASE \E m \in Msgs : SendChild(w, m) BY <1>5, SendChildInv
<1>6. CASE RequeueChild(w) \/ ChildAlreadySent(w) \/ StampChild(w) \/ IngestText(w)
           \/ TextIngested(w)
  BY <1>6, RequeueChildInv, ChildAlreadySentInv, StampChildInv, IngestTextInv,
     TextIngestedInv
<1>7. CASE Register(w) \/ RunChild(w) \/ Work(w) \/ ChildFailed(w)
  BY <1>7, RegisterInv, RunChildInv, WorkInv, ChildFailedInv
<1>8. CASE ReadSource(w) \/ ReadDocs(w) \/ MarkParent(w) \/ WriteSource(w)
  BY <1>8, ReadSourceInv, ReadDocsInv, MarkParentInv, WriteSourceInv
<1>9. CASE Ack(w) \/ Defer(w) \/ FailCopy(w) \/ FailDelete(w) \/ FailRelease(w)
  BY <1>9, AckInv, DeferInv, FailCopyInv, FailDeleteInv, FailReleaseInv
<1>10. CASE ReleaseRefused(w) BY <1>10, StepRaisesInv, DiesInv DEF ReleaseRefused
<1> QED BY <1>1, <1>2, <1>3, <1>4, <1>5, <1>6, <1>7, <1>8, <1>9, <1>10 DEF WorkerStep

-------------------------------------------------------------------------------
(* The steps of the queue. *)

LEMMA QueueInv ==
    ASSUME IInv, QueueNext, UNCHANGED <<storeVars, source, walked, requestVars, workerVars>>
    PROVE  IInv'
<1> USE DEF IInv, storeVars, requestVars, workerVars
<1>1. PICK m \in Msgs : VisibilityExpires(m) \/ Redrive(m) BY DEF QueueNext
<1>2. Registered BY DEF Registered
<1>3. /\ UNCHANGED <<body, receives>> /\ place' \in [Msgs -> Places]
      /\ \A n \in Msgs : place'[n] = "unsent" => place[n] = "unsent"
  BY <1>1 DEF VisibilityExpires, Redrive, Typed, Places
<1>4. Typed' BY <1>3 DEF Typed
<1>5. WorkerHasJob' BY <1>3 DEF WorkerHasJob
<1> QED BY <1>2, <1>3, <1>4, <1>5, NoSyncSent

-------------------------------------------------------------------------------
(* The steps of a request. *)

(* A request owes a message only once it has inserted the run, and no      *)
(* message of a run that is not registered was ever sent.                  *)
LEMMA RequestInv ==
    ASSUME IInv, NEW r \in Requesters, NEW k \in Syncs, Request(r, k)
    PROVE  IInv'
<1> USE DEF IInv, Request, RequestGoto
<1>k. k \in Jobs BY SyncAssumption
<1>p. /\ reqSync' = [reqSync EXCEPT ![r] = k]
      /\ UNCHANGED <<queueVars, source, walked, workerVars>>
  OBVIOUS
<1>1. CASE CreateQueued(k) /\ reqPc' = [reqPc EXCEPT ![r] = "openNew"]
  <2>1. /\ Registered /\ status'[k] # "absent"
        /\ status' \in [Jobs -> RunStatus] /\ docStatus' \in [Docs -> RunStatus]
    BY <1>1, <1>k, CreateQueuedIsRegistered
  <2>2. status[k] = "absent" BY <1>1 DEF CreateQueued
  <2>3. Typed' BY <1>p, <1>1, <2>1 DEF Typed, RequestPcs, queueVars, workerVars
  <2>4. RequestHasSync'
    BY <1>p, <1>1, <2>1, SyncAssumption DEF RequestHasSync, Registered, Typed
  <2>5. WorkerHasJob' /\ UnsentIsEmpty' /\ RequestedOnce'
    BY <1>p DEF WorkerHasJob, UnsentIsEmpty, RequestedOnce, queueVars, workerVars
  <2>6. SentIsRegistered'
    BY <1>p, <2>1, SyncAssumption DEF SentIsRegistered, Registered, queueVars
  <2>7. /\ \A m \in Msgs : body[m] # k
        /\ \A q \in Requesters : reqPc[q] # "idle" => reqSync[q] # k
    BY <2>2 DEF SentIsRegistered, RequestHasSync
  <2>8. OwesAlone' BY <1>p, <1>1, <2>7 DEF OwesAlone, Owes, Typed, queueVars
  <2> QED BY <2>3, <2>4, <2>5, <2>6, <2>8
<1>2. CASE status[k] # "absent" /\ reqPc' = [reqPc EXCEPT ![r] = "open"] /\ UNCHANGED storeVars
  <2>1. Typed' BY <1>p, <1>2 DEF Typed, RequestPcs, queueVars, workerVars, storeVars
  <2>2. RequestHasSync' BY <1>p, <1>2 DEF RequestHasSync, Typed, storeVars
  <2>3. WorkerHasJob' /\ UnsentIsEmpty' /\ RequestedOnce' /\ SentIsRegistered'
    BY <1>p, <1>2 DEF WorkerHasJob, UnsentIsEmpty, RequestedOnce, SentIsRegistered,
                      queueVars, workerVars, storeVars
  <2>4. OwesAlone' BY <1>p, <1>2 DEF OwesAlone, Owes, Typed, queueVars
  <2> QED BY <2>1, <2>2, <2>3, <2>4
<1> QED BY <1>1, <1>2

(* The steps that change nothing but what a request does next, if anything *)
(* about the source; none of them starts to owe a message.                 *)
LEMMA RequestGoesOn ==
    ASSUME IInv, NEW r \in Requesters, NEW p \in RequestPcs,
           reqPc' = [reqPc EXCEPT ![r] = p],
           \/ p # "idle" /\ reqPc[r] # "idle" /\ UNCHANGED reqSync
           \/ p = "idle" /\ reqSync' = [reqSync EXCEPT ![r] = NoJob],
           p \in {"openNew", "enqueue"} => Owes(r),
           UNCHANGED <<queueVars, status, docStatus, workerVars>>, source' \in States
    PROVE  IInv'
<1> USE DEF IInv, queueVars, workerVars
<1>1. Typed' BY DEF Typed
<1>2. RequestHasSync' BY DEF RequestHasSync, Typed
<1>3. WorkerHasJob' /\ UnsentIsEmpty' /\ RequestedOnce' /\ SentIsRegistered'
  BY DEF WorkerHasJob, UnsentIsEmpty, RequestedOnce, SentIsRegistered
<1>4. OwesAlone' BY DEF OwesAlone, Owes, Typed
<1> QED BY <1>1, <1>2, <1>3, <1>4

LEMMA RequestStateInv ==
    ASSUME IInv, NEW r \in Requesters, RequestState(r)
    PROVE  IInv'
<1> USE DEF IInv, RequestState, RequestGoto, RequestEnds
<1>1. reqSync[r] \in Jobs BY SyncAssumption DEF RequestHasSync
<1>2. source' \in States BY <1>1 DEF State, States, SourceStatus
<1>3. UNCHANGED <<queueVars, status, docStatus, workerVars>> BY DEF storeVars
<1>4. CASE reqPc[r] = "openNew"
  BY <1>2, <1>3, <1>4, RequestGoesOn DEF RequestPcs, Owes
<1>5. CASE reqPc[r] = "open"
  BY <1>2, <1>3, <1>5, RequestGoesOn DEF RequestPcs, Owes
<1> QED BY <1>4, <1>5

LEMMA RequestStampInv ==
    ASSUME IInv, NEW r \in Requesters, RequestStamp(r) \/ RequestDies(r)
    PROVE  IInv'
<1>1. /\ reqPc' = [reqPc EXCEPT ![r] = "idle"]
      /\ reqSync' = [reqSync EXCEPT ![r] = NoJob]
      /\ UNCHANGED <<queueVars, status, docStatus, workerVars, source>>
  BY DEF RequestStamp, RequestDies, RequestGoto, RequestEnds, StampMessageId, storeVars
<1>2. source' \in States BY <1>1 DEF IInv, Typed
<1> QED BY <1>1, <1>2, RequestGoesOn DEF RequestPcs

(* The one step that sends for a sync: the request owed the message, so    *)
(* there was none, and it owes nothing behind the step.                    *)
LEMMA RequestEnqueueInv ==
    ASSUME IInv, NEW r \in Requesters, NEW m \in Msgs, RequestEnqueue(r, m)
    PROVE  IInv'
<1> USE DEF IInv, RequestEnqueue, EnqueueMessage, RequestGoto, storeVars, workerVars
<1>1. reqSync[r] \in Syncs /\ reqSync[r] \in Jobs /\ status[reqSync[r]] # "absent"
  BY SyncAssumption DEF RequestHasSync
<1>2. Owes(r) BY DEF Owes
<1>3. \A n \in Msgs : body[n] # reqSync[r] BY <1>2 DEF OwesAlone
<1>4. body[m] \notin Syncs
  BY NoJobAssumption, SyncAssumption DEF UnsentIsEmpty
<1>5. Typed' BY <1>1 DEF Typed, Places, RequestPcs
<1>6. RequestHasSync' BY <1>1 DEF RequestHasSync, Typed
<1>7. WorkerHasJob' BY <1>4 DEF WorkerHasJob, Typed
<1>8. UnsentIsEmpty' BY DEF UnsentIsEmpty, Typed
<1>9. SentIsRegistered' BY <1>1 DEF SentIsRegistered, Typed
<1>10. OwesAlone' BY <1>2 DEF OwesAlone, Owes, Typed
<1>11. RequestedOnce' BY <1>3 DEF RequestedOnce, Typed
<1> QED BY <1>5, <1>6, <1>7, <1>8, <1>9, <1>10, <1>11

-------------------------------------------------------------------------------
(* The invariant. *)

LEMMA NextIInv == IInv /\ [Next]_vars => IInv'
<1> SUFFICES ASSUME IInv, [Next]_vars PROVE IInv' OBVIOUS
<1>1. CASE UNCHANGED vars
  BY <1>1 DEF vars, queueVars, storeVars, requestVars, workerVars, IInv, Typed,
     RequestHasSync, WorkerHasJob, UnsentIsEmpty, SentIsRegistered, OwesAlone, Owes,
     RequestedOnce
<1>2. CASE QueueNext /\ UNCHANGED <<storeVars, source, walked, requestVars, workerVars>>
  BY <1>2, QueueInv
<1>3. CASE RequestNext
  BY <1>3, RequestInv, RequestStateInv, RequestStampInv, RequestEnqueueInv
  DEF RequestNext, RequestStep
<1>4. CASE WorkerNext BY <1>4, WorkerInv
<1> QED BY <1>1, <1>2, <1>3, <1>4 DEF Next

(* Registered syncs, owed messages and sent ones agree in every state. *)
THEOREM Invariance == Spec => []IInv
<1> QED BY InitIInv, NextIInv, PTL DEF Spec

(* However often, and by however many tasks, a sync is requested under one *)
(* idempotency key, and whatever dies on the way, the queue never gets two *)
(* messages for it (request_source_sync, create_queued and the sync route).*)
THEOREM SyncIsRequestedOnce == Spec => []RequestedOnce
<1>1. IInv => RequestedOnce BY DEF IInv
<1> QED BY <1>1, Invariance, PTL

-------------------------------------------------------------------------------
(* Which steps register a sync: the run that the state of the source names, *)
(* and the one a refresh has read there, is registered already.             *)

SomeRun(k) == k = NoJob \/ status[k] # "absent"
RunsAreRegistered ==
    /\ SomeRun(source.run)
    /\ \A w \in Workers : SomeRun(ctx[w].state.run)

NoNewSync == \A k \in Syncs : status'[k] # "absent" => status[k] # "absent"

(* A step of a worker names no run but those it has at hand. *)
NamesKnownRuns(w) ==
    /\ source'.run \in {source.run, ctx[w].state.run}
       \/ (pc[w] \in SyncPcs /\ source'.run = JobOf(w))
    /\ \A v \in Workers \ {w} : ctx'[v] = ctx[v]
    /\ ctx'[w].state.run \in {NoJob, ctx[w].state.run, source.run}

LEMMA RunsStay ==
    ASSUME IInv, RunsAreRegistered, NEW w \in Workers, Registered, NamesKnownRuns(w)
    PROVE  RunsAreRegistered'
<1>1. \A k : k \in Jobs \cup {NoJob} /\ SomeRun(k) => k = NoJob \/ status'[k] # "absent"
  BY DEF SomeRun, Registered
<1>2. source.run \in Jobs \cup {NoJob}
  BY DEF IInv, Typed, States
<1>3. \A v \in Workers : ctx[v].state.run \in Jobs \cup {NoJob}
  BY DEF IInv, Typed, Locals, States
<1>4. pc[w] \in SyncPcs => JobOf(w) \in Jobs /\ SomeRun(JobOf(w))
  BY SyncAssumption DEF IInv, WorkerHasJob, SentIsRegistered, JobOf, SyncPcs, InWalk, SomeRun
<1>5. source'.run = NoJob \/ status'[source'.run] # "absent"
  BY <1>1, <1>2, <1>3, <1>4 DEF NamesKnownRuns, RunsAreRegistered
<1>6. \A v \in Workers : ctx'[v].state.run = NoJob \/ status'[ctx'[v].state.run] # "absent"
  BY <1>1, <1>2, <1>3 DEF NamesKnownRuns, RunsAreRegistered
<1> QED
  BY <1>5, <1>6 DEF RunsAreRegistered, SomeRun

(* What a worker keeps of a row, a tally or a message leaves the run it has read. *)
LEMMA BlankHasNoRun == Blank.state.run = NoJob
BY DEF Blank, NoState, State

LEMMA KeepsRun ==
    ASSUME Typed, NEW w \in Workers, NEW c, ctx' = [ctx EXCEPT ![w] = c],
           c.state.run \in {NoJob, ctx[w].state.run, source.run}
    PROVE  /\ \A v \in Workers \ {w} : ctx'[v] = ctx[v]
           /\ ctx'[w].state.run \in {NoJob, ctx[w].state.run, source.run}
BY DEF Typed

LEMMA TallyKeepsRun ==
    ASSUME NEW c \in Locals, NEW j, NEW s
    PROVE  Tally(c, j, s).state = c.state
<1> DEFINE o == c.open + (IF s \in {"queued", "running"} THEN 1 ELSE 0)
           f == c.failed + (IF s \in {"failed", "dead_letter"} THEN 1 ELSE 0)
           t == c.todo \ {j}
<1>1. Tally(c, j, s) = [c EXCEPT !.todo = t, !.child = NoJob, !.row = NoRow, !.open = o,
                                 !.failed = f]
  BY DEF Tally
<1> HIDE DEF o, f, t
<1> QED
  BY <1>1 DEF Locals

(* Steps that leave the store and the state of the source alone. *)
LEMMA QuietStep ==
    ASSUME IInv, NEW w \in Workers, UNCHANGED <<storeVars, source>>, NEW c,
           Set(w, c), c.state.run \in {NoJob, ctx[w].state.run, source.run}
    PROVE  Registered /\ NoNewSync /\ NamesKnownRuns(w)
<1>1. ctx' = [ctx EXCEPT ![w] = c] BY DEF Set
<1>2. NamesKnownRuns(w) BY <1>1, KeepsRun DEF IInv, NamesKnownRuns
<1> QED BY <1>2 DEF Registered, NoNewSync, storeVars

LEMMA IdleStep ==
    ASSUME IInv, NEW w \in Workers, UNCHANGED <<storeVars, source, ctx>>
    PROVE  Registered /\ NoNewSync /\ NamesKnownRuns(w)
BY DEF IInv, Typed, Registered, NoNewSync, NamesKnownRuns, storeVars

(* The last two records a step leaves: nothing, or the message alone. *)
LEMMA MessageAlone ==
    ASSUME NEW m, NEW n
    PROVE  [Blank EXCEPT !.msg = m, !.receipt = n].state.run = NoJob
BY DEF Blank, NoState, State

LEMMA ReceiveNames ==
    ASSUME IInv, NEW w \in Workers, NEW m \in Msgs, Receive(w, m)
    PROVE  Registered /\ NoNewSync /\ NamesKnownRuns(w)
BY MessageAlone, QuietStep DEF Receive

LEMMA ContinueNames ==
    ASSUME IInv, NEW w \in Workers, Continue(w), UNCHANGED <<storeVars, source>>
    PROVE  Registered /\ NoNewSync /\ NamesKnownRuns(w)
<1> DEFINE c == [Blank EXCEPT !.msg = ctx[w].msg, !.receipt = ctx[w].receipt,
                              !.then = ctx[w].then]
<1>1. c.state.run = NoJob BY DEF Blank, NoState, State
<1>2. Set(w, Blank) \/ Set(w, c) BY DEF Continue, Rest
<1> HIDE DEF c
<1> QED BY <1>1, <1>2, BlankHasNoRun, QuietStep

LEMMA EndsName ==
    ASSUME IInv, NEW w \in Workers,
           \/ Ack(w) \/ Defer(w) \/ FailCopy(w) \/ FailDelete(w) \/ FailRelease(w)
           \/ SyncRaises(w) \/ StepRaises(w) \/ AckRaises(w) \/ Dies(w)
    PROVE  Registered /\ NoNewSync /\ NamesKnownRuns(w)
<1>1. CASE Ack(w) \/ Defer(w) \/ Dies(w)
  BY <1>1, BlankHasNoRun, QuietStep DEF Ack, Defer, Dies, Rest
<1>2. CASE FailCopy(w) \/ SyncRaises(w)
  BY <1>2, IdleStep DEF FailCopy, SyncRaises
<1>3. CASE StepRaises(w) \/ AckRaises(w)
  BY <1>3, MessageAlone, QuietStep DEF StepRaises, AckRaises
<1>4. CASE FailDelete(w) \/ FailRelease(w)
  <2>1. PICK r : Project(w, r) /\ UNCHANGED <<storeVars, source>>
    BY <1>4 DEF FailDelete, FailRelease
  <2> DEFINE c == [ctx[w] EXCEPT !.result = r]
  <2>2. c.state.run = ctx[w].state.run BY DEF IInv, Typed, Locals
  <2>3. Set(w, Blank) \/ Set(w, c) BY <2>1 DEF Project, Rest
  <2> HIDE DEF c
  <2> QED BY <2>1, <2>2, <2>3, BlankHasNoRun, QuietStep
<1> QED BY <1>1, <1>2, <1>3, <1>4

(* A run that is marked: of a child, of the message's sync, or one a refresh read. *)
LEMMA MarkedStep ==
    ASSUME IInv, RunsAreRegistered, NEW w \in Workers, NEW j, NEW s \in RunStatus \ {"absent"},
           MarkRun(j, s), j \in Syncs => status[j] # "absent",
           source' = source, NEW c, Set(w, c) \/ ctx' = ctx,
           c.state.run \in {NoJob, ctx[w].state.run, source.run}
    PROVE  Registered /\ NoNewSync /\ NamesKnownRuns(w)
<1>1. Registered BY MarkRunIsRegistered DEF IInv
<1>2. NoNewSync BY SyncAssumption DEF NoNewSync, MarkRun, IInv, Typed
<1>3. CASE Set(w, c)
  <2>1. ctx' = [ctx EXCEPT ![w] = c] BY <1>3 DEF Set
  <2> QED BY <1>1, <1>2, <2>1, KeepsRun DEF IInv, NamesKnownRuns
<1>4. CASE ctx' = ctx
  BY <1>1, <1>2, <1>4 DEF NamesKnownRuns, IInv, Typed
<1> QED BY <1>3, <1>4

LEMMA SentIsRun ==
    ASSUME IInv, NEW w \in Workers
    PROVE  /\ JobOf(w) \in Syncs /\ pc[w] # "idle" => status[JobOf(w)] # "absent"
           /\ pc[w] \in SyncPcs => JobOf(w) \in Syncs /\ pc[w] # "idle"
BY DEF IInv, WorkerHasJob, SentIsRegistered, JobOf, SyncPcs, InWalk

(* The steps of a worker that mark a run and name none. *)
LEMMA MarksName ==
    ASSUME IInv, RunsAreRegistered, NEW w \in Workers,
           \/ SyncOpenRun(w) \/ SyncCloseRun(w) \/ SyncFailedRun(w) \/ IngestText(w)
           \/ TextIngested(w) \/ Work(w) \/ ChildFailed(w) \/ MarkParent(w)
    PROVE  Registered /\ NoNewSync /\ NamesKnownRuns(w)
<1> DEFINE x == ctx[w]
<1>c. x \in Locals /\ x.child \notin Syncs
  BY SyncAssumption, NoJobAssumption DEF IInv, Typed, Locals, Children
<1>s. {"running", "failed", "succeeded"} \subseteq RunStatus \ {"absent"}
  BY DEF RunStatus
<1>1. CASE SyncOpenRun(w) \/ SyncFailedRun(w)
  BY <1>1, <1>s, SentIsRun, MarkedStep DEF SyncOpenRun, SyncFailedRun
<1>2. CASE SyncCloseRun(w)
  <2>1. CloseWith(w, x) \in States
    BY <1>c, <1>2, CloseWithType, SentIsRun DEF SyncCloseRun, SyncPcs, InWalk
  <2>2. RunOf(CloseWith(w, x).status) \in RunStatus \ {"absent"}
    BY VerdictType DEF CloseWith, State
  <2> QED BY <1>2, <2>2, SentIsRun, MarkedStep DEF SyncCloseRun
<1>3. CASE IngestText(w)
  BY <1>3, <1>c, <1>s, MarkedStep DEF IngestText
<1>4. CASE TextIngested(w)
  <2>1. PICK s \in {"succeeded", "failed"} : MarkRun(x.child, s) /\ Set(w, Tally(x, x.child, s))
    BY <1>4 DEF TextIngested
  <2>2. Tally(x, x.child, s).state = x.state BY <1>c, TallyKeepsRun
  <2> QED BY <1>4, <1>c, <1>s, <2>1, <2>2, MarkedStep DEF TextIngested
<1>5. CASE Work(w)
  <2> DEFINE acks == [x EXCEPT !.then = "ack"]
             defers == [x EXCEPT !.then = "defer"]
  <2>1. acks.state = x.state /\ defers.state = x.state BY <1>c DEF Locals
  <2>2. source' = source
        /\ \/ MarkRun(JobOf(w), "succeeded") /\ Set(w, acks)
           \/ UNCHANGED storeVars /\ Set(w, defers)
           \/ UNCHANGED storeVars /\ UNCHANGED ctx
    BY <1>5 DEF Work
  <2> HIDE DEF acks, defers
  <2>3. JobOf(w) \in Syncs => status[JobOf(w)] # "absent"
    BY <1>5, SentIsRun DEF Work
  <2>4. CASE MarkRun(JobOf(w), "succeeded") /\ Set(w, acks)
    BY <1>s, <2>1, <2>2, <2>3, <2>4, MarkedStep
  <2>5. CASE UNCHANGED storeVars /\ Set(w, defers)
    BY <2>1, <2>2, <2>5, QuietStep
  <2>6. CASE UNCHANGED storeVars /\ UNCHANGED ctx
    BY <2>2, <2>6, IdleStep
  <2> QED BY <2>2, <2>4, <2>5, <2>6
<1>6. CASE ChildFailed(w)
  <2> DEFINE c == [x EXCEPT !.then = "idle"]
  <2>1. c.state = x.state BY <1>c DEF Locals
  <2>2. MarkRun(JobOf(w), x.result) /\ Set(w, c) /\ source' = source /\ pc[w] = "project"
    BY <1>6 DEF ChildFailed
  <2> HIDE DEF c
  <2>3. x.result \in RunStatus \ {"absent"}
    BY <1>c, <2>2 DEF IInv, WorkerHasJob, Locals, RunStatus
  <2> QED BY <2>1, <2>2, <2>3, SentIsRun, MarkedStep
<1>7. CASE MarkParent(w)
  <2>1. RunOf(x.state.status) \in RunStatus \ {"absent"}
    BY <1>7 DEF MarkParent, IInv, Typed, Locals, States, WorkerHasJob, RunOf, SourceStatus, RunStatus
  <2>2. x.state.run \in Syncs => status[x.state.run] # "absent"
    BY SyncAssumption, NoJobAssumption DEF RunsAreRegistered, SomeRun
  <2> QED BY <1>7, <2>1, <2>2, MarkedStep DEF MarkParent
<1> QED BY <1>1, <1>2, <1>3, <1>4, <1>5, <1>6, <1>7

(* The steps of a worker that write the row of a child. *)
LEMMA ChildrenName ==
    ASSUME IInv, NEW w \in Workers,
           \/ \E j \in Children : Visit(w, j)
           \/ RequeueChild(w) \/ (\E m \in Msgs : SendChild(w, m)) \/ ChildAlreadySent(w)
           \/ StampChild(w) \/ RunChild(w)
    PROVE  Registered /\ NoNewSync /\ NamesKnownRuns(w)
<1> DEFINE x == ctx[w]
<1>c. x \in Locals BY DEF IInv, Typed
<1>t. \A j, s : Tally(x, j, s).state = x.state BY <1>c, TallyKeepsRun
<1>1. CASE \E j \in Children : Visit(w, j)
  <2>1. PICK j \in Children : Visit(w, j) BY <1>1
  <2>2. PICK row : \/ CreateQueued(j) /\ Set(w, [x EXCEPT !.child = j, !.row = row])
                   \/ UNCHANGED storeVars /\ Set(w, [x EXCEPT !.child = j, !.row = row])
                   \/ UNCHANGED storeVars /\ Set(w, Tally(x, j, "succeeded"))
    BY <2>1 DEF Visit
  <2> DEFINE c == [x EXCEPT !.child = j, !.row = row]
  <2>3. c.state = x.state BY <1>c DEF Locals
  <2> HIDE DEF c
  <2>4. source' = source BY <2>1 DEF Visit
  <2>5. CASE CreateQueued(j) /\ Set(w, c)
    <3>1. Registered BY <2>5, CreateQueuedIsRegistered DEF IInv
    <3>2. NoNewSync BY <2>5 DEF NoNewSync, CreateQueued, IInv, Typed, Children
    <3>3. ctx' = [ctx EXCEPT ![w] = c] BY <2>5 DEF Set
    <3> QED BY <2>3, <2>4, <3>1, <3>2, <3>3, KeepsRun DEF IInv, NamesKnownRuns
  <2>6. CASE UNCHANGED storeVars /\ Set(w, c)
    BY <2>3, <2>4, <2>6, QuietStep
  <2>7. CASE UNCHANGED storeVars /\ Set(w, Tally(x, j, "succeeded"))
    BY <1>t, <2>4, <2>7, QuietStep
  <2> QED BY <2>2, <2>5, <2>6, <2>7 DEF c
<1>2. CASE RequeueChild(w)
  <2> DEFINE c == [x EXCEPT !.row = [status |-> "queued", stamped |-> FALSE]]
  <2>1. c.state = x.state BY <1>c DEF Locals
  <2>2. MarkQueued(x.child) /\ Set(w, c) /\ source' = source BY <1>2 DEF RequeueChild
  <2> HIDE DEF c
  <2>3. x.child \in Children BY <1>2 DEF RequeueChild, IInv, WorkerHasJob
  <2>4. Registered /\ NoNewSync
    BY <2>2, <2>3 DEF MarkQueued, Registered, NoNewSync, IInv, Typed, Children
  <2>5. ctx' = [ctx EXCEPT ![w] = c] BY <2>2 DEF Set
  <2> QED BY <2>1, <2>2, <2>4, <2>5, KeepsRun DEF IInv, NamesKnownRuns
<1>3. CASE \E m \in Msgs : SendChild(w, m)
  BY <1>3, IdleStep DEF SendChild
<1>4. CASE ChildAlreadySent(w)
  BY <1>4, <1>t, QuietStep DEF ChildAlreadySent
<1>5. CASE StampChild(w)
  <2>1. UNCHANGED <<status, source>> /\ Set(w, Tally(x, x.child, "queued"))
    BY <1>5 DEF StampChild, StampMessageId
  <2>2. Tally(x, x.child, "queued").state = x.state BY <1>t
  <2>3. ctx' = [ctx EXCEPT ![w] = Tally(x, x.child, "queued")] BY <2>1 DEF Set
  <2> QED BY <2>1, <2>2, <2>3, KeepsRun DEF IInv, NamesKnownRuns, Registered, NoNewSync
<1>6. CASE RunChild(w)
  <2>1. status' = [status EXCEPT ![JobOf(w)] = "running"] /\ UNCHANGED <<source, ctx>>
        /\ pc[w] = "run"
    BY <1>6 DEF RunChild
  <2>2. Registered BY <2>1 DEF Registered, IInv, Typed
  <2>3. NoNewSync BY <2>1, SentIsRun, SyncAssumption DEF NoNewSync, IInv, Typed
  <2> QED BY <2>1, <2>2, <2>3 DEF IInv, Typed, NamesKnownRuns
<1> QED BY <1>1, <1>2, <1>3, <1>4, <1>5, <1>6

(* The steps of a worker that write the state of the source or read it. *)
LEMMA StatesName ==
    ASSUME IInv, NEW w \in Workers,
           \/ SyncBegin(w) \/ Register(w) \/ SyncOpenState(w) \/ SyncCloseState(w)
           \/ SyncFailedState(w) \/ ReadSource(w) \/ ReadDocs(w) \/ WriteSource(w)
    PROVE  Registered /\ NoNewSync /\ NamesKnownRuns(w)
<1> DEFINE x == ctx[w]
<1>c. x \in Locals BY DEF IInv, Typed
<1>s. \A s, k, a, b, c : State(s, k, a, b, c).run = k BY DEF State
<1>1. CASE SyncBegin(w) \/ Register(w) BY <1>1, IdleStep DEF SyncBegin, Register
<1>2. CASE SyncOpenState(w)
  <2> DEFINE c == [x EXCEPT !.todo = Manifest[JobOf(w)]]
  <2>1. c.state = x.state BY <1>c DEF Locals
  <2>2. Set(w, c) /\ source'.run = JobOf(w) /\ UNCHANGED storeVars /\ pc[w] \in SyncPcs
    BY <1>2, <1>s DEF SyncOpenState, SyncPcs
  <2> HIDE DEF c
  <2>3. ctx' = [ctx EXCEPT ![w] = c] BY <2>2 DEF Set
  <2> QED BY <2>1, <2>2, <2>3, KeepsRun DEF IInv, NamesKnownRuns, Registered, NoNewSync, storeVars
<1>3. CASE SyncCloseState(w)
  <2> DEFINE c == [Blank EXCEPT !.msg = x.msg, !.receipt = x.receipt]
  <2>1. c.state.run = NoJob BY MessageAlone
  <2>2. Set(w, c) /\ source'.run = JobOf(w) /\ UNCHANGED storeVars /\ pc[w] \in SyncPcs
    BY <1>3, <1>s DEF SyncCloseState, CloseWith, SyncPcs, InWalk
  <2> HIDE DEF c
  <2>3. ctx' = [ctx EXCEPT ![w] = c] BY <2>2 DEF Set
  <2> QED BY <2>1, <2>2, <2>3, KeepsRun DEF IInv, NamesKnownRuns, Registered, NoNewSync, storeVars
<1>4. CASE SyncFailedState(w)
  BY <1>4, <1>s DEF SyncFailedState, SyncPcs, IInv, Typed, NamesKnownRuns, Registered,
                    NoNewSync, storeVars
<1>5. CASE ReadSource(w)
  <2>1. UNCHANGED <<storeVars, source>> BY <1>5 DEF ReadSource
  <2>2. CASE Continue(w) BY <2>1, <2>2, ContinueNames
  <2>3. CASE Set(w, [x EXCEPT !.state = source])
    <3>1. [x EXCEPT !.state = source].state = source BY <1>c DEF Locals
    <3> QED BY <2>1, <2>3, <3>1, QuietStep
  <2> QED BY <1>5, <2>2, <2>3 DEF ReadSource
<1>6. CASE ReadDocs(w)
  <2> DEFINE c == [x EXCEPT !.state = Recomputed(x.state)]
  <2>1. c.state.run = x.state.run BY <1>c, <1>s DEF Locals, Recomputed
  <2> HIDE DEF c
  <2> QED BY <1>6, <2>1, QuietStep DEF ReadDocs, c
<1>7. CASE WriteSource(w)
  <2>1. source' = x.state /\ Continue(w) /\ UNCHANGED storeVars BY <1>7 DEF WriteSource
  <2> DEFINE c == [Blank EXCEPT !.msg = x.msg, !.receipt = x.receipt, !.then = x.then]
  <2>2. c.state.run = NoJob BY DEF Blank, NoState, State
  <2>3. ctx' = [ctx EXCEPT ![w] = Blank] \/ ctx' = [ctx EXCEPT ![w] = c]
    BY <2>1 DEF Continue, Rest, Set
  <2> HIDE DEF c
  <2>4. /\ \A v \in Workers \ {w} : ctx'[v] = ctx[v]
        /\ ctx'[w].state.run \in {NoJob, x.state.run, source.run}
    BY <2>2, <2>3, BlankHasNoRun, KeepsRun DEF IInv
  <2> QED BY <2>1, <2>4 DEF NamesKnownRuns, Registered, NoNewSync, storeVars
<1> QED BY <1>1, <1>2, <1>3, <1>4, <1>5, <1>6, <1>7

LEMMA WorkerNames ==
    ASSUME IInv, RunsAreRegistered, NEW w \in Workers, WorkerMove(w) \/ AckRaises(w)
    PROVE  Registered /\ NoNewSync /\ NamesKnownRuns(w)
<1>1. CASE \E m \in Msgs : Receive(w, m) BY <1>1, ReceiveNames
<1>2. CASE SyncRaises(w) \/ StepRaises(w) \/ AckRaises(w) \/ Dies(w) BY <1>2, EndsName
<1>3. CASE ReleaseRefused(w) BY <1>3, EndsName DEF ReleaseRefused
<1>4. CASE WorkerStep(w) /\ ~ReleaseRefused(w)
  BY <1>4, EndsName, MarksName, ChildrenName, StatesName DEF WorkerStep
<1> QED BY <1>1, <1>2, <1>3, <1>4 DEF WorkerMove

-------------------------------------------------------------------------------
(* The scheduler: what it knows of time. *)

LEMMA Quotient ==
    ASSUME NEW a \in Int, NEW P \in Nat \ {0}
    PROVE  /\ a \div P \in Int
           /\ P * (a \div P) <= a
           /\ a < P * (a \div P) + P
OBVIOUS

LEMMA QuotientAtLeast ==
    ASSUME NEW a \in Int, NEW P \in Nat \ {0}, NEW q \in Int, P * q <= a
    PROVE  q <= a \div P
<1> DEFINE d == a \div P
<1>1. d \in Int /\ a < P * d + P BY Quotient
<1> HIDE DEF d
<1>2. SUFFICES ASSUME d + 1 <= q PROVE FALSE BY <1>1 DEF d
<1>3. P * (d + 1) <= P * q BY <1>1, <1>2
<1> QED BY <1>1, <1>3

LEMMA QuotientBelow ==
    ASSUME NEW a \in Int, NEW P \in Nat \ {0}, NEW q \in Int, a < P * q
    PROVE  a \div P < q
<1> DEFINE d == a \div P
<1>1. d \in Int /\ P * d <= a BY Quotient
<1> HIDE DEF d
<1>2. SUFFICES ASSUME q <= d PROVE FALSE BY <1>1 DEF d
<1>3. P * q <= P * d BY <1>1, <1>2
<1> QED BY <1>1, <1>3

(* Later instants are in the same slot or a later one. *)
LEMMA SlotsAreInOrder ==
    ASSUME NEW t \in Nat, NEW u \in Nat, t <= u
    PROVE  /\ SlotKey(t) \in Nat /\ SlotKey(u) \in Nat
           /\ SlotKey(t) <= SlotKey(u)
<1>p. Period \in Nat \ {0} /\ At \in 0..(Period - 1) BY ScheduleAssumption
<1>1. ASSUME NEW a \in Int, NEW b \in Int, a <= b
      PROVE  a \div Period \in Int /\ b \div Period \in Int /\ a \div Period <= b \div Period
  <2> DEFINE d == a \div Period
  <2>1. d \in Int /\ Period * d <= a /\ b \div Period \in Int BY <1>p, Quotient
  <2> HIDE DEF d
  <2>2. Period * d <= b BY <1>p, <1>1, <2>1
  <2>3. d <= b \div Period BY <1>p, <2>1, <2>2, QuotientAtLeast
  <2> QED BY <2>1, <2>3 DEF d
<1>2. t \div Period >= 0
  <2>1. Period * 0 <= t BY <1>p
  <2> QED BY <1>p, <2>1, QuotientAtLeast
<1>3. (t - At) \div Period >= -1
  <2>1. Period * (-1) <= t - At /\ t - At \in Int BY <1>p
  <2> QED BY <1>p, <2>1, QuotientAtLeast
<1>4. t \div Period <= u \div Period /\ t \div Period \in Int /\ u \div Period \in Int
  BY <1>1
<1>5. t - At \in Int /\ u - At \in Int /\ t - At <= u - At BY <1>p
<1>6. /\ (t - At) \div Period <= (u - At) \div Period
      /\ (t - At) \div Period \in Int /\ (u - At) \div Period \in Int
  BY <1>1, <1>5
<1> QED BY <1>2, <1>3, <1>4, <1>6 DEF SlotKey

(* is_due compares instants, slot_key divides them: a source that is due was *)
(* synced in an earlier slot.                                              *)
LEMMA DueIsLater ==
    ASSUME NEW t \in Nat, NEW last \in 0..t, IsDue(last, t)
    PROVE  SlotKey(last) < SlotKey(t)
<1>p. /\ Period \in Nat \ {0} /\ At \in 0..(Period - 1) /\ last # Never
      /\ Daily \in BOOLEAN
  BY ScheduleAssumption
<1>1. CASE ~Daily
  <2> DEFINE d == t \div Period
  <2>1. t - last >= Period BY <1>p, <1>1 DEF IsDue
  <2>2. d \in Int /\ t < Period * d + Period BY <1>p, Quotient
  <2> HIDE DEF d
  <2>3. last < Period * d BY <1>p, <2>1, <2>2
  <2>4. last \div Period < d BY <1>p, <2>2, <2>3, QuotientBelow
  <2> QED BY <1>1, <2>4 DEF SlotKey, d
<1>2. CASE Daily
  <2> DEFINE d == t \div Period
             q == IF d * Period + At > t THEN d - 1 ELSE d
  <2>1. last < DailyThreshold(t) BY <1>p, <1>2 DEF IsDue
  <2>2. d \in Int BY <1>p, Quotient
  <2>4. Period * d <= t BY <1>p, Quotient
  <2> HIDE DEF d
  <2>3. DailyThreshold(t) = Period * q + At /\ q \in Int
    BY <1>p, <2>2 DEF DailyThreshold, d
  <2>5. Period * q + At <= t BY <1>p, <2>2, <2>4
  <2> HIDE DEF q
  <2>6. last - At < Period * q /\ Period * q <= t - At /\ last - At \in Int /\ t - At \in Int
    BY <1>p, <2>1, <2>3, <2>5
  <2>7. (last - At) \div Period < q BY <1>p, <2>3, <2>6, QuotientBelow
  <2>8. q <= (t - At) \div Period BY <1>p, <2>3, <2>6, QuotientAtLeast
  <2>9. (last - At) \div Period \in Int /\ (t - At) \div Period \in Int
    BY <1>p, <2>6, Quotient
  <2> QED BY <1>2, <2>3, <2>7, <2>8, <2>9 DEF SlotKey
<1> QED BY <1>p, <1>1, <1>2

-------------------------------------------------------------------------------
(* The scheduler: which slots have a run. *)

SlotsBegun ==
    /\ now \in 0..Horizon
    /\ \A s \in DOMAIN KeyOf : status[KeyOf[s]] # "absent" => s <= SlotKey(now)

AutoIInv == IInv /\ RunsAreRegistered /\ SlotsBegun

LEMMA NowHasASlot ==
    ASSUME now \in 0..Horizon
    PROVE  SlotKey(now) \in DOMAIN KeyOf /\ KeyOf[SlotKey(now)] \in Syncs
<1>1. SlotKey(now) \in Nat /\ SlotKey(Horizon) \in Nat /\ SlotKey(now) <= SlotKey(Horizon)
  BY SlotsAreInOrder, ScheduleAssumption
<1> QED BY <1>1, ScheduleAssumption

LEMMA AutoInitIInv == AutoInit => AutoIInv
<1> SUFFICES ASSUME AutoInit PROVE AutoIInv OBVIOUS
<1>1. IInv BY InitIInv DEF AutoInit
<1>2. RunsAreRegistered
  BY DEF AutoInit, Init, SyncInit, RunsAreRegistered, SomeRun, NoState, State, Blank
<1>3. \A s \in DOMAIN KeyOf : KeyOf[s] \in Jobs BY ScheduleAssumption, SyncAssumption
<1>4. SlotsBegun
  BY <1>3, ScheduleAssumption DEF AutoInit, Init, StoreInit, SlotsBegun
<1> QED BY <1>1, <1>2, <1>4 DEF AutoIInv

(* Every step but a new request leaves the syncs that have a run. *)
LEMMA SameSlots ==
    ASSUME SlotsBegun, NoNewSync, UNCHANGED now
    PROVE  SlotsBegun'
BY ScheduleAssumption DEF SlotsBegun, NoNewSync, SlotKey

LEMMA TickIInv ==
    ASSUME AutoIInv, NEW r \in Requesters, Tick(r)
    PROVE  AutoIInv'
<1> DEFINE k == KeyOf[SlotKey(now)]
<1>1. SlotKey(now) \in DOMAIN KeyOf /\ k \in Syncs /\ k \in Jobs
  BY NowHasASlot, SyncAssumption DEF AutoIInv, SlotsBegun
<1>2. Request(r, k) /\ UNCHANGED now BY DEF Tick, timeVars
<1>3. IInv' BY <1>1, <1>2, RequestInv DEF AutoIInv
<1>4. /\ Registered /\ \A j \in Syncs : j # k /\ status'[j] # "absent" => status[j] # "absent"
      /\ UNCHANGED <<source, ctx>>
  BY <1>1, <1>2, CreateQueuedIsRegistered, SyncAssumption
  DEF Request, CreateQueued, AutoIInv, IInv, Typed, Registered, storeVars, workerVars
<1>5. RunsAreRegistered'
  <2>1. source.run \in Jobs \cup {NoJob} BY DEF AutoIInv, IInv, Typed, States
  <2>2. \A w \in Workers : ctx[w].state.run \in Jobs \cup {NoJob}
    BY DEF AutoIInv, IInv, Typed, Locals, States
  <2> QED BY <1>4, <2>1, <2>2 DEF AutoIInv, RunsAreRegistered, SomeRun, Registered
<1> HIDE DEF k
<1>6. \A s \in DOMAIN KeyOf : KeyOf[s] \in Syncs /\ (KeyOf[s] = k => s = SlotKey(now))
  BY <1>1, ScheduleAssumption DEF k
<1>7. SlotKey(now)' = SlotKey(now) BY <1>2 DEF SlotKey
<1>8. SlotKey(now) \in Nat /\ now' \in 0..Horizon
  BY <1>2, SlotsAreInOrder DEF AutoIInv, SlotsBegun
<1>9. SlotsBegun'
  BY <1>4, <1>6, <1>7, <1>8 DEF AutoIInv, SlotsBegun
<1> QED BY <1>3, <1>5, <1>9 DEF AutoIInv

LEMMA ClockIInv ==
    ASSUME AutoIInv, ClockTicks
    PROVE  AutoIInv'
<1>1. now' = now + 1 /\ now < Horizon /\ UNCHANGED vars BY DEF ClockTicks
<1>2. IInv' BY <1>1, NextIInv DEF AutoIInv
<1>3. RunsAreRegistered'
  BY <1>1 DEF vars, storeVars, workerVars, AutoIInv, RunsAreRegistered, SomeRun
<1>4. now \in Nat /\ now' \in Nat /\ now <= now' /\ now' \in 0..Horizon
  BY <1>1, ScheduleAssumption DEF AutoIInv, SlotsBegun
<1>5. SlotKey(now) <= SlotKey(now)' /\ SlotKey(now) \in Nat /\ SlotKey(now)' \in Nat
  <2>1. SlotKey(now)' = SlotKey(now') BY DEF SlotKey
  <2> QED BY <1>4, <2>1, SlotsAreInOrder
<1>6. status' = status BY <1>1 DEF vars, storeVars
<1>7. \A s \in DOMAIN KeyOf : s \in Nat
  BY ScheduleAssumption
<1>8. SlotsBegun' BY <1>4, <1>5, <1>6, <1>7 DEF AutoIInv, SlotsBegun
<1> QED BY <1>2, <1>3, <1>8 DEF AutoIInv

(* The other steps: of the queue, of a request under way, of a worker. *)
LEMMA OtherStepIInv ==
    ASSUME AutoIInv, UNCHANGED timeVars,
           \/ CalmStep \/ \E r \in Requesters : RequestDies(r)
    PROVE  AutoIInv'
<1>t. UNCHANGED now BY DEF timeVars
<1>j. /\ source.run \in Jobs \cup {NoJob}
      /\ \A w \in Workers : ctx[w].state.run \in Jobs \cup {NoJob}
  BY DEF AutoIInv, IInv, Typed, Locals, States
<1>1. CASE \E m \in Msgs : Redrive(m)
             /\ UNCHANGED <<storeVars, source, walked, requestVars, workerVars>>
  <2>1. IInv' BY <1>1, QueueInv DEF QueueNext, AutoIInv
  <2>2. UNCHANGED <<status, source, ctx>> BY <1>1 DEF storeVars, workerVars
  <2> QED BY <1>t, <2>1, <2>2, SameSlots DEF AutoIInv, RunsAreRegistered, SomeRun, NoNewSync
<1>2. CASE \E r \in Requesters : RequestStep(r) \/ RequestDies(r)
  <2>1. PICK r \in Requesters : RequestStep(r) \/ RequestDies(r) BY <1>2
  <2>2. IInv'
    BY <2>1, RequestStateInv, RequestStampInv, RequestEnqueueInv DEF RequestStep, AutoIInv
  <2>3. UNCHANGED <<status, ctx>>
    BY <2>1 DEF RequestStep, RequestDies, RequestState, RequestStamp, RequestEnqueue,
                StampMessageId, storeVars, workerVars
  <2>4. source'.run = source.run \/ SomeRun(source'.run)
    <3>1. RequestState(r) => source'.run = reqSync[r] /\ SomeRun(reqSync[r])
      BY DEF RequestState, State, SomeRun, AutoIInv, IInv, RequestHasSync
    <3>2. ~RequestState(r) => source' = source
      BY <2>1 DEF RequestStep, RequestDies, RequestStamp, RequestEnqueue
    <3> QED BY <3>1, <3>2
  <2>5. RunsAreRegistered'
    BY <2>3, <2>4 DEF AutoIInv, RunsAreRegistered, SomeRun
  <2> QED BY <1>t, <2>2, <2>3, <2>5, SameSlots DEF AutoIInv, NoNewSync
<1>3. CASE \E w \in Workers : WorkerStep(w) \/ \E m \in Msgs : Receive(w, m)
  <2>1. PICK w \in Workers : WorkerMove(w) BY <1>3 DEF WorkerMove
  <2>2. IInv' BY <2>1, WorkerInv DEF WorkerNext, AutoIInv
  <2>3. Registered /\ NoNewSync /\ NamesKnownRuns(w) BY <2>1, WorkerNames DEF AutoIInv
  <2>4. RunsAreRegistered' BY <2>3, RunsStay DEF AutoIInv
  <2> QED BY <1>t, <2>2, <2>3, <2>4, SameSlots DEF AutoIInv
<1> QED BY <1>1, <1>2, <1>3 DEF CalmStep

LEMMA RestartIInv == AutoIInv /\ [RestartNext]_<<vars, timeVars>> => AutoIInv'
<1> SUFFICES ASSUME AutoIInv, [RestartNext]_<<vars, timeVars>> PROVE AutoIInv' OBVIOUS
<1>1. CASE UNCHANGED <<vars, timeVars>>
  <2>1. IInv' BY <1>1, NextIInv DEF AutoIInv
  <2>2. UNCHANGED <<status, source, ctx, now>>
    BY <1>1 DEF vars, storeVars, workerVars, timeVars
  <2> QED BY <2>1, <2>2, SameSlots DEF AutoIInv, RunsAreRegistered, SomeRun, NoNewSync
<1>2. CASE ClockTicks BY <1>2, ClockIInv
<1>3. CASE \E r \in Requesters : Tick(r) BY <1>3, TickIInv
<1>4. CASE CalmStep /\ UNCHANGED timeVars BY <1>4, OtherStepIInv
<1>5. CASE \E r \in Requesters : RequestDies(r) /\ UNCHANGED timeVars BY <1>5, OtherStepIInv
<1> QED BY <1>1, <1>2, <1>3, <1>4, <1>5 DEF RestartNext, AutoNext

LEMMA AutoInvariance == RestartSpec => []AutoIInv
BY AutoInitIInv, RestartIInv, PTL DEF RestartSpec

(* The scheduler posts each slot once, by however many services that tick at *)
(* the same time and restart anywhere, and no slot before it begins; for any *)
(* schedule, daily or by interval (sync_scheduler.run_due_once, slot_key).  *)
THEOREM SlotsEnqueuedOnce == RestartSpec => []SlotEnqueuedOnce
<1>1. AutoIInv => SlotEnqueuedOnce
  <2> SUFFICES ASSUME AutoIInv PROVE SlotEnqueuedOnce OBVIOUS
  <2>1. RequestedOnce BY DEF AutoIInv, IInv
  <2>2. \A m \in Msgs, s \in DOMAIN KeyOf : body[m] = KeyOf[s] => s <= SlotKey(now)
    BY ScheduleAssumption DEF AutoIInv, IInv, SentIsRegistered, SlotsBegun
  <2> QED BY <2>1, <2>2 DEF SlotEnqueuedOnce
<1> QED BY <1>1, AutoInvariance, PTL

(* is_due and slot_key agree for every schedule and at every instant: a slot *)
(* that is due is later than the one the source was synced in.             *)
THEOREM DueSlotsAreNew == RestartSpec => []DueMeansNewSlot
<1>1. AutoIInv => DueMeansNewSlot
  <2>1. now \in 0..Horizon => now \in Nat BY ScheduleAssumption
  <2> QED BY <2>1, DueIsLater DEF AutoIInv, SlotsBegun, DueMeansNewSlot
<1> QED BY <1>1, AutoInvariance, PTL

-------------------------------------------------------------------------------
(* No child is orphaned while one worker serves the queue and the delete of *)
(* a message whose work is recorded is not refused.  Two facts carry it.  A *)
(* message leaves the queue unparked only when its child has succeeded; and *)
(* a child without a message whose text is not indexed either (Open) is in  *)
(* the listing of a sync that has a message, will not take itself for done, *)
(* and has not walked past that child.                                      *)

SentIn(b, j) == \E m \in Msgs : b[m] = j
KeptIn(at, parked, m) == at[m] \in {"visible", "inflight"} \/ m \in parked
AckedIn(b, at, parked, j) ==
    \E m \in Msgs : b[m] = j /\ at[m] = "gone" /\ m \notin parked
DoneIn(st, j) ==
    st[j] \in {"absent", "succeeded"} \/ (st[j] = "failed" /\ j \notin PdfJobs)
Open(st, b, j) == ~DoneIn(st, j) /\ ~SentIn(b, j)

(* Will the sync walk when its message comes, and is the worker past j?     *)
WillWalk(st, k) == st[k] # "succeeded" \/ k \in Forced
Behind(p, c, j) == p = "ack" \/ (p \in InWalk /\ j \notin c.todo)

AtChild == {"requeue", "send", "stampChild", "ingest", "ingested"}
OfChild == {"register", "run", "work", "project"} \cup Refreshing

MessageHeld(w) ==
    /\ pc[w] # "idle" =>
          KeptIn(place, dlq, ctx[w].msg) /\ place[ctx[w].msg] # "unsent"
    /\ pc[w] = "failDelete" => ctx[w].msg \in dlq

ChildWorked(w) ==
    /\ pc[w] \in OfChild => JobOf(w) \in Children
    /\ pc[w] = "ack" /\ JobOf(w) \in Children => status[JobOf(w)] = "succeeded"
    /\ pc[w] \in Refreshing /\ ctx[w].then = "ack" => status[JobOf(w)] = "succeeded"
    /\ pc[w] \notin {"idle", "register", "ack"} /\ JobOf(w) \in Children =>
          ~AckedIn(body, place, dlq, JobOf(w))

Walks(w) ==
    /\ pc[w] \in InWalk => ctx[w].todo \subseteq Manifest[JobOf(w)]
    /\ pc[w] \in (InWalk \ {"closeState"}) \cup {"openState"} => status[JobOf(w)] = "running"
    /\ pc[w] = "closeState" => ctx[w].todo = {}
    /\ pc[w] \in AtChild =>
          /\ ctx[w].child \in ctx[w].todo
          /\ status[ctx[w].child] # "absent"
          /\ ~AckedIn(body, place, dlq, ctx[w].child)
          /\ ctx[w].child \in PdfJobs <=> pc[w] \notin {"ingest", "ingested"}
    /\ pc[w] = "stampChild" => SentIn(body, ctx[w].child)
    /\ pc[w] = "send" /\ ~Owed(ctx[w].row) => SentIn(body, ctx[w].child)

(* What a refresh has found complete was complete, and is still.            *)
RefreshIsTrue(w) ==
    /\ source.run \in Syncs \cup {NoJob}
    /\ ctx[w].state.run \in Syncs \cup {NoJob}
    /\ pc[w] \in {"readDocs", "markParent"} => ctx[w].state.run \in Syncs
    /\ pc[w] = "markParent" /\ ctx[w].state.status = "succeeded" =>
          \A j \in Children : status[j] \in {"absent", "succeeded"}

SentHasJob == \A m \in Msgs : place[m] # "unsent" => body[m] \in Jobs
AckedSucceeded ==
    \A j \in Children : AckedIn(body, place, dlq, j) => status[j] = "succeeded"
UnsentIsFresh == \A j \in Children : ~SentIn(body, j) =>
    j \notin stamped /\ (j \in PdfJobs => status[j] \in {"absent", "queued"})
DocsAgree == \A j \in Children : docStatus[DocOf[j]] = status[j]

Answered(w) == \A j \in Children : Open(status, body, j) =>
    \E m \in Msgs :
        /\ body[m] \in Syncs /\ j \in Manifest[body[m]]
        /\ KeptIn(place, dlq, m) /\ WillWalk(status, body[m])
        /\ ctx[w].msg = m => ~Behind(pc[w], ctx[w], j)

AtWorker(w) == MessageHeld(w) /\ ChildWorked(w) /\ Walks(w) /\ RefreshIsTrue(w)
OrphanInv(w) ==
    AtWorker(w) /\ SentHasJob /\ AckedSucceeded /\ UnsentIsFresh /\ DocsAgree
    /\ Answered(w)

LEMMA OrphanInvSuffices ==
    ASSUME NEW w \in Workers, IInv, OrphanInv(w)
    PROVE  NoOrphanChild
<1> SUFFICES ASSUME NEW j \in Children, status[j] # "absent", status[j] # "succeeded",
                    ~(status[j] = "failed" /\ j \notin PdfJobs)
             PROVE  \/ \E m \in Msgs : body[m] = j /\ (Live(m) \/ m \in dlq)
                    \/ \E m \in Msgs : /\ body[m] \in Syncs /\ j \in Manifest[body[m]]
                                       /\ Live(m) \/ m \in dlq
  BY DEF NoOrphanChild
<1>1. CASE SentIn(body, j)
  <2>1. PICK m \in Msgs : body[m] = j BY <1>1 DEF SentIn
  <2>2. place[m] \in Places /\ place[m] # "unsent"
    BY <2>1, NoJobAssumption DEF IInv, Typed, UnsentIsEmpty, Children
  <2>3. ~AckedIn(body, place, dlq, j) BY DEF OrphanInv, AckedSucceeded
  <2>4. place[m] = "gone" => m \in dlq BY <2>1, <2>3 DEF AckedIn
  <2> QED BY <2>1, <2>2, <2>4 DEF Live, Places
<1>2. CASE ~SentIn(body, j)
  <2>1. Open(status, body, j) BY <1>2 DEF Open, DoneIn
  <2> QED BY <2>1 DEF OrphanInv, Answered, KeptIn, Live
<1> QED BY <1>1, <1>2

LEMMA OrphanInit ==
    ASSUME NEW w \in Workers, Init
    PROVE  OrphanInv(w)
<1> USE DEF Init, QueueInit, StoreInit, SyncInit
<1>1. \A j \in Children : ~SentIn(body, j) /\ ~AckedIn(body, place, dlq, j)
  BY NoJobAssumption DEF SentIn, AckedIn, Children
<1>2. source.run = NoJob /\ ctx[w].state.run = NoJob BY DEF Blank, NoState, State
<1>3. AtWorker(w)
  BY <1>2 DEF AtWorker, MessageHeld, ChildWorked, Walks, RefreshIsTrue, OfChild,
     Refreshing, AtChild, InWalk
<1>4. SentHasJob /\ AckedSucceeded /\ UnsentIsFresh
  BY <1>1 DEF SentHasJob, AckedSucceeded, UnsentIsFresh, Children
<1>5. DocsAgree BY DocOfAssumption DEF DocsAgree, Children
<1>6. Answered(w) BY DEF Answered, Open, DoneIn, Children
<1> QED BY <1>3, <1>4, <1>5, <1>6 DEF OrphanInv

(* Steps that record nothing: the worker may move past no child that is open *)
(* unless its sync would not have walked.                                   *)
PassesNone(w) ==
    \A j \in Children :
        (/\ Open(status, body, j) /\ Behind(pc'[w], ctx'[w], j)
         /\ body[ctx'[w].msg] \in Syncs /\ j \in Manifest[body[ctx'[w].msg]]) =>
              \/ ctx'[w].msg = ctx[w].msg /\ Behind(pc[w], ctx[w], j)
              \/ ~WillWalk(status, body[ctx'[w].msg])

LEMMA NothingRecorded ==
    ASSUME NEW w \in Workers, OrphanInv(w), AtWorker(w)', PassesNone(w),
           UNCHANGED <<body, place, dlq, status, docStatus, stamped>>
    PROVE  OrphanInv(w)'
<1>1. SentHasJob' /\ AckedSucceeded' /\ UnsentIsFresh' /\ DocsAgree'
  BY DEF OrphanInv, SentHasJob, AckedSucceeded, UnsentIsFresh, DocsAgree
<1>2. Answered(w)' BY DEF OrphanInv, Answered, PassesNone
<1> QED BY <1>1, <1>2 DEF OrphanInv

(* Steps that mark a run: children have one row each.                       *)
LEMMA RunRecorded ==
    ASSUME NEW w \in Workers, IInv, OrphanInv(w), AtWorker(w)', Answered(w)',
           NEW j \in Jobs, NEW s,
           UNCHANGED <<body, place, dlq>>,
           status' = [status EXCEPT ![j] = s],
           docStatus' = [docStatus EXCEPT ![DocOf[j]] = s],
           \A i \in Children : i \in stamped' => i \in stamped \/ SentIn(body, i),
           j \in Children =>
               /\ AckedIn(body, place, dlq, j) => s = "succeeded"
               /\ j \in PdfJobs => SentIn(body, j) \/ s = "queued"
    PROVE  OrphanInv(w)'
<1>1. status \in [Jobs -> RunStatus] /\ docStatus \in [Docs -> RunStatus]
  BY DEF IInv, Typed
<1>2. AckedSucceeded' BY <1>1 DEF OrphanInv, AckedSucceeded, Children
<1>3. UnsentIsFresh' BY <1>1 DEF OrphanInv, UnsentIsFresh, Children
<1>4. \A i \in Children : DocOf[i] = DocOf[j] => i = j
  BY OneJobAssumption, SyncAssumption DEF Children
<1>5. DocsAgree'
  BY <1>1, <1>4, DocOfAssumption DEF OrphanInv, DocsAgree, Children
<1>6. SentHasJob' BY DEF OrphanInv, SentHasJob
<1> QED BY <1>2, <1>3, <1>5, <1>6 DEF OrphanInv

(* The facts of the worker's place that most steps need. *)
LEMMA AtWork ==
    ASSUME NEW w \in Workers, IInv, OrphanInv(w)
    PROVE  /\ ctx[w] \in Locals /\ pc[w] \in WorkerPcs
           /\ pc[w] # "idle" => ctx[w].msg \in Msgs /\ JobOf(w) \in Jobs
           /\ pc[w] \in SyncPcs => JobOf(w) \in Syncs
           /\ pc[w] \in OfChild => JobOf(w) \in Children
           /\ Syncs \subseteq Jobs /\ Children \subseteq Jobs
           /\ \A j \in Children : j \notin Syncs
           /\ AtWorker(w)
<1>1. pc[w] # "idle" => ctx[w].msg \in Msgs /\ (pc[w] \in SyncPcs => JobOf(w) \in Syncs)
  BY DEF IInv, WorkerHasJob, JobOf
<1>2. pc[w] # "idle" => JobOf(w) \in Jobs
  BY <1>1 DEF OrphanInv, AtWorker, MessageHeld, SentHasJob, JobOf
<1> QED BY <1>1, <1>2, SyncAssumption DEF IInv, Typed, OrphanInv, AtWorker, ChildWorked, Children,
     SyncPcs, InWalk, WorkerHasJob, JobOf

LEMMA BeginOrphan ==
    ASSUME NEW w \in Workers, IInv, OrphanInv(w), SyncBegin(w)
    PROVE  OrphanInv(w)'
<1>0. /\ pc'[w] \in {"ack", "open"}
      /\ pc'[w] = "ack" => ~WillWalk(status, body[ctx[w].msg])
  BY AtWork DEF SyncBegin, Goto, IInv, Typed, WillWalk, JobOf
<1> USE DEF SyncBegin, queueVars, storeVars
<1>1. JobOf(w) \in Syncs /\ JobOf(w) \notin Children BY AtWork DEF SyncPcs
<1>2. AtWorker(w)'
  BY <1>0, <1>1, AtWork DEF AtWorker, MessageHeld, ChildWorked, Walks, RefreshIsTrue,
     OfChild, Refreshing, AtChild, InWalk, JobOf, SyncPcs
<1>3. PassesNone(w) BY <1>0 DEF PassesNone, Behind, InWalk
<1> QED BY <1>2, <1>3, NothingRecorded

LEMMA OpenStateOrphan ==
    ASSUME NEW w \in Workers, IInv, OrphanInv(w), SyncOpenState(w)
    PROVE  OrphanInv(w)'
<1>c. ctx[w] \in Locals BY AtWork
<1>0. /\ pc'[w] = "walk" /\ pc[w] = "openState"
      /\ ctx'[w].msg = ctx[w].msg /\ ctx'[w].todo = Manifest[JobOf(w)]
      /\ ctx'[w].state = ctx[w].state
      /\ source'.run = JobOf(w)
      /\ UNCHANGED <<body, place, dlq, status, docStatus, stamped>>
  BY <1>c DEF SyncOpenState, Goto, Set, IInv, Typed, Locals, State, queueVars, storeVars
<1>1. JobOf(w) \in Syncs /\ JobOf(w) \notin Children
  BY <1>0, AtWork DEF SyncPcs
<1>2. AtWorker(w)'
  BY <1>0, <1>1, AtWork DEF AtWorker, MessageHeld, ChildWorked, Walks, RefreshIsTrue,
     OfChild, Refreshing, AtChild, InWalk, JobOf
<1>3. ~\E j \in Children : Behind(pc'[w], ctx'[w], j) /\ j \in Manifest[body[ctx'[w].msg]]
  BY <1>0 DEF Behind, JobOf
<1>4. PassesNone(w) BY <1>3 DEF PassesNone
<1> QED BY <1>0, <1>2, <1>4, NothingRecorded

LEMMA RegisterOrphan ==
    ASSUME NEW w \in Workers, IInv, OrphanInv(w), Register(w)
    PROVE  OrphanInv(w)'
<1>0. /\ pc[w] = "register" /\ ctx' = ctx /\ source' = source
      /\ pc'[w] \in {"ack", "run"}
      /\ pc'[w] = "ack" <=> status[JobOf(w)] = "succeeded"
      /\ UNCHANGED <<body, place, dlq, status, docStatus, stamped>>
  BY DEF Register, Goto, IInv, Typed, queueVars, storeVars
<1>1. JobOf(w) \in Children /\ JobOf(w) \notin Syncs BY <1>0, AtWork DEF OfChild
<1>2. AtWorker(w)'
  BY <1>0, <1>1, AtWork DEF AtWorker, MessageHeld, ChildWorked, Walks, RefreshIsTrue,
     OfChild, Refreshing, AtChild, InWalk, JobOf, OrphanInv, AckedSucceeded
<1>3. body[ctx'[w].msg] \notin Syncs BY <1>0, <1>1 DEF JobOf
<1>4. PassesNone(w) BY <1>3 DEF PassesNone
<1> QED BY <1>0, <1>2, <1>4, NothingRecorded

(* A worker whose message is that of a child, or that is past no child.     *)
LEMMA LeavesWalk ==
    ASSUME NEW w \in Workers, OrphanInv(w), AtWorker(w)',
           UNCHANGED <<body, place, dlq, status, docStatus, stamped>>,
           pc'[w] \notin InWalk /\ (pc'[w] = "ack" => body[ctx'[w].msg] \notin Syncs)
    PROVE  OrphanInv(w)'
<1>1. PassesNone(w) BY DEF PassesNone, Behind
<1> QED BY <1>1, NothingRecorded

LEMMA RaisesOrphan ==
    ASSUME NEW w \in Workers, IInv, OrphanInv(w), SyncRaises(w) \/ StepRaises(w) \/ Dies(w)
    PROVE  OrphanInv(w)'
<1>c. ctx[w] \in Locals BY AtWork
<1>0. /\ UNCHANGED <<body, place, dlq, status, docStatus, stamped, source>>
      /\ pc'[w] \in {"syncFailed", "fail", "idle"}
      /\ pc'[w] # "idle" => ctx'[w].msg = ctx[w].msg /\ pc[w] \notin {"idle", "register", "ack"}
      /\ ctx'[w].state.run \in {NoJob, ctx[w].state.run}
  <2>1. Blank.state.run = NoJob BY BlankHasNoRun
  <2>2. CASE SyncRaises(w)
    BY <2>2 DEF SyncRaises, Goto, InWalk, IInv, Typed, queueVars, storeVars
  <2>3. CASE StepRaises(w)
    <3>1. pc'[w] = "fail" /\ pc[w] \notin {"idle", "register", "ack"}
      BY <2>3 DEF StepRaises, Goto, IInv, Typed
    <3>2. ctx'[w] = [Blank EXCEPT !.msg = ctx[w].msg, !.receipt = ctx[w].receipt]
      BY <2>3 DEF StepRaises, Set, IInv, Typed
    <3>3. ctx'[w].msg = ctx[w].msg /\ ctx'[w].state.run = NoJob
      BY <3>2 DEF Blank, NoState, State
    <3> QED BY <2>3, <3>1, <3>3 DEF StepRaises, queueVars, storeVars
  <2>4. CASE Dies(w)
    BY <2>1, <2>4 DEF Dies, Rest, Goto, Set, IInv, Typed, queueVars, storeVars
  <2> QED BY <2>2, <2>3, <2>4
<1>1. AtWorker(w)'
  BY <1>0, AtWork DEF AtWorker, MessageHeld, ChildWorked, Walks, RefreshIsTrue,
     OfChild, Refreshing, AtChild, InWalk, JobOf
<1> QED BY <1>0, <1>1, LeavesWalk DEF InWalk

(* The refresh.  Nobody but the worker marks a child, so what it has read   *)
(* of the rows is so until it marks the parent.                             *)
LEMMA ContinueOrphan ==
    ASSUME NEW w \in Workers, IInv, OrphanInv(w), pc[w] \in Refreshing, Continue(w),
           UNCHANGED <<body, place, dlq, status, docStatus, stamped>>,
           source'.run \in {source.run, ctx[w].state.run}
    PROVE  OrphanInv(w)'
<1>c. ctx[w] \in Locals /\ ctx[w].then \in {"ack", "defer", "idle"}
      /\ JobOf(w) \in Children /\ JobOf(w) \notin Syncs
  BY AtWork DEF IInv, WorkerHasJob, Locals, OfChild
<1>0. /\ pc'[w] = ctx[w].then
      /\ pc'[w] # "idle" => ctx'[w].msg = ctx[w].msg
      /\ ctx'[w].state.run = NoJob
  <2> DEFINE c == [Blank EXCEPT !.msg = ctx[w].msg, !.receipt = ctx[w].receipt,
                                !.then = ctx[w].then]
  <2>1. Blank.state.run = NoJob /\ c.state.run = NoJob /\ c.msg = ctx[w].msg
    BY BlankHasNoRun DEF Blank, NoState, State
  <2>2. Continue(w) <=> IF ctx[w].then = "idle" THEN Rest(w)
                        ELSE Goto(w, ctx[w].then) /\ Set(w, c)
    BY DEF Continue
  <2> HIDE DEF c
  <2> QED BY <2>1, <2>2 DEF Rest, Goto, Set, IInv, Typed
<1>1. AtWorker(w)'
  BY <1>0, <1>c, AtWork DEF AtWorker, MessageHeld, ChildWorked, Walks, RefreshIsTrue,
     OfChild, Refreshing, AtChild, InWalk, JobOf
<1> QED BY <1>0, <1>1, <1>c, LeavesWalk DEF InWalk, JobOf

LEMMA ReadSourceOrphan ==
    ASSUME NEW w \in Workers, IInv, OrphanInv(w), ReadSource(w)
    PROVE  OrphanInv(w)'
<1>u. UNCHANGED <<body, place, dlq, status, docStatus, stamped, source>> /\ pc[w] = "refresh"
  BY DEF ReadSource, queueVars, storeVars
<1>1. CASE Continue(w)
  BY <1>1, <1>u, ContinueOrphan DEF Refreshing
<1>2. CASE source.run # NoJob /\ Goto(w, "readDocs") /\ Set(w, [ctx[w] EXCEPT !.state = source])
  <2>1. /\ pc'[w] = "readDocs" /\ ctx'[w].state = source
        /\ ctx'[w].msg = ctx[w].msg /\ ctx'[w].then = ctx[w].then
    BY <1>2, AtWork DEF Goto, Set, IInv, Typed, Locals
  <2>2. AtWorker(w)'
    BY <1>2, <1>u, <2>1, AtWork DEF AtWorker, MessageHeld, ChildWorked, Walks, RefreshIsTrue,
       OfChild, Refreshing, AtChild, InWalk, JobOf
  <2> QED BY <1>u, <2>1, <2>2, LeavesWalk DEF InWalk
<1> QED BY <1>1, <1>2 DEF ReadSource

LEMMA WriteSourceOrphan ==
    ASSUME NEW w \in Workers, IInv, OrphanInv(w), WriteSource(w)
    PROVE  OrphanInv(w)'
<1>1. /\ pc[w] \in Refreshing /\ Continue(w) /\ source' = ctx[w].state
      /\ UNCHANGED <<body, place, dlq, status, docStatus, stamped>>
  BY DEF WriteSource, Refreshing, queueVars, storeVars
<1> QED BY <1>1, ContinueOrphan

LEMMA AllSucceeded ==
    ASSUME NEW old, old.observed \in Int, Recomputed(old).status = "succeeded"
    PROVE  \A d \in ChildDocs : docStatus[d] \in {"absent", "succeeded"}
<1> DEFINE good == {d \in Known : docStatus[d] \in {"succeeded"}}
           n == Cardinality(Known)
           c == KnownIn({"succeeded"})
           f == KnownIn({"failed", "dead_letter"})
           o == IF old.observed > n THEN old.observed ELSE n
<1>1. n \in Nat /\ c \in Nat /\ f \in Nat BY KnownIsFinite
<1>2. Verdict(o, c, f) = "succeeded" BY DEF Recomputed, State
<1>3. o \in Int /\ o <= c + f /\ f = 0 /\ n <= o BY <1>1, <1>2 DEF Verdict
<1>4. IsFiniteSet(Known) BY FiniteAssumption, FS_Subset DEF Known, ChildDocs
<1>5. good \subseteq Known /\ c = Cardinality(good) BY DEF KnownIn
<1> HIDE DEF good, n, c, f, o
<1>6. good = Known BY <1>1, <1>3, <1>4, <1>5, FS_Subset DEF n
<1> QED BY <1>6 DEF good, Known

LEMMA ReadDocsOrphan ==
    ASSUME NEW w \in Workers, IInv, OrphanInv(w), ReadDocs(w)
    PROVE  OrphanInv(w)'
<1>u. /\ UNCHANGED <<body, place, dlq, status, docStatus, stamped, source>>
      /\ pc[w] = "readDocs" /\ pc'[w] = "markParent"
      /\ ctx'[w].state = Recomputed(ctx[w].state)
      /\ ctx'[w].msg = ctx[w].msg /\ ctx'[w].then = ctx[w].then
  BY AtWork DEF ReadDocs, Goto, Set, queueVars, storeVars, IInv, Typed, Locals
<1>1. ctx'[w].state.run = ctx[w].state.run BY <1>u DEF Recomputed, State
<1>2. ctx'[w].state.status = "succeeded" =>
          \A j \in Children : status[j] \in {"absent", "succeeded"}
  <2>1. ctx[w].state.observed \in Int BY AtWork DEF Locals, States
  <2>2. \A j \in Children : DocOf[j] \in ChildDocs /\ docStatus[DocOf[j]] = status[j]
    BY DocOfAssumption, SyncAssumption DEF Children, ChildDocs, OrphanInv, DocsAgree
  <2> QED BY <1>u, <2>1, <2>2, AllSucceeded
<1>3. AtWorker(w)'
  BY <1>u, <1>1, <1>2, AtWork DEF AtWorker, MessageHeld, ChildWorked, Walks, RefreshIsTrue,
     OfChild, Refreshing, AtChild, InWalk, JobOf
<1> QED BY <1>u, <1>3, LeavesWalk DEF InWalk

LEMMA FailedStateOrphan ==
    ASSUME NEW w \in Workers, IInv, OrphanInv(w), SyncFailedState(w)
    PROVE  OrphanInv(w)'
<1>u. /\ UNCHANGED <<body, place, dlq, status, docStatus, stamped, ctx>>
      /\ pc[w] = "syncFailedState" /\ pc'[w] = "fail"
      /\ source'.run = JobOf(w)
  BY DEF SyncFailedState, Goto, State, queueVars, storeVars, IInv, Typed
<1>1. JobOf(w) \in Syncs /\ JobOf(w) \notin Children BY <1>u, AtWork DEF SyncPcs
<1>3. AtWorker(w)'
  BY <1>u, <1>1, AtWork DEF AtWorker, MessageHeld, ChildWorked, Walks, RefreshIsTrue,
     OfChild, Refreshing, AtChild, InWalk, JobOf
<1> QED BY <1>u, <1>3, LeavesWalk DEF InWalk

LEMMA CloseStateOrphan ==
    ASSUME NEW w \in Workers, IInv, OrphanInv(w), SyncCloseState(w)
    PROVE  OrphanInv(w)'
<1>u. /\ UNCHANGED <<body, place, dlq, status, docStatus, stamped>>
      /\ pc[w] = "closeState" /\ pc'[w] = "ack"
      /\ ctx'[w].msg = ctx[w].msg /\ ctx'[w].state.run = NoJob
      /\ source'.run = JobOf(w)
  <2>1. ctx'[w] = [Blank EXCEPT !.msg = ctx[w].msg, !.receipt = ctx[w].receipt]
    BY DEF SyncCloseState, Set, IInv, Typed
  <2>2. ctx'[w].msg = ctx[w].msg /\ ctx'[w].state.run = NoJob
    BY <2>1 DEF Blank, NoState, State
  <2> QED BY <2>2 DEF SyncCloseState, Goto, State, CloseWith, queueVars, storeVars, IInv, Typed
<1>1. JobOf(w) \in Syncs /\ JobOf(w) \notin Children BY <1>u, AtWork DEF SyncPcs, InWalk
<1>3. AtWorker(w)'
  BY <1>u, <1>1, AtWork DEF AtWorker, MessageHeld, ChildWorked, Walks, RefreshIsTrue,
     OfChild, Refreshing, AtChild, InWalk, JobOf
<1>4. \A j : Behind(pc[w], ctx[w], j)
  BY <1>u, AtWork DEF Behind, AtWorker, Walks, InWalk
<1>5. PassesNone(w) BY <1>u, <1>4 DEF PassesNone
<1> QED BY <1>u, <1>3, <1>5, NothingRecorded

(* Steps that mark the run of a sync. *)
LEMMA SyncMarked ==
    ASSUME NEW w \in Workers, IInv, OrphanInv(w), AtWorker(w)',
           NEW k \in Syncs, NEW s, s # "succeeded", MarkRun(k, s),
           UNCHANGED <<body, place, dlq>>, pc'[w] \notin InWalk \cup {"ack"}
    PROVE  OrphanInv(w)'
<1>1. k \in Jobs /\ k \notin Children BY AtWork
<1>2. status' = [status EXCEPT ![k] = s] /\ status \in [Jobs -> RunStatus]
      /\ docStatus' = [docStatus EXCEPT ![DocOf[k]] = s] /\ stamped' = stamped
  BY DEF MarkRun, IInv, Typed
<1>3. \A j \in Children : Open(status', body, j) => Open(status, body, j)
  BY <1>1, <1>2, AtWork DEF Open, DoneIn
<1>4. \A i \in Syncs : WillWalk(status, i) => WillWalk(status', i)
  BY <1>2, AtWork DEF WillWalk
<1>5. Answered(w)' BY <1>3, <1>4 DEF OrphanInv, Answered, Behind
<1> QED BY <1>1, <1>2, <1>5, RunRecorded

LEMMA OpenRunOrphan ==
    ASSUME NEW w \in Workers, IInv, OrphanInv(w), SyncOpenRun(w) \/ SyncFailedRun(w)
    PROVE  OrphanInv(w)'
<1>1. /\ pc[w] \in {"open", "syncFailed"} /\ ctx' = ctx /\ source' = source
      /\ pc'[w] \in {"openState", "syncFailedState"}
      /\ UNCHANGED <<body, place, dlq>>
  BY DEF SyncOpenRun, SyncFailedRun, Goto, IInv, Typed, queueVars
<1>2. PICK s \in {"running", "failed"} :
          MarkRun(JobOf(w), s) /\ (pc'[w] = "openState" => s = "running")
  BY DEF SyncOpenRun, SyncFailedRun, Goto, IInv, Typed
<1>3. JobOf(w) \in Syncs /\ JobOf(w) \in Jobs /\ JobOf(w) \notin Children
  BY <1>1, AtWork DEF SyncPcs
<1>4. status'[JobOf(w)] = s BY <1>2, <1>3 DEF MarkRun, IInv, Typed
<1>5. AtWorker(w)'
  BY <1>1, <1>2, <1>3, <1>4, AtWork DEF AtWorker, MessageHeld, ChildWorked, Walks,
     RefreshIsTrue, OfChild, Refreshing, AtChild, InWalk, JobOf
<1> QED BY <1>1, <1>2, <1>3, <1>5, SyncMarked DEF InWalk

(* The sync is closed behind the last document: whoever answers for a child *)
(* that is still open is another sync, as each has one message.             *)
LEMMA CloseRunOrphan ==
    ASSUME NEW w \in Workers, IInv, OrphanInv(w), SyncCloseRun(w)
    PROVE  OrphanInv(w)'
<1> DEFINE k == JobOf(w)
           s == RunOf(CloseWith(w, ctx[w]).status)
<1>1. /\ pc[w] = "walk" /\ ctx' = ctx /\ source' = source /\ pc'[w] = "closeState"
      /\ ctx[w].todo = {} /\ MarkRun(k, s) /\ UNCHANGED <<body, place, dlq>>
  BY DEF SyncCloseRun, Goto, IInv, Typed, queueVars
<1>2. k \in Syncs /\ k \in Jobs /\ k \notin Children /\ ctx[w].msg \in Msgs
  BY <1>1, AtWork DEF SyncPcs, InWalk
<1> HIDE DEF k, s
<1>3. /\ status' = [status EXCEPT ![k] = s] /\ status \in [Jobs -> RunStatus]
      /\ docStatus' = [docStatus EXCEPT ![DocOf[k]] = s] /\ stamped' = stamped
  BY <1>1 DEF MarkRun, IInv, Typed
<1>5. AtWorker(w)'
  BY <1>1, <1>2, <1>3, AtWork DEF AtWorker, MessageHeld, ChildWorked, Walks,
     RefreshIsTrue, OfChild, Refreshing, AtChild, InWalk, JobOf
<1>6. Answered(w)'
  <2> SUFFICES ASSUME NEW j \in Children, Open(status', body', j)
               PROVE  \E m \in Msgs :
                   /\ body'[m] \in Syncs /\ j \in Manifest[body'[m]]
                   /\ KeptIn(place', dlq', m) /\ WillWalk(status', body'[m])
                   /\ ctx'[w].msg = m => ~Behind(pc'[w], ctx'[w], j)
    BY DEF Answered
  <2>1. Open(status, body, j) BY <1>1, <1>2, <1>3, AtWork DEF Open, DoneIn
  <2>2. PICK m \in Msgs :
            /\ body[m] \in Syncs /\ j \in Manifest[body[m]]
            /\ KeptIn(place, dlq, m) /\ WillWalk(status, body[m])
            /\ ctx[w].msg = m => ~Behind(pc[w], ctx[w], j)
    BY <2>1 DEF OrphanInv, Answered
  <2>3. Behind(pc[w], ctx[w], j) BY <1>1 DEF Behind, InWalk
  <2>4. m # ctx[w].msg BY <2>2, <2>3
  <2>5. body[m] # k BY <1>2, <2>2, <2>4 DEF IInv, RequestedOnce, JobOf, k
  <2>6. WillWalk(status', body[m]) BY <1>2, <1>3, <2>2, <2>5, AtWork DEF WillWalk
  <2> QED BY <1>1, <2>2, <2>4, <2>6
<1> QED BY <1>1, <1>2, <1>3, <1>5, <1>6, RunRecorded

LEMMA MarkParentOrphan ==
    ASSUME NEW w \in Workers, IInv, OrphanInv(w), MarkParent(w)
    PROVE  OrphanInv(w)'
<1> DEFINE k == ctx[w].state.run
           s == RunOf(ctx[w].state.status)
<1>1. /\ pc[w] = "markParent" /\ ctx' = ctx /\ source' = source /\ pc'[w] = "writeSource"
      /\ MarkRun(k, s) /\ UNCHANGED <<body, place, dlq>>
  BY DEF MarkParent, Goto, IInv, Typed, queueVars
<1>2. k \in Syncs /\ k \in Jobs /\ k \notin Children
  BY <1>1, AtWork DEF AtWorker, RefreshIsTrue
<1>j. JobOf(w) \in Children /\ JobOf(w) \in Jobs /\ JobOf(w) \notin Syncs
  BY <1>1, AtWork DEF OfChild, Refreshing
<1>3. s = "succeeded" => \A j \in Children : status[j] \in {"absent", "succeeded"}
  BY <1>1, AtWork DEF AtWorker, RefreshIsTrue, RunOf
<1> HIDE DEF k, s
<1>4. /\ status' = [status EXCEPT ![k] = s] /\ status \in [Jobs -> RunStatus]
      /\ docStatus' = [docStatus EXCEPT ![DocOf[k]] = s] /\ stamped' = stamped
  BY <1>1 DEF MarkRun, IInv, Typed
<1>5. AtWorker(w)'
  BY <1>1, <1>2, <1>j, <1>4, AtWork DEF AtWorker, MessageHeld, ChildWorked, Walks,
     RefreshIsTrue, OfChild, Refreshing, AtChild, InWalk, JobOf
<1>6. CASE s # "succeeded" BY <1>1, <1>2, <1>5, <1>6, SyncMarked DEF InWalk
<1>7. CASE s = "succeeded"
  <2>1. \A j \in Children : ~Open(status', body', j)
    BY <1>1, <1>2, <1>3, <1>4, <1>7, AtWork DEF Open, DoneIn
  <2>2. Answered(w)' BY <2>1 DEF Answered
  <2> QED BY <1>1, <1>2, <1>4, <1>5, <2>2, RunRecorded
<1> QED BY <1>6, <1>7

(* Steps that mark the child whose message the worker holds. *)
LEMMA ChildMarked ==
    ASSUME NEW w \in Workers, IInv, OrphanInv(w), AtWorker(w)',
           NEW s, UNCHANGED <<body, place, dlq>>,
           status' = [status EXCEPT ![JobOf(w)] = s],
           docStatus' = [docStatus EXCEPT ![DocOf[JobOf(w)]] = s],
           stamped' \subseteq stamped \cup {JobOf(w)},
           pc[w] \in {"run", "work", "project"}, pc'[w] \notin InWalk \cup {"ack"}
    PROVE  OrphanInv(w)'
<1> DEFINE j == JobOf(w)
<1>1. j \in Jobs /\ j \in Children /\ j \notin Syncs /\ ctx[w].msg \in Msgs
  BY AtWork DEF OfChild
<1>2. SentIn(body, j) BY <1>1 DEF SentIn, JobOf
<1>3. ~AckedIn(body, place, dlq, j)
  BY <1>1 DEF OrphanInv, AtWorker, ChildWorked
<1> HIDE DEF j
<1>4. status \in [Jobs -> RunStatus] BY DEF IInv, Typed
<1>5. \A i \in Children : Open(status', body, i) => Open(status, body, i)
  BY <1>1, <1>2, <1>4, AtWork DEF Open, DoneIn, j
<1>6. \A i \in Syncs : WillWalk(status, i) => WillWalk(status', i)
  BY <1>1, <1>4, AtWork DEF WillWalk, j
<1>7. Answered(w)' BY <1>5, <1>6 DEF OrphanInv, Answered, Behind
<1> QED BY <1>1, <1>2, <1>3, <1>7, RunRecorded DEF j

LEMMA RunChildOrphan ==
    ASSUME NEW w \in Workers, IInv, OrphanInv(w), RunChild(w)
    PROVE  OrphanInv(w)'
<1>1. /\ pc[w] = "run" /\ pc'[w] = "work" /\ ctx' = ctx /\ source' = source
      /\ UNCHANGED <<body, place, dlq>>
  BY DEF RunChild, Goto, IInv, Typed, queueVars
<1>2. JobOf(w) \in Children /\ JobOf(w) \in Jobs /\ JobOf(w) \notin Syncs
  BY <1>1, AtWork DEF OfChild
<1>5. AtWorker(w)'
  BY <1>1, <1>2, AtWork DEF AtWorker, MessageHeld, ChildWorked, Walks,
     RefreshIsTrue, OfChild, Refreshing, AtChild, InWalk, JobOf
<1> QED BY <1>1, <1>5, ChildMarked DEF RunChild, InWalk

LEMMA WorkOrphan ==
    ASSUME NEW w \in Workers, IInv, OrphanInv(w), Work(w)
    PROVE  OrphanInv(w)'
<1>1. /\ pc[w] = "work" /\ source' = source /\ UNCHANGED <<body, place, dlq>>
  BY DEF Work, queueVars
<1>2. JobOf(w) \in Children /\ JobOf(w) \in Jobs /\ JobOf(w) \notin Syncs
      /\ ctx[w] \in Locals
  BY <1>1, AtWork DEF OfChild
<1>3. CASE MarkRun(JobOf(w), "succeeded") /\ Goto(w, "refresh")
           /\ Set(w, [ctx[w] EXCEPT !.then = "ack"])
  <2>1. /\ pc'[w] = "refresh" /\ ctx'[w].msg = ctx[w].msg
        /\ ctx'[w].state = ctx[w].state /\ status'[JobOf(w)] = "succeeded"
    BY <1>2, <1>3 DEF Goto, Set, MarkRun, IInv, Typed, Locals
  <2>2. AtWorker(w)'
    BY <1>1, <1>2, <2>1, AtWork DEF AtWorker, MessageHeld, ChildWorked, Walks,
       RefreshIsTrue, OfChild, Refreshing, AtChild, InWalk, JobOf
  <2> QED BY <1>1, <1>3, <2>1, <2>2, ChildMarked DEF MarkRun, InWalk
<1>4. CASE UNCHANGED storeVars /\ \/ Goto(w, "refresh") /\ Set(w, [ctx[w] EXCEPT !.then = "defer"])
                                  \/ Goto(w, "fail") /\ UNCHANGED ctx
  <2>1. /\ pc'[w] \in {"refresh", "fail"} /\ ctx'[w].msg = ctx[w].msg
        /\ ctx'[w].state = ctx[w].state
        /\ pc'[w] = "refresh" => ctx'[w].then = "defer"
        /\ UNCHANGED <<status, docStatus, stamped>>
    BY <1>2, <1>4 DEF Goto, Set, storeVars, IInv, Typed, Locals
  <2>2. AtWorker(w)'
    BY <1>1, <1>2, <2>1, AtWork DEF AtWorker, MessageHeld, ChildWorked, Walks,
       RefreshIsTrue, OfChild, Refreshing, AtChild, InWalk, JobOf
  <2> QED BY <1>1, <2>1, <2>2, LeavesWalk DEF InWalk
<1> QED BY <1>3, <1>4 DEF Work

LEMMA ChildFailedOrphan ==
    ASSUME NEW w \in Workers, IInv, OrphanInv(w), ChildFailed(w)
    PROVE  OrphanInv(w)'
<1>1. /\ pc[w] = "project" /\ pc'[w] = "refresh" /\ source' = source
      /\ UNCHANGED <<body, place, dlq>> /\ MarkRun(JobOf(w), ctx[w].result)
      /\ ctx'[w].msg = ctx[w].msg /\ ctx'[w].state = ctx[w].state /\ ctx'[w].then = "idle"
  BY AtWork DEF ChildFailed, Goto, Set, IInv, Typed, Locals, queueVars
<1>2. JobOf(w) \in Children /\ JobOf(w) \in Jobs /\ JobOf(w) \notin Syncs
  BY <1>1, AtWork DEF OfChild
<1>5. AtWorker(w)'
  BY <1>1, <1>2, AtWork DEF AtWorker, MessageHeld, ChildWorked, Walks,
     RefreshIsTrue, OfChild, Refreshing, AtChild, InWalk, JobOf
<1> QED BY <1>1, <1>5, ChildMarked DEF MarkRun, InWalk

(* The walk.  The sync's own message answers for the children ahead; a child *)
(* that is left behind is not open any more.                                *)
LEMMA WalkMarked ==
    ASSUME NEW w \in Workers, IInv, OrphanInv(w), AtWorker(w)',
           pc[w] \in InWalk \ {"closeState"}, pc'[w] \in InWalk,
           ctx'[w].msg = ctx[w].msg, NEW j \in Children, j \in ctx[w].todo,
           \/ ctx'[w].todo = ctx[w].todo
           \/ ctx'[w].todo = ctx[w].todo \ {j} /\ ~Open(status', body, j),
           ~AckedIn(body, place, dlq, j),
           NEW s, j \in PdfJobs => SentIn(body, j) \/ s = "queued",
           UNCHANGED <<body, place, dlq>>,
           status' = [status EXCEPT ![j] = s],
           docStatus' = [docStatus EXCEPT ![DocOf[j]] = s], stamped' \subseteq stamped
    PROVE  OrphanInv(w)'
<1> DEFINE m == ctx[w].msg
<1>1. /\ m \in Msgs /\ body[m] \in Syncs /\ j \in Jobs /\ j \notin Syncs
      /\ body[m] \in Jobs
  BY AtWork DEF InWalk, SyncPcs, JobOf
<1>2. KeptIn(place, dlq, m) /\ j \in Manifest[body[m]] /\ status[body[m]] = "running"
  BY AtWork DEF AtWorker, MessageHeld, Walks, InWalk, JobOf
<1>3. status \in [Jobs -> RunStatus] BY DEF IInv, Typed
<1>4. \A i \in Syncs : status'[i] = status[i] BY <1>1, <1>3, AtWork
<1>5. ASSUME NEW i \in Children, Open(status', body', i)
      PROVE  \E n \in Msgs :
                 /\ body'[n] \in Syncs /\ i \in Manifest[body'[n]]
                 /\ KeptIn(place', dlq', n) /\ WillWalk(status', body'[n])
                 /\ ctx'[w].msg = n => ~Behind(pc'[w], ctx'[w], i)
  <2>1. CASE i = j
    <3>1. ctx'[w].todo = ctx[w].todo BY <1>5, <2>1
    <3>2. ~Behind(pc'[w], ctx'[w], j) BY <3>1 DEF Behind, InWalk
    <3> QED BY <1>1, <1>2, <1>4, <2>1, <3>2 DEF WillWalk
  <2>2. CASE i # j
    <3>1. Open(status, body, i) BY <1>1, <1>3, <1>5, <2>2, AtWork DEF Open, DoneIn
    <3>2. PICK n \in Msgs :
              /\ body[n] \in Syncs /\ i \in Manifest[body[n]]
              /\ KeptIn(place, dlq, n) /\ WillWalk(status, body[n])
              /\ ctx[w].msg = n => ~Behind(pc[w], ctx[w], i)
      BY <3>1 DEF OrphanInv, Answered
    <3>3. ctx[w].msg = n => ~Behind(pc'[w], ctx'[w], i)
      BY <2>2, <3>2 DEF Behind, InWalk
    <3> QED BY <1>4, <3>2, <3>3 DEF WillWalk
  <2> QED BY <2>1, <2>2
<1>6. Answered(w)' BY <1>5 DEF Answered
<1> QED BY <1>1, <1>6, RunRecorded

LEMMA TallyWalksOn ==
    ASSUME NEW c \in Locals, NEW j, NEW s
    PROVE  /\ Tally(c, j, s).msg = c.msg /\ Tally(c, j, s).todo = c.todo \ {j}
           /\ Tally(c, j, s).state = c.state
<1> DEFINE o == c.open + (IF s \in {"queued", "running"} THEN 1 ELSE 0)
           f == c.failed + (IF s \in {"failed", "dead_letter"} THEN 1 ELSE 0)
           t == c.todo \ {j}
<1>1. Tally(c, j, s) = [c EXCEPT !.todo = t, !.child = NoJob, !.row = NoRow, !.open = o,
                                 !.failed = f]
  BY DEF Tally
<1> HIDE DEF o, f
<1> QED BY <1>1 DEF Locals

(* The walk goes on behind a child without marking its run. *)
LEMMA WalksOn ==
    ASSUME NEW w \in Workers, IInv, OrphanInv(w),
           pc[w] \in InWalk \ {"closeState"}, pc'[w] = "walk", source' = source,
           NEW j \in Children, NEW s, ctx'[w] = Tally(ctx[w], j, s), ~Open(status, body, j),
           UNCHANGED <<body, place, dlq, status, docStatus>>,
           stamped' = stamped \/ (stamped' = stamped \cup {j} /\ SentIn(body, j))
    PROVE  OrphanInv(w)'
<1>1. /\ ctx'[w].msg = ctx[w].msg /\ ctx'[w].todo = ctx[w].todo \ {j}
      /\ ctx'[w].state = ctx[w].state
  BY AtWork, TallyWalksOn
<1>2. AtWorker(w)'
  BY <1>1, AtWork DEF AtWorker, MessageHeld, ChildWorked, Walks,
     RefreshIsTrue, OfChild, Refreshing, AtChild, InWalk, JobOf, SyncPcs
<1>3. (SentHasJob /\ AckedSucceeded /\ DocsAgree /\ UnsentIsFresh)'
  BY DEF OrphanInv, SentHasJob, AckedSucceeded, DocsAgree, UnsentIsFresh
<1>4. Answered(w)'
  BY <1>1 DEF OrphanInv, Answered, Behind, InWalk
<1> QED BY <1>2, <1>3, <1>4 DEF OrphanInv

LEMMA IngestTextOrphan ==
    ASSUME NEW w \in Workers, IInv, OrphanInv(w), IngestText(w)
    PROVE  OrphanInv(w)'
<1>1. /\ pc[w] = "ingest" /\ pc'[w] = "ingested" /\ ctx' = ctx /\ source' = source
      /\ UNCHANGED <<body, place, dlq>> /\ MarkRun(ctx[w].child, "running")
  BY DEF IngestText, Goto, IInv, Typed, queueVars
<1>2. /\ ctx[w].child \in ctx[w].todo /\ ctx[w].child \in Children
      /\ ctx[w].child \notin PdfJobs /\ ~AckedIn(body, place, dlq, ctx[w].child)
  BY <1>1, AtWork DEF AtWorker, Walks, AtChild, Locals
<1>3. JobOf(w) \in Syncs /\ JobOf(w) \notin Children
  BY <1>1, AtWork DEF SyncPcs, InWalk
<1>4. /\ status' = [status EXCEPT ![ctx[w].child] = "running"]
      /\ docStatus' = [docStatus EXCEPT ![DocOf[ctx[w].child]] = "running"]
      /\ stamped' = stamped /\ status \in [Jobs -> RunStatus]
  BY <1>1 DEF MarkRun, IInv, Typed
<1>5. AtWorker(w)'
  BY <1>1, <1>2, <1>3, <1>4, AtWork DEF AtWorker, MessageHeld, ChildWorked, Walks,
     RefreshIsTrue, OfChild, Refreshing, AtChild, InWalk, JobOf
<1> QED BY <1>1, <1>2, <1>4, <1>5, WalkMarked DEF InWalk

LEMMA TextIngestedOrphan ==
    ASSUME NEW w \in Workers, IInv, OrphanInv(w), TextIngested(w)
    PROVE  OrphanInv(w)'
<1> DEFINE j == ctx[w].child
<1>1. /\ pc[w] = "ingested" /\ pc'[w] = "walk" /\ source' = source
      /\ UNCHANGED <<body, place, dlq>>
  BY DEF TextIngested, Goto, IInv, Typed, queueVars
<1>2. PICK s \in {"succeeded", "failed"} : MarkRun(j, s) /\ ctx'[w] = Tally(ctx[w], j, s)
  BY DEF TextIngested, Set, IInv, Typed
<1>3. /\ j \in ctx[w].todo /\ j \in Children /\ j \in Jobs
      /\ j \notin PdfJobs /\ ~AckedIn(body, place, dlq, j)
  BY <1>1, AtWork DEF AtWorker, Walks, AtChild, Locals
<1>4. JobOf(w) \in Syncs /\ JobOf(w) \notin Children
  BY <1>1, AtWork DEF SyncPcs, InWalk
<1>5. /\ ctx'[w].msg = ctx[w].msg /\ ctx'[w].todo = ctx[w].todo \ {j}
      /\ ctx'[w].state = ctx[w].state
  BY <1>2, AtWork, TallyWalksOn
<1> HIDE DEF j
<1>6. /\ status' = [status EXCEPT ![j] = s] /\ stamped' = stamped
      /\ docStatus' = [docStatus EXCEPT ![DocOf[j]] = s] /\ status \in [Jobs -> RunStatus]
  BY <1>2 DEF MarkRun, IInv, Typed
<1>7. ~Open(status', body, j) BY <1>2, <1>3, <1>6 DEF Open, DoneIn
<1>8. AtWorker(w)'
  BY <1>1, <1>3, <1>4, <1>5, <1>6, AtWork DEF AtWorker, MessageHeld, ChildWorked, Walks,
     RefreshIsTrue, OfChild, Refreshing, AtChild, InWalk, JobOf
<1> QED BY <1>1, <1>3, <1>5, <1>6, <1>7, <1>8, WalkMarked DEF InWalk

LEMMA RequeueOrphan ==
    ASSUME NEW w \in Workers, IInv, OrphanInv(w), RequeueChild(w)
    PROVE  OrphanInv(w)'
<1> DEFINE j == ctx[w].child
           row == [status |-> "queued", stamped |-> FALSE]
<1>1. /\ pc[w] = "requeue" /\ pc'[w] = "send" /\ source' = source
      /\ UNCHANGED <<body, place, dlq>> /\ MarkQueued(j)
      /\ ctx'[w] = [ctx[w] EXCEPT !.row = row]
  BY DEF RequeueChild, Goto, Set, IInv, Typed, queueVars
<1>2. /\ ctx'[w].row = row /\ ctx'[w].msg = ctx[w].msg /\ ctx'[w].todo = ctx[w].todo
      /\ ctx'[w].child = j /\ ctx'[w].state = ctx[w].state
  BY <1>1, AtWork DEF Locals
<1>3. Owed(ctx'[w].row) BY <1>2 DEF Owed
<1>4. /\ j \in ctx[w].todo /\ j \in Children /\ j \in PdfJobs
      /\ ~AckedIn(body, place, dlq, j)
  BY <1>1, AtWork DEF AtWorker, Walks, AtChild, Locals
<1>5. JobOf(w) \in Syncs /\ JobOf(w) \notin Children
  BY <1>1, AtWork DEF SyncPcs, InWalk
<1>6. /\ status' = [status EXCEPT ![j] = "queued"] /\ stamped' \subseteq stamped
      /\ docStatus' = [docStatus EXCEPT ![DocOf[j]] = "queued"]
      /\ status \in [Jobs -> RunStatus]
  BY <1>1 DEF MarkQueued, IInv, Typed
<1> HIDE DEF j, row
<1>8. AtWorker(w)'
  BY <1>1, <1>2, <1>3, <1>4, <1>5, <1>6, AtWork DEF AtWorker, MessageHeld, ChildWorked,
     Walks, RefreshIsTrue, OfChild, Refreshing, AtChild, InWalk, JobOf
<1> QED BY <1>1, <1>2, <1>4, <1>6, <1>8, WalkMarked DEF InWalk

LEMMA AlreadySentOrphan ==
    ASSUME NEW w \in Workers, IInv, OrphanInv(w), ChildAlreadySent(w) \/ StampChild(w)
    PROVE  OrphanInv(w)'
<1> DEFINE j == ctx[w].child
<1>1. /\ pc[w] \in {"send", "stampChild"} /\ pc'[w] = "walk" /\ source' = source
      /\ UNCHANGED <<body, place, dlq, status, docStatus>>
      /\ stamped' \in {stamped, stamped \cup {j}}
      /\ pc[w] = "send" => ~Owed(ctx[w].row)
      /\ \E s \in {"queued", ctx[w].row.status} : ctx'[w] = Tally(ctx[w], j, s)
  BY DEF ChildAlreadySent, StampChild, StampMessageId, Goto, Set, IInv, Typed,
     queueVars, storeVars
<1>2. j \in Children /\ SentIn(body, j)
  BY <1>1, AtWork DEF AtWorker, Walks, AtChild, Locals, IInv, WorkerHasJob
<1>3. ~Open(status, body, j) BY <1>2 DEF Open
<1> QED BY <1>1, <1>2, <1>3, WalksOn DEF InWalk

LEMMA VisitOrphan ==
    ASSUME NEW w \in Workers, IInv, OrphanInv(w), NEW j \in Children, Visit(w, j)
    PROVE  OrphanInv(w)'
<1> DEFINE new == [status |-> "queued", stamped |-> FALSE]
           row == [status |-> status[j], stamped |-> j \in stamped]
<1>1. /\ pc[w] = "walk" /\ j \in ctx[w].todo /\ source' = source
      /\ UNCHANGED <<body, place, dlq>>
  BY DEF Visit, queueVars
<1>2. JobOf(w) \in Syncs /\ JobOf(w) \notin Children /\ j \in Jobs
  BY <1>1, AtWork DEF SyncPcs, InWalk
<1>3. status \in [Jobs -> RunStatus] BY DEF IInv, Typed
<1>4. CASE CreateQueued(j) /\ Goto(w, ChildPath(j, "queued"))
           /\ Set(w, [ctx[w] EXCEPT !.child = j, !.row = new])
  <2>1. /\ status[j] = "absent" /\ status' = [status EXCEPT ![j] = "queued"]
        /\ docStatus' = [docStatus EXCEPT ![DocOf[j]] = "queued"] /\ stamped' = stamped
    BY <1>4 DEF CreateQueued
  <2>2. pc'[w] = IF j \in PdfJobs THEN "send" ELSE "ingest"
    BY <1>4 DEF ChildPath, Goto, IInv, Typed
  <2>3. /\ ctx'[w].msg = ctx[w].msg /\ ctx'[w].todo = ctx[w].todo
        /\ ctx'[w].child = j /\ ctx'[w].state = ctx[w].state /\ ctx'[w].row = new
    BY <1>4, AtWork DEF Set, Locals, IInv, Typed
  <2>4. ~AckedIn(body, place, dlq, j) /\ Owed(ctx'[w].row)
    BY <2>1, <2>3 DEF OrphanInv, AckedSucceeded, Owed
  <2> HIDE DEF new
  <2>5. AtWorker(w)'
    BY <1>1, <1>2, <1>3, <2>1, <2>2, <2>3, <2>4, AtWork DEF AtWorker, MessageHeld,
       ChildWorked, Walks, RefreshIsTrue, OfChild, Refreshing, AtChild, InWalk, JobOf
  <2> QED BY <1>1, <2>1, <2>2, <2>3, <2>4, <2>5, WalkMarked DEF InWalk
<1>5. CASE status[j] \notin {"absent", "succeeded"} /\ Goto(w, ChildPath(j, status[j]))
           /\ Set(w, [ctx[w] EXCEPT !.child = j, !.row = row]) /\ UNCHANGED storeVars
  <2>1. UNCHANGED <<status, docStatus, stamped>> BY <1>5 DEF storeVars
  <2>2. pc'[w] = IF j \notin PdfJobs THEN "ingest"
                 ELSE IF status[j] \in {"queued", "running"} THEN "send" ELSE "requeue"
    BY <1>5 DEF ChildPath, Goto, IInv, Typed
  <2>3. /\ ctx'[w].msg = ctx[w].msg /\ ctx'[w].todo = ctx[w].todo
        /\ ctx'[w].child = j /\ ctx'[w].state = ctx[w].state /\ ctx'[w].row = row
    BY <1>5, AtWork DEF Set, Locals, IInv, Typed
  <2>4. ~AckedIn(body, place, dlq, j)
    BY <1>5 DEF OrphanInv, AckedSucceeded
  <2>s. row.status = status[j] /\ (row.stamped <=> j \in stamped) BY Zenon
  <2>5. ~Owed(row) => (status[j] # "queued" \/ j \in stamped)
    BY <2>s DEF Owed
  <2>6. j \in PdfJobs /\ ~Owed(ctx'[w].row) => SentIn(body, j)
    BY <1>5, <2>3, <2>5 DEF OrphanInv, UnsentIsFresh
  <2> HIDE DEF row
  <2>7. AtWorker(w)'
    BY <1>1, <1>2, <1>3, <1>5, <2>1, <2>2, <2>3, <2>4, <2>6, AtWork DEF AtWorker,
       MessageHeld, ChildWorked, Walks, RefreshIsTrue, OfChild, Refreshing, AtChild,
       InWalk, JobOf
  <2>8. PassesNone(w) BY <1>1, <2>2, <2>3 DEF PassesNone, Behind, InWalk
  <2> QED BY <1>1, <2>1, <2>7, <2>8, NothingRecorded
<1>6. CASE status[j] = "succeeded" /\ Set(w, Tally(ctx[w], j, "succeeded"))
           /\ UNCHANGED <<storeVars, pc>>
  <2>1. /\ ctx'[w] = Tally(ctx[w], j, "succeeded") /\ pc'[w] = "walk"
        /\ UNCHANGED <<status, docStatus, stamped>>
    BY <1>1, <1>6 DEF Set, IInv, Typed, storeVars
  <2>2. ~Open(status, body, j) BY <1>6 DEF Open, DoneIn
  <2> QED BY <1>1, <2>1, <2>2, WalksOn DEF InWalk
<1> QED BY <1>4, <1>5, <1>6 DEF Visit

(* Steps of the queue that lose no message. *)
NothingLost ==
    /\ \A m \in Msgs : place[m] # "unsent" => body'[m] = body[m] /\ place'[m] # "unsent"
    /\ \A m \in Msgs : KeptIn(place, dlq, m) => KeptIn(place', dlq', m)
    /\ \A m \in Msgs : place'[m] = "gone" /\ m \notin dlq' =>
                          place[m] = "gone" /\ m \notin dlq
    /\ dlq \subseteq dlq'
    /\ SentHasJob'

LEMMA QueueOnly ==
    ASSUME IInv, NothingLost
    PROVE  \A j \in Jobs :
               /\ SentIn(body, j) => SentIn(body', j)
               /\ AckedIn(body', place', dlq', j) => AckedIn(body, place, dlq, j)
<1> SUFFICES ASSUME NEW j \in Jobs
             PROVE  /\ SentIn(body, j) => SentIn(body', j)
                    /\ AckedIn(body', place', dlq', j) => AckedIn(body, place, dlq, j)
  OBVIOUS
<1>1. \A m \in Msgs : body[m] = j => place[m] # "unsent"
  BY NoJobAssumption DEF IInv, UnsentIsEmpty
<1> QED BY <1>1 DEF NothingLost, SentIn, AckedIn

LEMMA QueueMoves ==
    ASSUME NEW w \in Workers, IInv, OrphanInv(w), AtWorker(w)', NothingLost,
           UNCHANGED <<status, docStatus, stamped>>,
           pc'[w] \notin InWalk \cup {"ack"}
           \/ (ctx'[w] = ctx[w] /\ (pc'[w] = pc[w] \/ {pc[w], pc'[w]} \subseteq InWalk))
    PROVE  OrphanInv(w)'
<1>1. \A j \in Children :
          /\ SentIn(body, j) => SentIn(body', j)
          /\ AckedIn(body', place', dlq', j) => AckedIn(body, place, dlq, j)
  BY QueueOnly, AtWork
<1>2. AckedSucceeded' /\ UnsentIsFresh' /\ DocsAgree'
  BY <1>1 DEF OrphanInv, AckedSucceeded, UnsentIsFresh, DocsAgree
<1>3. \A j : Behind(pc'[w], ctx'[w], j) => ctx'[w].msg = ctx[w].msg /\ Behind(pc[w], ctx[w], j)
  BY DEF Behind, InWalk
<1>4. \A j \in Children : Open(status', body', j) => Open(status, body, j)
  BY <1>1 DEF Open
<1>5. ASSUME NEW j \in Children, Open(status', body', j)
      PROVE  \E n \in Msgs :
                 /\ body'[n] \in Syncs /\ j \in Manifest[body'[n]]
                 /\ KeptIn(place', dlq', n) /\ WillWalk(status', body'[n])
                 /\ ctx'[w].msg = n => ~Behind(pc'[w], ctx'[w], j)
  <2>1. PICK n \in Msgs :
            /\ body[n] \in Syncs /\ j \in Manifest[body[n]]
            /\ KeptIn(place, dlq, n) /\ WillWalk(status, body[n])
            /\ ctx[w].msg = n => ~Behind(pc[w], ctx[w], j)
    BY <1>4, <1>5 DEF OrphanInv, Answered
  <2>2. place[n] # "unsent"
    BY <2>1, NoJobAssumption, AtWork DEF IInv, UnsentIsEmpty
  <2>3. body'[n] = body[n] /\ KeptIn(place', dlq', n) BY <2>1, <2>2 DEF NothingLost
  <2> QED BY <1>3, <2>1, <2>3
<1>6. Answered(w)' BY <1>5 DEF Answered
<1> QED BY <1>2, <1>6 DEF OrphanInv, NothingLost

(* The queue, or a request, moves while the worker does not. *)
LEMMA WorkerRests ==
    ASSUME NEW w \in Workers, IInv, OrphanInv(w), NothingLost,
           UNCHANGED <<status, pc, ctx>>, source'.run \in Syncs \cup {NoJob}
    PROVE  AtWorker(w)'
<1>1. \A j \in Jobs :
          /\ SentIn(body, j) => SentIn(body', j)
          /\ AckedIn(body', place', dlq', j) => AckedIn(body, place, dlq, j)
  BY QueueOnly
<1>2. pc[w] # "idle" =>
          /\ KeptIn(place', dlq', ctx[w].msg) /\ place'[ctx[w].msg] # "unsent"
          /\ body'[ctx[w].msg] = body[ctx[w].msg]
  BY AtWork DEF NothingLost, AtWorker, MessageHeld
<1>3. JobOf(w)' = JobOf(w) \/ pc[w] = "idle" BY <1>2 DEF JobOf
<1>4. pc[w] \in AtChild => ctx[w].child \in Children
  BY AtWork DEF AtWorker, Walks, AtChild, Locals
<1>m. MessageHeld(w)' BY <1>2, AtWork DEF AtWorker, MessageHeld, NothingLost
<1>c. ChildWorked(w)'
  BY <1>1, <1>3, AtWork DEF AtWorker, ChildWorked, OfChild, Refreshing
<1>w. Walks(w)'
  BY <1>1, <1>3, <1>4, AtWork DEF AtWorker, Walks, InWalk, AtChild
<1>r. RefreshIsTrue(w)' BY AtWork DEF AtWorker, RefreshIsTrue
<1> QED BY <1>m, <1>c, <1>w, <1>r DEF AtWorker

LEMMA QueueOrphan ==
    ASSUME NEW w \in Workers, IInv, OrphanInv(w), QueueNext,
           UNCHANGED <<storeVars, source, walked, requestVars, workerVars>>
    PROVE  OrphanInv(w)'
<1>1. PICK m \in Msgs : VisibilityExpires(m) \/ Redrive(m) BY DEF QueueNext
<1>2. NothingLost
  BY <1>1 DEF NothingLost, VisibilityExpires, Redrive, KeptIn, OrphanInv, SentHasJob, IInv,
     Typed
<1>3. UNCHANGED <<status, docStatus, stamped, source, pc, ctx>> BY DEF storeVars, workerVars
<1>4. source'.run \in Syncs \cup {NoJob}
  BY <1>3 DEF OrphanInv, AtWorker, RefreshIsTrue
<1>5. AtWorker(w)' BY <1>2, <1>3, <1>4, WorkerRests
<1> QED BY <1>2, <1>3, <1>5, QueueMoves

LEMMA EnqueueLosesNothing ==
    ASSUME NEW w \in Workers, IInv, OrphanInv(w), NEW m \in Msgs, NEW j \in Jobs,
           EnqueueMessage(m, j)
    PROVE  NothingLost /\ SentIn(body', j)
BY DEF NothingLost, EnqueueMessage, KeptIn, OrphanInv, SentHasJob, IInv, Typed, SentIn

LEMMA SendChildOrphan ==
    ASSUME NEW w \in Workers, IInv, OrphanInv(w), NEW m \in Msgs, SendChild(w, m)
    PROVE  OrphanInv(w)'
<1> DEFINE j == ctx[w].child
<1>1. /\ pc[w] = "send" /\ pc'[w] = "stampChild" /\ ctx' = ctx /\ source' = source
      /\ UNCHANGED <<status, docStatus, stamped>> /\ EnqueueMessage(m, j)
  BY DEF SendChild, Goto, IInv, Typed, storeVars
<1>2. j \in Children /\ j \in Jobs
  BY <1>1, AtWork DEF IInv, WorkerHasJob
<1> HIDE DEF j
<1>3. NothingLost /\ SentIn(body', j) BY <1>1, <1>2, EnqueueLosesNothing
<1>4. \A i \in Jobs : AckedIn(body', place', dlq', i) => AckedIn(body, place, dlq, i)
  BY <1>3, QueueOnly
<1>5. /\ KeptIn(place', dlq', ctx[w].msg) /\ place'[ctx[w].msg] # "unsent"
      /\ JobOf(w)' = JobOf(w) /\ JobOf(w) \in Syncs /\ JobOf(w) \notin Children
  BY <1>1, <1>3, AtWork DEF NothingLost, AtWorker, MessageHeld, JobOf, SyncPcs, InWalk
<1>6. AtWorker(w)'
  BY <1>1, <1>2, <1>3, <1>4, <1>5, AtWork DEF AtWorker, MessageHeld, ChildWorked, Walks,
     RefreshIsTrue, OfChild, Refreshing, AtChild, InWalk, j
<1> QED BY <1>1, <1>3, <1>6, QueueMoves DEF InWalk

LEMMA ReceiveOrphan ==
    ASSUME NEW w \in Workers, IInv, OrphanInv(w), NEW m \in Msgs, Receive(w, m)
    PROVE  OrphanInv(w)'
<1>1. /\ UNCHANGED <<status, docStatus, stamped, source, body, dlq>>
      /\ place[m] = "visible" /\ place' = [place EXCEPT ![m] = "inflight"]
      /\ pc'[w] = IF body[m] \in Syncs THEN "sync" ELSE "register"
  BY DEF Receive, ReceiveMessage, Goto, IInv, Typed, storeVars
<1>2. ctx'[w].msg = m /\ ctx'[w].state.run = NoJob
  <2>1. ctx'[w] = [Blank EXCEPT !.msg = m, !.receipt = receives'[m]]
    BY DEF Receive, Set, IInv, Typed
  <2> QED BY <2>1 DEF Blank, NoState, State
<1>3. NothingLost
  BY <1>1 DEF NothingLost, KeptIn, OrphanInv, SentHasJob, IInv, Typed
<1>4. body[m] \in Jobs BY <1>1 DEF OrphanInv, SentHasJob
<1>5. body[m] \in Children => ~AckedIn(body', place', dlq', body[m]) \/ pc'[w] = "register"
  BY <1>1 DEF Children
<1>6. AtWorker(w)'
  BY <1>1, <1>2, <1>4, <1>5, AtWork DEF AtWorker, MessageHeld, ChildWorked, Walks,
     RefreshIsTrue, OfChild, Refreshing, AtChild, InWalk, JobOf, Children, KeptIn, IInv,
     Typed
<1> QED BY <1>1, <1>3, <1>6, QueueMoves DEF InWalk

(* The ends of a message. *)
LEMMA FailOrphan ==
    ASSUME NEW w \in Workers, IInv, OrphanInv(w),
           FailCopy(w) \/ FailDelete(w) \/ FailRelease(w) \/ Defer(w)
    PROVE  OrphanInv(w)'
<1> DEFINE m == ctx[w].msg
<1>1. /\ pc[w] \in {"fail", "failDelete", "defer"}
      /\ UNCHANGED <<status, docStatus, stamped, source, body>>
  BY DEF FailCopy, FailDelete, FailRelease, Defer, CopyToDlq, DeleteMessage, MakeVisible,
     storeVars
<1>2. m \in Msgs /\ KeptIn(place, dlq, m) /\ place[m] # "unsent"
      /\ (pc[w] = "failDelete" => m \in dlq)
  BY <1>1, AtWork DEF AtWorker, MessageHeld
<1> HIDE DEF m
<1>3. /\ dlq \subseteq dlq'
      /\ pc'[w] = "failDelete" => m \in dlq'
      /\ \/ place' = place
         \/ place' = [place EXCEPT ![m] = "visible"]
         \/ place' = [place EXCEPT ![m] = "gone"] /\ m \in dlq
  BY <1>1, <1>2 DEF FailCopy, FailDelete, FailRelease, Defer, CopyToDlq, DeleteMessage,
     MakeVisible, Goto, Project, Rest, IInv, Typed, m
<1>4. NothingLost
  BY <1>1, <1>2, <1>3 DEF NothingLost, KeptIn, OrphanInv, SentHasJob, IInv, Typed
<1>5. /\ pc'[w] \in {"failDelete", "project", "idle"}
      /\ pc'[w] = "project" => JobOf(w) \notin Syncs
      /\ pc'[w] # "idle" => ctx'[w].msg = m
      /\ ctx'[w].state.run \in {NoJob, ctx[w].state.run}
  <2>1. CASE FailCopy(w)
    BY <2>1 DEF FailCopy, Goto, IInv, Typed, m
  <2>2. CASE Defer(w)
    BY <2>2, BlankHasNoRun DEF Defer, Rest, Goto, Set, IInv, Typed
  <2>3. CASE FailDelete(w) \/ FailRelease(w)
    <3>1. PICK r : Project(w, r) BY <2>3 DEF FailDelete, FailRelease
    <3>2. CASE Rest(w) BY <3>2, BlankHasNoRun DEF Rest, Goto, Set, IInv, Typed
    <3>3. CASE JobOf(w) \notin Syncs /\ Goto(w, "project")
               /\ Set(w, [ctx[w] EXCEPT !.result = r])
      BY <3>3, AtWork DEF Goto, Set, IInv, Typed, Locals, m
    <3> QED BY <3>1, <3>2, <3>3 DEF Project
  <2> QED BY <2>1, <2>2, <2>3
<1>6. \A j \in Jobs : AckedIn(body', place', dlq', j) => AckedIn(body, place, dlq, j)
  BY <1>4, QueueOnly
<1>7. KeptIn(place', dlq', m) /\ place'[m] # "unsent" BY <1>2, <1>4 DEF NothingLost
<1>8. JobOf(w) \in Jobs /\ JobOf(w) = body[m] BY <1>1, AtWork DEF JobOf, m
<1>9. AtWorker(w)'
  BY <1>1, <1>2, <1>3, <1>5, <1>6, <1>7, <1>8, AtWork DEF AtWorker, MessageHeld,
     ChildWorked, Walks, RefreshIsTrue, OfChild, Refreshing, AtChild, InWalk, JobOf, Children
<1> QED BY <1>1, <1>4, <1>5, <1>9, QueueMoves DEF InWalk

LEMMA AckOrphan ==
    ASSUME NEW w \in Workers, IInv, OrphanInv(w), Ack(w)
    PROVE  OrphanInv(w)'
<1> DEFINE m == ctx[w].msg
<1>1. /\ pc[w] = "ack" /\ pc'[w] = "idle" /\ ctx'[w] = Blank
      /\ UNCHANGED <<status, docStatus, stamped, source, body, dlq>>
      /\ place' = [place EXCEPT ![m] = "gone"] \/ place' = place
  BY DEF Ack, Rest, Goto, Set, DeleteMessage, IInv, Typed, storeVars
<1>2. /\ ctx'[w].msg = NoMsg /\ NoMsg \notin Msgs /\ ctx'[w].state.run = NoJob
  BY <1>1, BlankHasNoRun, SyncAssumption DEF Blank
<1>3. m \in Msgs /\ place[m] # "unsent" /\ body[m] \in Jobs
  BY <1>1, AtWork DEF AtWorker, MessageHeld, JobOf
<1>4. body[m] \in Children => status[body[m]] = "succeeded"
  BY <1>1, AtWork DEF AtWorker, ChildWorked, JobOf
<1> HIDE DEF m
<1>5. \A n \in Msgs : n # m => place'[n] = place[n] BY <1>1, <1>3 DEF IInv, Typed
<1>6. place \in [Msgs -> Places] BY DEF IInv, Typed
<1>7. AtWorker(w)'
  BY <1>1, <1>2, AtWork DEF AtWorker, MessageHeld, ChildWorked, Walks, RefreshIsTrue,
     OfChild, Refreshing, AtChild, InWalk
<1>8. AckedSucceeded'
  BY <1>1, <1>4, <1>5 DEF OrphanInv, AckedSucceeded, AckedIn
<1>9. SentHasJob' /\ UnsentIsFresh' /\ DocsAgree'
  BY <1>1, <1>3, <1>5 DEF OrphanInv, SentHasJob, UnsentIsFresh, DocsAgree
<1>10. ASSUME NEW j \in Children, Open(status', body', j)
       PROVE  \E n \in Msgs :
                  /\ body'[n] \in Syncs /\ j \in Manifest[body'[n]]
                  /\ KeptIn(place', dlq', n) /\ WillWalk(status', body'[n])
                  /\ ctx'[w].msg = n => ~Behind(pc'[w], ctx'[w], j)
  <2>1. PICK n \in Msgs :
            /\ body[n] \in Syncs /\ j \in Manifest[body[n]]
            /\ KeptIn(place, dlq, n) /\ WillWalk(status, body[n])
            /\ ctx[w].msg = n => ~Behind(pc[w], ctx[w], j)
    BY <1>1, <1>10 DEF OrphanInv, Answered
  <2>2. n # m BY <1>1, <2>1 DEF Behind, m
  <2>3. KeptIn(place', dlq', n) BY <1>1, <1>5, <2>1, <2>2 DEF KeptIn
  <2> QED BY <1>1, <1>2, <2>1, <2>3
<1>11. Answered(w)' BY <1>10 DEF Answered
<1> QED BY <1>7, <1>8, <1>9, <1>11 DEF OrphanInv

(* The requests. *)
LEMMA RequestOrphan ==
    ASSUME NEW w \in Workers, IInv, OrphanInv(w), NEW r \in Requesters, NEW k \in Syncs,
           Request(r, k)
    PROVE  OrphanInv(w)'
<1>1. /\ UNCHANGED <<body, place, dlq, pc, ctx, source, stamped>>
      /\ \/ UNCHANGED <<status, docStatus>>
         \/ /\ status[k] = "absent" /\ status' = [status EXCEPT ![k] = "queued"]
            /\ docStatus' = [docStatus EXCEPT ![DocOf[k]] = "queued"]
  BY DEF Request, CreateQueued, queueVars, storeVars, workerVars
<1>2. k \in Jobs /\ k \notin Children /\ status \in [Jobs -> RunStatus]
  BY AtWork DEF IInv, Typed
<1>3. \A j \in Jobs : \/ status'[j] = status[j]
                     \/ (j = k /\ status[j] = "absent" /\ status'[j] = "queued")
  BY <1>1, <1>2
<1>4. \A j \in Children : status'[j] = status[j] BY <1>2, <1>3, AtWork
<1>5. AtWorker(w)'
  <2>1. pc[w] \in AtChild => ctx[w].child \in Children
    BY AtWork DEF AtWorker, Walks, AtChild, Locals
  <2>2. ChildWorked(w)'
    BY <1>1, <1>4, AtWork DEF AtWorker, ChildWorked, OfChild, Refreshing, JobOf
  <2>3. Walks(w)'
    BY <1>1, <1>3, <1>4, <2>1, AtWork DEF AtWorker, Walks, InWalk, AtChild, SyncPcs, JobOf
  <2>4. RefreshIsTrue(w)' BY <1>1, <1>4, AtWork DEF AtWorker, RefreshIsTrue
  <2>5. MessageHeld(w)' BY <1>1, AtWork DEF AtWorker, MessageHeld
  <2> QED BY <2>2, <2>3, <2>4, <2>5 DEF AtWorker
<1>6. CASE UNCHANGED <<status, docStatus>>
  <2>1. PassesNone(w) BY <1>1 DEF PassesNone
  <2> QED BY <1>1, <1>5, <1>6, <2>1, NothingRecorded
<1>7. CASE status' = [status EXCEPT ![k] = "queued"]
           /\ docStatus' = [docStatus EXCEPT ![DocOf[k]] = "queued"]
  <2>1. \A j \in Children : Open(status', body', j) => Open(status, body, j)
    BY <1>1, <1>4 DEF Open, DoneIn
  <2>2. \A i \in Syncs : WillWalk(status, i) => WillWalk(status', i)
    BY <1>3, AtWork DEF WillWalk
  <2>3. Answered(w)' BY <1>1, <2>1, <2>2 DEF OrphanInv, Answered
  <2> QED BY <1>1, <1>2, <1>5, <1>7, <2>3, RunRecorded
<1> QED BY <1>1, <1>6, <1>7

LEMMA RequestGoesOnOrphan ==
    ASSUME NEW w \in Workers, IInv, OrphanInv(w), NEW r \in Requesters,
           RequestStep(r) \/ RequestDies(r)
    PROVE  OrphanInv(w)'
<1>1. reqPc[r] # "idle" => reqSync[r] \in Syncs BY DEF IInv, RequestHasSync
<1>2. NothingLost /\ UNCHANGED <<status, docStatus, pc, ctx>>
      /\ source'.run \in Syncs \cup {NoJob}
      /\ (stamped' = stamped \/ (stamped' = stamped \cup {reqSync[r]} /\ reqSync[r] \in Syncs))
  <2>s. source.run \in Syncs \cup {NoJob} BY DEF OrphanInv, AtWorker, RefreshIsTrue
  <2>0. UNCHANGED <<body, place, dlq>> => NothingLost
    BY DEF NothingLost, OrphanInv, SentHasJob
  <2>1. CASE RequestState(r)
    BY <1>1, <2>1, <2>0 DEF RequestState, State, queueVars, storeVars, workerVars
  <2>2. CASE RequestStamp(r)
    BY <1>1, <2>2, <2>0, <2>s DEF RequestStamp, StampMessageId, queueVars, workerVars
  <2>3. CASE RequestDies(r)
    <3>1. UNCHANGED <<body, place, dlq, status, docStatus, stamped, pc, ctx, source>>
      BY <2>3 DEF RequestDies, queueVars, storeVars, workerVars
    <3>2. NothingLost BY <2>0, <3>1
    <3>3. source'.run \in Syncs \cup {NoJob} BY <2>s, <3>1
    <3> QED BY <3>1, <3>2, <3>3
  <2>4. CASE \E m \in Msgs : RequestEnqueue(r, m)
    <3>1. PICK m \in Msgs : RequestEnqueue(r, m) BY <2>4
    <3>2. reqSync[r] \in Jobs BY <1>1, <3>1, AtWork DEF RequestEnqueue
    <3>3. UNCHANGED <<status, docStatus, stamped, pc, ctx, source>>
      BY <3>1 DEF RequestEnqueue, storeVars, workerVars
    <3>4. NothingLost BY <3>1, <3>2, EnqueueLosesNothing DEF RequestEnqueue
    <3>5. source'.run \in Syncs \cup {NoJob} BY <2>s, <3>3
    <3> QED BY <3>3, <3>4, <3>5
  <2> QED BY <2>1, <2>2, <2>3, <2>4 DEF RequestStep
<1>3. AtWorker(w)' BY <1>2, WorkerRests
<1>4. CASE stamped' = stamped BY <1>2, <1>3, <1>4, QueueMoves
<1>5. CASE stamped' = stamped \cup {reqSync[r]} /\ reqSync[r] \in Syncs
  <2>1. RequestStamp(r) \/ stamped' = stamped
    BY DEF RequestStep, RequestDies, RequestState, RequestEnqueue, storeVars
  <2>2. CASE stamped' = stamped BY <1>4, <2>2
  <2>3. CASE RequestStamp(r)
    <3>1. UNCHANGED <<body, place, dlq, source>>
      BY <2>3 DEF RequestStamp, queueVars
    <3>2. UnsentIsFresh' BY <1>2, <1>5, <3>1, AtWork DEF OrphanInv, UnsentIsFresh
    <3>3. (SentHasJob /\ AckedSucceeded /\ DocsAgree /\ Answered(w))'
      BY <1>2, <3>1 DEF OrphanInv, SentHasJob, AckedSucceeded, DocsAgree, Answered
    <3> QED BY <1>3, <3>2, <3>3 DEF OrphanInv
  <2> QED BY <2>1, <2>2, <2>3
<1> QED BY <1>2, <1>4, <1>5

LEMMA WorkerMoveOrphan ==
    ASSUME NEW w \in Workers, IInv, OrphanInv(w), WorkerMove(w)
    PROVE  OrphanInv(w)'
<1>1. CASE \E m \in Msgs : Receive(w, m) BY <1>1, ReceiveOrphan
<1>2. CASE SyncRaises(w) \/ StepRaises(w) \/ Dies(w) BY <1>2, RaisesOrphan
<1>3. CASE WorkerStep(w)
  <2>1. CASE SyncBegin(w) \/ SyncOpenRun(w) \/ SyncOpenState(w) \/ SyncFailedRun(w)
             \/ SyncFailedState(w) \/ SyncCloseRun(w) \/ SyncCloseState(w)
    BY <2>1, BeginOrphan, OpenRunOrphan, OpenStateOrphan, FailedStateOrphan, CloseRunOrphan,
       CloseStateOrphan
  <2>2. CASE (\E j \in Children : Visit(w, j)) \/ RequeueChild(w)
             \/ (\E m \in Msgs : SendChild(w, m)) \/ ChildAlreadySent(w) \/ StampChild(w)
             \/ IngestText(w) \/ TextIngested(w)
    BY <2>2, VisitOrphan, RequeueOrphan, SendChildOrphan, AlreadySentOrphan,
       IngestTextOrphan, TextIngestedOrphan
  <2>3. CASE Register(w) \/ RunChild(w) \/ Work(w) \/ ChildFailed(w)
             \/ ReadSource(w) \/ ReadDocs(w) \/ MarkParent(w) \/ WriteSource(w)
    BY <2>3, RegisterOrphan, RunChildOrphan, WorkOrphan, ChildFailedOrphan, ReadSourceOrphan,
       ReadDocsOrphan, MarkParentOrphan, WriteSourceOrphan
  <2>4. CASE Ack(w) \/ Defer(w) \/ FailCopy(w) \/ FailDelete(w) \/ FailRelease(w)
             \/ ReleaseRefused(w)
    BY <2>4, AckOrphan, FailOrphan, RaisesOrphan DEF ReleaseRefused
  <2> QED BY <1>3, <2>1, <2>2, <2>3, <2>4 DEF WorkerStep
<1> QED BY <1>1, <1>2, <1>3 DEF WorkerMove

LEMMA OrphanInvStep ==
    ASSUME NEW w, Workers = {w}, IInv, OrphanInv(w), [AcksNext]_vars
    PROVE  IInv' /\ OrphanInv(w)'
<1>w. w \in Workers OBVIOUS
<1>1. [Next]_vars BY DEF AcksNext, Next, WorkerNext
<1>2. IInv' BY <1>1, NextIInv
<1>3. CASE QueueNext /\ UNCHANGED <<storeVars, source, walked, requestVars, workerVars>>
  BY <1>w, <1>2, <1>3, QueueOrphan
<1>4. CASE RequestNext
  BY <1>w, <1>2, <1>4, RequestOrphan, RequestGoesOnOrphan DEF RequestNext
<1>5. CASE \E v \in Workers : WorkerMove(v) BY <1>w, <1>2, <1>5, WorkerMoveOrphan
<1>6. CASE UNCHANGED vars
  <2>1. UNCHANGED <<body, place, dlq, status, docStatus, stamped, pc, ctx, source>>
    BY <1>6 DEF vars, queueVars, storeVars, workerVars
  <2>2. source.run \in Syncs \cup {NoJob} BY DEF OrphanInv, AtWorker, RefreshIsTrue
  <2>3. NothingLost BY <2>1 DEF NothingLost, OrphanInv, SentHasJob
  <2>4. AtWorker(w)' BY <1>w, <2>1, <2>2, <2>3, WorkerRests
  <2> QED BY <1>w, <1>2, <2>1, <2>3, <2>4, QueueMoves
<1> QED BY <1>2, <1>3, <1>4, <1>5, <1>6 DEF AcksNext

(* A child a sync has registered is never lost, whatever dies, raises or    *)
(* comes back, while one worker serves the queue (desiredCount 1 outside    *)
(* production) and the delete of a message whose work is recorded is not    *)
(* refused: execute_source_sync, _enqueue_child_if_needed, process_once.    *)
THEOREM NoChildIsOrphaned ==
    ASSUME NEW w, Workers = {w}
    PROVE  AcksSpec => []NoOrphanChild
<1>1. Init => IInv /\ OrphanInv(w) BY InitIInv, OrphanInit
<1>2. IInv /\ OrphanInv(w) /\ [AcksNext]_vars => (IInv /\ OrphanInv(w))'
  BY OrphanInvStep
<1>3. IInv /\ OrphanInv(w) => NoOrphanChild BY OrphanInvSuffices
<1> QED BY <1>1, <1>2, <1>3, PTL DEF AcksSpec

-------------------------------------------------------------------------------
(* The source never looks successful too early.  While it does, every child *)
(* that is registered has succeeded: the two that write "succeeded" are the *)
(* close of a walk, whose tally then holds none but successes, and a refresh, *)
(* whose reading stands as long as it does because one worker marks children. *)

ChildrenGood == \A j \in Children : status[j] \in {"absent", "succeeded"}
LooksTrue == source.status = "succeeded" => ChildrenGood

WorkLooks(w) ==
    /\ pc[w] \in InWalk => source.status # "succeeded"
    /\ pc[w] \notin {"idle", "register", "ack"} /\ JobOf(w) \in Children =>
          source.status # "succeeded"
    /\ pc[w] = "work" => status[JobOf(w)] = "running"
    /\ pc[w] \in Refreshing /\ ctx[w].then = "defer" => status[JobOf(w)] = "running"
    /\ pc[w] = "writeSource" /\ ctx[w].state.status = "succeeded" => ChildrenGood

Tallied(w) ==
    /\ pc[w] \in InWalk /\ ctx[w].open = 0 /\ ctx[w].failed = 0 =>
          \A j \in Children \ ctx[w].todo : status[j] \in {"absent", "succeeded"}
    /\ pc[w] = "send" => ctx[w].row.status \in {"queued", "running"}

SentIsThere == \A m \in Msgs : body[m] \in Children => status[body[m]] # "absent"
DocsOwned ==
    \A d \in ChildDocs : docStatus[d] # "absent" => \E j \in Children : DocOf[j] = d

LooksInv(w) == LooksTrue /\ WorkLooks(w) /\ Tallied(w) /\ SentIsThere /\ DocsOwned

LEMMA LooksInvSuffices ==
    ASSUME NEW w \in Workers, OrphanInv(w), LooksInv(w)
    PROVE  NeverLooksSuccessful
<1> SUFFICES ASSUME source.status = "succeeded", NEW d \in ChildDocs
             PROVE  docStatus[d] \notin {"queued", "running"}
  BY DEF NeverLooksSuccessful
<1>1. CASE docStatus[d] = "absent" BY <1>1
<1>2. CASE docStatus[d] # "absent"
  <2>1. PICK j \in Children : DocOf[j] = d BY <1>2 DEF LooksInv, DocsOwned
  <2>2. docStatus[d] = status[j] BY <2>1 DEF OrphanInv, DocsAgree
  <2> QED BY <2>2 DEF LooksInv, LooksTrue, ChildrenGood
<1> QED BY <1>1, <1>2

LEMMA LooksInit ==
    ASSUME NEW w \in Workers, Init
    PROVE  LooksInv(w)
<1> USE DEF Init, QueueInit, StoreInit, SyncInit
<1>1. LooksTrue BY DEF LooksTrue, ChildrenGood, Children
<1>2. WorkLooks(w) /\ Tallied(w)
  BY DEF WorkLooks, Tallied, InWalk, Refreshing
<1>3. SentIsThere /\ DocsOwned
  BY NoJobAssumption DEF SentIsThere, DocsOwned, Children, ChildDocs
<1> QED BY <1>1, <1>2, <1>3 DEF LooksInv

LEMMA OwnedStays ==
    ASSUME DocsOwned,
           docStatus' = docStatus
           \/ \E j \in Jobs : \E s : docStatus' = [docStatus EXCEPT ![DocOf[j]] = s]
    PROVE  DocsOwned'
<1>1. CASE docStatus' = docStatus BY <1>1 DEF DocsOwned
<1>2. CASE \E j \in Jobs : \E s : docStatus' = [docStatus EXCEPT ![DocOf[j]] = s]
  <2>0. PICK j \in Jobs : \E s : docStatus' = [docStatus EXCEPT ![DocOf[j]] = s] BY <1>2
  <2>1. PICK s : docStatus' = [docStatus EXCEPT ![DocOf[j]] = s] BY <2>0
  <2>2. \A d : d # DocOf[j] => docStatus'[d] = docStatus[d] BY <2>1
  <2>3. DocOf[j] \in ChildDocs => j \in Children
    BY SyncAssumption DEF Children, ChildDocs
  <2> QED BY <2>2, <2>3 DEF DocsOwned
<1> QED BY <1>1, <1>2

(* Steps that mark no child and do not make the source look successful. *)
LEMMA ChildrenSame ==
    ASSUME NEW w \in Workers, LooksInv(w),
           \A j \in Children : status'[j] = status[j],
           source'.status = source.status \/ source'.status # "succeeded",
           \A m \in Msgs : body'[m] \in Children =>
               body[m] = body'[m] \/ status[body'[m]] # "absent",
           docStatus' = docStatus
           \/ \E j \in Jobs : \E s : docStatus' = [docStatus EXCEPT ![DocOf[j]] = s],
           WorkLooks(w)', Tallied(w)'
    PROVE  LooksInv(w)'
<1>1. LooksTrue' BY DEF LooksInv, LooksTrue, ChildrenGood
<1>2. SentIsThere' BY DEF LooksInv, SentIsThere
<1>3. DocsOwned' BY OwnedStays DEF LooksInv
<1> QED BY <1>1, <1>2, <1>3 DEF LooksInv

(* A worker that neither walks nor works at a child has nothing to keep. *)
LEMMA NothingToKeep ==
    ASSUME NEW w \in Workers, pc'[w] \notin InWalk,
           pc'[w] \in {"idle", "register", "ack"} \/ JobOf(w)' \in Syncs,
           pc'[w] \notin Refreshing \cup {"work"}
    PROVE  WorkLooks(w)' /\ Tallied(w)'
BY DEF WorkLooks, Tallied, Children, InWalk, Refreshing

LEMMA SyncLooks ==
    ASSUME NEW w \in Workers, IInv, OrphanInv(w), LooksInv(w),
           SyncBegin(w) \/ SyncOpenRun(w) \/ SyncFailedRun(w) \/ SyncFailedState(w)
    PROVE  LooksInv(w)'
<1>1. /\ pc[w] \in {"sync", "open", "syncFailed", "syncFailedState"}
      /\ ctx' = ctx /\ body' = body
      /\ pc'[w] \in {"ack", "open", "openState", "syncFailedState", "fail"}
      /\ source'.status = source.status \/ source'.status = "failed"
      /\ UNCHANGED <<status, docStatus>> \/ \E s : MarkRun(JobOf(w), s)
  BY DEF SyncBegin, SyncOpenRun, SyncFailedRun, SyncFailedState, Goto, State, IInv, Typed,
     queueVars, storeVars
<1>2. JobOf(w) \in Syncs /\ JobOf(w) \in Jobs /\ JobOf(w) \notin Children
  BY <1>1, AtWork DEF SyncPcs
<1>3. \A j \in Children : status'[j] = status[j]
  BY <1>1, <1>2, AtWork DEF MarkRun, IInv, Typed
<1>4. docStatus' = docStatus
      \/ \E j \in Jobs : \E s : docStatus' = [docStatus EXCEPT ![DocOf[j]] = s]
  BY <1>1, <1>2 DEF MarkRun
<1>5. WorkLooks(w)' /\ Tallied(w)'
  BY <1>1, <1>2, NothingToKeep DEF JobOf, InWalk, Refreshing
<1> QED BY <1>1, <1>3, <1>4, <1>5, ChildrenSame

LEMMA OpenStateLooks ==
    ASSUME NEW w \in Workers, \A k \in Syncs : Manifest[k] = Children,
           IInv, OrphanInv(w), LooksInv(w), SyncOpenState(w)
    PROVE  LooksInv(w)'
<1>1. /\ pc[w] = "openState" /\ pc'[w] = "walk" /\ source'.status = "syncing"
      /\ ctx'[w].todo = Manifest[JobOf(w)] /\ ctx'[w].msg = ctx[w].msg
      /\ UNCHANGED <<body, status, docStatus>>
  BY AtWork DEF SyncOpenState, Goto, Set, State, IInv, Typed, Locals, queueVars, storeVars
<1>2. ctx'[w].todo = Children BY <1>1, AtWork DEF SyncPcs
<1>3. WorkLooks(w)' /\ Tallied(w)'
  BY <1>1, <1>2 DEF WorkLooks, Tallied, InWalk, Refreshing
<1> QED BY <1>1, <1>3, ChildrenSame

LEMMA CloseRunLooks ==
    ASSUME NEW w \in Workers, IInv, OrphanInv(w), LooksInv(w), SyncCloseRun(w)
    PROVE  LooksInv(w)'
<1> DEFINE s == RunOf(CloseWith(w, ctx[w]).status)
<1>1. /\ pc[w] = "walk" /\ pc'[w] = "closeState" /\ source' = source /\ ctx' = ctx
      /\ body' = body /\ MarkRun(JobOf(w), s)
  BY DEF SyncCloseRun, Goto, IInv, Typed, queueVars
<1>2. JobOf(w) \in Syncs /\ JobOf(w) \in Jobs /\ JobOf(w) \notin Children
  BY <1>1, AtWork DEF SyncPcs, InWalk
<1> HIDE DEF s
<1>3. \A j \in Children : status'[j] = status[j]
  BY <1>1, <1>2, AtWork DEF MarkRun, IInv, Typed
<1>4. \E j \in Jobs : \E t : docStatus' = [docStatus EXCEPT ![DocOf[j]] = t]
  BY <1>1, <1>2 DEF MarkRun
<1>5. WorkLooks(w)' /\ Tallied(w)'
  BY <1>1, <1>2, <1>3 DEF LooksInv, WorkLooks, Tallied, InWalk, Refreshing, JobOf
<1> QED BY <1>1, <1>3, <1>4, <1>5, ChildrenSame

LEMMA CloseStateLooks ==
    ASSUME NEW w \in Workers, \A k \in Syncs : Manifest[k] = Children,
           IInv, OrphanInv(w), LooksInv(w), SyncCloseState(w)
    PROVE  LooksInv(w)'
<1> DEFINE c == ctx[w]
           n == Cardinality(Manifest[JobOf(w)])
<1>1. /\ pc[w] = "closeState" /\ pc'[w] = "ack" /\ source' = CloseWith(w, c)
      /\ UNCHANGED <<body, status, docStatus>>
  BY DEF SyncCloseState, Goto, IInv, Typed, queueVars, storeVars
<1>2. JobOf(w) \in Syncs /\ c.todo = {} /\ c.open \in Nat /\ c.failed \in Nat
  BY <1>1, AtWork DEF SyncPcs, InWalk, AtWorker, Walks, Locals
<1>3. n \in Nat
  BY <1>2, FiniteAssumption, FS_Subset, FS_CardinalityType, SyncAssumption
<1>4. source'.status = Verdict(n, n - c.failed - c.open, c.failed)
  BY <1>1 DEF CloseWith, State
<1> HIDE DEF c, n
<1>5. source'.status = "succeeded" => c.open = 0 /\ c.failed = 0
  BY <1>2, <1>3, <1>4 DEF Verdict
<1>6. c.open = 0 /\ c.failed = 0 => ChildrenGood
  BY <1>1, <1>2 DEF LooksInv, Tallied, ChildrenGood, InWalk, c
<1>7. LooksTrue' BY <1>1, <1>5, <1>6 DEF LooksTrue, ChildrenGood
<1>8. WorkLooks(w)' /\ Tallied(w)'
  BY <1>1, NothingToKeep DEF InWalk, Refreshing
<1>9. SentIsThere' /\ DocsOwned'
  BY <1>1 DEF LooksInv, SentIsThere, DocsOwned
<1> QED BY <1>7, <1>8, <1>9 DEF LooksInv

(* The steps of a child message. *)
LEMMA RegisterLooks ==
    ASSUME NEW w \in Workers, IInv, OrphanInv(w), LooksInv(w), Register(w)
    PROVE  LooksInv(w)'
<1>1. /\ pc[w] = "register" /\ pc'[w] \in {"ack", "run"}
      /\ pc'[w] = "run" => status[JobOf(w)] # "succeeded"
      /\ UNCHANGED <<body, status, docStatus, source, ctx>>
  BY DEF Register, Goto, IInv, Typed, queueVars, storeVars
<1>2. JobOf(w) \in Children /\ ctx[w].msg \in Msgs BY <1>1, AtWork DEF OfChild
<1>3. status[JobOf(w)] # "absent" BY <1>2 DEF LooksInv, SentIsThere, JobOf
<1>4. pc'[w] = "run" => source.status # "succeeded"
  BY <1>1, <1>2, <1>3 DEF LooksInv, LooksTrue, ChildrenGood
<1>5. WorkLooks(w)' /\ Tallied(w)'
  BY <1>1, <1>4 DEF WorkLooks, Tallied, InWalk, Refreshing
<1> QED BY <1>1, <1>5, ChildrenSame

(* A child is marked while the source does not look successful. *)
LEMMA ChildMarkedLooks ==
    ASSUME NEW w \in Workers, IInv, OrphanInv(w), LooksInv(w), NEW j \in Children, NEW s,
           s # "absent", source.status # "succeeded", source' = source,
           status' = [status EXCEPT ![j] = s],
           docStatus' = [docStatus EXCEPT ![DocOf[j]] = s],
           body' = body, WorkLooks(w)', Tallied(w)'
    PROVE  LooksInv(w)'
<1>1. LooksTrue' BY DEF LooksTrue
<1>2. SentIsThere' BY AtWork DEF LooksInv, SentIsThere, IInv, Typed
<1>3. DocsOwned' BY OwnedStays, AtWork DEF LooksInv
<1> QED BY <1>1, <1>2, <1>3 DEF LooksInv

LEMMA RunChildLooks ==
    ASSUME NEW w \in Workers, IInv, OrphanInv(w), LooksInv(w), RunChild(w)
    PROVE  LooksInv(w)'
<1>1. /\ pc[w] = "run" /\ pc'[w] = "work" /\ ctx' = ctx /\ source' = source
      /\ body' = body /\ status' = [status EXCEPT ![JobOf(w)] = "running"]
      /\ docStatus' = [docStatus EXCEPT ![DocOf[JobOf(w)]] = "running"]
  BY DEF RunChild, Goto, IInv, Typed, queueVars
<1>2. JobOf(w) \in Children /\ JobOf(w) \in Jobs BY <1>1, AtWork DEF OfChild
<1>3. source.status # "succeeded" BY <1>1, <1>2 DEF LooksInv, WorkLooks
<1>4. JobOf(w)' = JobOf(w) /\ status'[JobOf(w)] = "running"
  BY <1>1, <1>2 DEF JobOf, IInv, Typed
<1>5. WorkLooks(w)' /\ Tallied(w)'
  BY <1>1, <1>3, <1>4 DEF WorkLooks, Tallied, InWalk, Refreshing
<1> QED BY <1>1, <1>2, <1>3, <1>5, ChildMarkedLooks

LEMMA WorkStepLooks ==
    ASSUME NEW w \in Workers, IInv, OrphanInv(w), LooksInv(w), Work(w)
    PROVE  LooksInv(w)'
<1>1. pc[w] = "work" /\ source' = source /\ body' = body
  BY DEF Work, queueVars
<1>2. JobOf(w) \in Children /\ JobOf(w) \in Jobs BY <1>1, AtWork DEF OfChild
<1>3. source.status # "succeeded" /\ status[JobOf(w)] = "running"
  BY <1>1, <1>2 DEF LooksInv, WorkLooks
<1>4. CASE MarkRun(JobOf(w), "succeeded") /\ Goto(w, "refresh")
           /\ Set(w, [ctx[w] EXCEPT !.then = "ack"])
  <2>1. pc'[w] = "refresh" /\ ctx'[w].then = "ack"
    BY <1>4, AtWork DEF Goto, Set, IInv, Typed, Locals
  <2>2. WorkLooks(w)' /\ Tallied(w)'
    BY <1>1, <1>3, <2>1 DEF WorkLooks, Tallied, InWalk, Refreshing
  <2> QED BY <1>1, <1>2, <1>3, <1>4, <2>2, ChildMarkedLooks DEF MarkRun
<1>5. CASE UNCHANGED storeVars /\ \/ Goto(w, "refresh") /\ Set(w, [ctx[w] EXCEPT !.then = "defer"])
                                  \/ Goto(w, "fail") /\ UNCHANGED ctx
  <2>1. /\ pc'[w] \in {"refresh", "fail"} /\ ctx'[w].msg = ctx[w].msg
        /\ UNCHANGED <<status, docStatus>>
    BY <1>5, AtWork DEF Goto, Set, storeVars, IInv, Typed, Locals
  <2>2. JobOf(w)' = JobOf(w) BY <1>1, <2>1 DEF JobOf
  <2>3. WorkLooks(w)' /\ Tallied(w)'
    BY <1>1, <1>3, <2>1, <2>2 DEF WorkLooks, Tallied, InWalk, Refreshing
  <2> QED BY <1>1, <2>1, <2>3, ChildrenSame
<1> QED BY <1>4, <1>5 DEF Work

LEMMA ChildFailedLooks ==
    ASSUME NEW w \in Workers, IInv, OrphanInv(w), LooksInv(w), ChildFailed(w)
    PROVE  LooksInv(w)'
<1>1. /\ pc[w] = "project" /\ pc'[w] = "refresh" /\ source' = source /\ body' = body
      /\ MarkRun(JobOf(w), ctx[w].result)
      /\ ctx'[w].msg = ctx[w].msg /\ ctx'[w].then = "idle"
      /\ ctx[w].result # "absent"
  BY AtWork DEF ChildFailed, Goto, Set, IInv, Typed, Locals, queueVars
<1>2. JobOf(w) \in Children /\ JobOf(w) \in Jobs BY <1>1, AtWork DEF OfChild
<1>3. source.status # "succeeded" BY <1>1, <1>2 DEF LooksInv, WorkLooks
<1>5. WorkLooks(w)' /\ Tallied(w)'
  BY <1>1, <1>3 DEF WorkLooks, Tallied, InWalk, Refreshing
<1> QED BY <1>1, <1>2, <1>3, <1>5, ChildMarkedLooks DEF MarkRun

(* The refresh. *)
LEMMA ContinueIs ==
    ASSUME NEW w \in Workers, IInv, pc[w] \in Refreshing, Continue(w)
    PROVE  /\ pc'[w] = ctx[w].then /\ ctx[w].then \in {"ack", "defer", "idle"}
           /\ pc'[w] # "idle" => ctx'[w].msg = ctx[w].msg
<1>1. ctx[w].then \in {"ack", "defer", "idle"}
  BY DEF IInv, WorkerHasJob, Typed, Locals
<1> DEFINE c == [Blank EXCEPT !.msg = ctx[w].msg, !.receipt = ctx[w].receipt,
                              !.then = ctx[w].then]
<1>2. c.msg = ctx[w].msg BY DEF Blank
<1>3. Continue(w) <=> IF ctx[w].then = "idle" THEN Rest(w)
                      ELSE Goto(w, ctx[w].then) /\ Set(w, c)
  BY DEF Continue
<1> HIDE DEF c
<1> QED BY <1>1, <1>2, <1>3 DEF Rest, Goto, Set, IInv, Typed

LEMMA RefreshLooks ==
    ASSUME NEW w \in Workers, IInv, OrphanInv(w), LooksInv(w),
           ReadSource(w) \/ ReadDocs(w) \/ WriteSource(w) \/ MarkParent(w)
    PROVE  LooksInv(w)'
<1>1. pc[w] \in Refreshing /\ body' = body
  BY DEF ReadSource, ReadDocs, WriteSource, MarkParent, Refreshing, queueVars
<1>2. JobOf(w) \in Children /\ JobOf(w) \in Jobs BY <1>1, AtWork DEF OfChild
<1>3. source.status # "succeeded"
  BY <1>1, <1>2 DEF LooksInv, WorkLooks, Refreshing
<1>4. CASE ReadSource(w) /\ Continue(w)
  <2>1. UNCHANGED <<status, docStatus, source>> BY <1>4 DEF ReadSource, storeVars
  <2>2. pc'[w] \in {"ack", "idle", "defer"} /\ (pc'[w] # "idle" => ctx'[w].msg = ctx[w].msg)
    BY <1>1, <1>4, ContinueIs
  <2>3. WorkLooks(w)' /\ Tallied(w)'
    BY <1>3, <2>1, <2>2 DEF WorkLooks, Tallied, InWalk, Refreshing
  <2> QED BY <1>1, <2>1, <2>3, ChildrenSame
<1>5. CASE (ReadSource(w) /\ Goto(w, "readDocs") /\ Set(w, [ctx[w] EXCEPT !.state = source]))
           \/ ReadDocs(w)
  <2>1. /\ pc'[w] \in {"readDocs", "markParent"} /\ ctx'[w].msg = ctx[w].msg
        /\ ctx'[w].then = ctx[w].then /\ UNCHANGED <<status, docStatus, source>>
    BY <1>5, AtWork DEF ReadSource, ReadDocs, Goto, Set, storeVars, IInv, Typed, Locals
  <2>2. JobOf(w)' = JobOf(w) BY <1>1, <2>1 DEF JobOf
  <2>3. WorkLooks(w)' /\ Tallied(w)'
    BY <1>1, <1>3, <2>1, <2>2 DEF LooksInv, WorkLooks, Tallied, InWalk, Refreshing
  <2> QED BY <1>1, <2>1, <2>3, ChildrenSame
<1>6. CASE MarkParent(w)
  <2> DEFINE k == ctx[w].state.run
             s == RunOf(ctx[w].state.status)
  <2>1. /\ pc[w] = "markParent" /\ pc'[w] = "writeSource" /\ ctx' = ctx /\ source' = source
        /\ MarkRun(k, s)
    BY <1>6 DEF MarkParent, Goto, IInv, Typed
  <2>2. k \in Syncs /\ k \in Jobs /\ k \notin Children
    BY <2>1, AtWork DEF AtWorker, RefreshIsTrue
  <2> HIDE DEF k, s
  <2>3. \A j \in Children : status'[j] = status[j]
    BY <2>1, <2>2, AtWork DEF MarkRun, IInv, Typed
  <2>4. ctx[w].state.status = "succeeded" => ChildrenGood'
    BY <2>1, <2>3, AtWork DEF AtWorker, RefreshIsTrue, ChildrenGood
  <2>5. JobOf(w)' = JobOf(w) BY <1>1, <2>1 DEF JobOf
  <2>6. WorkLooks(w)' /\ Tallied(w)'
    BY <1>1, <1>2, <1>3, <2>1, <2>3, <2>4, <2>5 DEF LooksInv, WorkLooks, Tallied, InWalk,
       Refreshing
  <2> QED BY <1>1, <2>1, <2>2, <2>3, <2>6, ChildrenSame DEF MarkRun
<1>7. CASE WriteSource(w)
  <2>1. /\ pc[w] = "writeSource" /\ source' = ctx[w].state
        /\ UNCHANGED <<status, docStatus>>
    BY <1>7 DEF WriteSource, storeVars
  <2>2. /\ pc'[w] = ctx[w].then /\ ctx[w].then \in {"ack", "defer", "idle"}
        /\ pc'[w] # "idle" => ctx'[w].msg = ctx[w].msg
    BY <1>1, <1>7, ContinueIs DEF WriteSource
  <2>3. source'.status = "succeeded" => ChildrenGood
    BY <2>1 DEF LooksInv, WorkLooks
  <2>4. ctx[w].then = "defer" => source'.status # "succeeded"
    BY <1>1, <1>2, <2>1, <2>3 DEF LooksInv, WorkLooks, ChildrenGood
  <2>5. LooksTrue' BY <2>1, <2>3 DEF LooksTrue, ChildrenGood
  <2>6. WorkLooks(w)' /\ Tallied(w)'
    BY <2>2, <2>4 DEF WorkLooks, Tallied, InWalk, Refreshing
  <2>7. SentIsThere' /\ DocsOwned'
    BY <1>1, <2>1 DEF LooksInv, SentIsThere, DocsOwned
  <2> QED BY <2>5, <2>6, <2>7 DEF LooksInv
<1> QED BY <1>4, <1>5, <1>6, <1>7 DEF ReadSource

(* The ends of a message, and of the process. *)
LEMMA EndsLook ==
    ASSUME NEW w \in Workers, IInv, OrphanInv(w), LooksInv(w),
           \/ SyncRaises(w) \/ StepRaises(w) \/ Dies(w)
           \/ FailCopy(w) \/ FailDelete(w) \/ FailRelease(w) \/ Defer(w) \/ Ack(w)
    PROVE  LooksInv(w)'
<1>1. UNCHANGED <<body, status, docStatus, source>>
  BY DEF SyncRaises, StepRaises, Dies, FailCopy, FailDelete, FailRelease, Defer, Ack,
     CopyToDlq, DeleteMessage, MakeVisible, queueVars, storeVars
<1>2. /\ pc'[w] \in {"idle", "syncFailed", "fail", "failDelete", "project"}
      /\ pc'[w] # "idle" =>
            ctx'[w].msg = ctx[w].msg /\ pc[w] \notin {"idle", "register", "ack"}
  <2>1. CASE SyncRaises(w) \/ FailCopy(w)
    BY <2>1 DEF SyncRaises, FailCopy, Goto, InWalk, IInv, Typed
  <2>2. CASE Dies(w) \/ Defer(w) \/ Ack(w)
    BY <2>2 DEF Dies, Defer, Ack, Rest, Goto, IInv, Typed
  <2>3. CASE StepRaises(w)
    <3>1. pc'[w] = "fail" /\ pc[w] \notin {"idle", "register", "ack"}
      BY <2>3 DEF StepRaises, Goto, IInv, Typed
    <3>2. ctx'[w] = [Blank EXCEPT !.msg = ctx[w].msg, !.receipt = ctx[w].receipt]
      BY <2>3 DEF StepRaises, Set, IInv, Typed
    <3>3. ctx'[w].msg = ctx[w].msg BY <3>2 DEF Blank
    <3> QED BY <3>1, <3>3
  <2>4. CASE FailDelete(w) \/ FailRelease(w)
    <3>1. PICK r : Project(w, r) /\ pc[w] \in {"fail", "failDelete"}
      BY <2>4 DEF FailDelete, FailRelease
    <3>2. CASE Rest(w) BY <3>2 DEF Rest, Goto, IInv, Typed
    <3>3. CASE Goto(w, "project") /\ Set(w, [ctx[w] EXCEPT !.result = r])
      BY <3>1, <3>3, AtWork DEF Goto, Set, IInv, Typed, Locals
    <3> QED BY <3>1, <3>2, <3>3 DEF Project
  <2> QED BY <2>1, <2>2, <2>3, <2>4
<1>3. pc'[w] # "idle" => JobOf(w)' = JobOf(w) BY <1>1, <1>2 DEF JobOf
<1>4. WorkLooks(w)' /\ Tallied(w)'
  BY <1>1, <1>2, <1>3 DEF LooksInv, WorkLooks, Tallied, InWalk, Refreshing
<1> QED BY <1>1, <1>4, ChildrenSame

LEMMA ReceiveLooks ==
    ASSUME NEW w \in Workers, IInv, OrphanInv(w), LooksInv(w), NEW m \in Msgs, Receive(w, m)
    PROVE  LooksInv(w)'
<1>1. /\ UNCHANGED <<body, status, docStatus, source>>
      /\ pc'[w] = IF body[m] \in Syncs THEN "sync" ELSE "register"
  BY DEF Receive, ReceiveMessage, Goto, IInv, Typed, storeVars
<1>2. ctx'[w].msg = m
  <2>1. ctx'[w] = [Blank EXCEPT !.msg = m, !.receipt = receives'[m]]
    BY DEF Receive, Set, IInv, Typed
  <2> QED BY <2>1 DEF Blank
<1>3. WorkLooks(w)' /\ Tallied(w)'
  BY <1>1, <1>2, NothingToKeep DEF InWalk, Refreshing, JobOf
<1> QED BY <1>1, <1>3, ChildrenSame

(* The walk: its tally knows every child behind it. *)
LEMMA TallyCounts ==
    ASSUME NEW c \in Locals, NEW j, NEW s
    PROVE  /\ Tally(c, j, s).todo = c.todo \ {j} /\ Tally(c, j, s).msg = c.msg
           /\ Tally(c, j, s).open = 0 => c.open = 0 /\ s \notin {"queued", "running"}
           /\ Tally(c, j, s).failed = 0 => c.failed = 0 /\ s \notin {"failed", "dead_letter"}
<1> DEFINE x == IF s \in {"queued", "running"} THEN 1 ELSE 0
           y == IF s \in {"failed", "dead_letter"} THEN 1 ELSE 0
           o == c.open + x
           f == c.failed + y
           t == c.todo \ {j}
<1>1. Tally(c, j, s) = [c EXCEPT !.todo = t, !.child = NoJob, !.row = NoRow, !.open = o,
                                 !.failed = f]
  BY DEF Tally
<1>2. /\ x \in Nat /\ y \in Nat /\ (x = 0 => s \notin {"queued", "running"})
      /\ (y = 0 => s \notin {"failed", "dead_letter"})
  OBVIOUS
<1>3. c.open \in Nat /\ c.failed \in Nat BY DEF Locals
<1> HIDE DEF x, y
<1>4. (o = 0 => c.open = 0 /\ x = 0) /\ (f = 0 => c.failed = 0 /\ y = 0)
  BY <1>2, <1>3
<1> HIDE DEF o, f
<1>5. /\ Tally(c, j, s).todo = t /\ Tally(c, j, s).msg = c.msg
      /\ Tally(c, j, s).open = o /\ Tally(c, j, s).failed = f
  BY <1>1 DEF Locals
<1> QED BY <1>2, <1>4, <1>5

(* A child ahead of the walk is marked. *)
LEMMA AheadLooks ==
    ASSUME NEW w \in Workers, IInv, OrphanInv(w), LooksInv(w),
           pc[w] \in InWalk, pc'[w] \in InWalk,
           ctx'[w].msg = ctx[w].msg, ctx'[w].todo = ctx[w].todo,
           ctx'[w].open = ctx[w].open, ctx'[w].failed = ctx[w].failed,
           pc'[w] = "send" => ctx'[w].row.status \in {"queued", "running"},
           NEW j \in Children, j \in ctx[w].todo, NEW s, s # "absent",
           status' = [status EXCEPT ![j] = s],
           docStatus' = [docStatus EXCEPT ![DocOf[j]] = s],
           body' = body, source' = source
    PROVE  LooksInv(w)'
<1>1. source.status # "succeeded" BY DEF LooksInv, WorkLooks
<1>2. Tallied(w)' BY AtWork DEF LooksInv, Tallied, IInv, Typed
<1>3. JobOf(w) \in Syncs /\ JobOf(w)' = JobOf(w) BY AtWork DEF SyncPcs, JobOf
<1>4. WorkLooks(w)' BY <1>1, <1>3, AtWork DEF WorkLooks, InWalk, Refreshing
<1> QED BY <1>1, <1>2, <1>4, ChildMarkedLooks

(* The walk passes a child, as it leaves the child's run or as it found it. *)
LEMMA BehindLooks ==
    ASSUME NEW w \in Workers, IInv, OrphanInv(w), LooksInv(w),
           pc[w] \in InWalk, pc'[w] = "walk", NEW j \in Children, j \in Jobs,
           NEW s, ctx'[w] = Tally(ctx[w], j, s),
           s \in {"succeeded", "queued", "running", "failed"},
           s = "succeeded" => status'[j] = "succeeded",
           body' = body, source' = source,
           \/ UNCHANGED <<status, docStatus>>
           \/ status' = [status EXCEPT ![j] = s] /\ docStatus' = [docStatus EXCEPT ![DocOf[j]] = s]
    PROVE  LooksInv(w)'
<1>1. source.status # "succeeded" BY DEF LooksInv, WorkLooks
<1>2. /\ ctx'[w].todo = ctx[w].todo \ {j} /\ ctx'[w].msg = ctx[w].msg
      /\ ctx'[w].open = 0 => ctx[w].open = 0 /\ s \notin {"queued", "running"}
      /\ ctx'[w].failed = 0 => ctx[w].failed = 0 /\ s \notin {"failed", "dead_letter"}
  BY AtWork, TallyCounts
<1>3. \A i \in Children : i # j => status'[i] = status[i] BY AtWork DEF IInv, Typed
<1>4. Tallied(w)' BY <1>2, <1>3 DEF LooksInv, Tallied
<1>5. JobOf(w) \in Syncs /\ JobOf(w)' = JobOf(w) BY <1>2, AtWork DEF SyncPcs, JobOf
<1>6. WorkLooks(w)' BY <1>1, <1>5 DEF WorkLooks, InWalk, Refreshing
<1>7. CASE UNCHANGED <<status, docStatus>> BY <1>4, <1>6, <1>7, ChildrenSame
<1>8. CASE status' = [status EXCEPT ![j] = s] /\ docStatus' = [docStatus EXCEPT ![DocOf[j]] = s]
  BY <1>1, <1>4, <1>6, <1>8, ChildMarkedLooks
<1> QED BY <1>7, <1>8

LEMMA WalkLooks ==
    ASSUME NEW w \in Workers, IInv, OrphanInv(w), LooksInv(w),
           RequeueChild(w) \/ ChildAlreadySent(w) \/ StampChild(w)
           \/ IngestText(w) \/ TextIngested(w)
    PROVE  LooksInv(w)'
<1> DEFINE j == ctx[w].child
           row == [status |-> "queued", stamped |-> FALSE]
<1>1. /\ pc[w] \in AtChild /\ pc[w] \in InWalk /\ source' = source /\ body' = body
  BY DEF RequeueChild, ChildAlreadySent, StampChild, IngestText, TextIngested, AtChild,
     InWalk, queueVars
<1>2. j \in ctx[w].todo /\ j \in Children /\ j \in Jobs
  BY <1>1, AtWork DEF AtWorker, Walks, Locals
<1>3. CASE RequeueChild(w)
  <2>1. /\ MarkQueued(j) /\ pc'[w] = "send" /\ ctx'[w] = [ctx[w] EXCEPT !.row = row]
    BY <1>3 DEF RequeueChild, Goto, Set, IInv, Typed
  <2>2. /\ ctx'[w].row = row /\ ctx'[w].msg = ctx[w].msg /\ ctx'[w].todo = ctx[w].todo
        /\ ctx'[w].open = ctx[w].open /\ ctx'[w].failed = ctx[w].failed
    BY <2>1, AtWork DEF Locals
  <2>3. row.status = "queued" OBVIOUS
  <2> HIDE DEF j, row
  <2>4. pc'[w] \in InWalk BY <2>1 DEF InWalk
  <2> QED BY <1>1, <1>2, <2>1, <2>2, <2>3, <2>4, AheadLooks DEF MarkQueued
<1>4. CASE IngestText(w)
  <2>1. MarkRun(j, "running") /\ pc'[w] = "ingested" /\ ctx' = ctx
    BY <1>4 DEF IngestText, Goto, IInv, Typed
  <2> HIDE DEF j
  <2> QED BY <1>1, <1>2, <2>1, AheadLooks DEF MarkRun, InWalk
<1>5. CASE TextIngested(w)
  <2>1. PICK s \in {"succeeded", "failed"} :
            MarkRun(j, s) /\ pc'[w] = "walk" /\ ctx'[w] = Tally(ctx[w], j, s)
    BY <1>5 DEF TextIngested, Goto, Set, IInv, Typed
  <2> HIDE DEF j
  <2>2. status'[j] = s BY <1>2, <2>1 DEF MarkRun, IInv, Typed
  <2> QED BY <1>1, <1>2, <2>1, <2>2, BehindLooks DEF MarkRun
<1>6. CASE ChildAlreadySent(w) \/ StampChild(w)
  <2>1. /\ UNCHANGED <<status, docStatus>> /\ pc'[w] = "walk"
        /\ \/ ctx'[w] = Tally(ctx[w], j, "queued")
           \/ ctx'[w] = Tally(ctx[w], j, ctx[w].row.status) /\ pc[w] = "send"
    BY <1>6 DEF ChildAlreadySent, StampChild, StampMessageId, Goto, Set, IInv, Typed, storeVars
  <2>2. pc[w] = "send" => ctx[w].row.status \in {"queued", "running"}
    BY DEF LooksInv, Tallied
  <2> HIDE DEF j
  <2>3. PICK s \in {"queued", "running"} : ctx'[w] = Tally(ctx[w], j, s)
    BY <2>1, <2>2
  <2> QED BY <1>1, <1>2, <2>1, <2>3, BehindLooks
<1> QED BY <1>3, <1>4, <1>5, <1>6

LEMMA SendChildLooks ==
    ASSUME NEW w \in Workers, IInv, OrphanInv(w), LooksInv(w), NEW m \in Msgs, SendChild(w, m)
    PROVE  LooksInv(w)'
<1>1. /\ pc[w] = "send" /\ pc'[w] = "stampChild" /\ ctx' = ctx /\ source' = source
      /\ UNCHANGED <<status, docStatus>> /\ EnqueueMessage(m, ctx[w].child)
  BY DEF SendChild, Goto, IInv, Typed, storeVars
<1>2. status[ctx[w].child] # "absent"
  BY <1>1, AtWork DEF AtWorker, Walks, AtChild
<1>3. \A n \in Msgs : body'[n] = body[n] \/ body'[n] = ctx[w].child
  BY <1>1 DEF EnqueueMessage, IInv, Typed
<1>4. JobOf(w)' = JobOf(w) /\ JobOf(w) \in Syncs /\ JobOf(w) \notin Children
  BY <1>1, AtWork DEF SyncPcs, InWalk, EnqueueMessage, AtWorker, MessageHeld, JobOf, IInv,
     Typed
<1>5. WorkLooks(w)' /\ Tallied(w)'
  BY <1>1, <1>4 DEF LooksInv, WorkLooks, Tallied, InWalk, Refreshing
<1> QED BY <1>1, <1>2, <1>3, <1>5, ChildrenSame

LEMMA VisitLooks ==
    ASSUME NEW w \in Workers, IInv, OrphanInv(w), LooksInv(w), NEW j \in Children, Visit(w, j)
    PROVE  LooksInv(w)'
<1> DEFINE new == [status |-> "queued", stamped |-> FALSE]
           row == [status |-> status[j], stamped |-> j \in stamped]
<1>1. /\ pc[w] = "walk" /\ pc[w] \in InWalk /\ j \in ctx[w].todo /\ source' = source
      /\ body' = body /\ j \in Jobs
  BY AtWork DEF Visit, queueVars, InWalk
<1>3. CASE CreateQueued(j) /\ Goto(w, ChildPath(j, "queued"))
           /\ Set(w, [ctx[w] EXCEPT !.child = j, !.row = new])
  <2>1. pc'[w] \in {"send", "ingest"} BY <1>3 DEF ChildPath, Goto, IInv, Typed
  <2>2. /\ ctx'[w].row = new /\ ctx'[w].msg = ctx[w].msg /\ ctx'[w].todo = ctx[w].todo
        /\ ctx'[w].open = ctx[w].open /\ ctx'[w].failed = ctx[w].failed
    BY <1>3, AtWork DEF Set, IInv, Typed, Locals
  <2>3. new.status = "queued" OBVIOUS
  <2> HIDE DEF new
  <2>4. pc'[w] \in InWalk BY <2>1 DEF InWalk
  <2> QED BY <1>1, <1>3, <2>1, <2>2, <2>3, <2>4, AheadLooks DEF CreateQueued
<1>4. CASE Goto(w, ChildPath(j, status[j])) /\ UNCHANGED storeVars
           /\ Set(w, [ctx[w] EXCEPT !.child = j, !.row = row])
  <2>1. /\ pc'[w] \in {"send", "ingest", "requeue"}
        /\ pc'[w] = "send" => status[j] \in {"queued", "running"}
    BY <1>4 DEF ChildPath, Goto, IInv, Typed
  <2>2. /\ ctx'[w].row = row /\ ctx'[w].msg = ctx[w].msg /\ ctx'[w].todo = ctx[w].todo
        /\ ctx'[w].open = ctx[w].open /\ ctx'[w].failed = ctx[w].failed
    BY <1>4, AtWork DEF Set, IInv, Typed, Locals
  <2>3. row.status = status[j] BY Zenon
  <2>4. UNCHANGED <<status, docStatus>> BY <1>4 DEF storeVars
  <2> HIDE DEF row
  <2>5. JobOf(w) \in Syncs /\ JobOf(w) \notin Children /\ JobOf(w)' = JobOf(w)
    BY <1>1, <2>2, AtWork DEF SyncPcs, JobOf
  <2>6. WorkLooks(w)' /\ Tallied(w)'
    BY <1>1, <2>1, <2>2, <2>3, <2>4, <2>5 DEF LooksInv, WorkLooks, Tallied, InWalk,
       Refreshing
  <2> QED BY <1>1, <2>4, <2>6, ChildrenSame
<1>5. CASE status[j] = "succeeded" /\ Set(w, Tally(ctx[w], j, "succeeded"))
           /\ UNCHANGED <<storeVars, pc>>
  <2>1. /\ ctx'[w] = Tally(ctx[w], j, "succeeded") /\ pc'[w] = "walk"
        /\ UNCHANGED <<status, docStatus>>
    BY <1>1, <1>5 DEF Set, IInv, Typed, storeVars
  <2> QED BY <1>1, <1>5, <2>1, BehindLooks
<1> QED BY <1>3, <1>4, <1>5 DEF Visit

(* The queue and the requests. *)
LEMMA OthersLook ==
    ASSUME NEW w \in Workers, IInv, OrphanInv(w), LooksInv(w), UNCHANGED <<pc, ctx>>,
           \A j \in Children : status'[j] = status[j],
           source'.status = source.status \/ source'.status # "succeeded",
           \A m \in Msgs : place[m] # "unsent" => body'[m] = body[m],
           \A m \in Msgs : body'[m] = body[m] \/ body'[m] \in Syncs,
           docStatus' = docStatus
           \/ \E j \in Jobs : \E s : docStatus' = [docStatus EXCEPT ![DocOf[j]] = s]
    PROVE  LooksInv(w)'
<1>1. pc[w] # "idle" => JobOf(w)' = JobOf(w)
  BY AtWork DEF AtWorker, MessageHeld, JobOf
<1>2. pc[w] \in Refreshing \cup {"work"} => JobOf(w) \in Children /\ pc[w] # "idle"
  BY AtWork DEF OfChild, Refreshing
<1>3. WorkLooks(w)'
  BY <1>1, <1>2 DEF LooksInv, WorkLooks, ChildrenGood, InWalk, Refreshing
<1>4. Tallied(w)' BY DEF LooksInv, Tallied
<1>5. \A m \in Msgs : body'[m] \in Children => body[m] = body'[m] BY AtWork
<1> QED BY <1>3, <1>4, <1>5, ChildrenSame

LEMMA QueueLooks ==
    ASSUME NEW w \in Workers, IInv, OrphanInv(w), LooksInv(w), QueueNext,
           UNCHANGED <<storeVars, source, walked, requestVars, workerVars>>
    PROVE  LooksInv(w)'
<1>1. UNCHANGED <<status, docStatus, source, pc, ctx, body>>
  BY DEF QueueNext, VisibilityExpires, Redrive, storeVars, workerVars
<1> QED BY <1>1, OthersLook

LEMMA RequestLooks ==
    ASSUME NEW w \in Workers, IInv, OrphanInv(w), LooksInv(w), NEW r \in Requesters,
           (\E k \in Syncs : Request(r, k)) \/ RequestStep(r) \/ RequestDies(r)
    PROVE  LooksInv(w)'
<1>1. CASE \E k \in Syncs : Request(r, k)
  <2>1. PICK k \in Syncs : Request(r, k) BY <1>1
  <2>2. k \in Jobs /\ k \notin Children BY AtWork
  <2>3. UNCHANGED <<body, pc, ctx, source>>
    BY <2>1 DEF Request, queueVars, workerVars
  <2>4. CreateQueued(k) \/ UNCHANGED <<status, docStatus>>
    BY <2>1 DEF Request, storeVars
  <2>5. \A j \in Children : status'[j] = status[j]
    BY <2>2, <2>4, AtWork DEF CreateQueued, IInv, Typed
  <2>6. docStatus' = docStatus
        \/ \E j \in Jobs : \E s : docStatus' = [docStatus EXCEPT ![DocOf[j]] = s]
    BY <2>2, <2>4 DEF CreateQueued
  <2> QED BY <2>3, <2>5, <2>6, OthersLook
<1>2. CASE RequestState(r)
  <2>1. UNCHANGED <<body, pc, ctx, status, docStatus>> /\ source'.status = "queued"
    BY <1>2 DEF RequestState, State, queueVars, storeVars, workerVars
  <2> QED BY <2>1, OthersLook
<1>3. CASE RequestStamp(r) \/ RequestDies(r)
  <2>1. UNCHANGED <<body, pc, ctx, status, docStatus, source>>
    BY <1>3 DEF RequestStamp, RequestDies, StampMessageId, queueVars, storeVars, workerVars
  <2> QED BY <2>1, OthersLook
<1>4. CASE \E m \in Msgs : RequestEnqueue(r, m)
  <2>1. PICK m \in Msgs : RequestEnqueue(r, m) BY <1>4
  <2>2. UNCHANGED <<pc, ctx, status, docStatus, source>>
    BY <2>1 DEF RequestEnqueue, storeVars, workerVars
  <2>3. reqSync[r] \in Syncs
    BY <2>1 DEF RequestEnqueue, IInv, RequestHasSync
  <2>4. /\ \A n \in Msgs : place[n] # "unsent" => body'[n] = body[n]
        /\ \A n \in Msgs : body'[n] = body[n] \/ body'[n] = reqSync[r]
    BY <2>1 DEF RequestEnqueue, EnqueueMessage, IInv, Typed
  <2> QED BY <2>2, <2>3, <2>4, OthersLook
<1> QED BY <1>1, <1>2, <1>3, <1>4 DEF RequestStep

LEMMA WorkerMoveLooks ==
    ASSUME NEW w \in Workers, \A k \in Syncs : Manifest[k] = Children,
           IInv, OrphanInv(w), LooksInv(w), WorkerMove(w)
    PROVE  LooksInv(w)'
<1>1. CASE \E m \in Msgs : Receive(w, m) BY <1>1, ReceiveLooks
<1>2. CASE SyncRaises(w) \/ StepRaises(w) \/ Dies(w) BY <1>2, EndsLook
<1>3. CASE WorkerStep(w)
  <2>1. CASE SyncBegin(w) \/ SyncOpenRun(w) \/ SyncFailedRun(w) \/ SyncFailedState(w)
    BY <2>1, SyncLooks
  <2>2. CASE SyncOpenState(w) \/ SyncCloseRun(w) \/ SyncCloseState(w)
    BY <2>2, OpenStateLooks, CloseRunLooks, CloseStateLooks
  <2>3. CASE (\E j \in Children : Visit(w, j)) \/ (\E m \in Msgs : SendChild(w, m))
    BY <2>3, VisitLooks, SendChildLooks
  <2>4. CASE RequeueChild(w) \/ ChildAlreadySent(w) \/ StampChild(w) \/ IngestText(w)
             \/ TextIngested(w)
    BY <2>4, WalkLooks
  <2>5. CASE Register(w) \/ RunChild(w) \/ Work(w) \/ ChildFailed(w)
    BY <2>5, RegisterLooks, RunChildLooks, WorkStepLooks, ChildFailedLooks
  <2>6. CASE ReadSource(w) \/ ReadDocs(w) \/ MarkParent(w) \/ WriteSource(w)
    BY <2>6, RefreshLooks
  <2>7. CASE Ack(w) \/ Defer(w) \/ FailCopy(w) \/ FailDelete(w) \/ FailRelease(w)
             \/ ReleaseRefused(w)
    BY <2>7, EndsLook DEF ReleaseRefused
  <2> QED BY <1>3, <2>1, <2>2, <2>3, <2>4, <2>5, <2>6, <2>7 DEF WorkerStep
<1> QED BY <1>1, <1>2, <1>3 DEF WorkerMove

LEMMA LooksStep ==
    ASSUME NEW w, Workers = {w}, \A k \in Syncs : Manifest[k] = Children,
           IInv, OrphanInv(w), LooksInv(w), [AcksNext]_vars
    PROVE  LooksInv(w)'
<1>w. w \in Workers OBVIOUS
<1>1. CASE QueueNext /\ UNCHANGED <<storeVars, source, walked, requestVars, workerVars>>
  BY <1>w, <1>1, QueueLooks
<1>2. CASE RequestNext BY <1>w, <1>2, RequestLooks DEF RequestNext
<1>3. CASE \E v \in Workers : WorkerMove(v) BY <1>w, <1>3, WorkerMoveLooks
<1>4. CASE UNCHANGED vars
  <2>1. UNCHANGED <<body, status, docStatus, pc, ctx, source>>
    BY <1>4 DEF vars, queueVars, storeVars, workerVars
  <2> QED BY <1>w, <2>1, OthersLook
<1> QED BY <1>1, <1>2, <1>3, <1>4 DEF AcksNext

(* While one worker serves the queue and every sync finds the same listing, *)
(* the state of the source never says "succeeded" over a document that is   *)
(* queued or running: execute_source_sync, _refresh_source_sync_parent.     *)
THEOREM LooksAreTrue ==
    ASSUME NEW w, Workers = {w}, \A k \in Syncs : Manifest[k] = Children
    PROVE  AcksSpec => []NeverLooksSuccessful
<1>1. Init => IInv /\ OrphanInv(w) /\ LooksInv(w) BY InitIInv, OrphanInit, LooksInit
<1>2. IInv /\ OrphanInv(w) /\ LooksInv(w) /\ [AcksNext]_vars
      => (IInv /\ OrphanInv(w) /\ LooksInv(w))'
  BY OrphanInvStep, LooksStep
<1>3. IInv /\ OrphanInv(w) /\ LooksInv(w) => NeverLooksSuccessful BY LooksInvSuffices
<1> QED BY <1>1, <1>2, <1>3, PTL DEF AcksSpec

-------------------------------------------------------------------------------
(* On a calm day a single sync is shown as succeeded only behind its walk.  *)
(* No child has a message before the walk, and the walk is not left before  *)
(* its end; hence whoever refreshes the parent does so behind the walk.     *)

ChildSent == \E m \in Msgs : body[m] \in Children
WalkedInv(w, k) ==
    /\ status[k] = "succeeded" => k \in walked
    /\ ChildSent => k \in walked \/ pc[w] \in InWalk
    /\ pc[w] = "closeState" => k \in walked

WalkGoesOn(w, k) ==
    /\ walked \subseteq walked'
    /\ ChildSent' => ChildSent \/ pc'[w] \in InWalk
    /\ pc[w] \in InWalk => pc'[w] \in InWalk \/ k \in walked'
    /\ pc'[w] = "closeState" => k \in walked' \/ pc[w] = "closeState"
    /\ status'[k] = "succeeded" => status[k] = "succeeded" \/ k \in walked'

LEMMA WalkedStays ==
    ASSUME NEW w, NEW k, WalkedInv(w, k), WalkGoesOn(w, k)
    PROVE  WalkedInv(w, k)'
BY DEF WalkedInv, WalkGoesOn

LEMMA BehindTheWalk ==
    ASSUME NEW w \in Workers, NEW k, IInv, OrphanInv(w), WalkedInv(w, k), pc[w] \in OfChild
    PROVE  k \in walked
<1>0. pc[w] # "idle" BY DEF OfChild, Refreshing
<1>m. ctx[w].msg \in Msgs BY <1>0, AtWork
<1>c. JobOf(w) \in Children BY AtWork DEF OfChild, AtWorker, ChildWorked
<1>1. ChildSent BY <1>m, <1>c DEF JobOf, ChildSent
<1> QED BY <1>1 DEF WalkedInv, OfChild, Refreshing, InWalk

LEMMA CalmWorker ==
    ASSUME NEW w \in Workers, NEW k, Syncs = {k}, IInv, OrphanInv(w), WalkedInv(w, k),
           WorkerStep(w) \/ \E m \in Msgs : Receive(w, m)
    PROVE  WalkGoesOn(w, k)
<1>k. k \in Syncs /\ k \in Jobs /\ k \notin Children BY AtWork
<1>j. pc[w] \in SyncPcs => JobOf(w) = k BY AtWork
<1>0. ASSUME UNCHANGED <<walked, body>>, status'[k] = status[k],
             pc[w] \in InWalk => pc'[w] \in InWalk, pc'[w] # "closeState"
      PROVE  WalkGoesOn(w, k)
  BY <1>0 DEF WalkGoesOn, ChildSent
<1>1. CASE \E m \in Msgs : Receive(w, m)
  <2>1. PICK m \in Msgs : Receive(w, m) BY <1>1
  <2> QED BY <1>0, <2>1 DEF Receive, ReceiveMessage, Goto, InWalk, IInv, Typed, storeVars
<1>2. CASE SyncBegin(w) \/ SyncOpenState(w) \/ SyncFailedState(w) \/ Register(w)
  BY <1>0, <1>2 DEF SyncBegin, SyncOpenState, SyncFailedState, Register, Goto, InWalk, IInv,
     Typed, queueVars, storeVars
<1>3. CASE SyncOpenRun(w) \/ SyncFailedRun(w)
  <2>1. /\ UNCHANGED <<walked, body>> /\ pc'[w] \in {"openState", "syncFailedState"}
        /\ pc[w] \in {"open", "syncFailed"}
        /\ \E s \in {"running", "failed"} : MarkRun(JobOf(w), s)
    BY <1>3 DEF SyncOpenRun, SyncFailedRun, Goto, IInv, Typed, queueVars
  <2>2. status'[k] # "succeeded"
    BY <1>j, <1>k, <2>1 DEF MarkRun, IInv, Typed, SyncPcs
  <2> QED BY <2>1, <2>2 DEF WalkGoesOn, ChildSent, InWalk
<1>4. CASE \E j \in Children : Visit(w, j)
  <2>1. PICK j \in Children : Visit(w, j) BY <1>4
  <2>2. /\ UNCHANGED <<walked, body>> /\ pc[w] = "walk"
        /\ pc'[w] \in {"walk", "ingest", "send", "requeue"}
    BY <2>1 DEF Visit, ChildPath, Goto, IInv, Typed, queueVars
  <2>3. status'[k] = status[k]
    BY <1>k, <2>1 DEF Visit, CreateQueued, storeVars, IInv, Typed
  <2> QED BY <1>0, <2>2, <2>3 DEF InWalk
<1>5. CASE RequeueChild(w) \/ ChildAlreadySent(w) \/ StampChild(w) \/ IngestText(w)
           \/ TextIngested(w)
  <2>1. /\ UNCHANGED <<walked, body>> /\ pc[w] \in AtChild
        /\ pc'[w] \in {"send", "walk", "ingested"}
    BY <1>5 DEF RequeueChild, ChildAlreadySent, StampChild, IngestText, TextIngested, AtChild,
       Goto, IInv, Typed, queueVars
  <2>2. ctx[w].child # k
    BY <1>k, <2>1, AtWork DEF AtWorker, Walks, Locals
  <2>3. status'[k] = status[k]
    BY <1>k, <1>5, <2>2 DEF RequeueChild, ChildAlreadySent, StampChild, IngestText,
       TextIngested, MarkRun, MarkQueued, StampMessageId, storeVars, IInv, Typed
  <2> QED BY <1>0, <2>1, <2>3 DEF InWalk
<1>6. CASE \E m \in Msgs : SendChild(w, m)
  BY <1>6 DEF SendChild, Goto, InWalk, IInv, Typed, storeVars, WalkGoesOn
<1>7. CASE SyncCloseRun(w)
  <2>1. pc[w] = "walk" /\ pc'[w] = "closeState" /\ walked' = walked \cup {JobOf(w)}
    BY <1>7 DEF SyncCloseRun, Goto, IInv, Typed
  <2>2. k \in walked' BY <1>j, <2>1 DEF SyncPcs, InWalk
  <2> QED BY <2>1, <2>2 DEF WalkGoesOn, InWalk
<1>8. CASE SyncCloseState(w)
  BY <1>8, <1>k DEF SyncCloseState, WalkGoesOn, WalkedInv, ChildSent, Goto, IInv, Typed,
     queueVars, storeVars
<1>9. CASE RunChild(w) \/ Work(w) \/ ChildFailed(w) \/ MarkParent(w)
           \/ ReadSource(w) \/ ReadDocs(w) \/ WriteSource(w)
  <2>1. UNCHANGED <<walked, body>> /\ pc[w] \in OfChild
    BY <1>9 DEF RunChild, Work, ChildFailed, MarkParent, ReadSource, ReadDocs, WriteSource,
       OfChild, Refreshing, queueVars
  <2>2. k \in walked BY <2>1, BehindTheWalk
  <2> QED BY <2>1, <2>2 DEF WalkGoesOn, ChildSent
<1>10. CASE Ack(w) \/ Defer(w) \/ FailCopy(w) \/ FailDelete(w) \/ FailRelease(w)
            \/ ReleaseRefused(w)
  <2>1. UNCHANGED <<walked, body, status>>
    BY <1>10 DEF Ack, Defer, FailCopy, FailDelete, FailRelease, ReleaseRefused, StepRaises,
       Dies, DeleteMessage, MakeVisible, CopyToDlq, queueVars, storeVars
  <2>2. pc[w] \in {"ack", "defer", "fail", "failDelete"}
    BY <1>10 DEF Ack, Defer, FailCopy, FailDelete, FailRelease, ReleaseRefused
  <2>3. pc'[w] \in {"idle", "failDelete", "project", "fail"}
    BY <1>10 DEF Ack, Defer, FailCopy, FailDelete, FailRelease, ReleaseRefused, StepRaises,
       Dies, Rest, Project, Goto, IInv, Typed
  <2> QED BY <1>0, <2>1, <2>2, <2>3 DEF InWalk
<1> QED BY <1>1, <1>2, <1>3, <1>4, <1>5, <1>6, <1>7, <1>8, <1>9, <1>10 DEF WorkerStep

LEMMA CalmOthers ==
    ASSUME NEW w \in Workers, NEW k, Syncs = {k}, IInv, OrphanInv(w),
           \/ QueueNext /\ UNCHANGED <<storeVars, source, walked, requestVars, workerVars>>
           \/ RequestNext \/ UNCHANGED vars
    PROVE  WalkGoesOn(w, k)
<1>1. UNCHANGED <<walked, pc>>
  BY DEF RequestNext, Request, RequestStep, RequestState, RequestStamp, RequestEnqueue,
     RequestDies, vars, workerVars
<1>2. \A m \in Msgs : body'[m] = body[m] \/ body'[m] \in Syncs
  <2>1. ASSUME NEW r \in Requesters, NEW m \in Msgs, RequestEnqueue(r, m)
        PROVE  \A n \in Msgs : body'[n] = body[n] \/ body'[n] \in Syncs
    <3>1. reqSync[r] \in Syncs BY <2>1 DEF RequestEnqueue, IInv, RequestHasSync
    <3> QED BY <2>1, <3>1 DEF RequestEnqueue, EnqueueMessage, IInv, Typed
  <2>2. body' = body \/ \E r \in Requesters, m \in Msgs : RequestEnqueue(r, m)
    BY DEF QueueNext, VisibilityExpires, Redrive, RequestNext, Request, RequestStep,
       RequestState, RequestStamp, RequestDies, vars, queueVars
  <2> QED BY <2>1, <2>2
<1>3. ChildSent' => ChildSent BY <1>2, AtWork DEF ChildSent
<1>4. status'[k] = "succeeded" => status[k] = "succeeded"
  <2>1. status' = status \/ \E r \in Requesters, i \in Syncs : Request(r, i)
    BY DEF RequestNext, RequestStep, RequestState, RequestStamp, RequestEnqueue, RequestDies,
       StampMessageId, vars, storeVars
  <2>2. ASSUME NEW r \in Requesters, NEW i \in Syncs, Request(r, i)
        PROVE  status'[k] = "succeeded" => status[k] = "succeeded"
    BY <2>2, AtWork DEF Request, CreateQueued, storeVars, IInv, Typed
  <2> QED BY <2>1, <2>2
<1> QED BY <1>1, <1>3, <1>4 DEF WalkGoesOn

(* A sync that is alone is shown as succeeded only if it reached the end of *)
(* its listing, however its children fail and are retried: no step of a     *)
(* child comes between the documents of a walk (execute_source_sync,        *)
(* _refresh_source_sync_parent).                                            *)
THEOREM SucceededIsWalked ==
    ASSUME NEW w, Workers = {w}, NEW k, Syncs = {k}
    PROVE  CalmSpec => []SucceededWasWalked
<1> DEFINE I == IInv /\ OrphanInv(w) /\ WalkedInv(w, k)
<1>w. w \in Workers OBVIOUS
<1>1. Init => I
  <2> SUFFICES ASSUME Init PROVE I OBVIOUS
  <2>1. WalkedInv(w, k)
    BY <1>w, NoJobAssumption, SyncAssumption DEF WalkedInv, ChildSent, Children, Init,
       QueueInit, StoreInit, SyncInit
  <2> QED BY <1>w, <2>1, InitIInv, OrphanInit
<1>2. I /\ [CalmNext]_vars => I'
  <2> SUFFICES ASSUME I, [CalmNext]_vars PROVE I' OBVIOUS
  <2>1. [AcksNext]_vars
    BY DEF CalmNext, CalmStep, AcksNext, QueueNext, RequestNext, WorkerMove
  <2>2. IInv' /\ OrphanInv(w)' BY <2>1, OrphanInvStep
  <2>3. WalkGoesOn(w, k)
    <3>1. CASE \E v \in Workers : WorkerStep(v) \/ \E m \in Msgs : Receive(v, m)
      BY <1>w, <3>1, CalmWorker
    <3>2. CASE \/ QueueNext /\ UNCHANGED <<storeVars, source, walked, requestVars, workerVars>>
               \/ RequestNext \/ UNCHANGED vars
      BY <1>w, <3>2, CalmOthers
    <3> QED BY <3>1, <3>2 DEF CalmNext, CalmStep, QueueNext, RequestNext
  <2> QED BY <2>2, <2>3, WalkedStays
<1>3. I => SucceededWasWalked BY DEF WalkedInv, SucceededWasWalked
<1> QED BY <1>1, <1>2, <1>3, PTL DEF CalmSpec

-------------------------------------------------------------------------------
(* At rest the source agrees with its rows.  On a calm day a sync is sent   *)
(* once, walked once and acknowledged behind its walk; until then no child  *)
(* is registered but by the walk, whose counts are those of the rows of the *)
(* documents it has left.  Behind it only the worker of a child changes a   *)
(* row, and it refreshes the source before it takes another message.        *)

There(st) == {j \in Children : st[j] # "absent"}
Count(st, S) == Cardinality({j \in Children : st[j] \in S})
Bad == {"failed", "dead_letter"}
ChildStatus == {"absent", "queued", "running", "succeeded"} \cup Bad

(* A state of the source that is what the rows of its documents say.        *)
Exact(s, st, k) ==
    /\ s.run = k
    /\ s.observed = Cardinality(There(st))
    /\ s.changed = Count(st, {"succeeded"})
    /\ s.failed = Count(st, Bad)
    /\ s.status = Verdict(s.observed, s.changed, s.failed)

(* Every request is the first for its key; a message stays with its worker  *)
(* until it is deleted or released, and only a child is released or failed. *)
Holds(w) ==
    /\ \A r \in Requesters : reqPc[r] # "open"
    /\ pc[w] \notin {"syncFailed", "syncFailedState", "requeue"}
    /\ pc[w] \notin {"idle", "project"} /\ ~(pc[w] \in Refreshing /\ ctx[w].then = "idle") =>
          HandleAccepted(ctx[w].msg, ctx[w].receipt)
    /\ pc[w] \in {"defer", "fail", "failDelete"} => JobOf(w) \in Children
    /\ \A m \in Msgs : place[m] = "unsent" => receives[m] = 0

SentOnce(w, k) ==
    /\ \A m \in Msgs : body[m] = k =>
          IF k \in walked
          THEN place[m] = "gone" \/ (pc[w] \in {"closeState", "ack"} /\ ctx[w].msg = m)
          ELSE \/ place[m] = "visible" /\ receives[m] = 0
               \/ pc[w] \in SyncPcs /\ ctx[w].msg = m
    /\ status[k] # "absent" => (\E r \in Requesters : Owes(r)) \/ SentIn(body, k)
    /\ k \in walked => SentIn(body, k)

(* The documents of the listing that the walk has left behind.              *)
Left(c, k) == Manifest[k] \ c.todo

Counted(c, st, k) ==
    /\ c.open = Cardinality({j \in Left(c, k) : st[j] = "queued"})
    /\ c.failed = Cardinality({j \in Left(c, k) : st[j] = "failed"})
    /\ \A j \in Left(c, k) : st[j] \in {"queued", "succeeded", "failed"}

WalkCounts(w, k) ==
    /\ pc[w] \in InWalk =>
          /\ Counted(ctx[w], status, k)
          /\ \A j \in Children \ Left(ctx[w], k) :
                status[j] = "absent" \/ (pc[w] \in AtChild /\ j = ctx[w].child)
    /\ pc[w] \in {"sync", "open", "openState"} => ctx[w].open = 0 /\ ctx[w].failed = 0
    /\ pc[w] \in {"send", "stampChild"} =>
          ctx[w].row = [status |-> "queued", stamped |-> FALSE]
          /\ status[ctx[w].child] = "queued"
    /\ k \notin walked /\ pc[w] \notin InWalk => \A j \in Children : status[j] = "absent"
    /\ \A j \in Children : status[j] \in ChildStatus
    /\ \A m \in Msgs : body[m] \in Children => status[body[m]] # "absent"

Agrees(w, k) ==
    /\ pc[w] = "closeState" => status[k] = RunOf(CloseWith(w, ctx[w]).status)
    /\ k \in walked /\ pc[w] # "closeState" =>
          source.run = k /\ source.observed = Cardinality(There(status))
    /\ k \in walked /\ pc[w] \in {"idle", "register", "run", "ack", "defer"} =>
          Exact(source, status, k) /\ status[k] = RunOf(source.status)
    /\ pc[w] = "readDocs" =>
          ctx[w].state.run = k /\ ctx[w].state.observed = Cardinality(There(status))
    /\ pc[w] \in {"markParent", "writeSource"} => Exact(ctx[w].state, status, k)
    /\ pc[w] = "writeSource" => status[k] = RunOf(ctx[w].state.status)

CalmInv(w, k) == Holds(w) /\ SentOnce(w, k) /\ WalkCounts(w, k) /\ Agrees(w, k) /\ DocsOwned

(* How rows are counted: by jobs, by documents, and by what is left.        *)
LEMMA ChildrenFinite ==
    ASSUME NEW S \in SUBSET Children
    PROVE  IsFiniteSet(S) /\ Cardinality(S) \in Nat
<1>1. IsFiniteSet(S) BY FiniteAssumption, FS_Subset DEF Children
<1> QED BY <1>1, FS_CardinalityType

LEMMA SameCounts ==
    ASSUME NEW st, NEW su, \A j \in Children : st[j] = su[j]
    PROVE  /\ There(st) = There(su)
           /\ \A S : Count(st, S) = Count(su, S)
           /\ \A s, k : Exact(s, st, k) <=> Exact(s, su, k)
<1>1. There(st) = There(su) BY DEF There
<1>2. ASSUME NEW S PROVE Count(st, S) = Count(su, S)
  <2>1. {j \in Children : st[j] \in S} = {j \in Children : su[j] \in S} OBVIOUS
  <2> QED BY <2>1 DEF Count
<1> QED BY <1>1, <1>2 DEF Exact

LEMMA DocCounts ==
    ASSUME IInv, DocsAgree, DocsOwned, NEW S, "absent" \notin S
    PROVE  Cardinality(DocsWith(S)) = Count(status, S)
<1> DEFINE J == {j \in Children : status[j] \in S}
           f == [j \in J |-> DocOf[j]]
<1>1. \A j \in Children : DocOf[j] \in ChildDocs
  BY SyncAssumption, DocOfAssumption DEF Children, ChildDocs
<1>2. f \in [J -> DocsWith(S)] BY <1>1 DEF DocsWith, DocsAgree
<1>3. \A i, j \in J : f[i] = f[j] => i = j BY OneJobAssumption DEF Children
<1>4. ASSUME NEW d \in DocsWith(S) PROVE \E j \in J : f[j] = d
  <2>1. PICK j \in Children : DocOf[j] = d BY <1>4 DEF DocsOwned, DocsWith
  <2> QED BY <2>1 DEF DocsWith, DocsAgree
<1>5. f \in Bijection(J, DocsWith(S))
  BY <1>2, <1>3, <1>4 DEF Bijection, Injection, Surjection, IsInjective
<1>6. ExistsBijection(J, DocsWith(S)) BY <1>5 DEF ExistsBijection
<1>7. IsFiniteSet(J) BY ChildrenFinite
<1> QED BY <1>6, <1>7, FS_Bijection DEF Count

LEMMA KnownCounts ==
    ASSUME IInv, DocsAgree, DocsOwned
    PROVE  /\ Cardinality(Known) = Cardinality(There(status))
           /\ KnownIn({"succeeded"}) = Count(status, {"succeeded"})
           /\ KnownIn(Bad) = Count(status, Bad)
<1> DEFINE R == RunStatus \ {"absent"}
<1>1. Known = DocsWith(R) BY DEF Known, DocsWith, IInv, Typed, ChildDocs
<1>2. There(status) = {j \in Children : status[j] \in R}
  BY DEF There, IInv, Typed, Children
<1>3. Cardinality(Known) = Cardinality(There(status))
  BY <1>1, <1>2, DocCounts DEF Count
<1>4. ASSUME NEW S, "absent" \notin S PROVE KnownIn(S) = Count(status, S)
  <2>1. {d \in Known : docStatus[d] \in S} = DocsWith(S)
    BY <1>4 DEF Known, DocsWith
  <2> QED BY <1>4, <2>1, DocCounts DEF KnownIn
<1> QED BY <1>3, <1>4 DEF Bad

LEMMA SplitCount ==
    ASSUME NEW A \in SUBSET Children, NEW B \in SUBSET Children, A \cap B = {}
    PROVE  Cardinality(A \cup B) = Cardinality(A) + Cardinality(B)
<1>1. IsFiniteSet(A) /\ IsFiniteSet(B) BY ChildrenFinite
<1>2. Cardinality(A) \in Nat /\ Cardinality(B) \in Nat BY ChildrenFinite
<1>3. Cardinality(A \cap B) = 0 BY FS_EmptySet
<1>4. Cardinality(A \cup B) = Cardinality(A) + Cardinality(B) - Cardinality(A \cap B)
  BY <1>1, FS_Union
<1> QED BY <1>2, <1>3, <1>4

LEMMA AllCounted ==
    ASSUME NEW st, \A j \in Children : st[j] \in ChildStatus
    PROVE  Cardinality(There(st)) = Count(st, {"succeeded"}) + Count(st, Bad)
                                    + Count(st, {"queued", "running"})
<1> DEFINE S(T) == {j \in Children : st[j] \in T}
<1>1. There(st) = (S({"succeeded"}) \cup S(Bad)) \cup S({"queued", "running"})
  BY DEF There, ChildStatus, Bad
<1>2. Cardinality(S({"succeeded"}) \cup S(Bad))
        = Cardinality(S({"succeeded"})) + Cardinality(S(Bad))
  <2>1. S({"succeeded"}) \cap S(Bad) = {} BY DEF Bad
  <2> QED BY <2>1, SplitCount
<1>3. Cardinality(There(st))
        = Cardinality(S({"succeeded"}) \cup S(Bad)) + Cardinality(S({"queued", "running"}))
  <2>1. (S({"succeeded"}) \cup S(Bad)) \cap S({"queued", "running"}) = {} BY DEF Bad
  <2>2. S({"succeeded"}) \cup S(Bad) \in SUBSET Children OBVIOUS
  <2>3. S({"queued", "running"}) \in SUBSET Children OBVIOUS
  <2> QED BY <1>1, <2>1, <2>2, <2>3, SplitCount
<1> QED BY <1>2, <1>3 DEF Count

LEMMA CountType ==
    ASSUME NEW st, NEW S
    PROVE  Count(st, S) \in Nat /\ Cardinality(There(st)) \in Nat
BY ChildrenFinite DEF Count, There

LEMMA NoneCounted ==
    ASSUME NEW st, NEW S
    PROVE  Count(st, S) = 0 <=> \A j \in Children : st[j] \notin S
<1>1. IsFiniteSet({j \in Children : st[j] \in S}) BY ChildrenFinite
<1>2. Count(st, S) = 0 <=> {j \in Children : st[j] \in S} = {} BY <1>1, FS_EmptySet DEF Count
<1> QED BY <1>2

(* The counts a walk ends with are those of the rows. *)
LEMMA CloseIsExact ==
    ASSUME NEW w, NEW c \in Locals, NEW k \in Syncs, NEW st, JobOf(w) = k, c.todo = {},
           Counted(c, st, k), \A j \in Children \ Left(c, k) : st[j] = "absent"
    PROVE  Exact(CloseWith(w, c), st, k)
<1> DEFINE M == Manifest[k]
           A(s) == {j \in M : st[j] = s}
<1>1. Left(c, k) = M /\ M \in SUBSET Children BY SyncAssumption DEF Left, Children
<1>2. There(st) = M BY <1>1 DEF There, Counted
<1>3. /\ Count(st, {"succeeded"}) = Cardinality(A("succeeded"))
      /\ Count(st, Bad) = Cardinality(A("failed"))
      /\ Count(st, {"queued", "running"}) = Cardinality(A("queued"))
  <2>1. /\ {j \in Children : st[j] \in {"succeeded"}} = A("succeeded")
        /\ {j \in Children : st[j] \in Bad} = A("failed")
        /\ {j \in Children : st[j] \in {"queued", "running"}} = A("queued")
    BY <1>1 DEF Bad, Counted
  <2> QED BY <2>1 DEF Count
<1>4. \A j \in Children : st[j] \in ChildStatus BY <1>1 DEF ChildStatus, Bad, Counted
<1>5. c.open = Count(st, {"queued", "running"}) /\ c.failed = Count(st, Bad)
  BY <1>1, <1>3 DEF Counted
<1>6. Cardinality(M) - c.failed - c.open = Count(st, {"succeeded"})
  BY <1>2, <1>4, <1>5, AllCounted, CountType
<1> QED BY <1>2, <1>5, <1>6 DEF Exact, CloseWith, State

LEMMA ExactAgrees ==
    ASSUME IInv, DocsAgree, DocsOwned, NEW k \in Syncs, Exact(source, status, k),
           \A j \in Children : status[j] \in ChildStatus,
           status[k] = RunOf(source.status)
    PROVE  QuietAgrees
<1> DEFINE n == Cardinality(There(status))
           c == Count(status, {"succeeded"})
           f == Count(status, Bad)
           o == Count(status, {"queued", "running"})
<1>1. n = c + f + o BY AllCounted
<1>2. c \in Nat /\ f \in Nat /\ o \in Nat BY CountType
<1>3. source.status = Verdict(n, c, f) BY DEF Exact
<1>4. ASSUME NEW d \in ChildDocs
      PROVE  \/ docStatus[d] = "absent"
             \/ \E j \in Children : DocOf[j] = d /\ docStatus[d] = status[j]
  BY DEF DocsOwned, DocsAgree
<1>5. \A d \in ChildDocs : docStatus[d] \in ChildStatus BY <1>4 DEF ChildStatus
<1>6. /\ c = 0 => DocsWith({"succeeded"}) = {}
      /\ f = 0 <=> DocsWith(Bad) = {}
      /\ o = 0 <=> DocsWith({"queued", "running"}) = {}
  <2>1. ASSUME NEW S, "absent" \notin S PROVE Count(status, S) = 0 <=> DocsWith(S) = {}
    <3>1. \A j \in Children : DocOf[j] \in ChildDocs
      BY SyncAssumption, DocOfAssumption DEF Children, ChildDocs
    <3>2. DocsWith(S) = {} <=> \A j \in Children : status[j] \notin S
      BY <1>4, <2>1, <3>1 DEF DocsWith, DocsAgree
    <3> QED BY <3>2, NoneCounted
  <2> QED BY <2>1 DEF Bad
<1>7. Verdicts(source.status)
  <2>1. CASE n > c + f
    <3>1. source.status = "syncing" /\ o # 0 BY <1>1, <1>2, <1>3, <2>1 DEF Verdict
    <3> QED BY <1>6, <3>1 DEF Verdicts
  <2>2. CASE n = c + f /\ f = 0
    <3>1. source.status = "succeeded" /\ o = 0 BY <1>1, <1>2, <1>3, <2>2 DEF Verdict
    <3>2. DocsWith({"succeeded", "absent"}) = ChildDocs
      BY <1>5, <1>6, <2>2, <3>1 DEF DocsWith, ChildStatus
    <3> QED BY <3>1, <3>2 DEF Verdicts
  <2>3. CASE n = c + f /\ f # 0 /\ f = n
    <3>1. source.status = "failed" /\ o = 0 /\ c = 0 BY <1>1, <1>2, <1>3, <2>3 DEF Verdict
    <3>2. DocsWith({"failed", "dead_letter", "absent"}) = ChildDocs
      BY <1>5, <1>6, <3>1 DEF DocsWith, ChildStatus, Bad
    <3> QED BY <3>1, <3>2 DEF Verdicts
  <2>4. CASE n = c + f /\ f # 0 /\ f # n
    <3>1. source.status = "partially_succeeded" /\ o = 0
      BY <1>1, <1>2, <1>3, <2>4 DEF Verdict
    <3> QED BY <1>6, <2>4, <3>1 DEF Verdicts, Bad
  <2> QED BY <1>1, <1>2, <2>1, <2>2, <2>3, <2>4
<1>8. /\ source.changed = Cardinality(DocsWith({"succeeded"}))
      /\ source.failed = Cardinality(DocsWith({"failed", "dead_letter"}))
  BY DocCounts DEF Exact, Bad
<1> QED BY <1>7, <1>8 DEF QuietAgrees, Exact, RunOf

-------------------------------------------------------------------------------
(* Where the worker is on a calm day. *)

CalmI(w, k) ==
    IInv /\ RunsAreRegistered /\ OrphanInv(w) /\ WalkedInv(w, k) /\ CalmInv(w, k)
CalmMove(w) == WorkerStep(w) \/ \E m \in Msgs : Receive(w, m)
Letting(w) == pc[w] = "project" \/ (pc[w] \in Refreshing /\ ctx[w].then = "idle")

LEMMA AtCalm ==
    ASSUME NEW w \in Workers, NEW k, Syncs = {k}, CalmI(w, k)
    PROVE  /\ k \in Jobs /\ k \notin Children /\ k # NoJob
           /\ ctx[w] \in Locals /\ pc[w] \in WorkerPcs
           /\ pc[w] # "idle" => ctx[w].msg \in Msgs /\ JobOf(w) \in Jobs
           /\ pc[w] # "idle" /\ ~Letting(w) => HandleAccepted(ctx[w].msg, ctx[w].receipt)
           /\ pc[w] \in SyncPcs => JobOf(w) = k /\ (pc[w] # "closeState" => k \notin walked)
           /\ pc[w] = "closeState" => k \in walked /\ ctx[w].todo = {}
           /\ pc[w] \notin SyncPcs \cup {"idle", "ack"} => JobOf(w) \in Children
           /\ pc[w] \notin SyncPcs \cup {"idle"} => k \in walked
           /\ pc[w] # "idle" /\ JobOf(w) \in Children => status[JobOf(w)] # "absent"
<1>1. /\ k \in Jobs /\ k \notin Children /\ ctx[w] \in Locals /\ pc[w] \in WorkerPcs
      /\ pc[w] # "idle" => ctx[w].msg \in Msgs /\ JobOf(w) \in Jobs
      /\ pc[w] \in SyncPcs => JobOf(w) = k
      /\ pc[w] \in OfChild => JobOf(w) \in Children
      /\ AtWorker(w)
  BY AtWork DEF CalmI
<1>2. k # NoJob BY <1>1, NoJobAssumption
<1>3. pc[w] # "idle" /\ ~Letting(w) => HandleAccepted(ctx[w].msg, ctx[w].receipt)
  BY DEF CalmI, CalmInv, Holds, Letting
<1>4. pc[w] \in SyncPcs /\ pc[w] # "closeState" => k \notin walked
  <2> SUFFICES ASSUME pc[w] \in SyncPcs, pc[w] # "closeState", k \in walked PROVE FALSE OBVIOUS
  <2>1. ctx[w].msg \in Msgs /\ body[ctx[w].msg] = k
    BY <1>1 DEF SyncPcs, InWalk, JobOf
  <2>2. place[ctx[w].msg] = "inflight"
    BY <1>3 DEF HandleAccepted, Letting, SyncPcs, InWalk, Refreshing
  <2>3. place[ctx[w].msg] = "gone" \/ pc[w] \in {"closeState", "ack"}
    BY <2>1 DEF CalmI, CalmInv, SentOnce
  <2> QED BY <2>2, <2>3 DEF SyncPcs, InWalk
<1>5. pc[w] = "closeState" => k \in walked /\ ctx[w].todo = {}
  BY <1>1 DEF CalmI, WalkedInv, AtWorker, Walks
<1>6. pc[w] \notin SyncPcs \cup {"idle", "ack"} => JobOf(w) \in Children
  <2>1. pc[w] \in WorkerPcs \ (SyncPcs \cup {"idle", "ack"}) =>
            pc[w] \in OfChild \cup {"defer", "fail", "failDelete"}
    BY DEF WorkerPcs, SyncPcs, OfChild, Refreshing
  <2> QED BY <1>1, <2>1 DEF CalmI, CalmInv, Holds
<1>7. pc[w] # "idle" /\ JobOf(w) \in Children => status[JobOf(w)] # "absent" /\ ChildSent
  BY <1>1 DEF CalmI, CalmInv, WalkCounts, JobOf, ChildSent
<1>8. pc[w] \notin SyncPcs \cup {"idle"} => k \in walked
  <2> SUFFICES ASSUME pc[w] \notin SyncPcs \cup {"idle"}, k \notin walked PROVE FALSE OBVIOUS
  <2>1. CASE JobOf(w) \in Children
    BY <1>7, <2>1 DEF CalmI, WalkedInv, SyncPcs
  <2>2. CASE JobOf(w) \notin Children
    <3>1. pc[w] = "ack" /\ ctx[w].msg \in Msgs /\ body[ctx[w].msg] = k
      BY <1>1, <1>6, <2>2 DEF Children, JobOf
    <3>2. place[ctx[w].msg] = "inflight"
      BY <1>3, <3>1 DEF HandleAccepted, Letting, Refreshing
    <3>3. place[ctx[w].msg] = "visible" \/ pc[w] \in SyncPcs
      BY <3>1 DEF CalmI, CalmInv, SentOnce
    <3> QED BY <3>2, <3>3
  <2> QED BY <2>1, <2>2
<1> QED BY <1>1, <1>2, <1>3, <1>4, <1>5, <1>6, <1>7, <1>8

(* What is left of the steps of a worker: nothing is refused, no sync fails, *)
(* no row the walk meets is older than the walk.                            *)
CalmSteps(w) ==
    \/ (\E m \in Msgs : Receive(w, m)) \/ SyncBegin(w) \/ SyncOpenRun(w) \/ SyncOpenState(w)
    \/ (\E j \in Children : Visit(w, j)) \/ (\E m \in Msgs : SendChild(w, m))
    \/ StampChild(w) \/ IngestText(w) \/ TextIngested(w)
    \/ SyncCloseRun(w) \/ SyncCloseState(w)
    \/ Register(w) \/ RunChild(w) \/ Work(w) \/ ChildFailed(w)
    \/ ReadSource(w) \/ ReadDocs(w) \/ MarkParent(w) \/ WriteSource(w)
    \/ Ack(w) \/ Defer(w) \/ FailCopy(w) \/ FailDelete(w) \/ FailRelease(w)

LEMMA CalmIsCalm ==
    ASSUME NEW w \in Workers, NEW k, Syncs = {k}, CalmI(w, k), CalmMove(w)
    PROVE  CalmSteps(w)
<1>1. ~ReleaseRefused(w) BY AtCalm DEF ReleaseRefused, Letting, Refreshing
<1>2. ~SyncFailedRun(w) /\ ~SyncFailedState(w) /\ ~RequeueChild(w)
  BY DEF SyncFailedRun, SyncFailedState, RequeueChild, CalmI, CalmInv, Holds
<1>3. ~ChildAlreadySent(w)
  BY DEF ChildAlreadySent, Owed, CalmI, CalmInv, WalkCounts
<1> QED BY <1>1, <1>2, <1>3 DEF CalmMove, CalmSteps, WorkerStep

(* What a tally, a visit and the end of a refresh leave in the local variables. *)
LEMMA TallyFields ==
    ASSUME NEW c \in Locals, NEW j, NEW s
    PROVE  /\ Tally(c, j, s).msg = c.msg /\ Tally(c, j, s).receipt = c.receipt
           /\ Tally(c, j, s).todo = c.todo \ {j}
           /\ Tally(c, j, s).open = c.open + (IF s \in {"queued", "running"} THEN 1 ELSE 0)
           /\ Tally(c, j, s).failed = c.failed + (IF s \in {"failed", "dead_letter"} THEN 1 ELSE 0)
<1> DEFINE o == c.open + (IF s \in {"queued", "running"} THEN 1 ELSE 0)
           f == c.failed + (IF s \in {"failed", "dead_letter"} THEN 1 ELSE 0)
           t == c.todo \ {j}
<1>1. Tally(c, j, s) = [c EXCEPT !.todo = t, !.child = NoJob, !.row = NoRow, !.open = o,
                                 !.failed = f]
  BY DEF Tally
<1> HIDE DEF o, f, t
<1>2. /\ Tally(c, j, s).msg = c.msg /\ Tally(c, j, s).receipt = c.receipt
      /\ Tally(c, j, s).todo = t /\ Tally(c, j, s).open = o /\ Tally(c, j, s).failed = f
  BY <1>1 DEF Locals
<1> QED BY <1>2 DEF o, f, t

LEMMA ContinueFields ==
    ASSUME NEW w \in Workers, IInv, pc[w] \in Refreshing, Continue(w)
    PROVE  /\ pc'[w] = ctx[w].then /\ ctx[w].then \in {"ack", "defer", "idle"}
           /\ pc'[w] # "idle" => ctx'[w].msg = ctx[w].msg /\ ctx'[w].receipt = ctx[w].receipt
<1>1. ctx[w].then \in {"ack", "defer", "idle"} BY DEF IInv, Typed, WorkerHasJob, Locals
<1> DEFINE c == [Blank EXCEPT !.msg = ctx[w].msg, !.receipt = ctx[w].receipt,
                              !.then = ctx[w].then]
<1>2. c.msg = ctx[w].msg /\ c.receipt = ctx[w].receipt BY DEF Blank
<1>3. Continue(w) <=> IF ctx[w].then = "idle" THEN Rest(w)
                      ELSE Goto(w, ctx[w].then) /\ Set(w, c)
  BY DEF Continue
<1> HIDE DEF c
<1> QED BY <1>1, <1>2, <1>3 DEF Rest, Goto, Set, IInv, Typed

LEMMA VisitFields ==
    ASSUME NEW w \in Workers, NEW k, Syncs = {k}, CalmI(w, k), NEW j \in Children, Visit(w, j)
    PROVE  /\ pc[w] = "walk" /\ j \in ctx[w].todo /\ CreateQueued(j)
           /\ pc'[w] = IF j \in PdfJobs THEN "send" ELSE "ingest"
           /\ \A f \in {"msg", "receipt", "todo", "open", "failed"} : ctx'[w][f] = ctx[w][f]
           /\ ctx'[w].child = j /\ ctx'[w].row = [status |-> "queued", stamped |-> FALSE]
<1> DEFINE row == [status |-> "queued", stamped |-> FALSE]
           c == [ctx[w] EXCEPT !.child = j, !.row = row]
<1>1. pc[w] = "walk" /\ j \in ctx[w].todo BY DEF Visit
<1>2. status[j] = "absent"
  BY <1>1 DEF CalmI, CalmInv, WalkCounts, Left, InWalk, AtChild
<1>3. CreateQueued(j) /\ Goto(w, ChildPath(j, "queued")) /\ Set(w, c) BY <1>2 DEF Visit
<1>4. ctx[w] \in Locals BY DEF CalmI, IInv, Typed
<1> HIDE DEF row
<1>5. /\ \A f \in {"msg", "receipt", "todo", "open", "failed"} : c[f] = ctx[w][f]
      /\ c.child = j /\ c.row = row
  BY <1>4 DEF Locals
<1> HIDE DEF c
<1>6. ctx'[w] = c /\ pc'[w] = ChildPath(j, "queued") BY <1>3 DEF Set, Goto, CalmI, IInv, Typed
<1> QED BY <1>1, <1>3, <1>5, <1>6 DEF ChildPath, row

(* Steps of the walk leave the message in hand. *)
LEMMA WalkKeepsMessage ==
    ASSUME NEW w \in Workers, NEW k, Syncs = {k}, CalmI(w, k),
           \/ SyncBegin(w) \/ SyncOpenRun(w) \/ SyncOpenState(w) \/ StampChild(w)
           \/ IngestText(w) \/ TextIngested(w) \/ SyncCloseRun(w) \/ SyncCloseState(w)
           \/ (\E j \in Children : Visit(w, j)) \/ \E m \in Msgs : SendChild(w, m)
    PROVE  ctx'[w].msg = ctx[w].msg /\ ctx'[w].receipt = ctx[w].receipt
<1>1. ctx \in [Workers -> Locals] /\ ctx[w] \in Locals BY DEF CalmI, IInv, Typed
<1>2. CASE SyncBegin(w) \/ SyncOpenRun(w) \/ IngestText(w) \/ SyncCloseRun(w)
           \/ \E m \in Msgs : SendChild(w, m)
  BY <1>2 DEF SyncBegin, SyncOpenRun, IngestText, SyncCloseRun, SendChild
<1>3. CASE SyncOpenState(w) BY <1>1, <1>3 DEF SyncOpenState, Set, Locals
<1>4. CASE StampChild(w)
  <2>1. ctx'[w] = Tally(ctx[w], ctx[w].child, "queued") BY <1>1, <1>4 DEF StampChild, Set
  <2> QED BY <1>1, <2>1, TallyFields
<1>5. CASE TextIngested(w)
  <2>1. PICK s : ctx'[w] = Tally(ctx[w], ctx[w].child, s) BY <1>1, <1>5 DEF TextIngested, Set
  <2> QED BY <1>1, <2>1, TallyFields
<1>6. CASE SyncCloseState(w)
  <2> DEFINE c == [Blank EXCEPT !.msg = ctx[w].msg, !.receipt = ctx[w].receipt]
  <2>1. c.msg = ctx[w].msg /\ c.receipt = ctx[w].receipt BY DEF Blank
  <2>2. ctx'[w] = c BY <1>1, <1>6 DEF SyncCloseState, Set
  <2> QED BY <2>1, <2>2
<1>7. CASE \E j \in Children : Visit(w, j) BY <1>7, VisitFields
<1> QED BY <1>2, <1>3, <1>4, <1>5, <1>6, <1>7

LEMMA KeepsHold ==
    ASSUME NEW w \in Workers, Holds(w), pc[w] # "idle", UNCHANGED <<place, receives, reqPc>>,
           ctx'[w].msg = ctx[w].msg, ctx'[w].receipt = ctx[w].receipt,
           \/ ~Letting(w)
           \/ pc'[w] = "idle"
           \/ pc'[w] \in Refreshing /\ ctx'[w].then = "idle",
           pc'[w] \notin {"syncFailed", "syncFailedState", "requeue"},
           pc'[w] \in {"defer", "fail", "failDelete"} => JobOf(w)' \in Children
    PROVE  Holds(w)'
BY DEF Holds, Letting, HandleAccepted

LEMMA RestHolds ==
    ASSUME NEW w \in Workers, Holds(w), pc'[w] \in {"idle", "project"}, receives' = receives,
           UNCHANGED reqPc, \A m \in Msgs : place'[m] = "unsent" => place[m] = "unsent"
    PROVE  Holds(w)'
BY DEF Holds, Refreshing

LEMMA WorkerHolds ==
    ASSUME NEW w \in Workers, NEW k, Syncs = {k}, CalmI(w, k), CalmSteps(w)
    PROVE  Holds(w)'
<1>1. Holds(w) BY DEF CalmI, CalmInv
<1>2. /\ ctx[w] \in Locals /\ pc[w] \in WorkerPcs
      /\ pc[w] \notin SyncPcs \cup {"idle", "ack"} => JobOf(w) \in Children
  BY AtCalm
<1>3. pc \in [Workers -> WorkerPcs] /\ ctx \in [Workers -> Locals]
  BY DEF CalmI, IInv, Typed
<1>4. CASE \E m \in Msgs : Receive(w, m)
  <2>1. PICK m \in Msgs : Receive(w, m) BY <1>4
  <2>2. ctx'[w].msg = m /\ ctx'[w].receipt = receives'[m]
    BY <1>3, <2>1 DEF Receive, Set, Blank
  <2>3. pc'[w] \in {"sync", "register"} BY <1>3, <2>1 DEF Receive, Goto
  <2>4. place'[m] = "inflight" /\ \A n \in Msgs : place'[n] = "unsent" => receives'[n] = 0
    BY <1>1, <2>1 DEF Receive, ReceiveMessage, Holds, CalmI, IInv, Typed
  <2>5. reqPc' = reqPc BY <2>1 DEF Receive, requestVars
  <2> QED BY <1>1, <2>2, <2>3, <2>4, <2>5 DEF Holds, HandleAccepted, Refreshing
<1>5. CASE SyncBegin(w) \/ SyncOpenRun(w) \/ SyncOpenState(w) \/ StampChild(w)
           \/ IngestText(w) \/ TextIngested(w) \/ SyncCloseRun(w) \/ SyncCloseState(w)
           \/ \E j \in Children : Visit(w, j)
  <2>1. /\ UNCHANGED <<place, receives, reqPc>> /\ pc[w] \in SyncPcs
    BY <1>5 DEF SyncBegin, SyncOpenRun, SyncOpenState, StampChild, IngestText, TextIngested,
       SyncCloseRun, SyncCloseState, Visit, queueVars, requestVars, SyncPcs, InWalk
  <2>2. pc'[w] \in {"ack", "open", "openState", "walk", "send", "ingest", "ingested", "closeState"}
    <3>1. CASE \E j \in Children : Visit(w, j)
      <4>1. PICK j \in Children : Visit(w, j) BY <3>1
      <4> QED BY <4>1, VisitFields
    <3> QED BY <1>3, <1>5, <3>1 DEF SyncBegin, SyncOpenRun, SyncOpenState, StampChild,
         IngestText, TextIngested, SyncCloseRun, SyncCloseState, Goto
  <2>3. ctx'[w].msg = ctx[w].msg /\ ctx'[w].receipt = ctx[w].receipt
    BY <1>5, WalkKeepsMessage
  <2> QED BY <1>1, <2>1, <2>2, <2>3, KeepsHold DEF Letting, SyncPcs, InWalk, Refreshing
<1>6. CASE \E m \in Msgs : SendChild(w, m)
  <2>1. PICK m \in Msgs : SendChild(w, m) BY <1>6
  <2>2. pc[w] = "send" /\ pc'[w] = "stampChild" /\ ctx' = ctx /\ UNCHANGED reqPc
    BY <1>3, <2>1 DEF SendChild, Goto, requestVars
  <2>3. \A n \in Msgs : n # m => place'[n] = place[n]
    BY <2>1 DEF SendChild, EnqueueMessage, CalmI, IInv, Typed
  <2>4. place[m] = "unsent" /\ place'[m] = "visible" /\ receives' = receives
    BY <2>1 DEF SendChild, EnqueueMessage, CalmI, IInv, Typed
  <2>5. HandleAccepted(ctx[w].msg, ctx[w].receipt) /\ ctx[w].msg \in Msgs
    BY <2>2, AtCalm DEF Letting, Refreshing
  <2>6. HandleAccepted(ctx[w].msg, ctx[w].receipt)'
    BY <2>2, <2>3, <2>4, <2>5 DEF HandleAccepted
  <2> QED BY <1>1, <2>2, <2>3, <2>4, <2>6 DEF Holds
<1>7. CASE Register(w) \/ RunChild(w) \/ Work(w)
  <2>1. /\ UNCHANGED <<place, receives, body, reqPc>> /\ pc[w] \in {"register", "run", "work"}
        /\ pc'[w] \in {"ack", "run", "work", "refresh", "fail"}
        /\ ctx'[w].msg = ctx[w].msg /\ ctx'[w].receipt = ctx[w].receipt
    BY <1>3, <1>7 DEF Register, RunChild, Work, Goto, Set, queueVars, requestVars, Locals
  <2>2. JobOf(w)' \in Children BY <1>2, <2>1 DEF JobOf, SyncPcs, InWalk
  <2> QED BY <1>1, <2>1, <2>2, KeepsHold DEF Letting, Refreshing
<1>8. CASE ChildFailed(w) \/ ReadDocs(w) \/ MarkParent(w) \/ (ReadSource(w) /\ source.run # NoJob)
  <2>1. /\ UNCHANGED <<place, receives, body, reqPc>> /\ pc[w] \in {"project"} \cup Refreshing
        /\ pc'[w] \in Refreshing
        /\ ctx'[w].msg = ctx[w].msg /\ ctx'[w].receipt = ctx[w].receipt
        /\ ctx'[w].then = IF pc[w] = "project" THEN "idle" ELSE ctx[w].then
    BY <1>3, <1>8 DEF ChildFailed, ReadDocs, MarkParent, ReadSource, Refreshing, Goto, Set,
       queueVars, requestVars, Locals
  <2> QED BY <1>1, <2>1, KeepsHold DEF Letting, Refreshing
<1>9. CASE WriteSource(w) \/ (ReadSource(w) /\ source.run = NoJob)
  <2>1. /\ UNCHANGED <<place, receives, body, reqPc>> /\ pc[w] \in Refreshing /\ Continue(w)
    BY <1>9 DEF WriteSource, ReadSource, Refreshing, queueVars, requestVars
  <2>2. CASE ctx[w].then = "idle"
    <3>1. pc'[w] = "idle" BY <1>3, <2>1, <2>2 DEF Continue, Rest, Goto
    <3> QED BY <1>1, <2>1, <3>1, RestHolds
  <2>3. CASE ctx[w].then # "idle"
    <3>1. /\ pc'[w] = ctx[w].then
          /\ ctx'[w].msg = ctx[w].msg /\ ctx'[w].receipt = ctx[w].receipt
      BY <2>1, <2>3, ContinueFields DEF CalmI
    <3>2. ctx[w].then \in {"ack", "defer"}
      BY <2>1, <2>3, ContinueFields DEF CalmI
    <3>3. JobOf(w)' \in Children
      BY <1>2, <2>1, <3>1 DEF JobOf, SyncPcs, InWalk, Refreshing
    <3> QED BY <1>1, <2>1, <2>3, <3>1, <3>2, <3>3, KeepsHold DEF Letting, Refreshing
  <2> QED BY <2>2, <2>3
<1>10. CASE FailCopy(w)
  <2>1. /\ UNCHANGED <<place, receives, body, reqPc, ctx>> /\ pc[w] = "fail"
        /\ pc'[w] = "failDelete"
    BY <1>3, <1>10 DEF FailCopy, CopyToDlq, Goto, requestVars
  <2>2. JobOf(w)' \in Children BY <1>2, <2>1 DEF JobOf, SyncPcs, InWalk
  <2> QED BY <1>1, <2>1, <2>2, KeepsHold DEF Letting, Refreshing
<1>11. CASE Ack(w) \/ Defer(w) \/ FailDelete(w) \/ FailRelease(w)
  <2>1. pc'[w] \in {"idle", "project"} /\ UNCHANGED <<receives, reqPc>>
    BY <1>3, <1>11 DEF Ack, Defer, FailDelete, FailRelease, Rest, Project, Goto, DeleteMessage,
       MakeVisible, requestVars
  <2>2. \A m \in Msgs : place'[m] = "unsent" => place[m] = "unsent"
    BY <1>11 DEF Ack, Defer, FailDelete, FailRelease, DeleteMessage, MakeVisible, CalmI, IInv,
       Typed
  <2> QED BY <1>1, <2>1, <2>2, RestHolds
<1> QED BY <1>4, <1>5, <1>6, <1>7, <1>8, <1>9, <1>10, <1>11 DEF CalmSteps

LEMMA WorkerSent ==
    ASSUME NEW w \in Workers, NEW k, Syncs = {k}, CalmI(w, k), CalmSteps(w)
    PROVE  SentOnce(w, k)'
<1> DEFINE Has(m) == pc[w] \in SyncPcs /\ ctx[w].msg = m
           HasNext(m) == pc'[w] \in SyncPcs /\ ctx'[w].msg = m
<1>1. /\ pc \in [Workers -> WorkerPcs] /\ ctx \in [Workers -> Locals]
      /\ place \in [Msgs -> Places] /\ body \in [Msgs -> Jobs \cup {NoJob}]
  BY DEF CalmI, IInv, Typed
<1>2. SentOnce(w, k) BY DEF CalmI, CalmInv
<1>3. NoNewSync BY WorkerNames DEF CalmI, CalmSteps, WorkerMove, WorkerStep
<1>4. ASSUME NEW m \in Msgs PROVE body'[m] = body[m] \/ (body[m] = NoJob /\ body'[m] \in Children)
  <2>1. CASE \E n \in Msgs : SendChild(w, n)
    <3>1. PICK n \in Msgs : SendChild(w, n) BY <2>1
    <3>2. place[n] = "unsent" /\ ctx[w].child \in Children
      BY <3>1 DEF SendChild, EnqueueMessage, CalmI, IInv, WorkerHasJob
    <3> QED BY <1>1, <3>1, <3>2 DEF SendChild, EnqueueMessage, CalmI, IInv, UnsentIsEmpty
  <2>2. CASE ~\E n \in Msgs : SendChild(w, n)
    <3>1. body' = body
      BY <2>2 DEF CalmSteps, Receive, ReceiveMessage, SyncBegin, SyncOpenRun, SyncOpenState,
         Visit, StampChild, IngestText, TextIngested, SyncCloseRun, SyncCloseState, Register,
         RunChild, Work, ChildFailed, ReadSource, ReadDocs, MarkParent, WriteSource, Ack, Defer,
         FailCopy, FailDelete, FailRelease, DeleteMessage, MakeVisible, CopyToDlq, queueVars
    <3> QED BY <3>1
  <2> QED BY <2>1, <2>2
<1>5. /\ k # NoJob /\ k \notin Children /\ k \in Syncs
      /\ \A m \in Msgs : body'[m] = k <=> body[m] = k
  <2>1. k # NoJob /\ k \notin Children /\ k \in Syncs BY AtCalm
  <2> QED BY <1>4, <2>1
<1>6. ASSUME NEW m \in Msgs, body[m] = k, k \notin walked, k \notin walked'
      PROVE  (place'[m] = "visible" /\ receives'[m] = 0) \/ HasNext(m)
  <2>1. pc[w] \in SyncPcs \cup {"idle"} BY <1>6, AtCalm
  <2>2. CASE pc[w] = "idle"
    <3>1. PICK n \in Msgs : Receive(w, n)
      BY <2>2 DEF CalmSteps, SyncBegin, SyncOpenRun, SyncOpenState,
         Visit, SendChild, StampChild, IngestText, TextIngested, SyncCloseRun, SyncCloseState,
         Register, RunChild, Work, ChildFailed, ReadSource, ReadDocs, MarkParent, WriteSource,
         Ack, Defer, FailCopy, FailDelete, FailRelease
    <3>2. place[m] = "visible" /\ receives[m] = 0
      BY <1>2, <1>6, <2>2 DEF SentOnce, SyncPcs, InWalk
    <3>3. CASE m = n
      <4>1. pc'[w] = "sync" /\ ctx'[w].msg = m
        BY <1>1, <1>5, <1>6, <3>1, <3>3 DEF Receive, Goto, Set, Blank
      <4> QED BY <4>1 DEF SyncPcs
    <3>4. CASE m # n
      <4>1. place'[m] = place[m] /\ receives'[m] = receives[m]
        BY <1>1, <3>1, <3>4 DEF Receive, ReceiveMessage, CalmI, IInv, Typed
      <4> QED BY <3>2, <4>1
    <3> QED BY <3>3, <3>4
  <2>3. CASE pc[w] \in SyncPcs
    <3>1. \/ SyncBegin(w) \/ SyncOpenRun(w) \/ SyncOpenState(w) \/ StampChild(w)
          \/ IngestText(w) \/ TextIngested(w) \/ SyncCloseRun(w)
          \/ (\E j \in Children : Visit(w, j)) \/ \E n \in Msgs : SendChild(w, n)
      <4>1. pc[w] # "closeState" BY <1>6, AtCalm
      <4> QED BY <2>3, <4>1 DEF CalmSteps, Receive, SyncCloseState, SyncPcs, InWalk,
           Register, RunChild, Work, ChildFailed, ReadSource, ReadDocs, MarkParent, WriteSource,
           Ack, Defer, FailCopy, FailDelete, FailRelease
    <3>2. ctx'[w].msg = ctx[w].msg BY <3>1, WalkKeepsMessage
    <3>3. pc'[w] \in SyncPcs
      <4>1. CASE SyncBegin(w)
        <5>1. status[JobOf(w)] # "succeeded"
          BY <1>6, <2>3, AtCalm DEF CalmI, WalkedInv
        <5> QED BY <1>1, <4>1, <5>1 DEF SyncBegin, Goto, SyncPcs
      <4>2. CASE \E j \in Children : Visit(w, j)
        BY <4>2, VisitFields DEF SyncPcs, InWalk
      <4> QED BY <1>1, <3>1, <4>1, <4>2 DEF SyncOpenRun, SyncOpenState, StampChild, IngestText,
           TextIngested, SyncCloseRun, SendChild, Goto, SyncPcs, InWalk
    <3>4. CASE place[m] = "visible" /\ receives[m] = 0
      <4>1. place'[m] = place[m] /\ receives'[m] = receives[m]
        BY <1>1, <3>1, <3>4 DEF SyncBegin, SyncOpenRun, SyncOpenState, StampChild, IngestText,
           TextIngested, SyncCloseRun, Visit, SendChild, EnqueueMessage, queueVars
      <4> QED BY <3>4, <4>1
    <3>5. CASE Has(m) BY <3>2, <3>3, <3>5
    <3> QED BY <1>2, <1>6, <3>4, <3>5 DEF SentOnce
  <2> QED BY <2>1, <2>2, <2>3
<1>7. ASSUME NEW m \in Msgs, body[m] = k, k \in walked
      PROVE  place'[m] = "gone" \/ (pc'[w] \in {"closeState", "ack"} /\ ctx'[w].msg = m)
  <2>1. CASE place[m] = "gone"
    <3>1. place'[m] = "gone"
      BY <1>1, <2>1 DEF CalmSteps, Receive, ReceiveMessage, SyncBegin, SyncOpenRun,
         SyncOpenState, Visit, SendChild, EnqueueMessage, StampChild, IngestText, TextIngested,
         SyncCloseRun, SyncCloseState, Register,
         RunChild, Work, ChildFailed, ReadSource, ReadDocs, MarkParent, WriteSource, Ack, Defer,
         FailCopy, FailDelete, FailRelease, DeleteMessage, MakeVisible, HandleAccepted,
         CopyToDlq, queueVars
    <3> QED BY <3>1
  <2>2. CASE pc[w] = "closeState" /\ ctx[w].msg = m
    <3>1. SyncCloseState(w)
      BY <2>2 DEF CalmSteps, Receive, SyncBegin, SyncOpenRun, SyncOpenState,
         Visit, SendChild, StampChild, IngestText, TextIngested, SyncCloseRun,
         Register, RunChild, Work, ChildFailed, ReadSource, ReadDocs, MarkParent, WriteSource,
         Ack, Defer, FailCopy, FailDelete, FailRelease
    <3>2. pc'[w] = "ack" /\ ctx'[w].msg = m
      BY <1>1, <2>2, <3>1, WalkKeepsMessage DEF SyncCloseState, Goto
    <3> QED BY <3>2
  <2>3. CASE pc[w] = "ack" /\ ctx[w].msg = m
    <3>1. Ack(w)
      BY <2>3 DEF CalmSteps, Receive, SyncBegin, SyncOpenRun, SyncOpenState, SyncCloseState,
         Visit, SendChild, StampChild, IngestText, TextIngested, SyncCloseRun,
         Register, RunChild, Work, ChildFailed, ReadSource, ReadDocs, MarkParent, WriteSource,
         Defer, FailCopy, FailDelete, FailRelease
    <3>2. HandleAccepted(m, ctx[w].receipt) BY <2>3, AtCalm DEF Letting, Refreshing
    <3> QED BY <1>1, <2>3, <3>1, <3>2 DEF Ack, DeleteMessage, HandleAccepted, Live
  <2> QED BY <1>2, <1>7, <2>1, <2>2, <2>3 DEF SentOnce
<1>8. ASSUME NEW m \in Msgs, body[m] = k, k \notin walked, k \in walked'
      PROVE  pc'[w] \in {"closeState", "ack"} /\ ctx'[w].msg = m
  <2>1. SyncCloseRun(w)
    BY <1>8 DEF CalmSteps, Receive, SyncBegin, SyncOpenRun, SyncOpenState, SyncCloseState,
       Visit, SendChild, StampChild, IngestText, TextIngested,
       Register, RunChild, Work, ChildFailed, ReadSource, ReadDocs, MarkParent, WriteSource,
       Ack, Defer, FailCopy, FailDelete, FailRelease
  <2>2. pc[w] = "walk" /\ pc'[w] = "closeState" /\ ctx' = ctx
    BY <1>1, <2>1 DEF SyncCloseRun, Goto
  <2>3. ctx[w].msg \in Msgs /\ body[ctx[w].msg] = k
    BY <2>2, AtCalm DEF SyncPcs, InWalk, JobOf
  <2>4. ctx[w].msg = m BY <1>5, <1>8, <2>3 DEF CalmI, IInv, RequestedOnce
  <2> QED BY <2>2, <2>4
<1>9. walked \subseteq walked'
  BY DEF CalmSteps, Receive, SyncBegin, SyncOpenRun, SyncOpenState, SyncCloseRun, SyncCloseState,
     Visit, SendChild, StampChild, IngestText, TextIngested,
     Register, RunChild, Work, ChildFailed, ReadSource, ReadDocs, MarkParent, WriteSource,
     Ack, Defer, FailCopy, FailDelete, FailRelease
<1>10. k \in walked' /\ k \notin walked => SentIn(body, k)
  <2> SUFFICES ASSUME k \in walked', k \notin walked PROVE SentIn(body, k) OBVIOUS
  <2>1. SyncCloseRun(w)
    BY DEF CalmSteps, Receive, SyncBegin, SyncOpenRun, SyncOpenState, SyncCloseState,
       Visit, SendChild, StampChild, IngestText, TextIngested,
       Register, RunChild, Work, ChildFailed, ReadSource, ReadDocs, MarkParent, WriteSource,
       Ack, Defer, FailCopy, FailDelete, FailRelease
  <2> QED BY <2>1, AtCalm DEF SyncCloseRun, SyncPcs, InWalk, JobOf, SentIn
<1>11. SentIn(body, k) => SentIn(body', k) BY <1>5 DEF SentIn
<1>12. reqPc' = reqPc
  BY DEF CalmSteps, Receive, SyncBegin, SyncOpenRun, SyncOpenState, SyncCloseRun, SyncCloseState,
     Visit, SendChild, StampChild, IngestText, TextIngested,
     Register, RunChild, Work, ChildFailed, ReadSource, ReadDocs, MarkParent, WriteSource,
     Ack, Defer, FailCopy, FailDelete, FailRelease, requestVars
<1>13. /\ status'[k] # "absent" => (\E r \in Requesters : Owes(r)') \/ SentIn(body', k)
       /\ k \in walked' => SentIn(body', k)
  BY <1>2, <1>3, <1>5, <1>10, <1>11, <1>12 DEF SentOnce, NoNewSync, Owes
<1>14. ASSUME NEW m \in Msgs, body'[m] = k
       PROVE  IF k \in walked'
              THEN place'[m] = "gone" \/ (pc'[w] \in {"closeState", "ack"} /\ ctx'[w].msg = m)
              ELSE \/ place'[m] = "visible" /\ receives'[m] = 0
                   \/ pc'[w] \in SyncPcs /\ ctx'[w].msg = m
  BY <1>5, <1>6, <1>7, <1>8, <1>9, <1>14
<1> QED BY <1>13, <1>14 DEF SentOnce

(* The counts of a walk stand while the documents behind it do, and go up    *)
(* with the one it passes.                                                  *)
LEMMA CountsStand ==
    ASSUME NEW c, NEW d, NEW k, NEW st, NEW su, Counted(c, st, k),
           d.todo = c.todo, d.open = c.open, d.failed = c.failed,
           \A j \in Left(c, k) : su[j] = st[j]
    PROVE  Counted(d, su, k) /\ Left(d, k) = Left(c, k)
<1>1. Left(d, k) = Left(c, k) BY DEF Left
<1>2. /\ {j \in Left(d, k) : su[j] = "queued"} = {j \in Left(c, k) : st[j] = "queued"}
      /\ {j \in Left(d, k) : su[j] = "failed"} = {j \in Left(c, k) : st[j] = "failed"}
  BY <1>1
<1>3. \A j \in Left(d, k) : su[j] \in {"queued", "succeeded", "failed"}
  BY <1>1 DEF Counted
<1> QED BY <1>1, <1>2, <1>3 DEF Counted

LEMMA OneMore ==
    ASSUME NEW A \in SUBSET Children, NEW x, x \notin A
    PROVE  Cardinality(A \cup {x}) = Cardinality(A) + 1
BY ChildrenFinite, FS_AddElement

LEMMA CountsGoOn ==
    ASSUME NEW c, NEW d, NEW k \in Syncs, NEW st, NEW su, Counted(c, st, k),
           NEW i \in Manifest[k], i \in c.todo, d.todo = c.todo \ {i},
           \A j \in Left(c, k) : su[j] = st[j],
           su[i] \in {"queued", "succeeded", "failed"},
           d.open = c.open + (IF su[i] = "queued" THEN 1 ELSE 0),
           d.failed = c.failed + (IF su[i] = "failed" THEN 1 ELSE 0)
    PROVE  Counted(d, su, k) /\ Left(d, k) = Left(c, k) \cup {i}
<1> DEFINE A(s) == {j \in Left(c, k) : st[j] = s}
           B(s) == {j \in Left(d, k) : su[j] = s}
<1>1. Left(d, k) = Left(c, k) \cup {i} /\ i \notin Left(c, k) BY DEF Left
<1>2. \A s : A(s) \in SUBSET Children BY SyncAssumption DEF Left, Children
<1>3. /\ \A s : su[i] = s => B(s) = A(s) \cup {i} /\ i \notin A(s)
      /\ \A s : su[i] # s => B(s) = A(s)
  BY <1>1
<1>c. c.open = Cardinality(A("queued")) /\ c.failed = Cardinality(A("failed"))
  BY DEF Counted
<1>4. d.open = Cardinality(B("queued")) /\ d.failed = Cardinality(B("failed"))
  <2> HIDE DEF A, B
  <2>1. \A s : Cardinality(A(s)) \in Nat BY <1>2, ChildrenFinite
  <2>2. \A s : su[i] = s => Cardinality(B(s)) = Cardinality(A(s)) + 1
    BY <1>2, <1>3, OneMore
  <2>3. \A s : su[i] # s => Cardinality(B(s)) = Cardinality(A(s)) BY <1>3
  <2> QED BY <1>c, <2>1, <2>2, <2>3
<1>5. \A j \in Left(d, k) : su[j] \in {"queued", "succeeded", "failed"}
  BY <1>1 DEF Counted
<1> QED BY <1>1, <1>4, <1>5 DEF Counted

(* A step records nothing, or the run of the sync, of the child the walk is  *)
(* at, or of a child that is registered.                                    *)
Marks(w, k, j, s) ==
    /\ status' = [status EXCEPT ![j] = s]
    /\ docStatus' = [docStatus EXCEPT ![DocOf[j]] = s]
    /\ s # "absent"
    /\ j = k \/ (j \in Children /\ s \in ChildStatus
                 /\ (pc[w] \in InWalk \/ status[j] # "absent"))

LEMMA CalmStores ==
    ASSUME NEW w \in Workers, NEW k, Syncs = {k}, CalmI(w, k), CalmSteps(w)
    PROVE  UNCHANGED <<status, docStatus>> \/ \E j \in Jobs, s \in RunStatus : Marks(w, k, j, s)
<1>k. k \in Jobs /\ Children \subseteq Jobs BY AtCalm DEF Children
<1>1. CASE UNCHANGED <<status, docStatus>> BY <1>1
<1>2. CASE SyncOpenRun(w) \/ SyncCloseRun(w)
  <2>1. JobOf(w) = k BY <1>2, AtCalm DEF SyncOpenRun, SyncCloseRun, SyncPcs, InWalk
  <2>2. PICK s \in RunStatus \ {"absent"} : MarkRun(k, s)
    <3>1. RunOf(CloseWith(w, ctx[w]).status) \in RunStatus \ {"absent"}
      BY VerdictType DEF CloseWith, State
    <3> QED BY <1>2, <2>1, <3>1 DEF SyncOpenRun, SyncCloseRun, RunStatus
  <2> QED BY <1>k, <2>2 DEF Marks, MarkRun
<1>3. CASE \E j \in Children : Visit(w, j)
  <2>1. PICK j \in Children : Visit(w, j) BY <1>3
  <2>2. pc[w] = "walk" /\ CreateQueued(j) BY <2>1, VisitFields
  <2> QED BY <1>k, <2>2 DEF Marks, CreateQueued, InWalk, ChildStatus, RunStatus
<1>4. CASE IngestText(w) \/ TextIngested(w)
  <2>1. pc[w] \in AtChild /\ pc[w] \in InWalk BY <1>4 DEF IngestText, TextIngested, AtChild, InWalk
  <2>2. ctx[w].child \in Children
    BY <2>1, AtWork DEF CalmI, AtWorker, Walks, Locals
  <2> QED BY <1>k, <1>4, <2>1, <2>2 DEF IngestText, TextIngested, MarkRun, Marks, ChildStatus, Bad,
       RunStatus
<1>5. CASE RunChild(w) \/ Work(w) \/ ChildFailed(w)
  <2>1. pc[w] \in {"run", "work", "project"} BY <1>5 DEF RunChild, Work, ChildFailed
  <2>2. JobOf(w) \in Children /\ status[JobOf(w)] # "absent"
    BY <2>1, AtCalm DEF SyncPcs, InWalk
  <2>3. pc[w] = "project" => ctx[w].result \in Bad
    <3>1. ctx[w].result \in {"none", "failed", "dead_letter"} BY AtCalm DEF Locals
    <3> QED BY <3>1 DEF CalmI, IInv, WorkerHasJob, Bad
  <2> QED BY <1>1, <1>k, <1>5, <2>1, <2>2, <2>3 DEF RunChild, Work, ChildFailed, MarkRun, Marks,
       ChildStatus, Bad, RunStatus, storeVars
<1>6. CASE MarkParent(w)
  <2>1. ctx[w].state.run = k
    BY <1>6, AtWork DEF MarkParent, CalmI, AtWorker, RefreshIsTrue
  <2>2. RunOf(ctx[w].state.status) \in RunStatus \ {"absent"}
    <3>1. ctx[w].state.status \in SourceStatus /\ ctx[w].state.status # "none"
      BY <1>6, AtCalm DEF MarkParent, Locals, States, CalmI, IInv, WorkerHasJob
    <3> QED BY <3>1 DEF RunOf, RunStatus, SourceStatus
  <2> QED BY <1>k, <1>6, <2>1, <2>2 DEF MarkParent, MarkRun, Marks
<1> QED BY <1>1, <1>2, <1>3, <1>4, <1>5, <1>6 DEF CalmSteps, Receive, SyncBegin, SyncOpenState,
     SendChild, StampChild, StampMessageId, SyncCloseState, Register, ReadSource, ReadDocs,
     WriteSource, Ack, Defer, FailCopy, FailDelete, FailRelease, storeVars

LEMMA WalkPlace ==
    ASSUME NEW w \in Workers, NEW k, Syncs = {k}, CalmI(w, k), pc[w] \in AtChild
    PROVE  /\ ctx[w].child \in Manifest[k] /\ ctx[w].child \in Children
           /\ ctx[w].child \in ctx[w].todo
           /\ ctx[w].child \in PdfJobs <=> pc[w] \notin {"ingest", "ingested"}
           /\ Counted(ctx[w], status, k)
           /\ \A j \in Children \ Left(ctx[w], k) : status[j] = "absent" \/ j = ctx[w].child
<1>1. AtWorker(w) /\ pc[w] \in InWalk /\ JobOf(w) = k /\ ctx[w] \in Locals
  BY AtWork, AtCalm DEF CalmI, AtChild, InWalk, SyncPcs
<1>2. ctx[w].child \in ctx[w].todo /\ ctx[w].todo \subseteq Manifest[k]
  BY <1>1 DEF AtWorker, Walks
<1>3. ctx[w].child \in Children BY <1>1, <1>2 DEF Locals
<1>4. ctx[w].child \in PdfJobs <=> pc[w] \notin {"ingest", "ingested"}
  BY <1>1 DEF AtWorker, Walks
<1> QED BY <1>1, <1>2, <1>3, <1>4 DEF CalmI, CalmInv, WalkCounts

(* What the walk has counted at each of its steps. *)
InCounts(w, k) ==
    /\ Counted(ctx[w], status, k)
    /\ \A j \in Children \ Left(ctx[w], k) :
          status[j] = "absent" \/ (pc[w] \in AtChild /\ j = ctx[w].child)

LEMMA WalkCounted ==
    ASSUME NEW w \in Workers, NEW k, Syncs = {k}, CalmI(w, k), CalmSteps(w), pc'[w] \in InWalk
    PROVE  InCounts(w, k)'
<1>0. /\ pc \in [Workers -> WorkerPcs] /\ ctx \in [Workers -> Locals]
      /\ status \in [Jobs -> RunStatus] /\ k \in Jobs /\ k \notin Children /\ k \in Syncs
      /\ ctx[w] \in Locals /\ WalkCounts(w, k)
      /\ Children \subseteq Jobs /\ Manifest[k] \subseteq Children
  BY AtCalm, SyncAssumption DEF CalmI, CalmInv, IInv, Typed, Children
<1>1. CASE SyncOpenState(w)
  <2>1. pc[w] = "openState" /\ k \notin walked /\ JobOf(w) = k /\ status' = status
        /\ ctx'[w] = [ctx[w] EXCEPT !.todo = Manifest[k]]
    BY <1>0, <1>1, AtCalm DEF SyncOpenState, Set, SyncPcs, storeVars
  <2>2. \A j \in Children : status[j] = "absent"
    BY <1>0, <2>1 DEF WalkCounts, InWalk
  <2>3. ctx'[w].todo = Manifest[k] /\ ctx'[w].open = 0 /\ ctx'[w].failed = 0
    BY <1>0, <2>1 DEF Locals, WalkCounts
  <2>4. Left(ctx'[w], k) = {} BY <2>3 DEF Left
  <2>5. Counted(ctx'[w], status', k) BY <2>3, <2>4, FS_EmptySet DEF Counted
  <2> QED BY <2>1, <2>2, <2>5 DEF InCounts
<1>2. CASE \E j \in Children : Visit(w, j)
  <2>1. PICK j \in Children : Visit(w, j) BY <1>2
  <2>2. /\ pc[w] = "walk" /\ j \in ctx[w].todo /\ status' = [status EXCEPT ![j] = "queued"]
        /\ pc'[w] \in AtChild /\ ctx'[w].child = j
        /\ ctx'[w].todo = ctx[w].todo /\ ctx'[w].open = ctx[w].open
        /\ ctx'[w].failed = ctx[w].failed
    BY <2>1, VisitFields DEF CreateQueued, AtChild
  <2>3. Counted(ctx[w], status, k) /\ \A i \in Children \ Left(ctx[w], k) : status[i] = "absent"
    BY <1>0, <2>2 DEF WalkCounts, InWalk, AtChild
  <2>4. \A i \in Jobs : i # j => status'[i] = status[i] BY <1>0, <2>2
  <2>5. \A i \in Left(ctx[w], k) : status'[i] = status[i] BY <1>0, <2>2, <2>4 DEF Left
  <2>6. Counted(ctx'[w], status', k) /\ Left(ctx'[w], k) = Left(ctx[w], k)
    <3> DEFINE d == ctx'[w]
               su == status'
    <3>1. /\ d.todo = ctx[w].todo /\ d.open = ctx[w].open /\ d.failed = ctx[w].failed
          /\ \A i \in Left(ctx[w], k) : su[i] = status[i]
      BY <2>2, <2>5
    <3> HIDE DEF d, su
    <3>2. Counted(d, su, k) /\ Left(d, k) = Left(ctx[w], k) BY <2>3, <3>1, CountsStand
    <3> QED BY <3>2 DEF d, su
  <2> QED BY <1>0, <2>2, <2>3, <2>4, <2>6 DEF InCounts
<1>3. CASE (\E m \in Msgs : SendChild(w, m)) \/ IngestText(w)
  <2>1. /\ pc[w] \in AtChild /\ pc'[w] \in AtChild /\ ctx' = ctx
        /\ status' = status \/ status' = [status EXCEPT ![ctx[w].child] = "running"]
    BY <1>0, <1>3 DEF SendChild, IngestText, MarkRun, Goto, AtChild, storeVars
  <2>2. \A i \in Jobs : i # ctx[w].child => status'[i] = status[i]
    BY <1>0, <2>1
  <2>3. \A i \in Left(ctx[w], k) : status'[i] = status[i]
    BY <1>0, <2>1, <2>2, WalkPlace DEF Left
  <2>4. Counted(ctx[w], status', k) BY <2>1, <2>3, WalkPlace, CountsStand
  <2> QED BY <1>0, <2>1, <2>2, <2>4, WalkPlace DEF InCounts
<1>4. CASE StampChild(w) \/ TextIngested(w)
  <2> DEFINE i == ctx[w].child
  <2>1. pc[w] \in AtChild BY <1>4 DEF StampChild, TextIngested, AtChild
  <2>2. PICK s \in {"queued", "succeeded", "failed"} :
            /\ ctx'[w] = Tally(ctx[w], i, s) /\ status'[i] = s
            /\ \A j \in Jobs : j # i => status'[j] = status[j]
    <3>1. CASE StampChild(w)
      BY <1>0, <3>1 DEF StampChild, StampMessageId, Set, WalkCounts
    <3>2. CASE TextIngested(w)
      BY <1>0, <2>1, <3>2, WalkPlace DEF TextIngested, MarkRun, Set
    <3> QED BY <1>4, <3>1, <3>2
  <2>3. /\ ctx'[w].todo = ctx[w].todo \ {i}
        /\ ctx'[w].open = ctx[w].open + (IF s \in {"queued", "running"} THEN 1 ELSE 0)
        /\ ctx'[w].failed = ctx[w].failed + (IF s \in {"failed", "dead_letter"} THEN 1 ELSE 0)
    BY <1>0, <2>2, TallyFields
  <2>4. i \in Manifest[k] /\ i \in ctx[w].todo BY <2>1, WalkPlace
  <2> HIDE DEF i
  <2>5. \A j \in Left(ctx[w], k) : status'[j] = status[j] BY <1>0, <2>2, <2>4 DEF Left
  <2>6. /\ ctx'[w].open = ctx[w].open + (IF status'[i] = "queued" THEN 1 ELSE 0)
        /\ ctx'[w].failed = ctx[w].failed + (IF status'[i] = "failed" THEN 1 ELSE 0)
    BY <2>2, <2>3
  <2>7. Counted(ctx[w], status, k) BY <2>1, WalkPlace
  <2>8. Counted(ctx'[w], status', k) /\ Left(ctx'[w], k) = Left(ctx[w], k) \cup {i}
    <3> DEFINE d == ctx'[w]
               su == status'
               c == ctx[w]
               st == status
    <3>1. /\ k \in Syncs /\ Counted(c, st, k) /\ i \in Manifest[k] /\ i \in c.todo
          /\ d.todo = c.todo \ {i} /\ \A j \in Left(c, k) : su[j] = st[j]
      BY <1>0, <2>3, <2>4, <2>5, <2>7
    <3>2. /\ su[i] \in {"queued", "succeeded", "failed"}
          /\ d.open = c.open + (IF su[i] = "queued" THEN 1 ELSE 0)
          /\ d.failed = c.failed + (IF su[i] = "failed" THEN 1 ELSE 0)
      BY <2>2, <2>6
    <3> HIDE DEF d, su, c, st
    <3>3. Counted(d, su, k) /\ Left(d, k) = Left(c, k) \cup {i}
      BY <3>1, <3>2, CountsGoOn
    <3> QED BY <3>3 DEF d, su, c, st
  <2>9. \A j \in Children \ Left(ctx[w], k) : status[j] = "absent" \/ j = i
    BY <2>1, WalkPlace DEF i
  <2> QED BY <1>0, <2>2, <2>8, <2>9 DEF InCounts
<1>5. CASE SyncCloseRun(w)
  <2>1. pc[w] = "walk" /\ ctx' = ctx /\ JobOf(w) = k
        /\ status' = [status EXCEPT ![JobOf(w)] = RunOf(CloseWith(w, ctx[w]).status)]
    BY <1>5, AtCalm DEF SyncCloseRun, MarkRun, SyncPcs, InWalk
  <2>2. \A i \in Children : status'[i] = status[i] BY <1>0, <2>1
  <2>3. Counted(ctx[w], status, k) /\ \A i \in Children \ Left(ctx[w], k) : status[i] = "absent"
    BY <1>0, <2>1 DEF WalkCounts, InWalk, AtChild
  <2>4. Counted(ctx[w], status', k) BY <1>0, <2>2, <2>3, CountsStand DEF Left
  <2> QED BY <2>1, <2>2, <2>3, <2>4 DEF InCounts
<1>6. SyncOpenState(w) \/ (\E j \in Children : Visit(w, j))
      \/ (\E m \in Msgs : SendChild(w, m)) \/ IngestText(w)
      \/ StampChild(w) \/ TextIngested(w) \/ SyncCloseRun(w)
  <2>1. ctx[w].then \in {"ack", "defer", "idle"} \/ pc[w] \notin Refreshing
    BY <1>0 DEF CalmI, IInv, WorkerHasJob, Locals
  <2> QED BY <1>0, <2>1 DEF CalmSteps, Receive, SyncBegin, SyncOpenRun, SyncCloseState, Register,
       RunChild, Work, ChildFailed, ReadSource, ReadDocs, MarkParent, WriteSource, Continue, Rest,
       Ack, Defer, FailCopy, FailDelete, FailRelease, Project, Goto, InWalk, Refreshing
<1> QED BY <1>1, <1>2, <1>3, <1>4, <1>5, <1>6

LEMMA WorkerCounts ==
    ASSUME NEW w \in Workers, NEW k, Syncs = {k}, CalmI(w, k), CalmSteps(w)
    PROVE  WalkCounts(w, k)' /\ DocsOwned'
<1>0. /\ pc \in [Workers -> WorkerPcs] /\ ctx \in [Workers -> Locals]
      /\ status \in [Jobs -> RunStatus] /\ k \notin Children
      /\ ctx[w] \in Locals /\ WalkCounts(w, k) /\ DocsOwned /\ Children \subseteq Jobs
  BY AtCalm DEF CalmI, CalmInv, IInv, Typed, Children
<1>1. pc'[w] \in InWalk => InCounts(w, k)' BY WalkCounted
<1>2. pc'[w] \in {"send", "stampChild"} =>
          /\ ctx'[w].row = [status |-> "queued", stamped |-> FALSE]
          /\ status'[ctx'[w].child] = "queued"
  <2>1. CASE \E j \in Children : Visit(w, j)
    <3>1. PICK j \in Children : Visit(w, j) BY <2>1
    <3> QED BY <1>0, <3>1, VisitFields DEF CreateQueued
  <2>2. CASE \E m \in Msgs : SendChild(w, m)
    BY <1>0, <2>2 DEF SendChild, WalkCounts, storeVars
  <2>3. CASE ~(\E j \in Children : Visit(w, j)) /\ ~(\E m \in Msgs : SendChild(w, m))
    <3>1. ctx[w].then \in {"ack", "defer", "idle"} \/ pc[w] \notin Refreshing
      BY <1>0 DEF CalmI, IInv, WorkerHasJob, Locals
    <3> QED BY <1>0, <2>3, <3>1 DEF CalmSteps, Receive, SyncBegin, SyncOpenRun, SyncOpenState,
         StampChild, IngestText, TextIngested, SyncCloseRun, SyncCloseState, Register,
         RunChild, Work, ChildFailed, ReadSource, ReadDocs, MarkParent, WriteSource, Continue,
         Rest, Ack, Defer, FailCopy, FailDelete, FailRelease, Project, Goto, Refreshing
  <2> QED BY <2>1, <2>2, <2>3
<1>3. pc'[w] \in {"sync", "open", "openState"} => ctx'[w].open = 0 /\ ctx'[w].failed = 0
  <2>1. CASE \E m \in Msgs : Receive(w, m)
    BY <1>0, <2>1 DEF Receive, Set, Blank
  <2>2. CASE SyncBegin(w) \/ SyncOpenRun(w)
    BY <1>0, <2>2 DEF SyncBegin, SyncOpenRun, WalkCounts
  <2>3. CASE ~(\E m \in Msgs : Receive(w, m)) /\ ~SyncBegin(w) /\ ~SyncOpenRun(w)
    <3>1. ctx[w].then \in {"ack", "defer", "idle"} \/ pc[w] \notin Refreshing
      BY <1>0 DEF CalmI, IInv, WorkerHasJob, Locals
    <3> QED BY <1>0, <2>3, <3>1 DEF CalmSteps, SyncOpenState, Visit, ChildPath, SendChild,
         StampChild, IngestText, TextIngested, SyncCloseRun, SyncCloseState, Register,
         RunChild, Work, ChildFailed, ReadSource, ReadDocs, MarkParent, WriteSource, Continue,
         Rest, Ack, Defer, FailCopy, FailDelete, FailRelease, Project, Goto, Refreshing
  <2> QED BY <2>1, <2>2, <2>3
<1>4. UNCHANGED <<status, docStatus>> \/ \E j \in Jobs, s \in RunStatus : Marks(w, k, j, s)
  BY CalmStores
<1>5. \A j \in Children : status'[j] \in ChildStatus
                          /\ (status[j] # "absent" => status'[j] # "absent")
  <2>1. \A j \in Children : status[j] \in ChildStatus BY <1>0 DEF WalkCounts
  <2>2. CASE UNCHANGED <<status, docStatus>> BY <2>1, <2>2
  <2>3. CASE \E j \in Jobs, s \in RunStatus : Marks(w, k, j, s)
    BY <1>0, <2>1, <2>3 DEF Marks
  <2> QED BY <1>4, <2>2, <2>3
<1>6. DocsOwned'
  <2>1. docStatus' = docStatus
        \/ \E j \in Jobs : \E s : docStatus' = [docStatus EXCEPT ![DocOf[j]] = s]
    BY <1>4 DEF Marks
  <2> QED BY <1>0, <2>1, OwnedStays
<1>7. k \notin walked' /\ pc'[w] \notin InWalk => \A j \in Children : status'[j] = "absent"
  <2> SUFFICES ASSUME k \notin walked', pc'[w] \notin InWalk, NEW j \in Children
               PROVE  status'[j] = "absent"
    OBVIOUS
  <2>1. k \notin walked
    BY DEF CalmSteps, Receive, SyncBegin, SyncOpenRun, SyncOpenState, Visit, SendChild,
       StampChild, IngestText, TextIngested, SyncCloseRun, SyncCloseState, Register,
       RunChild, Work, ChildFailed, ReadSource, ReadDocs, MarkParent, WriteSource,
       Ack, Defer, FailCopy, FailDelete, FailRelease
  <2>2. pc[w] \in SyncPcs \cup {"idle"} BY <2>1, AtCalm
  <2>3. pc[w] \notin InWalk
    <3> SUFFICES ASSUME pc[w] \in InWalk PROVE FALSE OBVIOUS
    <3>1. pc[w] # "closeState" BY <2>1, AtCalm
    <3>2. \/ (\E i \in Children : Visit(w, i)) \/ (\E m \in Msgs : SendChild(w, m))
          \/ StampChild(w) \/ IngestText(w) \/ TextIngested(w) \/ SyncCloseRun(w)
      BY <3>1 DEF CalmSteps, Receive, SyncBegin, SyncOpenRun, SyncOpenState,
         SyncCloseState, Register, RunChild, Work, ChildFailed, ReadSource, ReadDocs, MarkParent,
         WriteSource, Ack, Defer, FailCopy, FailDelete, FailRelease, InWalk
    <3>3. CASE \E i \in Children : Visit(w, i) BY <3>3, VisitFields DEF InWalk
    <3>4. CASE (\E m \in Msgs : SendChild(w, m))
               \/ StampChild(w) \/ IngestText(w) \/ TextIngested(w) \/ SyncCloseRun(w)
      BY <1>0, <3>4 DEF SendChild, StampChild, IngestText, TextIngested, SyncCloseRun, Goto,
         InWalk
    <3> QED BY <3>2, <3>3, <3>4
  <2>4. status[j] = "absent" BY <1>0, <2>1, <2>3 DEF WalkCounts
  <2>5. status'[j] = status[j]
    <3>1. CASE UNCHANGED <<status, docStatus>> BY <3>1
    <3>2. CASE \E i \in Jobs, s \in RunStatus : Marks(w, k, i, s)
      BY <1>0, <2>3, <2>4, <3>2 DEF Marks
    <3> QED BY <1>4, <3>1, <3>2
  <2> QED BY <2>4, <2>5
<1>8. ASSUME NEW m \in Msgs, body'[m] \in Children PROVE status'[body'[m]] # "absent"
  <2>1. CASE \E n \in Msgs : SendChild(w, n)
    <3>1. PICK n \in Msgs : SendChild(w, n) BY <2>1
    <3>2. status[ctx[w].child] = "queued" /\ status' = status
      BY <1>0, <3>1 DEF SendChild, WalkCounts, storeVars
    <3>3. body'[m] = body[m] \/ body'[m] = ctx[w].child
      BY <3>1 DEF SendChild, EnqueueMessage, CalmI, IInv, Typed
    <3> QED BY <1>0, <1>8, <3>2, <3>3 DEF WalkCounts
  <2>2. CASE ~\E n \in Msgs : SendChild(w, n)
    <3>1. body' = body
      BY <2>2 DEF CalmSteps, Receive, ReceiveMessage, SyncBegin, SyncOpenRun, SyncOpenState,
         Visit, StampChild, IngestText, TextIngested, SyncCloseRun, SyncCloseState, Register,
         RunChild, Work, ChildFailed, ReadSource, ReadDocs, MarkParent, WriteSource, Ack, Defer,
         FailCopy, FailDelete, FailRelease, DeleteMessage, MakeVisible, CopyToDlq, queueVars
    <3> QED BY <1>0, <1>5, <1>8, <3>1 DEF WalkCounts
  <2> QED BY <2>1, <2>2
<1> QED BY <1>1, <1>2, <1>3, <1>5, <1>6, <1>7, <1>8 DEF WalkCounts, InCounts

(* Behind the walk no step of the worker registers a child.                 *)
LEMMA SameRows ==
    ASSUME NEW w \in Workers, NEW k, Syncs = {k}, CalmI(w, k), CalmSteps(w), pc[w] \notin InWalk
    PROVE  There(status') = There(status)
<1>0. status \in [Jobs -> RunStatus] /\ k \notin Children /\ Children \subseteq Jobs
  BY AtCalm DEF CalmI, IInv, Typed, Children
<1>1. CASE UNCHANGED <<status, docStatus>> BY <1>1
<1>2. CASE \E j \in Jobs, s \in RunStatus : Marks(w, k, j, s)
  <2>1. PICK j \in Jobs, s \in RunStatus : Marks(w, k, j, s) BY <1>2
  <2>2. \A i \in Children : status'[i] # "absent" <=> status[i] # "absent"
    BY <1>0, <2>1 DEF Marks
  <2> QED BY <2>2 DEF There
<1> QED BY <1>1, <1>2, CalmStores

(* The four places the state of the source is recomputed, marked and written. *)
LEMMA RefreshAgrees ==
    ASSUME NEW w \in Workers, NEW k, Syncs = {k}, CalmI(w, k),
           ReadSource(w) \/ ReadDocs(w) \/ MarkParent(w) \/ WriteSource(w)
    PROVE  Agrees(w, k)'
<1>0. /\ pc \in [Workers -> WorkerPcs] /\ ctx \in [Workers -> Locals]
      /\ status \in [Jobs -> RunStatus] /\ k \notin Children /\ k \in Jobs /\ k # NoJob
      /\ ctx[w] \in Locals /\ Agrees(w, k) /\ Children \subseteq Jobs /\ DocsAgree /\ DocsOwned
  BY AtCalm DEF CalmI, CalmInv, IInv, Typed, Children, OrphanInv
<1>1. /\ pc[w] \in Refreshing /\ k \in walked /\ walked' = walked
      /\ source.run = k /\ source.observed = Cardinality(There(status))
  <2>1. pc[w] \in Refreshing /\ walked' = walked
    BY DEF ReadSource, ReadDocs, MarkParent, WriteSource, Refreshing
  <2>2. k \in walked BY <2>1, AtCalm DEF Refreshing, SyncPcs, InWalk
  <2> QED BY <1>0, <2>1, <2>2 DEF Agrees, Refreshing
<1>2. CASE ReadSource(w)
  <2>1. /\ pc'[w] = "readDocs" /\ source' = source /\ status' = status
        /\ ctx'[w] = [ctx[w] EXCEPT !.state = source]
    BY <1>0, <1>1, <1>2 DEF ReadSource, Goto, Set, storeVars
  <2>2. ctx'[w].state = source BY <1>0, <2>1 DEF Locals
  <2> QED BY <1>1, <2>1, <2>2 DEF Agrees
<1>3. CASE ReadDocs(w)
  <2> DEFINE old == ctx[w].state
             new == Recomputed(old)
  <2>1. /\ pc[w] = "readDocs" /\ pc'[w] = "markParent" /\ source' = source /\ status' = status
        /\ ctx'[w] = [ctx[w] EXCEPT !.state = new]
    BY <1>0, <1>3 DEF ReadDocs, Goto, Set, storeVars
  <2>2. old.run = k /\ old.observed = Cardinality(There(status)) BY <1>0, <2>1 DEF Agrees
  <2>3. /\ Cardinality(Known) = Cardinality(There(status))
        /\ KnownIn({"succeeded"}) = Count(status, {"succeeded"})
        /\ KnownIn({"failed", "dead_letter"}) = Count(status, Bad)
    BY <1>0, KnownCounts DEF CalmI, Bad
  <2>4. new = State(Verdict(Cardinality(There(status)), Count(status, {"succeeded"}),
                            Count(status, Bad)),
                    k, Cardinality(There(status)), Count(status, {"succeeded"}),
                    Count(status, Bad))
    <3>1. (IF old.observed > Cardinality(Known) THEN old.observed ELSE Cardinality(Known))
              = Cardinality(There(status))
      BY <2>2, <2>3
    <3> QED BY <2>2, <2>3, <3>1 DEF Recomputed
  <2>5. Exact(new, status, k) BY <2>4 DEF Exact, State
  <2> HIDE DEF new
  <2>6. ctx'[w].state = new BY <1>0, <2>1 DEF Locals
  <2> QED BY <1>1, <2>1, <2>5, <2>6 DEF Agrees
<1>4. CASE MarkParent(w)
  <2>1. /\ pc[w] = "markParent" /\ pc'[w] = "writeSource" /\ source' = source /\ ctx' = ctx
        /\ Exact(ctx[w].state, status, k)
    BY <1>0, <1>4 DEF MarkParent, Goto, Agrees
  <2>2. status' = [status EXCEPT ![k] = RunOf(ctx[w].state.status)]
    BY <1>4, <2>1 DEF MarkParent, MarkRun, Exact
  <2>3. \A j \in Children : status[j] = status'[j] BY <1>0, <2>2
  <2>4. There(status') = There(status) /\ Exact(ctx[w].state, status', k)
    <3> DEFINE su == status'
    <3>1. \A j \in Children : status[j] = su[j] BY <2>3
    <3> HIDE DEF su
    <3>2. There(status) = There(su)
          /\ (Exact(ctx[w].state, status, k) <=> Exact(ctx[w].state, su, k))
      BY <3>1, SameCounts
    <3> QED BY <2>1, <3>2 DEF su
  <2>5. status'[k] = RunOf(ctx[w].state.status) BY <1>0, <2>2
  <2> QED BY <1>1, <2>1, <2>4, <2>5 DEF Agrees
<1>5. CASE WriteSource(w)
  <2>1. /\ source' = ctx[w].state /\ status' = status /\ Continue(w)
        /\ Exact(ctx[w].state, status, k) /\ status[k] = RunOf(ctx[w].state.status)
    BY <1>0, <1>5 DEF WriteSource, Agrees, storeVars
  <2>2. pc'[w] \in {"ack", "defer", "idle"}
    BY <1>1, <2>1, ContinueFields DEF CalmI
  <2>3. source'.run = k /\ source'.observed = Cardinality(There(status')) BY <2>1 DEF Exact
  <2> QED BY <1>1, <2>1, <2>2, <2>3 DEF Agrees
<1> QED BY <1>2, <1>3, <1>4, <1>5

LEMMA WorkerAgrees ==
    ASSUME NEW w \in Workers, NEW k, Syncs = {k}, CalmI(w, k), CalmSteps(w)
    PROVE  Agrees(w, k)'
<1>0. /\ pc \in [Workers -> WorkerPcs] /\ ctx \in [Workers -> Locals]
      /\ status \in [Jobs -> RunStatus] /\ k \notin Children /\ k \in Jobs /\ k \in Syncs
      /\ ctx[w] \in Locals /\ Agrees(w, k) /\ WalkCounts(w, k)
  BY AtCalm DEF CalmI, CalmInv, IInv, Typed, Children
<1>1. CASE ReadSource(w) \/ ReadDocs(w) \/ MarkParent(w) \/ WriteSource(w)
  BY <1>1, RefreshAgrees
<1>2. CASE SyncCloseRun(w)
  <2>1. /\ pc'[w] = "closeState" /\ ctx' = ctx /\ body' = body /\ JobOf(w) = k
        /\ MarkRun(k, RunOf(CloseWith(w, ctx[w]).status))
    BY <1>0, <1>2, AtCalm DEF SyncCloseRun, Goto, queueVars, SyncPcs, InWalk
  <2>2. status'[k] = RunOf(CloseWith(w, ctx[w]).status)
    BY <1>0, <2>1 DEF MarkRun
  <2>3. (CloseWith(w, ctx[w]))' = CloseWith(w, ctx[w]) BY <2>1 DEF CloseWith, JobOf
  <2> QED BY <2>1, <2>2, <2>3 DEF Agrees
<1>3. CASE SyncCloseState(w)
  <2>1. /\ pc[w] = "closeState" /\ pc'[w] = "ack" /\ status' = status
        /\ source' = CloseWith(w, ctx[w]) /\ JobOf(w) = k /\ ctx[w].todo = {}
    BY <1>0, <1>3, AtCalm DEF SyncCloseState, Goto, SyncPcs, InWalk, storeVars
  <2>2. Counted(ctx[w], status, k) /\ \A j \in Children \ Left(ctx[w], k) : status[j] = "absent"
    BY <1>0, <2>1 DEF WalkCounts, InWalk, AtChild
  <2>3. Exact(source', status, k) BY <1>0, <2>1, <2>2, CloseIsExact
  <2>4. status[k] = RunOf(source'.status) BY <1>0, <2>1 DEF Agrees
  <2>5. source'.run = k /\ source'.observed = Cardinality(There(status)) BY <2>3 DEF Exact
  <2> QED BY <2>1, <2>3, <2>4, <2>5 DEF Agrees
<1>4. CASE RunChild(w) \/ Work(w) \/ ChildFailed(w)
  <2>1. /\ pc[w] \in {"run", "work", "project"} /\ pc'[w] \in {"work", "refresh", "fail"}
        /\ source' = source /\ walked' = walked
    BY <1>0, <1>4 DEF RunChild, Work, ChildFailed, Goto
  <2>2. There(status') = There(status) BY <1>4, <2>1, SameRows DEF CalmSteps, InWalk
  <2> QED BY <1>0, <2>1, <2>2 DEF Agrees
<1>5. CASE Register(w) \/ Ack(w) \/ Defer(w) \/ FailCopy(w) \/ FailDelete(w) \/ FailRelease(w)
           \/ \E m \in Msgs : Receive(w, m)
  <2>1. status' = status /\ source' = source /\ walked' = walked
    BY <1>5 DEF Register, Ack, Defer, FailCopy, FailDelete, FailRelease, Receive, storeVars
  <2>2. \/ pc[w] \in {"register", "ack", "defer", "idle"}
           /\ pc'[w] \in {"ack", "run", "idle", "sync", "register"}
        \/ pc[w] \in {"fail", "failDelete"} /\ pc'[w] \in {"failDelete", "project"}
    <3>1. pc[w] \in {"fail", "failDelete"} => JobOf(w) \notin Syncs
      BY AtCalm DEF SyncPcs, InWalk, Children
    <3> QED BY <1>0, <1>5, <3>1 DEF Register, Ack, Defer, FailCopy, FailDelete, FailRelease,
         Receive, Project, Rest, Goto
  <2> QED BY <1>0, <2>1, <2>2 DEF Agrees
<1>6. CASE SyncBegin(w) \/ SyncOpenRun(w) \/ SyncOpenState(w)
           \/ (\E j \in Children : Visit(w, j)) \/ (\E m \in Msgs : SendChild(w, m))
           \/ StampChild(w) \/ IngestText(w) \/ TextIngested(w)
  <2>1. /\ walked' = walked /\ pc[w] \in SyncPcs /\ pc[w] # "closeState"
        /\ pc'[w] \in {"ack", "open", "openState", "walk", "send", "ingest", "stampChild",
                       "ingested"}
    <3>1. CASE \E j \in Children : Visit(w, j)
      BY <3>1, VisitFields DEF Visit, SyncPcs, InWalk
    <3>2. CASE ~\E j \in Children : Visit(w, j)
      BY <1>0, <1>6, <3>2 DEF SyncBegin, SyncOpenRun, SyncOpenState, SendChild, StampChild,
         IngestText, TextIngested, Goto, SyncPcs, InWalk
    <3> QED BY <3>1, <3>2
  <2>2. k \notin walked' BY <2>1, AtCalm
  <2> QED BY <2>1, <2>2 DEF Agrees
<1> QED BY <1>1, <1>2, <1>3, <1>4, <1>5, <1>6 DEF CalmSteps

(* A step of the worker on a calm day leaves its invariant.                 *)
LEMMA WorkerCalm ==
    ASSUME NEW w \in Workers, NEW k, Syncs = {k}, CalmI(w, k), CalmMove(w)
    PROVE  CalmInv(w, k)'
<1>1. CalmSteps(w) BY CalmIsCalm
<1> QED BY <1>1, WorkerHolds, WorkerSent, WorkerCounts, WorkerAgrees DEF CalmInv

-------------------------------------------------------------------------------
(* The other steps of a calm day: a redrive and a first request. *)

LEMMA BeforeTheWalk ==
    ASSUME NEW w \in Workers, NEW k, Syncs = {k}, CalmI(w, k),
           UNCHANGED <<pc, walked>>, k \notin walked
    PROVE  /\ Agrees(w, k)'
           /\ pc[w] \in SyncPcs \cup {"idle"} /\ pc[w] # "closeState"
           /\ pc[w] # "idle" => place[ctx[w].msg] = "inflight" /\ ctx[w].msg \in Msgs
<1>1. pc[w] \in SyncPcs \cup {"idle"} /\ pc[w] # "closeState" BY AtCalm
<1>2. pc[w] # "idle" => place[ctx[w].msg] = "inflight" /\ ctx[w].msg \in Msgs
  BY <1>1, AtCalm DEF HandleAccepted, Letting, Refreshing, SyncPcs, InWalk
<1>3. Agrees(w, k)' BY <1>1 DEF Agrees, SyncPcs, InWalk
<1> QED BY <1>1, <1>2, <1>3

LEMMA RedriveCalm ==
    ASSUME NEW w \in Workers, NEW k, Syncs = {k}, CalmI(w, k), NEW m \in Msgs, Redrive(m),
           UNCHANGED <<storeVars, source, walked, requestVars, workerVars>>
    PROVE  CalmInv(w, k)' /\ RunsAreRegistered'
<1>1. /\ UNCHANGED <<status, docStatus, source, walked, reqPc, pc, ctx, body, receives>>
      /\ place' = [place EXCEPT ![m] = "gone"] /\ place[m] = "visible"
      /\ receives[m] >= MaxReceiveCount /\ place \in [Msgs -> Places]
  BY DEF Redrive, storeVars, requestVars, workerVars, CalmI, IInv, Typed
<1>2. /\ Holds(w) /\ SentOnce(w, k) /\ WalkCounts(w, k) /\ Agrees(w, k) /\ DocsOwned
      /\ RunsAreRegistered
  BY DEF CalmI, CalmInv
<1>3. \A n \in Msgs : n # m => place'[n] = place[n] BY <1>1
<1>4. Holds(w)'
  <2>1. \A n, r : n \in Msgs /\ HandleAccepted(n, r) => HandleAccepted(n, r)'
    BY <1>1, <1>3 DEF HandleAccepted
  <2>2. pc[w] # "idle" => ctx[w].msg \in Msgs BY AtCalm
  <2> QED BY <1>1, <1>2, <1>3, <2>1, <2>2 DEF Holds, JobOf
<1>5. SentOnce(w, k)'
  <2>1. ASSUME NEW n \in Msgs, body[n] = k
        PROVE  IF k \in walked
               THEN place'[n] = "gone" \/ (pc[w] \in {"closeState", "ack"} /\ ctx[w].msg = n)
               ELSE \/ place'[n] = "visible" /\ receives[n] = 0
                    \/ pc[w] \in SyncPcs /\ ctx[w].msg = n
    BY <1>1, <1>2, <1>3, <2>1, MaxReceiveAssumption DEF SentOnce
  <2>2. SentIn(body', k) <=> SentIn(body, k) BY <1>1
  <2> QED BY <1>1, <1>2, <2>1, <2>2 DEF SentOnce, Owes
<1>6. WalkCounts(w, k)' BY <1>1, <1>2 DEF WalkCounts, Counted, Left
<1>7. Agrees(w, k)'
  <2>1. (CloseWith(w, ctx[w]))' = CloseWith(w, ctx[w]) BY <1>1 DEF CloseWith, JobOf
  <2> QED BY <1>1, <1>2, <2>1 DEF Agrees, There, Exact, Count
<1> QED BY <1>1, <1>2, <1>4, <1>5, <1>6, <1>7 DEF CalmInv, DocsOwned, RunsAreRegistered, SomeRun

LEMMA RequestGoesCalm ==
    ASSUME NEW w \in Workers, NEW k, Syncs = {k}, CalmI(w, k), NEW r \in Requesters,
           RequestStep(r)
    PROVE  CalmInv(w, k)' /\ RunsAreRegistered'
<1>0. /\ reqPc \in [Requesters -> RequestPcs] /\ reqPc[r] # "open"
      /\ reqPc[r] # "idle" => reqSync[r] = k /\ status[k] # "absent"
      /\ k # NoJob /\ k \notin Children
      /\ UNCHANGED <<status, docStatus, walked, pc, ctx>>
      /\ body \in [Msgs -> Jobs \cup {NoJob}] /\ place \in [Msgs -> Places]
      /\ receives \in [Msgs -> Nat]
  <2>1. UNCHANGED <<status, docStatus, walked, pc, ctx>>
    BY DEF RequestStep, RequestState, RequestStamp, RequestEnqueue, StampMessageId, storeVars,
       workerVars
  <2> QED BY <2>1, AtCalm DEF CalmI, CalmInv, Holds, IInv, Typed, RequestHasSync
<1>1. /\ Holds(w) /\ SentOnce(w, k) /\ WalkCounts(w, k) /\ Agrees(w, k) /\ DocsOwned
      /\ RunsAreRegistered
  BY DEF CalmI, CalmInv
<1>2. DocsOwned' BY <1>0, <1>1 DEF DocsOwned
<1>3. Owes(r) => k \notin walked /\ \A n \in Msgs : body[n] # k
  BY <1>0, <1>1 DEF CalmI, IInv, OwesAlone, SentOnce, SentIn, Owes
<1>4. CASE RequestState(r)
  <2>1. /\ reqPc[r] = "openNew" /\ reqPc' = [reqPc EXCEPT ![r] = "enqueue"]
        /\ source' = State("queued", k, 0, 0, 0) /\ UNCHANGED <<body, place, receives>>
    BY <1>0, <1>4 DEF RequestState, RequestGoto, queueVars
  <2>2. k \notin walked BY <1>3, <2>1 DEF Owes
  <2>3. Agrees(w, k)' BY <1>0, <2>2, BeforeTheWalk
  <2>4. Holds(w)' BY <1>0, <1>1, <2>1 DEF Holds, HandleAccepted, JobOf
  <2>5. Owes(r)' BY <1>0, <2>1 DEF Owes
  <2>6. SentOnce(w, k)' BY <1>0, <1>1, <2>1, <2>5 DEF SentOnce
  <2>7. WalkCounts(w, k)' BY <1>0, <1>1, <2>1 DEF WalkCounts, Counted, Left
  <2>8. RunsAreRegistered'
    BY <1>0, <1>1, <2>1 DEF RunsAreRegistered, SomeRun, State
  <2> QED BY <1>2, <2>3, <2>4, <2>6, <2>7, <2>8 DEF CalmInv
<1>5. CASE RequestStamp(r)
  <2>1. /\ reqPc[r] = "stamp" /\ reqPc' = [reqPc EXCEPT ![r] = "idle"]
        /\ UNCHANGED <<source, body, place, receives>>
    BY <1>5 DEF RequestStamp, RequestEnds, RequestGoto, queueVars
  <2>2. Holds(w)' BY <1>0, <1>1, <2>1 DEF Holds, HandleAccepted, JobOf
  <2>3. \A q \in Requesters : Owes(q) => Owes(q)' BY <1>0, <2>1 DEF Owes
  <2>4. SentOnce(w, k)' BY <1>0, <1>1, <2>1, <2>3 DEF SentOnce
  <2>5. WalkCounts(w, k)' BY <1>0, <1>1, <2>1 DEF WalkCounts, Counted, Left
  <2>6. Agrees(w, k)'
    <3>1. (CloseWith(w, ctx[w]))' = CloseWith(w, ctx[w]) BY <1>0, <2>1 DEF CloseWith, JobOf
    <3> QED BY <1>0, <1>1, <2>1, <3>1 DEF Agrees, There, Exact, Count
  <2>7. RunsAreRegistered' BY <1>0, <1>1, <2>1 DEF RunsAreRegistered, SomeRun
  <2> QED BY <1>2, <2>2, <2>4, <2>5, <2>6, <2>7 DEF CalmInv
<1>6. CASE \E m \in Msgs : RequestEnqueue(r, m)
  <2>1. PICK m \in Msgs : RequestEnqueue(r, m) BY <1>6
  <2>2. /\ reqPc[r] = "enqueue" /\ reqPc' = [reqPc EXCEPT ![r] = "stamp"]
        /\ UNCHANGED <<source, receives>> /\ place[m] = "unsent"
        /\ place' = [place EXCEPT ![m] = "visible"] /\ body' = [body EXCEPT ![m] = k]
    BY <1>0, <2>1 DEF RequestEnqueue, EnqueueMessage, RequestGoto
  <2>3. k \notin walked /\ \A n \in Msgs : body[n] # k BY <1>3, <2>2 DEF Owes
  <2>4. /\ Agrees(w, k)'
        /\ pc[w] \in SyncPcs \cup {"idle"} /\ pc[w] # "closeState"
        /\ pc[w] # "idle" => place[ctx[w].msg] = "inflight" /\ ctx[w].msg \in Msgs
    BY <1>0, <2>3, BeforeTheWalk
  <2>5. /\ body'[m] = k /\ place'[m] = "visible" /\ receives'[m] = 0
        /\ \A n \in Msgs : n # m => body'[n] = body[n] /\ place'[n] = place[n]
    BY <1>0, <1>1, <2>2 DEF Holds
  <2>6. pc[w] # "idle" => place'[ctx[w].msg] = place[ctx[w].msg] /\ JobOf(w) = k
    BY <2>2, <2>4, <2>5, AtCalm
  <2>7. pc[w] = "idle"
    <3> SUFFICES ASSUME pc[w] # "idle" PROVE FALSE OBVIOUS
    <3> QED BY <2>3, <2>4, <2>6 DEF JobOf
  <2>8. Holds(w)' BY <1>0, <1>1, <2>2, <2>5, <2>7 DEF Holds, Refreshing
  <2>9. SentOnce(w, k)' BY <1>0, <2>3, <2>5 DEF SentOnce, SentIn
  <2>10. WalkCounts(w, k)'
    <3>1. \A n \in Msgs : body'[n] \in Children => body'[n] = body[n] BY <1>0, <2>5
    <3> QED BY <1>0, <1>1, <2>2, <2>7, <3>1 DEF WalkCounts, InWalk
  <2>11. RunsAreRegistered' BY <1>0, <1>1, <2>2 DEF RunsAreRegistered, SomeRun
  <2> QED BY <1>2, <2>4, <2>8, <2>9, <2>10, <2>11 DEF CalmInv
<1> QED BY <1>4, <1>5, <1>6 DEF RequestStep

LEMMA RequestCalm ==
    ASSUME NEW w \in Workers, NEW k, Syncs = {k}, CalmI(w, k), NEW r \in Requesters,
           status[k] = "absent", Request(r, k)
    PROVE  CalmInv(w, k)' /\ RunsAreRegistered'
<1>0. /\ UNCHANGED <<source, walked, pc, ctx, body, place, receives>>
      /\ reqPc' = [reqPc EXCEPT ![r] = "openNew"]
      /\ status' = [status EXCEPT ![k] = "queued"]
      /\ docStatus' = [docStatus EXCEPT ![DocOf[k]] = "queued"]
      /\ reqPc \in [Requesters -> RequestPcs] /\ status \in [Jobs -> RunStatus]
      /\ k \in Jobs /\ k \notin Children /\ Children \subseteq Jobs
  BY AtCalm DEF Request, CreateQueued, RequestGoto, queueVars, workerVars, CalmI, IInv, Typed,
     Children
<1>1. /\ Holds(w) /\ SentOnce(w, k) /\ WalkCounts(w, k) /\ Agrees(w, k) /\ DocsOwned
      /\ RunsAreRegistered
  BY DEF CalmI, CalmInv
<1>2. k \notin walked /\ \A n \in Msgs : body[n] # k
  BY <1>1 DEF CalmI, IInv, SentIsRegistered, SentOnce, SentIn
<1>3. Agrees(w, k)' BY <1>0, <1>2, BeforeTheWalk
<1>4. Holds(w)' BY <1>0, <1>1 DEF Holds, HandleAccepted, JobOf
<1>5. Owes(r)' BY <1>0 DEF Owes
<1>6. SentOnce(w, k)' BY <1>0, <1>2, <1>5 DEF SentOnce
<1>7. \A j \in Jobs : j # k => status'[j] = status[j] BY <1>0
<1>8. \A j \in Children : status'[j] = status[j] BY <1>0, <1>7
<1>9. WalkCounts(w, k)'
  <2>1. pc[w] \notin InWalk
    <3> SUFFICES ASSUME pc[w] \in InWalk PROVE FALSE OBVIOUS
    <3> QED BY <1>2, AtCalm DEF SyncPcs, InWalk, JobOf
  <2> QED BY <1>0, <1>1, <1>8, <2>1 DEF WalkCounts, InWalk
<1>10. DocsOwned' BY <1>0, <1>1, OwnedStays
<1>11. RunsAreRegistered'
  <2>1. \A i : SomeRun(i) /\ i \in Jobs \cup {NoJob} => i = NoJob \/ status'[i] # "absent"
    BY <1>0, <1>7 DEF SomeRun
  <2>2. /\ source.run \in Jobs \cup {NoJob}
        /\ \A v \in Workers : ctx[v].state.run \in Jobs \cup {NoJob}
    BY DEF CalmI, IInv, Typed, Locals, States
  <2> QED BY <1>0, <1>1, <2>1, <2>2 DEF RunsAreRegistered, SomeRun
<1> QED BY <1>3, <1>4, <1>6, <1>9, <1>10, <1>11 DEF CalmInv

-------------------------------------------------------------------------------
(* The theorem. *)

LEMMA CalmInit ==
    ASSUME NEW w \in Workers, NEW k, Syncs = {k}, Init
    PROVE  CalmI(w, k)
<1>0. IInv /\ OrphanInv(w) BY InitIInv, OrphanInit
<1>k. k \in Jobs /\ k \notin Children /\ k # NoJob
  BY SyncAssumption, NoJobAssumption DEF Children
<1> USE DEF Init, QueueInit, StoreInit, SyncInit
<1>1. RunsAreRegistered
  BY DEF RunsAreRegistered, SomeRun, Blank, NoState, State
<1>2. WalkedInv(w, k)
  BY <1>k, NoJobAssumption DEF WalkedInv, ChildSent, Children
<1>3. Holds(w) BY DEF Holds, Refreshing
<1>4. SentOnce(w, k) BY <1>k DEF SentOnce
<1>5. WalkCounts(w, k)
  BY NoJobAssumption DEF WalkCounts, InWalk, ChildStatus, Children
<1>6. Agrees(w, k) BY DEF Agrees
<1>7. DocsOwned BY DEF DocsOwned, ChildDocs
<1> QED BY <1>0, <1>1, <1>2, <1>3, <1>4, <1>5, <1>6, <1>7 DEF CalmI, CalmInv

LEMMA CalmStays ==
    ASSUME NEW w, Workers = {w}, NEW k, Syncs = {k}, CalmI(w, k), [CalmNext]_vars
    PROVE  CalmI(w, k)'
<1>w. w \in Workers OBVIOUS
<1>1. [AcksNext]_vars
  BY DEF CalmNext, CalmStep, AcksNext, QueueNext, RequestNext, WorkerMove
<1>2. IInv' /\ OrphanInv(w)' BY <1>1, OrphanInvStep DEF CalmI
<1>3. WalkedInv(w, k)'
  <2>1. WalkGoesOn(w, k)
    <3>1. CASE \E v \in Workers : WorkerStep(v) \/ \E m \in Msgs : Receive(v, m)
      BY <1>w, <3>1, CalmWorker DEF CalmI
    <3>2. CASE \/ QueueNext /\ UNCHANGED <<storeVars, source, walked, requestVars, workerVars>>
               \/ RequestNext \/ UNCHANGED vars
      BY <1>w, <3>2, CalmOthers DEF CalmI
    <3> QED BY <3>1, <3>2 DEF CalmNext, CalmStep, QueueNext, RequestNext
  <2> QED BY <2>1, WalkedStays DEF CalmI
<1>4. CASE CalmMove(w)
  <2>1. CalmInv(w, k)' BY <1>w, <1>4, WorkerCalm
  <2>2. Registered /\ NamesKnownRuns(w)
    BY <1>w, <1>4, WorkerNames DEF CalmI, CalmMove, WorkerMove
  <2>3. RunsAreRegistered' BY <1>w, <2>2, RunsStay DEF CalmI
  <2> QED BY <1>2, <1>3, <2>1, <2>3 DEF CalmI
<1>5. CASE (\E m \in Msgs : Redrive(m))
           /\ UNCHANGED <<storeVars, source, walked, requestVars, workerVars>>
  BY <1>w, <1>2, <1>3, <1>5, RedriveCalm DEF CalmI
<1>6. CASE \E r \in Requesters : RequestStep(r)
  BY <1>w, <1>2, <1>3, <1>6, RequestGoesCalm DEF CalmI
<1>7. CASE \E r \in Requesters, i \in Syncs : status[i] = "absent" /\ Request(r, i)
  BY <1>w, <1>2, <1>3, <1>7, RequestCalm DEF CalmI
<1>8. CASE UNCHANGED vars
  <2>1. UNCHANGED <<body, place, receives, status, docStatus, source, walked, reqPc, pc, ctx>>
    BY <1>8 DEF vars, queueVars, storeVars, requestVars, workerVars
  <2>2. (CloseWith(w, ctx[w]))' = CloseWith(w, ctx[w]) BY <2>1 DEF CloseWith, JobOf
  <2>3. Holds(w)' /\ SentOnce(w, k)'
    BY <2>1 DEF CalmI, CalmInv, Holds, HandleAccepted, JobOf, SentOnce, SentIn, Owes
  <2>4. WalkCounts(w, k)'
    BY <2>1 DEF CalmI, CalmInv, WalkCounts, Counted, Left
  <2>5. Agrees(w, k)'
    BY <2>1, <2>2 DEF CalmI, CalmInv, Agrees, There, Exact, Count
  <2>6. DocsOwned' /\ RunsAreRegistered'
    BY <2>1 DEF CalmI, CalmInv, DocsOwned, RunsAreRegistered, SomeRun
  <2> QED BY <1>2, <1>3, <2>3, <2>4, <2>5, <2>6 DEF CalmI, CalmInv
<1> QED BY <1>w, <1>4, <1>5, <1>6, <1>7, <1>8 DEF CalmNext, CalmStep, CalmMove

LEMMA CalmSuffices ==
    ASSUME NEW w, Workers = {w}, NEW k, Syncs = {k}, CalmI(w, k)
    PROVE  QuietAgrees
<1> SUFFICES ASSUME Quiet, source.run # NoJob PROVE QuietAgrees BY DEF QuietAgrees
<1>0. w \in Workers /\ k \in Syncs /\ pc[w] = "idle" BY DEF Quiet
<1>1. source.run = k
  BY DEF CalmI, OrphanInv, AtWorker, RefreshIsTrue
<1>2. status[k] # "absent" BY <1>1 DEF CalmI, RunsAreRegistered, SomeRun
<1>3. SentIn(body, k) BY <1>2 DEF CalmI, CalmInv, SentOnce, Quiet, Owes
<1>4. k \in walked
  <2>1. PICK m \in Msgs : body[m] = k BY <1>3 DEF SentIn
  <2>2. place[m] # "visible" BY DEF Quiet, Live
  <2> QED BY <1>0, <2>1, <2>2 DEF CalmI, CalmInv, SentOnce, SyncPcs, InWalk
<1>5. Exact(source, status, k) /\ status[k] = RunOf(source.status)
  BY <1>0, <1>4 DEF CalmI, CalmInv, Agrees
<1>6. \A j \in Children : status[j] \in ChildStatus BY DEF CalmI, CalmInv, WalkCounts
<1> QED BY <1>0, <1>5, <1>6, ExactAgrees DEF CalmI, CalmInv, OrphanInv

(* When the queue is empty and nobody is at work, the state of the source    *)
(* and the run it names say what the rows of its documents say: counts,     *)
(* verdict and run.  For one worker and one sync, whatever its listing is,  *)
(* whichever of its children fail and are retried or given up, on a day     *)
(* nothing dies, raises or comes back (execute_source_sync and              *)
(* _refresh_source_sync_parent).                                            *)
THEOREM QuietIsTrue ==
    ASSUME NEW w, Workers = {w}, NEW k, Syncs = {k}
    PROVE  CalmSpec => []QuietAgrees
<1>w. w \in Workers OBVIOUS
<1>1. Init => CalmI(w, k) BY <1>w, CalmInit
<1>2. CalmI(w, k) /\ [CalmNext]_vars => CalmI(w, k)' BY CalmStays
<1>3. CalmI(w, k) => QuietAgrees BY CalmSuffices
<1> QED BY <1>1, <1>2, <1>3, PTL DEF CalmSpec
===============================================================================
