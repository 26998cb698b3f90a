------------------------------ MODULE DurableJobs -----------------------------
(***************************************************************************)
(* What the ingestion pipeline promises, without its queue, its workers or *)
(* its run store.  A request that was accepted is owed until it is either  *)
(* done (the content of its job is indexed) or parked (a copy waits in the *)
(* dead-letter queue for an operator); it is never dropped before that,    *)
(* and it is not owed for ever.  A job is reported as a success only when  *)
(* it is done; the report may be withdrawn and made again.                 *)
(***************************************************************************)
CONSTANTS
    Requests,   \* accepted pieces of work
    Jobs,       \* what a request may ask for
    NoJob       \* a request not accepted yet

VARIABLES
    ask,       \* ask[r]: the job request r is for
    owed,      \* requests still to be resolved
    done,      \* jobs whose content is indexed
    parked,    \* requests copied to the dead-letter queue
    reported   \* jobs reported as a success

durableVars == <<ask, owed, done, parked, reported>>

DurableInit ==
    /\ ask = [r \in Requests |-> NoJob]
    /\ owed = {} /\ done = {} /\ parked = {} /\ reported = {}

Accept(r, j) ==
    /\ ask[r] = NoJob
    /\ ask' = [ask EXCEPT ![r] = j]
    /\ owed' = owed \cup {r}
    /\ UNCHANGED <<done, parked, reported>>

(* Work may run again for a job that is done, and after its request is     *)
(* resolved; it never runs for a job nobody asked for.                     *)
Complete(j) ==
    /\ \E r \in Requests : ask[r] = j
    /\ done' = done \cup {j}
    /\ UNCHANGED <<ask, owed, parked, reported>>

Park(r) ==
    /\ ask[r] # NoJob
    /\ parked' = parked \cup {r}
    /\ UNCHANGED <<ask, owed, done, reported>>

Drop(r) ==
    /\ r \in owed
    /\ ask[r] \in done \/ r \in parked
    /\ owed' = owed \ {r}
    /\ UNCHANGED <<ask, done, parked, reported>>

ParkAndDrop(r) ==
    /\ r \in owed
    /\ parked' = parked \cup {r}
    /\ owed' = owed \ {r}
    /\ UNCHANGED <<ask, done, reported>>

Report(j) ==
    /\ j \in done
    /\ reported' = reported \cup {j}
    /\ UNCHANGED <<ask, owed, done, parked>>

Withdraw(j) ==
    /\ reported' = reported \ {j}
    /\ UNCHANGED <<ask, owed, done, parked>>

DurableNext ==
    \/ \E r \in Requests :
        (\E j \in Jobs : Accept(r, j)) \/ Park(r) \/ Drop(r) \/ ParkAndDrop(r)
    \/ \E j \in Jobs : Complete(j) \/ Report(j) \/ Withdraw(j)

DurableSafety == DurableInit /\ [][DurableNext]_durableVars

(* Every accepted request is resolved in the end. *)
DurableSpec ==
    DurableSafety /\ \A r \in Requests : WF_durableVars(Drop(r) \/ ParkAndDrop(r))
===============================================================================
