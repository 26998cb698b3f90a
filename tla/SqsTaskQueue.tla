----------------------------- MODULE SqsTaskQueue -----------------------------
(***************************************************************************)
(* The ingestion queue as the Python adapter SqsTaskQueue sees it:         *)
(* workers/queue/sqs.py over one SQS standard queue with a redrive policy. *)
(*                                                                         *)
(* A message is sent once and keeps its identity until it is gone.  Every  *)
(* receive hands out a new receipt handle; here the handle is the receive  *)
(* count the envelope carries, which is what tells two handles of the same *)
(* message apart.  The operators below are the calls the adapter makes;    *)
(* VisibilityExpires and Redrive are steps the queue takes by itself (SQS  *)
(* is not in this repository: they follow from VisibilityTimeout=900 in    *)
(* the adapter and from the queue's maxReceiveCount, the same 5, in        *)
(* infra/cdk/lib/raku-rag-stack.ts).                                       *)
(***************************************************************************)
EXTENDS Naturals, IngestionJobs

CONSTANTS
    Msgs,             \* message identities; their number bounds the sends
    MaxReceiveCount,  \* SQS_MAX_RECEIVE_COUNT, also the redrive policy's
    HasDlqUrl         \* is SQS_DLQ_URL configured for the adapter?

ASSUME MaxReceiveAssumption == MaxReceiveCount \in Nat \ {0}
ASSUME DlqUrlAssumption == HasDlqUrl \in BOOLEAN

VARIABLES
    body,      \* body[m]: the job message m asks for, NoJob until it is sent
    place,     \* place[m]: where message m is
    receives,  \* receives[m]: ApproximateReceiveCount
    dlq        \* messages with a copy in the dead-letter queue

queueVars == <<body, place, receives, dlq>>

Places == {"unsent", "visible", "inflight", "gone"}

Live(m) == place[m] \in {"visible", "inflight"}

QueueInit ==
    /\ body = [m \in Msgs |-> NoJob]
    /\ place = [m \in Msgs |-> "unsent"]
    /\ receives = [m \in Msgs |-> 0]
    /\ dlq = {}

-------------------------------------------------------------------------------
(* Calls of the adapter. *)

EnqueueMessage(m, j) ==
    /\ place[m] = "unsent"
    /\ place' = [place EXCEPT ![m] = "visible"]
    /\ body' = [body EXCEPT ![m] = j]
    /\ UNCHANGED <<receives, dlq>>

(* Mutant: the queue goes on delivering past maxReceiveCount. *)
ReceiveMessage_Unbounded(m) ==
    /\ place[m] = "visible"
    /\ place' = [place EXCEPT ![m] = "inflight"]
    /\ receives' = [receives EXCEPT ![m] = @ + 1]
    /\ UNCHANGED <<body, dlq>>

ReceiveMessage(m) ==
    /\ place[m] = "visible"
    /\ receives[m] < MaxReceiveCount
    /\ place' = [place EXCEPT ![m] = "inflight"]
    /\ receives' = [receives EXCEPT ![m] = @ + 1]
    /\ UNCHANGED <<body, dlq>>

(* Deleting with the latest handle removes the message, expired or not; an *)
(* older handle is accepted but may leave the message where it is.         *)
DeleteMessage(m, receipt) ==
    /\ \/ /\ Live(m)
          /\ place' = [place EXCEPT ![m] = "gone"]
       \/ /\ ~Live(m) \/ receives[m] # receipt
          /\ UNCHANGED place
    /\ UNCHANGED <<body, receives, dlq>>

(* change_message_visibility with the latest handle of a message in flight. *)
HandleAccepted(m, receipt) ==
    place[m] = "inflight" /\ receives[m] = receipt

MakeVisible(m, receipt) ==
    /\ HandleAccepted(m, receipt)
    /\ place' = [place EXCEPT ![m] = "visible"]
    /\ UNCHANGED <<body, receives, dlq>>

CopyToDlq(m) ==
    /\ dlq' = dlq \cup {m}
    /\ UNCHANGED <<body, place, receives>>

-------------------------------------------------------------------------------
(* Steps of the queue itself. *)

VisibilityExpires(m) ==
    /\ place[m] = "inflight"
    /\ place' = [place EXCEPT ![m] = "visible"]
    /\ UNCHANGED <<body, receives, dlq>>

Redrive(m) ==
    /\ place[m] = "visible"
    /\ receives[m] >= MaxReceiveCount
    /\ place' = [place EXCEPT ![m] = "gone"]
    /\ dlq' = dlq \cup {m}
    /\ UNCHANGED <<body, receives>>

QueueNext == \E m \in Msgs : VisibilityExpires(m) \/ Redrive(m)
===============================================================================
