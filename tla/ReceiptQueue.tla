---------------------------- MODULE ReceiptQueue ----------------------------
(***************************************************************************)
(* The queue between the outbox and the enrichment workers                 *)
(* (services/enrichment/app/queueing.py, tasks.py, local_worker.py).       *)
(*                                                                         *)
(* With the provider "postgres" a receipt has one row of                   *)
(* local_receipt_queue.  With "sqs" every send makes a message of its own; *)
(* SQS hides a received message until its visibility timeout and moves it  *)
(* to the dead-letter queue when it was received too often.  Both fit one  *)
(* record: DELIVERED is also a deleted SQS message, FAILED_TERMINAL also   *)
(* one in the dead-letter queue.                                           *)
(***************************************************************************)
EXTENDS Naturals

CONSTANTS
    Receipts,       \* receipt UUIDs
    Slots,          \* bound: the messages a receipt may have in SQS
    MaxReceives,    \* 10 attempts in local_receipt_queue, 5 receives in SQS
    Deployments     \* the deployments considered

Leases == {"message", "stage", "event"}

\* provider: EVENT_QUEUE_PROVIDER; gst: is the GST provider enabled?
\* outlived: the kinds of lease that a worker may outlive;
\* faults: bound on the deaths of workers and the errors of database calls.
ASSUME QueueAssumption ==
    /\ Slots # {}
    /\ MaxReceives \in Nat \ {0}
    /\ Deployments \subseteq [provider : {"postgres", "sqs"}, gst : BOOLEAN,
                              outlived : SUBSET Leases, faults : Nat]

VARIABLES
    deployment, \* the one at hand
    queue       \* the messages of each receipt

MessageStatuses == {"NONE", "PENDING", "PROCESSING", "DELIVERED",
                    "FAILED_RETRYABLE", "FAILED_TERMINAL"}

\* held: locked_until, available_at or the visibility timeout lies ahead.
\* attempts is counted as far as the limit it is compared with.
Messages == [status : MessageStatuses, attempts : 0 .. MaxReceives, held : BOOLEAN]

NoMessage == [status |-> "NONE", attempts |-> 0, held |-> FALSE]
NewMessage == [status |-> "PENDING", attempts |-> 0, held |-> FALSE]

QueueTypeOK ==
    /\ deployment \in Deployments
    /\ queue \in [Receipts -> [Slots -> Messages]]

QueueInit ==
    /\ deployment \in Deployments
    /\ queue = [r \in Receipts |-> [s \in Slots |-> NoMessage]]

\* Wrong on purpose: the type invariant notices it in place of CountUpTo.
CountBlindly(n, limit) == n + 1

\* attempts + 1, as far as the limit
CountUpTo(n, limit) == IF n < limit THEN n + 1 ELSE n

-----------------------------------------------------------------------------
\* PostgresEventQueue.enqueue: the receipt's only row keeps its status.
\* SqsEventQueue.enqueue: a message of its own.
Enqueue(r) ==
    \E s \in Slots :
        /\ deployment.provider = "postgres" => \A t \in Slots \ {s} : queue[r][t] = NoMessage
        /\ deployment.provider = "sqs" => queue[r][s] = NoMessage
        /\ queue' = [queue EXCEPT ![r][s] = IF @ = NoMessage THEN NewMessage ELSE @]

Visible(r, s) ==
    /\ queue[r][s].status \in {"PENDING", "FAILED_RETRYABLE", "PROCESSING"}
    /\ ~queue[r][s].held

Exhausted(r, s) == deployment.provider = "sqs" /\ queue[r][s].attempts = MaxReceives

\* claim_local_message, or sqs.receive_message
Receive(r, s) ==
    /\ Visible(r, s) /\ ~Exhausted(r, s)
    /\ queue' = [queue EXCEPT ![r][s] =
                    [status |-> "PROCESSING", held |-> TRUE,
                     attempts |-> CountUpTo(@.attempts, MaxReceives)]]

\* The redrive policy of the SQS queue.
Redrive(r, s) ==
    /\ Visible(r, s) /\ Exhausted(r, s)
    /\ queue' = [queue EXCEPT ![r][s].status = "FAILED_TERMINAL"]

\* complete_local_message, or sqs.delete_message
CompleteMessage(r, s) ==
    queue' = [queue EXCEPT ![r][s] =
                 IF @.status = "PROCESSING"
                 THEN [@ EXCEPT !.status = "DELIVERED", !.held = FALSE] ELSE @]

\* fail_local_message; an SQS message just becomes visible again later.
FailMessage(r, s, last) ==
    queue' = [queue EXCEPT ![r][s] =
                 IF deployment.provider = "postgres" /\ @.status = "PROCESSING"
                 THEN [@ EXCEPT !.status = IF last THEN "FAILED_TERMINAL"
                                                   ELSE "FAILED_RETRYABLE",
                                !.held = ~last]
                 ELSE @]

MessageTimePasses(r, s) ==
    /\ queue[r][s].held
    /\ queue' = [queue EXCEPT ![r][s].held = FALSE]
=============================================================================
