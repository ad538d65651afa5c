------------------------------- MODULE Outbox -------------------------------
(***************************************************************************)
(* The transactional outbox and its dispatcher                             *)
(* (services/enrichment/app/outbox.py), which every worker runs between    *)
(* two messages, and the receipts rows that it projects results into.      *)
(***************************************************************************)
EXTENDS ReceiptQueue

CONSTANTS
    Workers,        \* concurrent worker processes
    MaxVersion,     \* bound: the last version of an enrichment result
    MaxDeliveries,  \* 10 attempts of an outbox event
    None            \* no claim, no job

VARIABLES
    outbox,     \* transactional_outbox, by its unique key
    delivery,   \* workflow_stages EDGE_CALLBACK and CREDIT_DELIVERY: status
    receipt,    \* receipts: status, version of the result it shows
    worker      \* the workers

outboxVars == <<outbox, delivery, receipt>>

Versions == 1 .. MaxVersion
\* event_type, shortened; complete_upload_session writes version 1 only.
Events == [receipt : Receipts, kind : {"QUEUE"}, version : {1}]
            \cup [receipt : Receipts, kind : {"CALLBACK", "CREDIT"}, version : Versions]
Event(r, k, v) == [receipt |-> r, kind |-> k, version |-> v]

\* Status of the result in the payload of a callback; "NONE" otherwise.
Results == {"READY_FOR_REVIEW", "NEEDS_HUMAN_REVIEW", "VERIFIED_GST", "GST_ANOMALY"}

EventStatuses == {"NONE", "PENDING", "PROCESSING", "DELIVERED",
                  "FAILED_RETRYABLE", "FAILED_TERMINAL", "DISABLED"}
EventRows == [status : EventStatuses, attempts : 0 .. MaxDeliveries,
              held : BOOLEAN, result : Results \cup {"NONE"}]
NoEvent == [status |-> "NONE", attempts |-> 0, held |-> FALSE, result |-> "NONE"]
NewEvent(result) == [NoEvent EXCEPT !.status = "PENDING", !.result = result]

\* A reviewer's VERIFIED or REJECTED is "REVIEWED" here.
ReceiptRows == [status : {"NONE", "RECEIVED", "NEEDS_REVIEW", "REVIEWED"},
                shown : 0 .. MaxVersion]

DeliveryStages == {"EDGE_CALLBACK", "CREDIT_DELIVERY"}
StageStatuses == {"NONE", "PROCESSING", "COMPLETED", "FAILED_RETRYABLE",
                  "FAILED_TERMINAL", "DISABLED"}

\* An event in a worker's hands; last: event.attempts has reached the limit.
Claims == [event : Events, last : BOOLEAN]
Jobs == [receipt : Receipts, slot : Slots, last : BOOLEAN]

ASSUME OutboxAssumption ==
    /\ MaxVersion \in Nat \ {0}
    /\ MaxDeliveries \in Nat \ {0}
    /\ None \notin Claims \cup Jobs

DispatchStages == {"dispatch", "deliver", "delivered", "undelivered"}
JobStages == {"begin", "image", "imageClaim", "fetch", "imageUnanswered",
              "ocrClaim", "ocr", "ocrUnanswered", "ocrDenied",
              "gstClaim", "gst", "gstUnanswered", "gstDenied",
              "finalize", "finished", "failed"}

\* again: this dispatch follows a message.
IdleWorker == [pc |-> "dispatch", batch |-> {}, claim |-> None, job |-> None,
               again |-> FALSE]

OutboxTypeOK ==
    /\ outbox \in [Events -> EventRows]
    /\ delivery \in [Receipts -> [DeliveryStages -> StageStatuses]]
    /\ receipt \in [Receipts -> ReceiptRows]
    /\ worker \in [Workers -> [pc : DispatchStages \cup {"receive"} \cup JobStages,
                               batch : SUBSET Claims,
                               claim : Claims \cup {None},
                               job : Jobs \cup {None},
                               again : BOOLEAN]]

OutboxInit ==
    /\ outbox = [e \in Events |-> NoEvent]
    /\ delivery = [r \in Receipts |-> [s \in DeliveryStages |-> "NONE"]]
    /\ receipt = [r \in Receipts |-> [status |-> "NONE", shown |-> 0]]
    /\ worker = [w \in Workers |-> IdleWorker]

-----------------------------------------------------------------------------
(* Wrong variants: no specification uses them.  They take the place of the *)
(* definition they distort, to see that a property notices.                *)

StatusAfterProjectionBlindly(status) == "NEEDS_REVIEW"
DueWithoutExpiry(e) ==
    outbox[e].status \in {"PENDING", "FAILED_RETRYABLE"} /\ ~outbox[e].held

-----------------------------------------------------------------------------
(* Writers of receipts and of the outbox.                                  *)

\* complete_upload_session commits the receipts row with its queue event.
RecordReceipt(r) ==
    /\ receipt[r].status = "NONE"
    /\ receipt' = [receipt EXCEPT ![r].status = "RECEIVED"]
    /\ outbox' = [outbox EXCEPT ![Event(r, "QUEUE", 1)] = NewEvent("NONE")]
    /\ UNCHANGED delivery

\* review_receipt, whatever the status of the receipt
Review(r) ==
    /\ receipt[r].status \in {"RECEIVED", "NEEDS_REVIEW"}
    /\ receipt' = [receipt EXCEPT ![r].status = "REVIEWED"]
    /\ UNCHANGED <<outbox, delivery>>

-----------------------------------------------------------------------------
(* claim_outbox_events                                                     *)

StageOf(kind) == CASE kind = "CALLBACK" -> "EDGE_CALLBACK"
                   [] kind = "CREDIT"   -> "CREDIT_DELIVERY"
                   [] OTHER             -> "NONE"

Due(e) ==
    /\ outbox[e].status \in {"PENDING", "FAILED_RETRYABLE", "PROCESSING"}
    /\ ~outbox[e].held

SetDelivery(e, status) ==
    delivery' = [delivery EXCEPT ![e.receipt] =
                    [s \in DeliveryStages |-> IF s = StageOf(e.kind) THEN status ELSE @[s]]]

\* Every due event: the LIMIT of 20 exceeds what this model can have.
ClaimOutbox(w) ==
    LET due == {e \in Events : Due(e)} IN
    /\ worker[w].pc = "dispatch"
    /\ outbox' = [e \in Events |->
                    IF e \in due
                    THEN [outbox[e] EXCEPT !.status = "PROCESSING", !.held = TRUE,
                                           !.attempts = CountUpTo(@, MaxDeliveries)]
                    ELSE outbox[e]]
    /\ delivery' = [r \in Receipts |-> [s \in DeliveryStages |->
                      IF \E e \in due : e.receipt = r /\ StageOf(e.kind) = s
                      THEN "PROCESSING" ELSE delivery[r][s]]]
    /\ worker' = [worker EXCEPT ![w].pc = "deliver",
                     ![w].batch = {[event |-> e,
                                    last |-> outbox[e].attempts + 1 >= MaxDeliveries]
                                     : e \in due}]
    /\ UNCHANGED <<receipt, deployment, queue>>

-----------------------------------------------------------------------------
(* dispatch_outbox_once                                                    *)

\* The effect of event c is done, or raised an exception: c is to be marked.
ToMark(w, c, pc) ==
    worker' = [worker EXCEPT ![w].pc = pc, ![w].claim = c, ![w].batch = @ \ {c}]

StatusAfterProjection(status) == IF status = "RECEIVED" THEN "NEEDS_REVIEW" ELSE status

ResultShown(c) == c.event.version

\* project_enrichment_result: the result of the event, whatever is shown now.
Project(w, c) ==
    LET r == c.event.receipt IN
    /\ worker[w].pc = "deliver" /\ c \in worker[w].batch
    /\ c.event.kind = "CALLBACK"
    /\ receipt' = [receipt EXCEPT ![r].status = StatusAfterProjection(@),
                                  ![r].shown = ResultShown(c)]
    /\ ToMark(w, c, "delivered")
    /\ UNCHANGED <<outbox, delivery, deployment, queue>>

SendToQueue(w, c) ==
    /\ worker[w].pc = "deliver" /\ c \in worker[w].batch
    /\ c.event.kind = "QUEUE"
    /\ Enqueue(c.event.receipt)
    /\ ToMark(w, c, "delivered")
    /\ UNCHANGED <<outboxVars, deployment>>

\* The credit queue takes the payload and knows its idempotency key.
SendCredit(w, c) ==
    /\ worker[w].pc = "deliver" /\ c \in worker[w].batch
    /\ c.event.kind = "CREDIT"
    /\ ToMark(w, c, "delivered")
    /\ UNCHANGED <<outboxVars, deployment, queue>>

\* An exception: projection, queue or credit provider unavailable.
Undeliverable(w, c) ==
    /\ worker[w].pc = "deliver" /\ c \in worker[w].batch
    /\ ToMark(w, c, "undelivered")
    /\ UNCHANGED <<outboxVars, deployment, queue>>

\* mark_outbox_disabled, when the credit provider is disabled by now;
\* it does not look at the status of the event.
DisableCredit(w, c) ==
    /\ worker[w].pc = "deliver" /\ c \in worker[w].batch
    /\ c.event.kind = "CREDIT"
    /\ outbox' = [outbox EXCEPT ![c.event].status = "DISABLED", ![c.event].held = FALSE]
    /\ SetDelivery(c.event, "DISABLED")
    /\ worker' = [worker EXCEPT ![w].batch = @ \ {c}]
    /\ UNCHANGED <<receipt, deployment, queue>>

\* Only a PROCESSING event changes; its workflow stage changes in any case.
Mark(w, status, held) ==
    LET e == worker[w].claim.event IN
    /\ outbox' = [outbox EXCEPT ![e] =
                     IF @.status = "PROCESSING"
                     THEN [@ EXCEPT !.status = status, !.held = held] ELSE @]
    /\ SetDelivery(e, IF status = "DELIVERED" THEN "COMPLETED" ELSE status)
    /\ worker' = [worker EXCEPT ![w].pc = "deliver", ![w].claim = None]
    /\ UNCHANGED <<receipt, deployment, queue>>

MarkDelivered(w) ==
    /\ worker[w].pc = "delivered"
    /\ Mark(w, "DELIVERED", FALSE)

\* Also when mark_outbox_delivered raised after a delivery.
MarkFailed(w) ==
    /\ worker[w].pc \in {"undelivered", "delivered"}
    /\ IF worker[w].claim.last THEN Mark(w, "FAILED_TERMINAL", FALSE)
                               ELSE Mark(w, "FAILED_RETRYABLE", TRUE)

\* The loop starts anew after the dispatch that follows a message.
EndDispatch(w) ==
    /\ worker[w].pc = "deliver" /\ worker[w].batch = {}
    /\ worker' = [worker EXCEPT ![w].again = FALSE,
                     ![w].pc = IF worker[w].again THEN "dispatch" ELSE "receive"]
    /\ UNCHANGED <<outboxVars, deployment, queue>>

DispatchStep(w) ==
    \/ ClaimOutbox(w) \/ EndDispatch(w) \/ MarkDelivered(w) \/ MarkFailed(w)
    \/ \E c \in worker[w].batch :
          \/ Project(w, c) \/ SendToQueue(w, c) \/ SendCredit(w, c)
          \/ Undeliverable(w, c) \/ DisableCredit(w, c)

\* A lease or a back-off ends.
EventTimePasses(e) ==
    /\ outbox[e].held
    /\ outbox' = [outbox EXCEPT ![e].held = FALSE]
    /\ UNCHANGED <<delivery, receipt>>

\* The worker has claimed e and has not marked it.
HoldsEvent(w, e) ==
    \/ \E c \in worker[w].batch : c.event = e
    \/ worker[w].claim # None /\ worker[w].claim.event = e
=============================================================================
