--------------------------- MODULE ServiceIngress ---------------------------
(***************************************************************************)
(* Receipt events that the edge posts to the service (receipt_event of     *)
(* main.py): the row of service_ingress_requests (ingress.py) that makes a *)
(* repeated event a duplicate, and the queue.  One receipt, whose event    *)
(* the edge may post again with the same request id or with a new one.     *)
(* Reserving, queueing and marking are three transactions.                 *)
(***************************************************************************)
EXTENDS Naturals, FiniteSets

CONSTANTS
    Handlers,       \* posts of the event in progress at a time
    RequestIds      \* ids of the edge's signed requests

ASSUME IngressAssumption == Handlers # {} /\ RequestIds # {}

VARIABLES
    reservation,    \* the receipt's row: request id and status
    handler,        \* receipt_event, between its transactions
    queued,         \* the event has been put on the queue
    answered        \* history: answers "accepted" or "duplicate" were given

ingressVars == <<reservation, handler, queued, answered>>

NoRow == [id |-> "none", status |-> "NONE"]
Waiting == [step |-> "waiting"]

IngressInit ==
    /\ reservation = NoRow
    /\ handler = [h \in Handlers |-> Waiting]
    /\ queued = FALSE
    /\ answered = FALSE

\* Wrong on purpose: a reservation is taken for an event on the queue.
IsReserved == reservation # NoRow

\* Answers a post as a duplicate.
IsDuplicate == reservation.status \notin {"NONE", "RESERVED"}

\* reserve: a reservation that is only RESERVED is taken over, by the handler
\* of whichever request made it.  The unique indexes on request and receipt make
\* a concurrent reservation wait for the commit of this one.
Reserve(h, id) ==
    /\ handler[h] = Waiting
    /\ \/ /\ IsDuplicate
          /\ answered' = TRUE
          /\ UNCHANGED <<reservation, handler>>
       \/ /\ reservation.status = "RESERVED"
          /\ handler' = [handler EXCEPT ![h] = [step |-> "enqueue", id |-> reservation.id]]
          /\ UNCHANGED <<reservation, answered>>
       \/ /\ reservation = NoRow
          /\ reservation' = [id |-> id, status |-> "RESERVED"]
          /\ handler' = [handler EXCEPT ![h] = [step |-> "enqueue", id |-> id]]
          /\ UNCHANGED answered
    /\ UNCHANGED queued

Enqueues(h) ==
    /\ handler[h].step = "enqueue"
    /\ queued' = TRUE
    /\ handler' = [handler EXCEPT ![h].step = "mark"]
    /\ UNCHANGED <<reservation, answered>>

\* The queue refuses the event, or its answer is lost.
EnqueueFails(h) ==
    /\ handler[h].step = "enqueue"
    /\ queued' \in {queued, TRUE}
    /\ handler' = [handler EXCEPT ![h].step = "release"]
    /\ UNCHANGED <<reservation, answered>>

Release(h) ==
    /\ handler[h].step = "release"
    /\ reservation' = IF reservation = [id |-> handler[h].id, status |-> "RESERVED"]
                      THEN NoRow ELSE reservation
    /\ handler' = [handler EXCEPT ![h] = Waiting]
    /\ UNCHANGED <<queued, answered>>

\* mark_queued: no row is left if another handler has released it.
MarkQueued(h) ==
    /\ handler[h].step = "mark"
    /\ reservation' = IF reservation.id = handler[h].id
                      THEN [reservation EXCEPT !.status = "QUEUED"] ELSE reservation
    /\ answered' = TRUE
    /\ handler' = [handler EXCEPT ![h] = Waiting]
    /\ UNCHANGED queued

\* The service stops, or the database fails, between two transactions.
HandlerDies(h) ==
    /\ handler[h] # Waiting
    /\ handler' = [handler EXCEPT ![h] = Waiting]
    /\ UNCHANGED <<reservation, queued, answered>>

IngressNext(handlers) ==
    \E h \in handlers :
        \/ \E id \in RequestIds : Reserve(h, id)
        \/ Enqueues(h)
        \/ EnqueueFails(h)
        \/ Release(h)
        \/ MarkQueued(h)
        \/ HandlerDies(h)

IngressTypeOK ==
    /\ reservation \in [id : RequestIds \cup {"none"}, status : {"NONE", "RESERVED", "QUEUED"}]
    /\ \A h \in Handlers : handler[h].step \in {"waiting", "enqueue", "mark", "release"}
    /\ queued \in BOOLEAN /\ answered \in BOOLEAN

-----------------------------------------------------------------------------
\* The edge may forget an event that was answered as accepted or as a duplicate:
\* it is on the queue, although handlers of one receipt take over, release and
\* mark each other's reservations and may die between any two steps.
AnsweredMeansQueued ==
    answered \/ reservation.status = "QUEUED" => queued
=============================================================================
