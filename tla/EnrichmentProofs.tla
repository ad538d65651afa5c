-------------------------- MODULE EnrichmentProofs --------------------------
(***************************************************************************)
(* What the outbox, the queue and the enrichment workers guarantee for any *)
(* number of receipts, messages and workers, for every deployment and      *)
(* every limit.                                                            *)
(*                                                                         *)
(* The invariant has four parts: the shape of a worker's state, what the   *)
(* rows of a receipt say of its published results, the leases of the       *)
(* provider stages, and the messages, of which one that can still be       *)
(* processed is left as long as a receipt has a row but no result.         *)
(***************************************************************************)
EXTENDS EnrichmentWorkflow, FiniteSetTheorems, TLAPS

-----------------------------------------------------------------------------
(* Types, and the shape of a worker's state.                               *)

\* A worker's state, whatever step it is at.
WorkerRows == [pc : DispatchStages \cup {"receive"} \cup JobStages,
               batch : SUBSET Claims,
               claim : Claims \cup {None},
               job : Jobs \cup {None},
               again : BOOLEAN]

\* A worker has a message exactly while it processes one, and an event to mark
\* once it has delivered it or failed to.
WorkerShape(q) ==
    /\ q.job # None <=> q.pc \in JobStages
    /\ q.pc \in {"delivered", "undelivered"} => q.claim # None

\* Every worker has one, and is shaped so.
WorkerTypes ==
    /\ worker \in [Workers -> WorkerRows]
    /\ \A w \in Workers : WorkerShape(worker[w])

\* The stages; one that has never been claimed has no attempt.
StageTypes ==
    /\ stage \in [Receipts -> [Stages -> StageRows]]
    /\ \A r \in Receipts, s \in Stages : stage[r][s].status = "NONE" => stage[r][s].attempts = 0

\* The tables of the authority: events, the stages of their delivery, receipts.
OutboxTypes ==
    /\ outbox \in [Events -> EventRows]
    /\ delivery \in [Receipts -> [DeliveryStages -> StageStatuses]]
    /\ receipt \in [Receipts -> ReceiptRows]

\* The types of the whole state.
TypeInv ==
    /\ QueueTypeOK /\ OutboxTypes /\ WorkerTypes /\ StageTypes
    /\ row \in [Receipts -> Rows]
    /\ faults \in 0 .. deployment.faults

\* Workers change one at a time.
LEMMA WorkerUpdate ==
    ASSUME WorkerTypes, NEW w \in Workers, NEW q \in WorkerRows, WorkerShape(q),
           worker' = [worker EXCEPT ![w] = q]
    PROVE  WorkerTypes' /\ worker'[w] = q /\ \A v \in Workers \ {w} : worker'[v] = worker[v]
  BY DEF WorkerTypes

\* What every worker has while it processes a message.
LEMMA ItemFacts ==
    ASSUME WorkerTypes, NEW w \in Workers
    PROVE  /\ worker[w].pc \in JobStages => Working(w)
           /\ Working(w) => /\ worker[w].pc \in JobStages
                            /\ worker[w].job \in Jobs /\ Item(w) \in Receipts /\ worker[w].job.slot \in Slots
  BY DEF WorkerTypes, WorkerRows, WorkerShape, Working, Item, Jobs

\* The worker goes on with its message.
LEMMA GotoFacts ==
    ASSUME WorkerTypes, NEW w \in Workers, NEW p \in JobStages, worker[w].pc \in JobStages, Goto(w, p)
    PROVE  /\ WorkerTypes' /\ worker'[w].pc = p /\ worker'[w].job = worker[w].job
           /\ worker'[w].batch = worker[w].batch /\ worker'[w].claim = worker[w].claim
           /\ \A v \in Workers \ {w} : worker'[v] = worker[v]
  <1>. PICK q : q = [worker[w] EXCEPT !.pc = p]
    OBVIOUS
  <1>1. worker' = [worker EXCEPT ![w] = q]
    BY DEF Goto
  <1>2. /\ q \in WorkerRows /\ q.pc = p /\ q.job = worker[w].job
        /\ q.batch = worker[w].batch /\ q.claim = worker[w].claim
    BY DEF WorkerTypes, WorkerRows
  <1>3. WorkerShape(q)
    BY <1>2 DEF WorkerTypes, WorkerShape, JobStages
  <1>. QED
    BY <1>1, <1>2, <1>3, WorkerUpdate

\* The worker starts its loop anew.
LEMMA RestartFacts ==
    ASSUME WorkerTypes, NEW w \in Workers,
           worker' = [worker EXCEPT ![w] = IdleWorker]
           \/ worker' = [worker EXCEPT ![w] = [IdleWorker EXCEPT !.again = TRUE]]
    PROVE  /\ WorkerTypes' /\ worker'[w].pc = "dispatch" /\ worker'[w].job = None
           /\ worker'[w].batch = {} /\ worker'[w].claim = None
           /\ \A v \in Workers \ {w} : worker'[v] = worker[v]
  <1>1. PICK b \in BOOLEAN :
          worker' = [worker EXCEPT ![w] = [pc |-> "dispatch", batch |-> {}, claim |-> None, job |-> None,
                                           again |-> b]]
    BY DEF IdleWorker
  <1>. PICK q : q = [pc |-> "dispatch", batch |-> {}, claim |-> None, job |-> None, again |-> b]
    OBVIOUS
  <1>2. q \in WorkerRows /\ q.pc = "dispatch" /\ q.job = None /\ q.batch = {} /\ q.claim = None
    BY DEF WorkerRows, DispatchStages
  <1>3. WorkerShape(q)
    BY <1>2 DEF WorkerShape, JobStages
  <1>. QED
    BY <1>1, <1>2, <1>3, WorkerUpdate

-----------------------------------------------------------------------------
(* The dispatcher.                                                         *)

\* No result appears, changes or goes.
CallbacksKept ==
    \A r \in Receipts, v \in Versions : LET e == Event(r, "CALLBACK", v) IN
        /\ outbox'[e].status = "NONE" <=> outbox[e].status = "NONE"
        /\ outbox'[e].result = outbox[e].result

\* No event goes.
EventsKept == \A e \in Events : outbox[e].status # "NONE" => outbox'[e].status # "NONE"

\* Nobody's work on a message moves.
JobsRest ==
    \A v \in Workers : /\ worker'[v].job = worker[v].job
                       /\ worker[v].job # None => worker'[v].pc = worker[v].pc

\* Events in a worker's hands are there.
ClaimedExist == \A w \in Workers : \A c \in worker[w].batch : outbox[c.event].status # "NONE"

\* Events are told apart by receipt, kind and version.
LEMMA EventFacts ==
    /\ \A r \in Receipts : Event(r, "QUEUE", 1) \in Events
    /\ \A r \in Receipts, v \in Versions : /\ Event(r, "CALLBACK", v) \in Events
                                           /\ Event(r, "CREDIT", v) \in Events
    /\ \A c \in Claims : c.event \in Events
    /\ \A e \in Events : e.receipt \in Receipts /\ (e.kind # "QUEUE" => e.version \in Versions)
  BY DEF Event, Events, Claims

\* A dispatching worker goes on to q; it has no message.
LEMMA DispatcherMoves ==
    ASSUME WorkerTypes, NEW w \in Workers, worker[w].pc \in DispatchStages,
           NEW q \in WorkerRows, q.job = worker[w].job, q.pc \in DispatchStages \cup {"receive"},
           q.pc \in {"delivered", "undelivered"} => q.claim # None,
           worker' = [worker EXCEPT ![w] = q]
    PROVE  /\ WorkerTypes' /\ JobsRest /\ worker'[w] = q
           /\ \A v \in Workers \ {w} : worker'[v] = worker[v]
  <1>1. worker[w].job = None
    BY DEF WorkerTypes, WorkerShape, DispatchStages, JobStages
  <1>2. WorkerShape(q)
    BY <1>1 DEF WorkerShape, DispatchStages, JobStages
  <1>3. WorkerTypes' /\ worker'[w] = q /\ \A v \in Workers \ {w} : worker'[v] = worker[v]
    BY <1>2, WorkerUpdate
  <1>. QED
    BY <1>1, <1>3 DEF JobsRest

\* A worker that takes no new event holds existing ones.
LEMMA ClaimsStayThere ==
    ASSUME WorkerTypes, ClaimedExist, EventsKept, NEW w \in Workers,
           worker'[w].batch \subseteq worker[w].batch,
           \A v \in Workers \ {w} : worker'[v] = worker[v]
    PROVE  ClaimedExist'
  <1>1. \A v \in Workers : worker[v].batch \subseteq Claims
    BY DEF WorkerTypes, WorkerRows
  <1>2. \A v \in Workers : worker'[v].batch \subseteq worker[v].batch
    OBVIOUS
  <1>. QED
    BY <1>1, <1>2, EventFacts DEF ClaimedExist, EventsKept

\* The outbox claims every due event for one worker.
LEMMA ClaimOutboxStep ==
    ASSUME TypeInv, ClaimedExist, NEW w \in Workers, ClaimOutbox(w)
    PROVE  /\ OutboxTypes' /\ WorkerTypes' /\ CallbacksKept /\ JobsRest /\ ClaimedExist'
           /\ \A e \in Events : outbox'[e].status = "DELIVERED" => outbox[e].status = "DELIVERED"
  <1>. DEFINE due == {e \in Events : Due(e)}
              B == {[event |-> e, last |-> outbox[e].attempts + 1 >= MaxDeliveries] : e \in due}
  <1>. PICK b : b = B
    OBVIOUS
  <1>. PICK q : q = [worker[w] EXCEPT !.pc = "deliver", !.batch = b]
    OBVIOUS
  <1>1. /\ worker[w].pc = "dispatch" /\ worker' = [worker EXCEPT ![w] = q] /\ UNCHANGED receipt
        /\ outbox' = [e \in Events |->
                    IF e \in due
                    THEN [outbox[e] EXCEPT !.status = "PROCESSING", !.held = TRUE,
                                           !.attempts = CountUpTo(@, MaxDeliveries)]
                    ELSE outbox[e]]
        /\ delivery' = [r \in Receipts |-> [s \in DeliveryStages |->
                      IF \E e \in due : e.receipt = r /\ StageOf(e.kind) = s
                      THEN "PROCESSING" ELSE delivery[r][s]]]
    BY DEF ClaimOutbox
  <1>2. \A c \in b : c \in Claims /\ c.event \in due
    <2>1. SUFFICES ASSUME NEW c \in b
                   PROVE  c \in Claims /\ c.event \in due
      OBVIOUS
    <2>2. PICK e \in due : c = [event |-> e, last |-> outbox[e].attempts + 1 >= MaxDeliveries]
      OBVIOUS
    <2>3. PICK l : l = (outbox[e].attempts + 1 >= MaxDeliveries)
      OBVIOUS
    <2>4. l \in BOOLEAN
      BY <2>3
    <2>5. c = [event |-> e, last |-> l]
      BY <2>2, <2>3
    <2>. QED
      BY <2>4, <2>5 DEF Claims
  <1>3. \A e \in due : e \in Events /\ outbox[e].status # "NONE"
    BY DEF Due
  <1>. HIDE DEF due, B
  <1>4. \A e \in Events : /\ outbox'[e] \in EventRows
                          /\ outbox'[e].status = "NONE" <=> outbox[e].status = "NONE"
                          /\ outbox'[e].result = outbox[e].result
                          /\ outbox'[e].status = "DELIVERED" => outbox[e].status = "DELIVERED"
    <2>. SUFFICES ASSUME NEW e \in Events
                  PROVE  /\ outbox'[e] \in EventRows
                         /\ outbox'[e].status = "NONE" <=> outbox[e].status = "NONE"
                         /\ outbox'[e].result = outbox[e].result
                         /\ outbox'[e].status = "DELIVERED" => outbox[e].status = "DELIVERED"
      OBVIOUS
    <2>1. outbox[e] \in EventRows
      BY DEF TypeInv, OutboxTypes
    <2>2. CASE e \in due
      <3>1. outbox'[e] = [outbox[e] EXCEPT !.status = "PROCESSING", !.held = TRUE,
                                           !.attempts = CountUpTo(@, MaxDeliveries)]
        BY <1>1, <2>2
      <3>2. CountUpTo(outbox[e].attempts, MaxDeliveries) \in 0 .. MaxDeliveries
        BY <2>1, OutboxAssumption DEF CountUpTo, EventRows
      <3>. QED
        BY <1>3, <2>1, <2>2, <3>1, <3>2 DEF EventRows, EventStatuses
    <2>3. CASE e \notin due
      BY <1>1, <2>1, <2>3
    <2>. QED
      BY <2>2, <2>3
  <1>5. OutboxTypes'
    <2>1. outbox' \in [Events -> EventRows]
      BY <1>1, <1>4
    <2>2. delivery' \in [Receipts -> [DeliveryStages -> StageStatuses]]
      BY <1>1 DEF TypeInv, OutboxTypes, StageStatuses
    <2>. QED
      BY <1>1, <2>1, <2>2 DEF TypeInv, OutboxTypes
  <1>6. /\ q \in WorkerRows /\ q.pc = "deliver" /\ q.job = worker[w].job /\ q.batch = b
    <2>1. b \in SUBSET Claims
      BY <1>2
    <2>. QED
      BY <2>1 DEF TypeInv, WorkerTypes, WorkerRows, DispatchStages
  <1>7. WorkerTypes' /\ JobsRest /\ worker'[w] = q /\ \A v \in Workers \ {w} : worker'[v] = worker[v]
    BY <1>1, <1>6, DispatcherMoves DEF TypeInv, DispatchStages
  <1>8. CallbacksKept
    BY <1>4, EventFacts DEF CallbacksKept
  <1>9. ClaimedExist'
    <2>. SUFFICES ASSUME NEW v \in Workers, NEW c \in worker'[v].batch
                  PROVE  outbox'[c.event].status # "NONE"
      BY DEF ClaimedExist
    <2>1. CASE v = w
      BY <1>2, <1>3, <1>4, <1>6, <1>7, <2>1
    <2>2. CASE v # w
      <3>1. worker'[v] = worker[v]
        BY <1>7, <2>2
      <3>2. worker[v].batch \subseteq Claims
        BY DEF TypeInv, WorkerTypes, WorkerRows
      <3>3. c.event \in Events /\ outbox[c.event].status # "NONE"
        BY <3>1, <3>2, EventFacts DEF ClaimedExist
      <3>. QED
        BY <1>4, <3>3
    <2>. QED
      BY <2>1, <2>2
  <1>. QED
    BY <1>4, <1>5, <1>7, <1>8, <1>9

\* The loop ends its dispatch.
LEMMA EndDispatchStep ==
    ASSUME TypeInv, ClaimedExist, NEW w \in Workers, EndDispatch(w)
    PROVE  OutboxTypes' /\ WorkerTypes' /\ CallbacksKept /\ JobsRest /\ ClaimedExist'
  <1>. PICK p : p = IF worker[w].again THEN "dispatch" ELSE "receive"
    OBVIOUS
  <1>. PICK q : q = [worker[w] EXCEPT !.again = FALSE, !.pc = p]
    OBVIOUS
  <1>1. /\ worker[w].pc = "deliver" /\ worker' = [worker EXCEPT ![w] = q]
        /\ UNCHANGED outboxVars
    BY DEF EndDispatch
  <1>2. /\ q \in WorkerRows /\ q.pc = p /\ q.job = worker[w].job /\ q.batch = worker[w].batch
        /\ p \in {"dispatch", "receive"}
    BY DEF TypeInv, WorkerTypes, WorkerRows, DispatchStages
  <1>3. WorkerTypes' /\ JobsRest /\ worker'[w] = q /\ \A v \in Workers \ {w} : worker'[v] = worker[v]
    BY <1>1, <1>2, DispatcherMoves DEF TypeInv, DispatchStages
  <1>4. OutboxTypes' /\ CallbacksKept /\ EventsKept
    BY <1>1 DEF TypeInv, OutboxTypes, outboxVars, CallbacksKept, EventsKept
  <1>. QED
    BY <1>2, <1>3, <1>4, ClaimsStayThere DEF TypeInv

\* An event was delivered, or not: the worker is to mark it.
LEMMA ToMarkStep ==
    ASSUME TypeInv, ClaimedExist, NEW w \in Workers, NEW c \in worker[w].batch,
           worker[w].pc = "deliver", NEW p \in {"delivered", "undelivered"}, ToMark(w, c, p),
           UNCHANGED <<outbox, delivery>>, receipt' \in [Receipts -> ReceiptRows]
    PROVE  /\ OutboxTypes' /\ WorkerTypes' /\ CallbacksKept /\ JobsRest /\ ClaimedExist'
           /\ worker'[w].pc = p /\ worker'[w].claim = c
           /\ \A v \in Workers \ {w} : worker'[v] = worker[v]
  <1>. PICK q : q = [worker[w] EXCEPT !.pc = p, !.claim = c, !.batch = @ \ {c}]
    OBVIOUS
  <1>1. worker' = [worker EXCEPT ![w] = q]
    BY DEF ToMark
  <1>2. worker[w] \in WorkerRows /\ worker[w].batch \subseteq Claims /\ c \in Claims
    BY DEF TypeInv, WorkerTypes, WorkerRows
  <1>3. c # None
    BY <1>2, OutboxAssumption
  <1>4. /\ q \in WorkerRows /\ q.pc = p /\ q.job = worker[w].job /\ q.claim = c
        /\ q.batch \subseteq worker[w].batch
    BY <1>2 DEF WorkerRows, DispatchStages
  <1>5. WorkerTypes' /\ JobsRest /\ worker'[w] = q /\ \A v \in Workers \ {w} : worker'[v] = worker[v]
    BY <1>1, <1>3, <1>4, DispatcherMoves DEF TypeInv, DispatchStages
  <1>6. OutboxTypes' /\ CallbacksKept /\ EventsKept
    BY DEF TypeInv, OutboxTypes, CallbacksKept, EventsKept
  <1>. QED
    BY <1>4, <1>5, <1>6, ClaimsStayThere DEF TypeInv

\* A result is projected into its receipt.
LEMMA ProjectStep ==
    ASSUME TypeInv, ClaimedExist, NEW w \in Workers, NEW c \in worker[w].batch, Project(w, c)
    PROVE  /\ OutboxTypes' /\ WorkerTypes' /\ CallbacksKept /\ JobsRest /\ ClaimedExist'
           /\ worker'[w].claim = c /\ \A v \in Workers \ {w} : worker'[v] = worker[v]
           /\ \E r \in Receipts, v \in Versions :
                 /\ Published(r, v)
                 /\ receipt' = [receipt EXCEPT ![r].status = StatusAfterProjection(@), ![r].shown = v]
  <1>. PICK r, v : r = c.event.receipt /\ v = c.event.version
    OBVIOUS
  <1>1. /\ worker[w].pc = "deliver" /\ c.event.kind = "CALLBACK" /\ ToMark(w, c, "delivered")
        /\ receipt' = [receipt EXCEPT ![r].status = StatusAfterProjection(@), ![r].shown = v]
        /\ UNCHANGED <<outbox, delivery>>
    BY DEF Project, ResultShown
  <1>2. c \in Claims /\ c.event \in Events
    BY EventFacts DEF TypeInv, WorkerTypes, WorkerRows
  <1>3. r \in Receipts /\ v \in Versions /\ c.event = Event(r, "CALLBACK", v)
    BY <1>1, <1>2 DEF Events, Event
  <1>4. Published(r, v)
    BY <1>3 DEF ClaimedExist, Published
  <1>5. receipt' \in [Receipts -> ReceiptRows]
    <2>1. receipt[r] \in ReceiptRows
      BY <1>3 DEF TypeInv, OutboxTypes
    <2>2. PICK n : n = [receipt[r] EXCEPT !.status = StatusAfterProjection(@), !.shown = v]
      OBVIOUS
    <2>3. receipt' = [receipt EXCEPT ![r] = n]
      BY <1>1, <1>3, <2>2 DEF TypeInv, OutboxTypes
    <2>4. v \in 0 .. MaxVersion
      BY <1>3, OutboxAssumption DEF Versions
    <2>5. n \in ReceiptRows
      BY <2>1, <2>2, <2>4 DEF ReceiptRows, StatusAfterProjection
    <2>. QED
      BY <1>3, <2>3, <2>5 DEF TypeInv, OutboxTypes
  <1>. QED
    BY <1>1, <1>3, <1>4, <1>5, ToMarkStep

\* A credit is disabled.
LEMMA DisableCreditStep ==
    ASSUME TypeInv, ClaimedExist, NEW w \in Workers, NEW c \in worker[w].batch, DisableCredit(w, c)
    PROVE  /\ OutboxTypes' /\ WorkerTypes' /\ CallbacksKept /\ JobsRest /\ ClaimedExist'
           /\ worker'[w].pc = "deliver" /\ \A v \in Workers \ {w} : worker'[v] = worker[v]
           /\ \A r \in Receipts : outbox'[Event(r, "QUEUE", 1)] = outbox[Event(r, "QUEUE", 1)]
  <1>. PICK q : q = [worker[w] EXCEPT !.batch = @ \ {c}]
    OBVIOUS
  <1>. PICK e : e = c.event
    OBVIOUS
  <1>1. /\ worker[w].pc = "deliver" /\ e.kind = "CREDIT" /\ worker' = [worker EXCEPT ![w] = q]
        /\ outbox' = [outbox EXCEPT ![e].status = "DISABLED", ![e].held = FALSE]
        /\ SetDelivery(e, "DISABLED") /\ UNCHANGED receipt
    BY DEF DisableCredit
  <1>2. e \in Events
    BY EventFacts DEF TypeInv, WorkerTypes, WorkerRows
  <1>3. /\ q \in WorkerRows /\ q.pc = worker[w].pc /\ q.job = worker[w].job
        /\ q.batch \subseteq worker[w].batch
    BY DEF TypeInv, WorkerTypes, WorkerRows
  <1>4. WorkerTypes' /\ JobsRest /\ worker'[w] = q /\ \A v \in Workers \ {w} : worker'[v] = worker[v]
    BY <1>1, <1>3, DispatcherMoves DEF TypeInv, DispatchStages
  <1>5. /\ outbox' \in [Events -> EventRows]
        /\ outbox'[e].status = "DISABLED" /\ \A f \in Events \ {e} : outbox'[f] = outbox[f]
    <2>1. outbox[e] \in EventRows
      BY <1>2 DEF TypeInv, OutboxTypes
    <2>2. PICK n : n = [outbox[e] EXCEPT !.status = "DISABLED", !.held = FALSE]
      OBVIOUS
    <2>3. outbox' = [outbox EXCEPT ![e] = n]
      BY <1>1, <1>2, <2>2 DEF TypeInv, OutboxTypes
    <2>4. n \in EventRows /\ n.status = "DISABLED"
      BY <2>1, <2>2 DEF EventRows, EventStatuses
    <2>. QED
      BY <1>2, <2>3, <2>4 DEF TypeInv, OutboxTypes
  <1>6. \A r \in Receipts : /\ Event(r, "QUEUE", 1) # e
                            /\ \A v \in Versions : Event(r, "CALLBACK", v) # e
    BY <1>1 DEF Event
  <1>7. CallbacksKept /\ EventsKept
    BY <1>5, <1>6, EventFacts DEF CallbacksKept, EventsKept
  <1>8. OutboxTypes'
    <2>1. delivery' \in [Receipts -> [DeliveryStages -> StageStatuses]]
      BY <1>1 DEF TypeInv, OutboxTypes, SetDelivery, StageStatuses
    <2>. QED
      BY <1>1, <1>5, <2>1 DEF TypeInv, OutboxTypes
  <1>. QED
    BY <1>1, <1>3, <1>4, <1>5, <1>6, <1>7, <1>8, ClaimsStayThere, EventFacts DEF TypeInv

\* The event that was delivered, or not, is marked.
LEMMA MarkStep ==
    ASSUME TypeInv, ClaimedExist, NEW w \in Workers, worker[w].pc \in {"delivered", "undelivered"},
           NEW s \in {"DELIVERED", "FAILED_TERMINAL", "FAILED_RETRYABLE"}, NEW h \in BOOLEAN,
           Mark(w, s, h)
    PROVE  /\ OutboxTypes' /\ WorkerTypes' /\ CallbacksKept /\ JobsRest /\ ClaimedExist'
           /\ worker'[w].pc = "deliver" /\ \A v \in Workers \ {w} : worker'[v] = worker[v]
           /\ \A r \in Receipts : LET e == Event(r, "QUEUE", 1) IN
                 \/ outbox'[e] = outbox[e]
                 \/ worker[w].claim.event = e /\ outbox'[e].status = s
  <1>. PICK q : q = [worker[w] EXCEPT !.pc = "deliver", !.claim = None]
    OBVIOUS
  <1>. PICK e : e = worker[w].claim.event
    OBVIOUS
  <1>1. /\ worker' = [worker EXCEPT ![w] = q] /\ UNCHANGED receipt
        /\ outbox' = [outbox EXCEPT ![e] = IF @.status = "PROCESSING"
                                           THEN [@ EXCEPT !.status = s, !.held = h] ELSE @]
        /\ SetDelivery(e, IF s = "DELIVERED" THEN "COMPLETED" ELSE s)
    BY DEF Mark
  <1>2. e \in Events
    <2>1. worker[w].claim \in Claims
      BY DEF TypeInv, WorkerTypes, WorkerRows, WorkerShape
    <2>. QED
      BY <2>1, EventFacts
  <1>3. /\ q \in WorkerRows /\ q.pc = "deliver" /\ q.job = worker[w].job
        /\ q.batch = worker[w].batch
    BY DEF TypeInv, WorkerTypes, WorkerRows, DispatchStages
  <1>4. WorkerTypes' /\ JobsRest /\ worker'[w] = q /\ \A v \in Workers \ {w} : worker'[v] = worker[v]
    BY <1>1, <1>3, DispatcherMoves DEF TypeInv, DispatchStages
  <1>5. /\ outbox'[e] \in EventRows /\ outbox'[e].result = outbox[e].result
        /\ outbox'[e].status = "NONE" <=> outbox[e].status = "NONE"
        /\ outbox'[e] = outbox[e] \/ outbox'[e].status = s
    <2>1. outbox[e] \in EventRows
      BY <1>2 DEF TypeInv, OutboxTypes
    <2>2. outbox'[e] = IF outbox[e].status = "PROCESSING"
                       THEN [outbox[e] EXCEPT !.status = s, !.held = h] ELSE outbox[e]
      BY <1>1, <1>2 DEF TypeInv, OutboxTypes
    <2>. QED
      BY <2>1, <2>2 DEF EventRows, EventStatuses
  <1>6. outbox' \in [Events -> EventRows] /\ \A f \in Events \ {e} : outbox'[f] = outbox[f]
    BY <1>1, <1>2, <1>5 DEF TypeInv, OutboxTypes
  <1>7. CallbacksKept /\ EventsKept
    BY <1>5, <1>6, EventFacts DEF CallbacksKept, EventsKept
  <1>8. OutboxTypes'
    <2>1. delivery' \in [Receipts -> [DeliveryStages -> StageStatuses]]
      BY <1>1 DEF TypeInv, OutboxTypes, SetDelivery, StageStatuses
    <2>. QED
      BY <1>1, <1>6, <2>1 DEF TypeInv, OutboxTypes
  <1>. QED
    BY <1>3, <1>4, <1>5, <1>6, <1>7, <1>8, ClaimsStayThere, EventFacts DEF TypeInv

-----------------------------------------------------------------------------
(* The messages a receipt was sent.                                        *)

\* An unused slot of the queue is as new.
MessageShape == \A r \in Receipts, s \in Slots : queue[r][s].status = "NONE" => queue[r][s] = NoMessage

\* A message of the receipt was put into the queue.
Sent(r) == \E s \in Slots : queue[r][s].status # "NONE"

\* The worker has delivered the queue event of receipt r and will mark it.
QueueEventDelivered(w, r) ==
    /\ worker[w].pc = "delivered"
    /\ worker[w].claim.event.kind = "QUEUE" /\ worker[w].claim.event.receipt = r

\* A queue event is delivered by sending a message.
SentInv ==
    \A r \in Receipts :
        QueueEvent(r) = "DELIVERED" \/ (\E w \in Workers : QueueEventDelivered(w, r)) => Sent(r)

\* No message goes, and nothing new is delivered.
LEMMA SentStays ==
    ASSUME SentInv, \A r \in Receipts : Sent(r) => Sent(r)',
           \A r \in Receipts : QueueEvent(r)' = "DELIVERED" => QueueEvent(r) = "DELIVERED" \/ Sent(r)',
           \A r \in Receipts, w \in Workers : QueueEventDelivered(w, r)' => QueueEventDelivered(w, r) \/ Sent(r)'
    PROVE  SentInv'
  BY DEF SentInv

\* Messages appear, and nothing else happens in the queue.
MessagesKept ==
    \A r \in Receipts, s \in Slots :
        \/ queue'[r][s] = queue[r][s]
        \/ queue[r][s].status = "NONE" /\ queue'[r][s] = NewMessage

\* What Enqueue does.
LEMMA EnqueueStep ==
    ASSUME QueueTypeOK, MessageShape, NEW r \in Receipts, Enqueue(r)
    PROVE  queue' \in [Receipts -> [Slots -> Messages]] /\ MessagesKept /\ MessageShape' /\ Sent(r)'
  <1>1. PICK s \in Slots : queue' = [queue EXCEPT ![r][s] = IF @ = NoMessage THEN NewMessage ELSE @]
    BY DEF Enqueue
  <1>. PICK n : n = IF queue[r][s] = NoMessage THEN NewMessage ELSE queue[r][s]
    OBVIOUS
  <1>2. /\ n \in Messages /\ n.status # "NONE"
        /\ n = queue[r][s] \/ (queue[r][s].status = "NONE" /\ n = NewMessage)
    BY QueueAssumption DEF QueueTypeOK, MessageShape, NewMessage, NoMessage, Messages, MessageStatuses
  <1>3. queue' = [queue EXCEPT ![r] = [queue[r] EXCEPT ![s] = n]]
    BY <1>1
  <1>4. /\ queue' \in [Receipts -> [Slots -> Messages]] /\ queue'[r][s] = n
        /\ \A q \in Receipts, t \in Slots : q # r \/ t # s => queue'[q][t] = queue[q][t]
    BY <1>2, <1>3 DEF QueueTypeOK
  <1>5. MessagesKept
    BY <1>2, <1>4 DEF MessagesKept
  <1>6. MessageShape'
    BY <1>2, <1>4 DEF MessageShape
  <1>7. Sent(r)'
    BY <1>2, <1>4 DEF Sent
  <1>. QED
    BY <1>4, <1>5, <1>6, <1>7

\* A message that was sent stays, whatever its status.
LEMMA SentKept ==
    ASSUME MessagesKept, NEW r \in Receipts, Sent(r)
    PROVE  Sent(r)'
  BY DEF MessagesKept, Sent, NewMessage

\* A step that neither touches rows and stages nor anybody's work on a message.
LeavesWork ==
    /\ TypeInv' /\ ClaimedExist' /\ MessageShape' /\ SentInv'
    /\ CallbacksKept /\ JobsRest /\ MessagesKept /\ UNCHANGED <<deployment, stores, faults>>

\* Every step of the dispatcher.
LEMMA DispatchSteps ==
    ASSUME TypeInv, ClaimedExist, MessageShape, SentInv, NEW w \in Workers,
           DispatchStep(w), UNCHANGED stores, UNCHANGED faults
    PROVE  LeavesWork
  <1>. DEFINE Kept == OutboxTypes' /\ WorkerTypes' /\ CallbacksKept /\ JobsRest /\ ClaimedExist'
              Quiet == queue' = queue /\ deployment' = deployment
  <1>1. ASSUME Kept, deployment' = deployment, MessagesKept, MessageShape', SentInv',
               queue' \in [Receipts -> [Slots -> Messages]]
        PROVE  LeavesWork
    <2>1. QueueTypeOK' /\ StageTypes' /\ row' \in [Receipts -> Rows] /\ faults' \in 0 .. deployment'.faults
      BY <1>1 DEF TypeInv, QueueTypeOK, StageTypes, stores
    <2>. QED
      BY <1>1, <2>1 DEF LeavesWork, TypeInv
  <1>2. ASSUME Kept, Quiet, SentInv' PROVE LeavesWork
    <2>1. MessagesKept /\ MessageShape' /\ queue' \in [Receipts -> [Slots -> Messages]]
      BY <1>2 DEF MessagesKept, MessageShape, TypeInv, QueueTypeOK
    <2>. QED
      BY <1>1, <1>2, <2>1
  <1>3. ASSUME Quiet PROVE \A r \in Receipts : Sent(r)' <=> Sent(r)
    BY <1>3 DEF Sent
  <1>4. ASSUME ClaimOutbox(w) PROVE LeavesWork
    <2>1. Kept /\ \A e \in Events : outbox'[e].status = "DELIVERED" => outbox[e].status = "DELIVERED"
      BY <1>4, ClaimOutboxStep
    <2>2. Quiet /\ worker'[w].pc = "deliver" /\ \A v \in Workers \ {w} : worker'[v] = worker[v]
      BY <1>4 DEF ClaimOutbox, TypeInv, WorkerTypes, WorkerRows
    <2>3. \A r \in Receipts : QueueEvent(r)' = "DELIVERED" => QueueEvent(r) = "DELIVERED"
      BY <2>1, EventFacts DEF QueueEvent
    <2>4. \A r \in Receipts, v \in Workers : QueueEventDelivered(v, r)' => QueueEventDelivered(v, r)
      BY <2>2 DEF QueueEventDelivered
    <2>5. SentInv'
      BY <1>3, <2>2, <2>3, <2>4, SentStays
    <2>. QED
      BY <1>2, <2>1, <2>2, <2>5
  <1>5. ASSUME EndDispatch(w) PROVE LeavesWork
    <2>1. Kept
      BY <1>5, EndDispatchStep
    <2>2. /\ Quiet /\ worker'[w].pc # "delivered" /\ \A v \in Workers \ {w} : worker'[v] = worker[v]
          /\ outbox' = outbox
      BY <1>5 DEF EndDispatch, TypeInv, WorkerTypes, WorkerRows, outboxVars
    <2>3. \A r \in Receipts : QueueEvent(r)' = "DELIVERED" => QueueEvent(r) = "DELIVERED"
      BY <2>2 DEF QueueEvent
    <2>4. \A r \in Receipts, v \in Workers : QueueEventDelivered(v, r)' => QueueEventDelivered(v, r)
      BY <2>2 DEF QueueEventDelivered
    <2>5. SentInv'
      BY <1>3, <2>2, <2>3, <2>4, SentStays
    <2>. QED
      BY <1>2, <2>1, <2>2, <2>5
  <1>6. ASSUME worker[w].pc \in {"delivered", "undelivered"},
               NEW s \in {"DELIVERED", "FAILED_TERMINAL", "FAILED_RETRYABLE"}, NEW h \in BOOLEAN,
               Mark(w, s, h), s = "DELIVERED" => worker[w].pc = "delivered"
        PROVE  LeavesWork
    <2>1. /\ Kept /\ worker'[w].pc = "deliver" /\ \A v \in Workers \ {w} : worker'[v] = worker[v]
          /\ \A r \in Receipts : LET e == Event(r, "QUEUE", 1) IN
                \/ outbox'[e] = outbox[e]
                \/ worker[w].claim.event = e /\ outbox'[e].status = s
      BY <1>6, MarkStep
    <2>2. Quiet
      BY <1>6 DEF Mark
    <2>3. \A r \in Receipts : QueueEvent(r)' = "DELIVERED" => QueueEvent(r) = "DELIVERED" \/ Sent(r)
      <3>. SUFFICES ASSUME NEW r \in Receipts, QueueEvent(r)' = "DELIVERED", QueueEvent(r) # "DELIVERED"
                    PROVE  Sent(r)
        OBVIOUS
      <3>1. worker[w].claim.event = Event(r, "QUEUE", 1) /\ s = "DELIVERED"
        BY <2>1 DEF QueueEvent
      <3>2. QueueEventDelivered(w, r)
        BY <1>6, <3>1 DEF QueueEventDelivered, Event
      <3>. QED
        BY <3>2 DEF SentInv
    <2>4. \A r \in Receipts, v \in Workers : QueueEventDelivered(v, r)' => QueueEventDelivered(v, r)
      BY <2>1 DEF QueueEventDelivered
    <2>5. SentInv'
      BY <1>3, <2>2, <2>3, <2>4, SentStays
    <2>. QED
      BY <1>2, <2>1, <2>2, <2>5
  <1>7. ASSUME NEW c \in worker[w].batch, Project(w, c) PROVE LeavesWork
    <2>1. Kept /\ worker'[w].claim = c /\ \A v \in Workers \ {w} : worker'[v] = worker[v]
      BY <1>7, ProjectStep
    <2>2. Quiet /\ outbox' = outbox /\ c.event.kind = "CALLBACK"
      BY <1>7 DEF Project
    <2>3. \A r \in Receipts : QueueEvent(r)' = "DELIVERED" => QueueEvent(r) = "DELIVERED"
      BY <2>2 DEF QueueEvent
    <2>4. \A r \in Receipts, v \in Workers : QueueEventDelivered(v, r)' => QueueEventDelivered(v, r)
      BY <2>1, <2>2 DEF QueueEventDelivered
    <2>5. SentInv'
      BY <1>3, <2>2, <2>3, <2>4, SentStays
    <2>. QED
      BY <1>2, <2>1, <2>2, <2>5
  <1>8. ASSUME NEW c \in worker[w].batch, worker[w].pc = "deliver",
               NEW p \in {"delivered", "undelivered"}, ToMark(w, c, p), UNCHANGED outboxVars
        PROVE  /\ Kept /\ worker'[w].pc = p /\ worker'[w].claim = c
               /\ \A v \in Workers \ {w} : worker'[v] = worker[v]
               /\ \A r \in Receipts : QueueEvent(r)' = QueueEvent(r)
    <2>1. /\ UNCHANGED <<outbox, delivery>> /\ receipt' \in [Receipts -> ReceiptRows]
      BY <1>8 DEF outboxVars, TypeInv, OutboxTypes
    <2>2. /\ Kept /\ worker'[w].pc = p /\ worker'[w].claim = c
          /\ \A v \in Workers \ {w} : worker'[v] = worker[v]
      BY <1>8, <2>1, ToMarkStep
    <2>3. \A r \in Receipts : QueueEvent(r)' = QueueEvent(r)
      BY <2>1 DEF QueueEvent
    <2>. QED
      BY <2>2, <2>3
  <1>9. ASSUME NEW c \in worker[w].batch, SendToQueue(w, c) PROVE LeavesWork
    <2>1. /\ worker[w].pc = "deliver" /\ c.event.kind = "QUEUE" /\ Enqueue(c.event.receipt)
          /\ ToMark(w, c, "delivered") /\ UNCHANGED outboxVars /\ deployment' = deployment
      BY <1>9 DEF SendToQueue
    <2>2. /\ Kept /\ worker'[w].claim = c /\ \A v \in Workers \ {w} : worker'[v] = worker[v]
          /\ \A r \in Receipts : QueueEvent(r)' = QueueEvent(r)
      BY <1>8, <2>1
    <2>3. c.event.receipt \in Receipts
      BY EventFacts DEF TypeInv, WorkerTypes, WorkerRows
    <2>4. /\ queue' \in [Receipts -> [Slots -> Messages]] /\ MessagesKept /\ MessageShape'
          /\ Sent(c.event.receipt)'
      BY <2>1, <2>3, EnqueueStep DEF TypeInv
    <2>5. \A r \in Receipts : Sent(r) => Sent(r)'
      BY <2>4, SentKept
    <2>6. \A r \in Receipts, v \in Workers : QueueEventDelivered(v, r)' => QueueEventDelivered(v, r) \/ Sent(r)'
      <3>. SUFFICES ASSUME NEW r \in Receipts, NEW v \in Workers, QueueEventDelivered(v, r)'
                    PROVE  QueueEventDelivered(v, r) \/ Sent(r)'
        OBVIOUS
      <3>1. CASE v = w
        BY <2>2, <2>4, <3>1 DEF QueueEventDelivered
      <3>2. CASE v # w
        BY <2>2, <3>2 DEF QueueEventDelivered
      <3>. QED
        BY <3>1, <3>2
    <2>7. SentInv'
      BY <2>2, <2>5, <2>6, SentStays
    <2>. QED
      BY <1>1, <2>1, <2>2, <2>4, <2>7
  <1>10. ASSUME NEW c \in worker[w].batch, SendCredit(w, c) \/ Undeliverable(w, c) PROVE LeavesWork
    <2>1. PICK p \in {"delivered", "undelivered"} :
            /\ worker[w].pc = "deliver" /\ ToMark(w, c, p)
            /\ p = "delivered" => c.event.kind = "CREDIT"
      BY <1>10 DEF SendCredit, Undeliverable
    <2>2. UNCHANGED outboxVars /\ Quiet
      BY <1>10 DEF SendCredit, Undeliverable
    <2>3. /\ Kept /\ worker'[w].pc = p /\ worker'[w].claim = c
          /\ \A v \in Workers \ {w} : worker'[v] = worker[v]
          /\ \A r \in Receipts : QueueEvent(r)' = QueueEvent(r)
      BY <1>8, <2>1, <2>2
    <2>4. \A r \in Receipts, v \in Workers : QueueEventDelivered(v, r)' => QueueEventDelivered(v, r)
      BY <2>1, <2>3 DEF QueueEventDelivered
    <2>5. SentInv'
      BY <1>3, <2>2, <2>3, <2>4, SentStays
    <2>. QED
      BY <1>2, <2>2, <2>3, <2>5
  <1>11. ASSUME NEW c \in worker[w].batch, DisableCredit(w, c) PROVE LeavesWork
    <2>1. /\ Kept /\ worker'[w].pc = "deliver" /\ \A v \in Workers \ {w} : worker'[v] = worker[v]
          /\ \A r \in Receipts : outbox'[Event(r, "QUEUE", 1)] = outbox[Event(r, "QUEUE", 1)]
      BY <1>11, DisableCreditStep
    <2>2. Quiet
      BY <1>11 DEF DisableCredit
    <2>3. \A r \in Receipts : QueueEvent(r)' = QueueEvent(r)
      BY <2>1 DEF QueueEvent
    <2>4. \A r \in Receipts, v \in Workers : QueueEventDelivered(v, r)' => QueueEventDelivered(v, r)
      BY <2>1 DEF QueueEventDelivered
    <2>5. SentInv'
      BY <1>3, <2>2, <2>3, <2>4, SentStays
    <2>. QED
      BY <1>2, <2>1, <2>2, <2>5
  <1>12. ASSUME MarkDelivered(w) \/ MarkFailed(w) PROVE LeavesWork
    BY <1>6, <1>12 DEF MarkDelivered, MarkFailed
  <1>. QED
    BY <1>4, <1>5, <1>7, <1>9, <1>10, <1>11, <1>12 DEF DispatchStep

-----------------------------------------------------------------------------
(* The invariant: rows and results, provider stages, messages.             *)

\* A callback belongs to a version of the row; a final row is published with
\* its status, and a row on which nothing is left to do has a result.
RowInv ==
    \A r \in Receipts :
        /\ \A v \in Versions : Published(r, v) => v <= row[r].version
        /\ row[r].status \in Results =>
              /\ row[r].version \in Versions
              /\ outbox[Event(r, "CALLBACK", row[r].version)].result = row[r].status
        /\ FinishedRow(r) => HasResult(r)
        /\ row[r].gst => row[r].version > 0 /\ HasResult(r)

\* The stages in which money or quota is spent.
ProviderStages == {"OCR", "GST"}

\* The worker runs the stage, or its COMMIT of it was not answered.
Owns(w, r, s) == Runs(w, r, s) \/ Unsure(w, r, s)

\* One worker at most has a provider stage: it runs it under the lease of its
\* row, or has completed it without an answer.
StageInv ==
    "stage" \notin deployment.outlived =>
        \A w \in Workers, r \in Receipts, s \in ProviderStages :
            /\ Runs(w, r, s) => stage[r][s].status = "PROCESSING" /\ stage[r][s].held
            /\ Unsure(w, r, s) => stage[r][s].status = "COMPLETED"
            /\ Owns(w, r, s) => \A v \in Workers : Owns(v, r, s) => v = w

\* On the way that starts without a row; who finds a row of another worker at
\* its end deletes the message although the row may have no result.
WithoutRow == {"image", "imageClaim", "fetch", "ocrClaim", "ocr", "ocrDenied", "finished"}

\* The message leads to a result, whoever works on it.
Safe(r, s) ==
    /\ queue[r][s].status \notin {"NONE", "DELIVERED"}
    /\ \A w \in Workers : HoldsMessage(w, r, s) => worker[w].pc \notin WithoutRow

\* Messages are deleted once there is a row, and as long as the row has no
\* result one message is safe.
RowBeforeEnd ==
    /\ \A w \in Workers : At(w, "finished") => row[Item(w)].version > 0
    /\ \A r \in Receipts : row[r].version = 0 => \A s \in Slots : queue[r][s].status # "DELIVERED"

\* While no worker outlives its lease on a message, a message in work has one
\* holder and its lease.
HolderInv ==
    "message" \notin deployment.outlived =>
        \A w \in Workers, r \in Receipts, s \in Slots :
            HoldsMessage(w, r, s) => /\ queue[r][s].status = "PROCESSING" /\ queue[r][s].held
                                     /\ \A v \in Workers : HoldsMessage(v, r, s) => v = w

\* Nor is the last message lost: a receipt with a row and no result keeps one that
\* leads to a result, or that stays on record as failed.
SafeInv ==
    "message" \notin deployment.outlived =>
        \A r \in Receipts : row[r].version > 0 /\ ~HasResult(r) => \E s \in Slots : Safe(r, s)

\* The inductive invariant.
Inv ==
    /\ TypeInv /\ ClaimedExist /\ MessageShape /\ SentInv
    /\ RowInv /\ StageInv /\ RowBeforeEnd /\ HolderInv /\ SafeInv

-----------------------------------------------------------------------------
(* Steps that keep the rows, the results and the work on messages.         *)

\* A step that writes no callback keeps the published results.
LEMMA ResultsKept ==
    ASSUME CallbacksKept
    PROVE  \A r \in Receipts : /\ \A v \in Versions : Published(r, v)' <=> Published(r, v)
                               /\ HasResult(r)' <=> HasResult(r)
  BY DEF CallbacksKept, Published, HasResult

\* A step that writes neither rows nor callbacks keeps what rows say of results.
LEMMA RowInvKept ==
    ASSUME RowInv, CallbacksKept, row' = row, deployment' = deployment
    PROVE  RowInv'
  <1>1. \A r \in Receipts : FinishedRow(r)' <=> FinishedRow(r)
    BY DEF FinishedRow
  <1>2. \A r \in Receipts : row[r].version \in Versions =>
            outbox'[Event(r, "CALLBACK", row[r].version)].result
            = outbox[Event(r, "CALLBACK", row[r].version)].result
    BY DEF CallbacksKept
  <1>. QED
    BY <1>1, <1>2, ResultsKept DEF RowInv

\* A worker that keeps its message stays at work on it as it was.
LEMMA WorkKept ==
    ASSUME WorkerTypes, WorkerTypes', JobsRest, NEW w \in Workers
    PROVE  /\ Item(w)' = Item(w)
           /\ \A p \in JobStages : At(w, p)' <=> At(w, p)
           /\ \A r \in Receipts, s \in ProviderStages : /\ Runs(w, r, s)' <=> Runs(w, r, s)
                                                        /\ Unsure(w, r, s)' <=> Unsure(w, r, s)
           /\ \A r \in Receipts, s \in Slots : HoldsMessage(w, r, s)' <=> HoldsMessage(w, r, s)
           /\ Working(w) => worker'[w].pc = worker[w].pc
  <1>1. worker'[w].job = worker[w].job /\ (worker[w].job # None => worker'[w].pc = worker[w].pc)
    BY DEF JobsRest
  <1>2. \A p \in JobStages : At(w, p)' <=> At(w, p)
    BY <1>1 DEF At, WorkerTypes, WorkerShape
  <1>3. StageAt(w) \in ProviderStages /\ Working(w) => StageAt(w)' = StageAt(w)
    BY <1>1 DEF StageAt, At, ProviderStages, Working
  <1>4. StageAt(w)' \in ProviderStages /\ Working(w) => StageAt(w)' = StageAt(w)
    BY <1>1 DEF StageAt, At, ProviderStages, Working
  <1>5. \A r \in Receipts, s \in ProviderStages : Unsure(w, r, s)' <=> Unsure(w, r, s)
    BY <1>1, <1>2 DEF Unsure, Working, Item, JobStages
  <1>. QED
    BY <1>1, <1>2, <1>3, <1>4, <1>5 DEF Item, Working, Runs, HoldsMessage

\* A step that leaves the stages and their workers alone keeps the leases.
LEMMA StageInvKept ==
    ASSUME WorkerTypes, WorkerTypes', StageInv, JobsRest, stage' = stage, deployment' = deployment
    PROVE  StageInv'
  BY WorkKept DEF StageInv, Owns

\* The parts about messages, when messages only appear.
LEMMA MessageInvKept ==
    ASSUME WorkerTypes, WorkerTypes', RowBeforeEnd, HolderInv, SafeInv, MessagesKept, JobsRest,
           CallbacksKept, row' = row, deployment' = deployment
    PROVE  RowBeforeEnd' /\ HolderInv' /\ SafeInv'
  <1>1. RowBeforeEnd'
    BY WorkKept DEF RowBeforeEnd, MessagesKept, NewMessage, JobStages
  <1>2. HolderInv'
    <2>. SUFFICES ASSUME "message" \notin deployment.outlived, NEW w \in Workers, NEW r \in Receipts,
                         NEW s \in Slots, HoldsMessage(w, r, s)
                  PROVE  /\ queue'[r][s].status = "PROCESSING" /\ queue'[r][s].held
                         /\ \A v \in Workers : HoldsMessage(v, r, s) => v = w
      BY WorkKept DEF HolderInv
    <2>1. /\ queue[r][s].status = "PROCESSING" /\ queue[r][s].held
          /\ \A v \in Workers : HoldsMessage(v, r, s) => v = w
      BY DEF HolderInv
    <2>. QED
      BY <2>1 DEF MessagesKept
  <1>3. SafeInv'
    <2>. SUFFICES ASSUME "message" \notin deployment.outlived, NEW r \in Receipts,
                         row[r].version > 0, ~HasResult(r)
                  PROVE  \E s \in Slots : Safe(r, s)'
      BY ResultsKept DEF SafeInv
    <2>1. PICK s \in Slots : Safe(r, s)
      BY DEF SafeInv
    <2>2. Safe(r, s)'
      BY <2>1, WorkKept DEF Safe, MessagesKept, NewMessage, HoldsMessage
    <2>. QED
      BY <2>2
  <1>. QED
    BY <1>1, <1>2, <1>3

\* Such a step keeps the invariant.
LEMMA LeavesWorkInv ==
    ASSUME Inv, LeavesWork
    PROVE  Inv'
  <1>1. RowInv'
    BY RowInvKept DEF Inv, LeavesWork, stores
  <1>2. StageInv'
    BY StageInvKept DEF Inv, LeavesWork, stores, TypeInv
  <1>3. RowBeforeEnd' /\ HolderInv' /\ SafeInv'
    BY MessageInvKept DEF Inv, LeavesWork, stores, TypeInv
  <1>. QED
    BY <1>1, <1>2, <1>3 DEF Inv, LeavesWork

-----------------------------------------------------------------------------
(* Time, new receipts and reviews.                                         *)

\* The workers, the queue and the rows are as before.
LEMMA OutboxAlone ==
    ASSUME TypeInv, ClaimedExist, MessageShape, SentInv,
           OutboxTypes', CallbacksKept, EventsKept,
           \A r \in Receipts : QueueEvent(r)' = "DELIVERED" => QueueEvent(r) = "DELIVERED",
           UNCHANGED <<deployment, queue, worker, stores, faults>>
    PROVE  LeavesWork
  <1>1. QueueTypeOK' /\ WorkerTypes' /\ StageTypes' /\ row' \in [Receipts -> Rows]
        /\ faults' \in 0 .. deployment'.faults /\ MessageShape'
    BY DEF TypeInv, QueueTypeOK, WorkerTypes, StageTypes, stores, MessageShape
  <1>2. JobsRest /\ MessagesKept
    BY DEF JobsRest, MessagesKept
  <1>3. SentInv'
    BY SentStays DEF Sent, QueueEventDelivered
  <1>4. ClaimedExist'
    <2>1. \A w \in Workers : worker[w].batch \subseteq Claims
      BY DEF TypeInv, WorkerTypes, WorkerRows
    <2>. QED
      BY <2>1, EventFacts DEF ClaimedExist, EventsKept
  <1>. QED
    BY <1>1, <1>2, <1>3, <1>4 DEF LeavesWork, TypeInv

\* The lease or the back-off of an event ends.
LEMMA EventTimeStep ==
    ASSUME Inv, NEW e \in Events, TimePassesFor(e)
    PROVE  LeavesWork
  <1>1. /\ outbox' = [outbox EXCEPT ![e].held = FALSE] /\ UNCHANGED <<delivery, receipt>>
        /\ UNCHANGED <<deployment, queue, worker, stores, faults>>
    BY DEF TimePassesFor, EventTimePasses
  <1>2. \A f \in Events : /\ outbox'[f] \in EventRows /\ outbox'[f].status = outbox[f].status
                          /\ outbox'[f].result = outbox[f].result
    <2>1. \A f \in Events : outbox[f] \in EventRows
      BY DEF Inv, TypeInv, OutboxTypes
    <2>2. \A f \in Events : outbox'[f] = outbox[f] \/ outbox'[f] = [outbox[f] EXCEPT !.held = FALSE]
      BY <1>1 DEF Inv, TypeInv, OutboxTypes
    <2>. SUFFICES ASSUME NEW f \in Events
                  PROVE  /\ outbox'[f] \in EventRows /\ outbox'[f].status = outbox[f].status
                         /\ outbox'[f].result = outbox[f].result
      OBVIOUS
    <2>3. CASE outbox'[f] = outbox[f]
      BY <2>1, <2>3
    <2>4. CASE outbox'[f] = [outbox[f] EXCEPT !.held = FALSE]
      <3>1. [outbox[f] EXCEPT !.held = FALSE] \in EventRows
        BY <2>1 DEF EventRows
      <3>2. outbox[f] \in EventRows
        BY <2>1
      <3>3. /\ [outbox[f] EXCEPT !.held = FALSE].status = outbox[f].status
            /\ [outbox[f] EXCEPT !.held = FALSE].result = outbox[f].result
        BY <3>2 DEF EventRows
      <3>. QED
        BY <2>4, <3>1, <3>3
    <2>. QED
      BY <2>2, <2>3, <2>4
  <1>3. OutboxTypes'
    BY <1>1, <1>2 DEF Inv, TypeInv, OutboxTypes
  <1>4. CallbacksKept /\ EventsKept /\ \A r \in Receipts : QueueEvent(r)' = QueueEvent(r)
    BY <1>2, EventFacts DEF CallbacksKept, EventsKept, QueueEvent
  <1>. QED
    BY <1>1, <1>3, <1>4, OutboxAlone DEF Inv

\* A new event is waiting.
LEMMA NewEventFacts ==
    ASSUME NEW t \in Results \cup {"NONE"}
    PROVE  /\ NewEvent(t) \in EventRows /\ NewEvent(t).status = "PENDING" /\ NewEvent(t).result = t
  <1>1. 0 \in 0 .. MaxDeliveries /\ "PENDING" \in EventStatuses /\ "NONE" \in EventStatuses
    BY OutboxAssumption DEF EventStatuses
  <1>2. NoEvent \in EventRows
    BY <1>1 DEF NoEvent, EventRows
  <1>3. NewEvent(t) = [NoEvent EXCEPT !.status = "PENDING", !.result = t]
    BY DEF NewEvent
  <1>. QED
    BY <1>1, <1>2, <1>3 DEF EventRows

\* A receipt is recorded with its queue event.
LEMMA RecordStep ==
    ASSUME Inv, NEW r \in Receipts, RecordReceipt(r),
           UNCHANGED <<deployment, queue, worker, stores, faults>>
    PROVE  LeavesWork
  <1>. PICK e : e = Event(r, "QUEUE", 1)
    OBVIOUS
  <1>1. /\ receipt' = [receipt EXCEPT ![r].status = "RECEIVED"] /\ delivery' = delivery
        /\ outbox' = [outbox EXCEPT ![e] = NewEvent("NONE")]
    BY DEF RecordReceipt
  <1>2. e \in Events /\ \A q \in Receipts, v \in Versions : Event(q, "CALLBACK", v) # e
    BY EventFacts DEF Event
  <1>3. NewEvent("NONE") \in EventRows /\ NewEvent("NONE").status = "PENDING"
    BY NewEventFacts
  <1>4. receipt' \in [Receipts -> ReceiptRows]
    <2>1. [receipt[r] EXCEPT !.status = "RECEIVED"] \in ReceiptRows
      BY DEF Inv, TypeInv, OutboxTypes, ReceiptRows
    <2>. QED
      BY <1>1, <2>1 DEF Inv, TypeInv, OutboxTypes
  <1>5. OutboxTypes'
    BY <1>1, <1>2, <1>3, <1>4 DEF Inv, TypeInv, OutboxTypes
  <1>6. outbox'[e].status = "PENDING" /\ \A f \in Events \ {e} : outbox'[f] = outbox[f]
    BY <1>1, <1>2, <1>3 DEF Inv, TypeInv, OutboxTypes
  <1>7. CallbacksKept /\ EventsKept
    BY <1>2, <1>6, EventFacts DEF CallbacksKept, EventsKept
  <1>8. \A q \in Receipts : QueueEvent(q)' = "DELIVERED" => QueueEvent(q) = "DELIVERED"
    BY <1>6, EventFacts DEF QueueEvent
  <1>. QED
    BY <1>5, <1>7, <1>8, OutboxAlone DEF Inv

\* A receipt is reviewed.
LEMMA ReviewStep ==
    ASSUME Inv, NEW r \in Receipts, Review(r),
           UNCHANGED <<deployment, queue, worker, stores, faults>>
    PROVE  LeavesWork
  <1>1. receipt' = [receipt EXCEPT ![r].status = "REVIEWED"] /\ UNCHANGED <<outbox, delivery>>
    BY DEF Review
  <1>2. [receipt[r] EXCEPT !.status = "REVIEWED"] \in ReceiptRows
    BY DEF Inv, TypeInv, OutboxTypes, ReceiptRows
  <1>3. OutboxTypes'
    BY <1>1, <1>2 DEF Inv, TypeInv, OutboxTypes
  <1>4. CallbacksKept /\ EventsKept /\ \A q \in Receipts : QueueEvent(q)' = QueueEvent(q)
    BY <1>1 DEF CallbacksKept, EventsKept, QueueEvent
  <1>. QED
    BY <1>3, <1>4, OutboxAlone DEF Inv

\* One stage of a receipt changes.
LEMMA StageUpdate ==
    ASSUME StageTypes, NEW r \in Receipts, NEW s \in Stages, NEW n \in StageRows,
           n.status = "NONE" => n.attempts = 0, stage' = [stage EXCEPT ![r][s] = n]
    PROVE  /\ StageTypes' /\ stage'[r][s] = n
           /\ \A q \in Receipts, t \in Stages : q # r \/ t # s => stage'[q][t] = stage[q][t]
  <1>1. stage' = [stage EXCEPT ![r] = [stage[r] EXCEPT ![s] = n]]
    OBVIOUS
  <1>2. /\ stage' \in [Receipts -> [Stages -> StageRows]] /\ stage'[r][s] = n
        /\ \A q \in Receipts, t \in Stages : q # r \/ t # s => stage'[q][t] = stage[q][t]
    BY <1>1 DEF StageTypes
  <1>. QED
    BY <1>2 DEF StageTypes

\* One message of a receipt changes.
LEMMA MessageUpdate ==
    ASSUME QueueTypeOK, MessageShape, NEW r \in Receipts, NEW s \in Slots, NEW n \in Messages,
           n.status # "NONE" \/ n = queue[r][s], queue' = [queue EXCEPT ![r][s] = n]
    PROVE  /\ queue' \in [Receipts -> [Slots -> Messages]] /\ MessageShape' /\ queue'[r][s] = n
           /\ \A q \in Receipts, t \in Slots : q # r \/ t # s => queue'[q][t] = queue[q][t]
           /\ \A q \in Receipts : Sent(q) => Sent(q)'
  <1>1. queue' = [queue EXCEPT ![r] = [queue[r] EXCEPT ![s] = n]]
    OBVIOUS
  <1>2. /\ queue' \in [Receipts -> [Slots -> Messages]] /\ queue'[r][s] = n
        /\ \A q \in Receipts, t \in Slots : q # r \/ t # s => queue'[q][t] = queue[q][t]
    BY <1>1 DEF QueueTypeOK
  <1>3. MessageShape'
    BY <1>2 DEF MessageShape
  <1>4. \A q \in Receipts : Sent(q) => Sent(q)'
    BY <1>2 DEF Sent
  <1>. QED
    BY <1>2, <1>3, <1>4

\* What a step may do to completed provider stages (CompletedStagesKept).
StagesKept ==
    \A r \in Receipts, s \in ProviderStages :
        stage[r][s].status = "COMPLETED" /\ stage'[r][s].status # "COMPLETED" =>
            /\ stage'[r][s].status \in {"FAILED_RETRYABLE", "FAILED_TERMINAL"}
            /\ \E w \in Workers :
                  /\ worker'[w].pc \in {"failed", "finalize"}
                  /\ Unsure(w, r, s) \/ ("stage" \in deployment.outlived /\ Runs(w, r, s))

\* The lease of a stage ends.
LEMMA StageTimeStep ==
    ASSUME Inv, NEW r \in Receipts, NEW s \in Stages, StageTimePasses(r, s)
    PROVE  Inv' /\ StagesKept
  <1>. PICK n : n = [stage[r][s] EXCEPT !.held = FALSE]
    OBVIOUS
  <1>1. /\ stage' = [stage EXCEPT ![r][s] = n]
        /\ UNCHANGED <<deployment, queue, outboxVars, worker, row, faults>>
        /\ "stage" \notin deployment.outlived => \A w \in Workers : ~Runs(w, r, s)
    BY DEF StageTimePasses, MayEnd
  <1>2. n \in StageRows /\ n.status = stage[r][s].status /\ (n.status = "NONE" => n.attempts = 0)
    <2>1. stage[r][s] \in StageRows /\ (stage[r][s].status = "NONE" => stage[r][s].attempts = 0)
      BY DEF Inv, TypeInv, StageTypes
    <2>. QED
      BY <2>1 DEF StageRows
  <1>3. /\ StageTypes' /\ stage'[r][s] = n
        /\ \A q \in Receipts, t \in Stages : q # r \/ t # s => stage'[q][t] = stage[q][t]
    <2>1. StageTypes /\ stage' = [stage EXCEPT ![r][s] = n]
      BY <1>1 DEF Inv, TypeInv
    <2>. QED
      BY ONLY <1>2, <2>1, StageUpdate, r \in Receipts, s \in Stages
  <1>4. StagesKept
    BY <1>2, <1>3 DEF StagesKept, ProviderStages, Stages
  <1>5. TypeInv' /\ ClaimedExist' /\ MessageShape' /\ SentInv'
    BY <1>1, <1>3 DEF Inv, TypeInv, QueueTypeOK, OutboxTypes, outboxVars, WorkerTypes, ClaimedExist,
       MessageShape, SentInv, Sent, QueueEvent, QueueEventDelivered
  <1>6. CallbacksKept /\ JobsRest /\ MessagesKept
    BY <1>1 DEF CallbacksKept, JobsRest, MessagesKept, outboxVars
  <1>7. RowInv' /\ RowBeforeEnd' /\ HolderInv' /\ SafeInv'
    BY <1>1, <1>5, <1>6, RowInvKept, MessageInvKept DEF Inv, TypeInv
  <1>8. StageInv'
    <2>. SUFFICES ASSUME "stage" \notin deployment.outlived, NEW w \in Workers, NEW q \in Receipts,
                         NEW t \in ProviderStages
                  PROVE  /\ Runs(w, q, t) => stage'[q][t].status = "PROCESSING" /\ stage'[q][t].held
                         /\ Unsure(w, q, t) => stage'[q][t].status = "COMPLETED"
                         /\ Owns(w, q, t) => \A v \in Workers : Owns(v, q, t) => v = w
      BY <1>1, <1>5, <1>6, WorkKept DEF StageInv, Owns, Inv, TypeInv
    <2>1. /\ Runs(w, q, t) => stage[q][t].status = "PROCESSING" /\ stage[q][t].held
          /\ Unsure(w, q, t) => stage[q][t].status = "COMPLETED"
          /\ Owns(w, q, t) => \A v \in Workers : Owns(v, q, t) => v = w
      BY DEF Inv, StageInv
    <2>2. stage'[q][t].status = stage[q][t].status /\ (stage'[q][t] = stage[q][t] \/ ~Runs(w, q, t))
      BY <1>1, <1>2, <1>3 DEF ProviderStages, Stages
    <2>. QED
      BY <2>1, <2>2
  <1>. QED
    BY <1>4, <1>5, <1>7, <1>8 DEF Inv

\* A message becomes visible again, or was received too often.
LEMMA QueueTimeStep ==
    ASSUME Inv, NEW r \in Receipts, NEW s \in Slots, QueueTime(r, s)
    PROVE  Inv' /\ StagesKept
  <1>1. /\ UNCHANGED <<deployment, outboxVars, worker, stores, faults>>
        /\ "message" \notin deployment.outlived /\ queue[r][s].held => \A w \in Workers : ~HoldsMessage(w, r, s)
    BY DEF QueueTime, MayEnd, Redrive, Visible
  <1>2. PICK n \in Messages :
          /\ queue' = [queue EXCEPT ![r][s] = n]
          /\ n.status # "NONE" /\ (n.status = "DELIVERED" <=> queue[r][s].status = "DELIVERED")
          /\ queue[r][s].status # "NONE"
    <2>1. queue[r][s] \in Messages /\ (queue[r][s].status = "NONE" => ~queue[r][s].held)
      BY DEF Inv, TypeInv, QueueTypeOK, MessageShape, NoMessage
    <2>2. CASE MessageTimePasses(r, s)
      <3>. PICK n : n = [queue[r][s] EXCEPT !.held = FALSE]
        OBVIOUS
      <3>1. n \in Messages /\ n.status = queue[r][s].status /\ n.status # "NONE"
        BY <2>1, <2>2 DEF Messages, MessageTimePasses
      <3>. QED
        BY <2>2, <3>1 DEF MessageTimePasses
    <2>3. CASE Redrive(r, s)
      <3>. PICK n : n = [queue[r][s] EXCEPT !.status = "FAILED_TERMINAL"]
        OBVIOUS
      <3>1. n \in Messages /\ n.status = "FAILED_TERMINAL"
        BY <2>1 DEF Messages, MessageStatuses
      <3>. QED
        BY <2>3, <3>1 DEF Redrive, Visible
    <2>. QED
      BY <2>2, <2>3 DEF QueueTime
  <1>3. /\ queue' \in [Receipts -> [Slots -> Messages]] /\ MessageShape' /\ queue'[r][s] = n
        /\ \A q \in Receipts, t \in Slots : q # r \/ t # s => queue'[q][t] = queue[q][t]
        /\ \A q \in Receipts : Sent(q) => Sent(q)'
    BY <1>2, MessageUpdate DEF Inv, TypeInv
  <1>4. TypeInv' /\ ClaimedExist'
    BY <1>1, <1>3 DEF Inv, TypeInv, QueueTypeOK, OutboxTypes, outboxVars, WorkerTypes, StageTypes, stores,
       ClaimedExist
  <1>5. CallbacksKept /\ JobsRest
    BY <1>1 DEF CallbacksKept, JobsRest, outboxVars
  <1>6. SentInv'
    BY <1>1, <1>3, SentStays DEF Inv, QueueEvent, QueueEventDelivered, outboxVars
  <1>7. RowInv' /\ StageInv' /\ StagesKept
    BY <1>1, <1>4, <1>5, RowInvKept, StageInvKept DEF Inv, TypeInv, stores, StagesKept
  <1>8. RowBeforeEnd'
    <2>1. \A w \in Workers : At(w, "finished")' => row'[Item(w)'].version > 0
      BY <1>1 DEF Inv, RowBeforeEnd, At, Item, stores
    <2>2. \A q \in Receipts : row'[q].version = 0 => \A t \in Slots : queue'[q][t].status # "DELIVERED"
      BY <1>1, <1>2, <1>3 DEF Inv, RowBeforeEnd, stores
    <2>. QED
      BY <2>1, <2>2 DEF RowBeforeEnd
  <1>9. HolderInv'
    <2>. SUFFICES ASSUME "message" \notin deployment.outlived, NEW w \in Workers, NEW q \in Receipts,
                         NEW t \in Slots, HoldsMessage(w, q, t)
                  PROVE  /\ queue'[q][t].status = "PROCESSING" /\ queue'[q][t].held
                         /\ \A v \in Workers : HoldsMessage(v, q, t) => v = w
      BY <1>1, <1>4, <1>5, WorkKept DEF HolderInv, Inv, TypeInv
    <2>1. /\ queue[q][t].status = "PROCESSING" /\ queue[q][t].held
          /\ \A v \in Workers : HoldsMessage(v, q, t) => v = w
      BY DEF Inv, HolderInv
    <2>2. q # r \/ t # s
      BY <1>1, <2>1
    <2>. QED
      BY <1>3, <2>1, <2>2
  <1>10. SafeInv'
    <2>. SUFFICES ASSUME "message" \notin deployment.outlived, NEW q \in Receipts,
                         row[q].version > 0, ~HasResult(q)
                  PROVE  \E t \in Slots : Safe(q, t)'
      BY <1>1, <1>5, ResultsKept DEF SafeInv, stores
    <2>1. PICK t \in Slots : Safe(q, t)
      BY DEF Inv, SafeInv
    <2>2. queue'[q][t].status \notin {"NONE", "DELIVERED"}
      BY <1>2, <1>3, <2>1 DEF Safe
    <2>3. Safe(q, t)'
      BY <1>1, <2>1, <2>2 DEF Safe, HoldsMessage, Working
    <2>. QED
      BY <2>3
  <1>. QED
    BY <1>3, <1>4, <1>6, <1>7, <1>8, <1>9, <1>10 DEF Inv

-----------------------------------------------------------------------------
(* Messages.                                                               *)

\* What a worker does with its own message when it lets go of it.
LetsGo(w) ==
    \A r \in Receipts, s \in Slots :
        \/ queue'[r][s] = queue[r][s]
        \/ /\ HoldsMessage(w, r, s)
           /\ queue'[r][s].status # "NONE"
           /\ queue'[r][s].status = "DELIVERED" => queue[r][s].status = "DELIVERED" \/ At(w, "finished")

\* A worker that starts its loop anew, after a message, without one, or when
\* it dies, keeps the invariant.
LEMMA RestartKeeps ==
    ASSUME Inv, NEW w \in Workers,
           worker' = [worker EXCEPT ![w] = IdleWorker]
           \/ worker' = [worker EXCEPT ![w] = [IdleWorker EXCEPT !.again = TRUE]],
           UNCHANGED <<outboxVars, stores, deployment>>, faults' \in 0 .. deployment.faults,
           queue' \in [Receipts -> [Slots -> Messages]], MessageShape',
           \A r \in Receipts : Sent(r) => Sent(r)', LetsGo(w)
    PROVE  Inv'
  <1>1. /\ WorkerTypes' /\ worker'[w].pc = "dispatch" /\ worker'[w].job = None
        /\ worker'[w].batch = {} /\ \A v \in Workers \ {w} : worker'[v] = worker[v]
    BY RestartFacts DEF Inv, TypeInv
  <1>2. TypeInv'
    BY <1>1 DEF Inv, TypeInv, QueueTypeOK, OutboxTypes, outboxVars, StageTypes, stores
  <1>3. ClaimedExist'
    BY <1>1 DEF Inv, ClaimedExist, outboxVars
  <1>4. SentInv'
    <2>1. \A r \in Receipts, v \in Workers : QueueEventDelivered(v, r)' => QueueEventDelivered(v, r)
      BY <1>1 DEF QueueEventDelivered
    <2>2. \A r \in Receipts : QueueEvent(r)' = QueueEvent(r)
      BY DEF QueueEvent, outboxVars
    <2>. QED
      BY <2>1, <2>2, SentStays DEF Inv
  <1>5. CallbacksKept
    BY DEF CallbacksKept, outboxVars
  <1>6. RowInv'
    BY <1>5, RowInvKept DEF Inv, stores
  <1>7. \A r \in Receipts : /\ \A s \in Stages : ~Runs(w, r, s)' /\ ~Unsure(w, r, s)'
                            /\ \A s \in Slots : ~HoldsMessage(w, r, s)'
    BY <1>1 DEF Runs, Unsure, HoldsMessage, Working
  <1>8. \A v \in Workers \ {w}, r \in Receipts :
           /\ \A s \in Stages : Runs(v, r, s)' <=> Runs(v, r, s)
           /\ \A s \in Stages : Unsure(v, r, s)' <=> Unsure(v, r, s)
           /\ \A s \in Slots : HoldsMessage(v, r, s)' <=> HoldsMessage(v, r, s)
           /\ worker'[v] = worker[v]
    BY <1>1 DEF Runs, Unsure, HoldsMessage, Working, Item, StageAt, At
  <1>9. StageInv'
    BY <1>7, <1>8 DEF Inv, StageInv, Owns, stores, ProviderStages, Stages
  <1>10. RowBeforeEnd'
    <2>1. \A v \in Workers : At(v, "finished")' => row'[Item(v)'].version > 0
      BY <1>1 DEF Inv, RowBeforeEnd, At, Item, stores
    <2>2. ASSUME NEW r \in Receipts, NEW s \in Slots, row'[r].version = 0
          PROVE  queue'[r][s].status # "DELIVERED"
      <3>1. row[r].version = 0 /\ queue[r][s].status # "DELIVERED"
        BY <2>2 DEF Inv, RowBeforeEnd, stores
      <3>2. At(w, "finished") /\ HoldsMessage(w, r, s) => row[r].version > 0
        BY DEF Inv, RowBeforeEnd, HoldsMessage, Item
      <3>3. ~(At(w, "finished") /\ HoldsMessage(w, r, s))
        BY <3>1, <3>2
      <3>. QED
        BY <3>1, <3>3 DEF LetsGo
    <2>. QED
      BY <2>1, <2>2 DEF RowBeforeEnd
  <1>11. HolderInv'
    <2>. SUFFICES ASSUME "message" \notin deployment.outlived, NEW v \in Workers, NEW r \in Receipts,
                         NEW s \in Slots, HoldsMessage(v, r, s)'
                  PROVE  /\ queue'[r][s].status = "PROCESSING" /\ queue'[r][s].held
                         /\ \A u \in Workers : HoldsMessage(u, r, s)' => u = v
      BY DEF HolderInv
    <2>1. v # w /\ HoldsMessage(v, r, s)
      BY <1>7, <1>8
    <2>2. /\ queue[r][s].status = "PROCESSING" /\ queue[r][s].held
          /\ \A u \in Workers : HoldsMessage(u, r, s) => u = v
      BY <2>1 DEF Inv, HolderInv
    <2>3. queue'[r][s] = queue[r][s]
      BY <2>1, <2>2 DEF LetsGo
    <2>. QED
      BY <1>7, <1>8, <2>2, <2>3
  <1>12. SafeInv'
    <2>. SUFFICES ASSUME "message" \notin deployment.outlived, NEW r \in Receipts,
                         row[r].version > 0, ~HasResult(r)
                  PROVE  \E s \in Slots : Safe(r, s)'
      BY <1>5, ResultsKept DEF SafeInv, stores
    <2>1. PICK s \in Slots : Safe(r, s)
      BY DEF Inv, SafeInv
    <2>2. queue'[r][s].status \notin {"NONE", "DELIVERED"}
      BY <2>1 DEF LetsGo, Safe, At, WithoutRow
    <2>3. \A v \in Workers : HoldsMessage(v, r, s)' => worker'[v].pc \notin WithoutRow
      BY <1>7, <1>8, <2>1 DEF Safe
    <2>. QED
      BY <2>2, <2>3 DEF Safe
  <1>. QED
    BY <1>2, <1>3, <1>4, <1>6, <1>9, <1>10, <1>11, <1>12 DEF Inv

\* There is nothing to receive.
LEMMA NoMessageStep ==
    ASSUME Inv, NEW w \in Workers, NoMessageWaiting(w), UNCHANGED faults
    PROVE  Inv'
  <1>1. /\ worker' = [worker EXCEPT ![w] = IdleWorker]
        /\ UNCHANGED <<outboxVars, stores, deployment>> /\ UNCHANGED queue
    BY DEF NoMessageWaiting, ToDispatch
  <1>2. /\ queue' \in [Receipts -> [Slots -> Messages]] /\ MessageShape'
        /\ \A r \in Receipts : Sent(r) => Sent(r)'
    BY <1>1 DEF Inv, TypeInv, QueueTypeOK, MessageShape, Sent
  <1>3. LetsGo(w)
    BY <1>1 DEF LetsGo
  <1>4. faults' \in 0 .. deployment.faults
    BY DEF Inv, TypeInv
  <1>. QED
    BY <1>1, <1>2, <1>3, <1>4, RestartKeeps

\* The worker's message becomes n.
LEMMA OwnMessage ==
    ASSUME Inv, NEW w \in Workers, worker[w].pc \in JobStages, NEW n \in Messages,
           n.status = "DELIVERED" => n = queue[Item(w)][worker[w].job.slot] \/ At(w, "finished"),
           n.status # "NONE" \/ n = queue[Item(w)][worker[w].job.slot],
           queue' = [queue EXCEPT ![Item(w)][worker[w].job.slot] = n]
    PROVE  /\ queue' \in [Receipts -> [Slots -> Messages]] /\ MessageShape'
           /\ \A r \in Receipts : Sent(r) => Sent(r)'
           /\ LetsGo(w)
  <1>. PICK r, s : r = Item(w) /\ s = worker[w].job.slot
    OBVIOUS
  <1>1. r \in Receipts /\ s \in Slots /\ HoldsMessage(w, r, s)
    BY ItemFacts DEF Inv, TypeInv, HoldsMessage, Item
  <1>2. /\ queue' \in [Receipts -> [Slots -> Messages]] /\ MessageShape' /\ queue'[r][s] = n
        /\ \A q \in Receipts, t \in Slots : q # r \/ t # s => queue'[q][t] = queue[q][t]
        /\ \A q \in Receipts : Sent(q) => Sent(q)'
    <2>1. /\ QueueTypeOK /\ MessageShape /\ queue' = [queue EXCEPT ![r][s] = n]
          /\ n.status # "NONE" \/ n = queue[r][s]
      BY DEF Inv, TypeInv
    <2>. QED
      BY ONLY <1>1, <2>1, MessageUpdate, n \in Messages
  <1>3. LetsGo(w)
    <2>. SUFFICES ASSUME NEW q \in Receipts, NEW t \in Slots, queue'[q][t] # queue[q][t]
                  PROVE  /\ HoldsMessage(w, q, t)
                         /\ queue'[q][t].status # "NONE"
                         /\ queue'[q][t].status = "DELIVERED" => At(w, "finished")
      BY DEF LetsGo
    <2>1. q = r /\ t = s /\ n # queue[r][s]
      BY <1>2
    <2>. QED
      BY <1>1, <1>2, <2>1
  <1>. QED
    BY <1>2, <1>3

\* The message was processed.
LEMMA MessageDoneStep ==
    ASSUME Inv, NEW w \in Workers, MessageDone(w), UNCHANGED faults
    PROVE  Inv'
  <1>. PICK r, s : r = Item(w) /\ s = worker[w].job.slot
    OBVIOUS
  <1>1. /\ At(w, "finished") /\ CompleteMessage(r, s)
        /\ worker' = [worker EXCEPT ![w] = [IdleWorker EXCEPT !.again = TRUE]]
        /\ UNCHANGED <<outboxVars, stores, deployment>>
    BY DEF MessageDone
  <1>2. worker[w].pc \in JobStages /\ r \in Receipts /\ s \in Slots
    BY <1>1, ItemFacts DEF Inv, TypeInv, At, JobStages
  <1>3. queue[r][s] \in Messages
    BY <1>2 DEF Inv, TypeInv, QueueTypeOK
  <1>. PICK n : n = IF queue[r][s].status = "PROCESSING"
                    THEN [queue[r][s] EXCEPT !.status = "DELIVERED", !.held = FALSE] ELSE queue[r][s]
    OBVIOUS
  <1>4. n \in Messages /\ (n = queue[r][s] \/ n.status = "DELIVERED")
    BY <1>3 DEF Messages, MessageStatuses
  <1>5. queue' = [queue EXCEPT ![r][s] = n]
    BY <1>1, <1>2 DEF CompleteMessage, Inv, TypeInv, QueueTypeOK
  <1>6. /\ queue' \in [Receipts -> [Slots -> Messages]] /\ MessageShape'
        /\ \A q \in Receipts : Sent(q) => Sent(q)'
        /\ LetsGo(w)
    BY <1>1, <1>2, <1>4, <1>5, OwnMessage
  <1>7. faults' \in 0 .. deployment.faults
    BY DEF Inv, TypeInv
  <1>. QED
    BY <1>1, <1>6, <1>7, RestartKeeps

\* The message will be received again, or failed for good.
LEMMA MessageFailedStep ==
    ASSUME Inv, NEW w \in Workers, MessageFailed(w), UNCHANGED faults
    PROVE  Inv'
  <1>. PICK r, s, last : r = Item(w) /\ s = worker[w].job.slot /\ last = worker[w].job.last
    OBVIOUS
  <1>1. /\ At(w, "failed") /\ FailMessage(r, s, last)
        /\ worker' = [worker EXCEPT ![w] = IdleWorker]
        /\ UNCHANGED <<outboxVars, stores, deployment>>
    BY DEF MessageFailed, ToDispatch
  <1>2. worker[w].pc \in JobStages /\ r \in Receipts /\ s \in Slots /\ last \in BOOLEAN
    BY <1>1, ItemFacts DEF Inv, TypeInv, At, JobStages, Jobs
  <1>3. queue[r][s] \in Messages
    BY <1>2 DEF Inv, TypeInv, QueueTypeOK
  <1>. PICK n : n = IF deployment.provider = "postgres" /\ queue[r][s].status = "PROCESSING"
                    THEN [queue[r][s] EXCEPT !.status = IF last THEN "FAILED_TERMINAL"
                                                                ELSE "FAILED_RETRYABLE",
                                             !.held = ~last]
                    ELSE queue[r][s]
    OBVIOUS
  <1>4. n \in Messages /\ (n = queue[r][s] \/ n.status \in {"FAILED_TERMINAL", "FAILED_RETRYABLE"})
    <2>1. CASE last
      BY <1>3, <2>1 DEF Messages, MessageStatuses
    <2>2. CASE ~last
      BY <1>3, <2>2 DEF Messages, MessageStatuses
    <2>. QED
      BY <2>1, <2>2
  <1>5. queue' = [queue EXCEPT ![r][s] = n]
    BY <1>1, <1>2 DEF FailMessage, Inv, TypeInv, QueueTypeOK
  <1>6. /\ queue' \in [Receipts -> [Slots -> Messages]] /\ MessageShape'
        /\ \A q \in Receipts : Sent(q) => Sent(q)'
        /\ LetsGo(w)
    BY <1>2, <1>4, <1>5, OwnMessage
  <1>7. faults' \in 0 .. deployment.faults
    BY DEF Inv, TypeInv
  <1>. QED
    BY <1>1, <1>6, <1>7, RestartKeeps

\* A message is received: nobody else holds it, unless it was outlived.
LEMMA TakeStep ==
    ASSUME Inv, NEW w \in Workers, NEW r \in Receipts, NEW s \in Slots, TakeMessage(w, r, s),
           UNCHANGED faults
    PROVE  Inv'
  <1>. PICK l : l = (queue[r][s].attempts + 1 >= MaxReceives)
    OBVIOUS
  <1>. PICK q : q = [worker[w] EXCEPT !.pc = "begin", !.job = [receipt |-> r, slot |-> s, last |-> l]]
    OBVIOUS
  <1>. PICK n : n = [status |-> "PROCESSING", held |-> TRUE,
                     attempts |-> CountUpTo(queue[r][s].attempts, MaxReceives)]
    OBVIOUS
  <1>1. /\ worker[w].pc = "receive" /\ Visible(r, s) /\ queue' = [queue EXCEPT ![r][s] = n]
        /\ worker' = [worker EXCEPT ![w] = q] /\ UNCHANGED <<outboxVars, stores, deployment>>
    BY DEF TakeMessage, Receive, At, Inv, TypeInv, QueueTypeOK
  <1>2. n \in Messages /\ n.status = "PROCESSING" /\ n.held
    <2>1. queue[r][s] \in Messages
      BY DEF Inv, TypeInv, QueueTypeOK
    <2>2. CountUpTo(queue[r][s].attempts, MaxReceives) \in 0 .. MaxReceives
      BY <2>1, QueueAssumption DEF CountUpTo, Messages
    <2>. QED
      BY <2>2 DEF Messages, MessageStatuses
  <1>3. /\ q \in WorkerRows /\ q.pc = "begin" /\ q.job \in Jobs /\ q.batch = worker[w].batch
        /\ q.claim = worker[w].claim /\ q.job.receipt = r /\ q.job.slot = s
    <2>1. l \in BOOLEAN
      OBVIOUS
    <2>2. [receipt |-> r, slot |-> s, last |-> l] \in Jobs
      BY <2>1 DEF Jobs
    <2>. QED
      BY <2>2 DEF Inv, TypeInv, WorkerTypes, WorkerRows, JobStages
  <1>4. WorkerShape(q) /\ q.job # None
    BY <1>3, OutboxAssumption DEF WorkerShape, JobStages
  <1>5. WorkerTypes' /\ worker'[w] = q /\ \A v \in Workers \ {w} : worker'[v] = worker[v]
    BY <1>1, <1>3, <1>4, WorkerUpdate DEF Inv, TypeInv
  <1>6. /\ queue' \in [Receipts -> [Slots -> Messages]] /\ MessageShape' /\ queue'[r][s] = n
        /\ \A p \in Receipts, t \in Slots : p # r \/ t # s => queue'[p][t] = queue[p][t]
        /\ \A p \in Receipts : Sent(p) => Sent(p)'
    <2>1. QueueTypeOK /\ MessageShape /\ queue' = [queue EXCEPT ![r][s] = n]
      BY <1>1 DEF Inv, TypeInv
    <2>. QED
      BY ONLY <1>2, <2>1, MessageUpdate, r \in Receipts, s \in Slots
  <1>7. TypeInv'
    BY <1>1, <1>5, <1>6 DEF Inv, TypeInv, QueueTypeOK, OutboxTypes, outboxVars, StageTypes, stores
  <1>8. CallbacksKept /\ EventsKept
    BY <1>1 DEF CallbacksKept, EventsKept, outboxVars
  <1>9. ClaimedExist'
    BY <1>3, <1>5, <1>8, ClaimsStayThere DEF Inv, TypeInv
  <1>10. SentInv'
    <2>1. \A p \in Receipts, v \in Workers : QueueEventDelivered(v, p)' => QueueEventDelivered(v, p)
      BY <1>3, <1>5 DEF QueueEventDelivered
    <2>2. \A p \in Receipts : QueueEvent(p)' = QueueEvent(p)
      BY <1>1 DEF QueueEvent, outboxVars
    <2>. QED
      BY <1>6, <2>1, <2>2, SentStays DEF Inv
  <1>11. RowInv'
    BY <1>1, <1>8, RowInvKept DEF Inv, stores
  <1>12. \A p \in Receipts : /\ \A t \in ProviderStages : ~Runs(w, p, t)' /\ ~Unsure(w, p, t)'
                             /\ \A t \in Slots : HoldsMessage(w, p, t)' <=> (p = r /\ t = s)
    BY <1>3, <1>4, <1>5 DEF Runs, Unsure, StageAt, At, HoldsMessage, Working, ProviderStages
  <1>13. \A v \in Workers \ {w}, p \in Receipts :
           /\ \A t \in ProviderStages : Runs(v, p, t)' <=> Runs(v, p, t)
           /\ \A t \in ProviderStages : Unsure(v, p, t)' <=> Unsure(v, p, t)
           /\ \A t \in Slots : HoldsMessage(v, p, t)' <=> HoldsMessage(v, p, t)
           /\ worker'[v] = worker[v]
    BY <1>5 DEF Runs, Unsure, HoldsMessage, Working, Item, StageAt, At
  <1>14. StageInv'
    BY <1>1, <1>12, <1>13 DEF Inv, StageInv, Owns, stores
  <1>15. RowBeforeEnd'
    <2>1. \A v \in Workers : At(v, "finished")' => row'[Item(v)'].version > 0
      BY <1>1, <1>3, <1>5 DEF Inv, RowBeforeEnd, At, Item, stores
    <2>2. \A p \in Receipts : row'[p].version = 0 => \A t \in Slots : queue'[p][t].status # "DELIVERED"
      BY <1>1, <1>2, <1>6 DEF Inv, RowBeforeEnd, stores
    <2>. QED
      BY <2>1, <2>2 DEF RowBeforeEnd
  <1>16. "message" \notin deployment.outlived => \A v \in Workers : ~HoldsMessage(v, r, s)
    BY <1>1 DEF Inv, HolderInv, Visible
  <1>17. HolderInv'
    <2>. SUFFICES ASSUME "message" \notin deployment.outlived, NEW v \in Workers, NEW p \in Receipts,
                         NEW t \in Slots, HoldsMessage(v, p, t)'
                  PROVE  /\ queue'[p][t].status = "PROCESSING" /\ queue'[p][t].held
                         /\ \A u \in Workers : HoldsMessage(u, p, t)' => u = v
      BY <1>1 DEF HolderInv
    <2>1. CASE p = r /\ t = s
      BY <1>2, <1>6, <1>13, <1>16, <2>1
    <2>2. CASE p # r \/ t # s
      <3>1. v # w /\ HoldsMessage(v, p, t)
        BY <1>12, <1>13, <2>2
      <3>2. /\ queue[p][t].status = "PROCESSING" /\ queue[p][t].held
            /\ \A u \in Workers : HoldsMessage(u, p, t) => u = v
        BY <3>1 DEF Inv, HolderInv
      <3>. QED
        BY <1>6, <1>12, <1>13, <2>2, <3>2
    <2>. QED
      BY <2>1, <2>2
  <1>18. SafeInv'
    <2>. SUFFICES ASSUME "message" \notin deployment.outlived, NEW p \in Receipts,
                         row[p].version > 0, ~HasResult(p)
                  PROVE  \E t \in Slots : Safe(p, t)'
      BY <1>1, <1>8, ResultsKept DEF SafeInv, stores
    <2>1. PICK t \in Slots : Safe(p, t)
      BY DEF Inv, SafeInv
    <2>2. queue'[p][t].status \notin {"NONE", "DELIVERED"}
      BY <1>2, <1>6, <2>1 DEF Safe
    <2>3. worker'[w].pc \notin WithoutRow
      BY <1>3, <1>5 DEF WithoutRow
    <2>4. \A v \in Workers : HoldsMessage(v, p, t)' => worker'[v].pc \notin WithoutRow
      BY <1>13, <2>1, <2>3 DEF Safe
    <2>. QED
      BY <2>2, <2>4 DEF Safe
  <1>. QED
    BY <1>6, <1>7, <1>9, <1>10, <1>11, <1>14, <1>15, <1>17, <1>18 DEF Inv

-----------------------------------------------------------------------------
(* The steps of process_receipt_event.                                     *)

\* The worker's next step runs the provider stage.
RunsNext(p, s) == (p = "ocr" /\ s = "OCR") \/ (p = "gst" /\ s = "GST")
\* Its next step takes the provider stage for failed.
UnsureNext(p, s) == (p = "ocrUnanswered" /\ s = "OCR") \/ (p = "gstUnanswered" /\ s = "GST")
\* The steps at which a worker has a provider stage.
OwningSteps == {"ocr", "gst", "ocrUnanswered", "gstUnanswered"}

\* What the worker does to the stages as it goes on to p.
StageChange(w, p) ==
    /\ StageTypes' /\ StagesKept
    /\ "stage" \notin deployment.outlived =>
          /\ \A r \in Receipts, s \in ProviderStages :
                stage'[r][s] = stage[r][s] \/ \A v \in Workers \ {w} : ~Owns(v, r, s)
          /\ \A s \in ProviderStages :
                /\ RunsNext(p, s) => stage'[Item(w)][s].status = "PROCESSING" /\ stage'[Item(w)][s].held
                /\ UnsureNext(p, s) => stage'[Item(w)][s].status = "COMPLETED"
                /\ RunsNext(p, s) \/ UnsureNext(p, s) => \A v \in Workers \ {w} : ~Owns(v, Item(w), s)

\* What it does to the rows and results.
RowChange(w, p) ==
    /\ row' \in [Receipts -> Rows] /\ outbox' \in [Events -> EventRows]
    /\ RowInv' /\ EventsKept
    /\ \A r \in Receipts :
          /\ QueueEvent(r)' = QueueEvent(r)
          /\ row[r].version > 0 => row'[r].version > 0
          /\ row[r].version = 0 /\ row'[r].version > 0 =>
                r = Item(w) /\ (HasResult(r)' \/ p \notin WithoutRow)
    /\ p = "finished" => row'[Item(w)].version > 0
    /\ p \in WithoutRow /\ worker[w].pc \notin WithoutRow =>
          HasResult(Item(w))' \/ row'[Item(w)].version = 0

\* Where the worker is after its step.
LEMMA WorkerGoesOn ==
    ASSUME WorkerTypes, NEW w \in Workers, NEW p \in JobStages, worker[w].pc \in JobStages, Goto(w, p)
    PROVE  /\ Item(w)' = Item(w) /\ worker'[w].pc = p
           /\ \A r \in Receipts :
                 /\ \A s \in ProviderStages : Runs(w, r, s)' <=> r = Item(w) /\ RunsNext(p, s)
                 /\ \A s \in ProviderStages : Unsure(w, r, s)' <=> r = Item(w) /\ UnsureNext(p, s)
                 /\ \A s \in Slots : HoldsMessage(w, r, s)' <=> HoldsMessage(w, r, s)
           /\ \A v \in Workers \ {w}, r \in Receipts :
                 /\ \A s \in ProviderStages : Runs(v, r, s)' <=> Runs(v, r, s)
                 /\ \A s \in ProviderStages : Unsure(v, r, s)' <=> Unsure(v, r, s)
                 /\ \A s \in Slots : HoldsMessage(v, r, s)' <=> HoldsMessage(v, r, s)
                 /\ worker'[v] = worker[v]
  <1>1. /\ worker'[w].pc = p /\ worker'[w].job = worker[w].job
        /\ \A v \in Workers \ {w} : worker'[v] = worker[v]
    BY GotoFacts
  <1>2. Working(w) /\ Working(w)'
    BY <1>1, ItemFacts DEF Working
  <1>3. Item(w)' = Item(w)
    BY <1>1 DEF Item
  <1>4. \A s \in ProviderStages : StageAt(w)' = s <=> RunsNext(p, s)
    BY <1>1 DEF StageAt, At, RunsNext, ProviderStages
  <1>5. \A r \in Receipts :
           /\ \A s \in ProviderStages : Runs(w, r, s)' <=> r = Item(w) /\ RunsNext(p, s)
           /\ \A s \in ProviderStages : Unsure(w, r, s)' <=> r = Item(w) /\ UnsureNext(p, s)
           /\ \A s \in Slots : HoldsMessage(w, r, s)' <=> HoldsMessage(w, r, s)
    <2>1. \A r \in Receipts, s \in ProviderStages : Unsure(w, r, s)' <=> r = Item(w) /\ UnsureNext(p, s)
      BY <1>1, <1>2, <1>3 DEF Unsure, UnsureNext, At
    <2>. QED
      BY <1>1, <1>2, <1>3, <1>4, <2>1 DEF Runs, HoldsMessage
  <1>6. \A v \in Workers \ {w}, r \in Receipts :
           /\ \A s \in ProviderStages : Runs(v, r, s)' <=> Runs(v, r, s)
           /\ \A s \in ProviderStages : Unsure(v, r, s)' <=> Unsure(v, r, s)
           /\ \A s \in Slots : HoldsMessage(v, r, s)' <=> HoldsMessage(v, r, s)
           /\ worker'[v] = worker[v]
    BY <1>1 DEF Runs, Unsure, HoldsMessage, Working, Item, StageAt, At
  <1>. QED
    BY <1>1, <1>3, <1>5, <1>6

\* A step with these effects keeps the invariant.
LEMMA ProcessKeeps ==
    ASSUME Inv, NEW w \in Workers, NEW p \in JobStages, worker[w].pc \in JobStages, Goto(w, p),
           UNCHANGED <<deployment, queue, delivery, receipt>>, faults' \in 0 .. deployment.faults,
           StageChange(w, p), RowChange(w, p)
    PROVE  Inv'
  <1>1. /\ WorkerTypes' /\ worker'[w].batch = worker[w].batch
        /\ \A v \in Workers \ {w} : worker'[v] = worker[v]
    BY GotoFacts DEF Inv, TypeInv
  <1>2. /\ Item(w)' = Item(w) /\ worker'[w].pc = p
        /\ \A r \in Receipts :
              /\ \A s \in ProviderStages : Runs(w, r, s)' <=> r = Item(w) /\ RunsNext(p, s)
              /\ \A s \in ProviderStages : Unsure(w, r, s)' <=> r = Item(w) /\ UnsureNext(p, s)
              /\ \A s \in Slots : HoldsMessage(w, r, s)' <=> HoldsMessage(w, r, s)
        /\ \A v \in Workers \ {w}, r \in Receipts :
              /\ \A s \in ProviderStages : Runs(v, r, s)' <=> Runs(v, r, s)
              /\ \A s \in ProviderStages : Unsure(v, r, s)' <=> Unsure(v, r, s)
              /\ \A s \in Slots : HoldsMessage(v, r, s)' <=> HoldsMessage(v, r, s)
              /\ worker'[v] = worker[v]
    BY WorkerGoesOn DEF Inv, TypeInv
  <1>3. TypeInv' /\ MessageShape'
    BY <1>1 DEF Inv, TypeInv, QueueTypeOK, OutboxTypes, StageChange, RowChange, MessageShape
  <1>4. ClaimedExist'
    BY <1>1, ClaimsStayThere DEF Inv, TypeInv, RowChange
  <1>5. SentInv'
    <2>1. \A r \in Receipts : Sent(r)' <=> Sent(r)
      BY DEF Sent
    <2>2. \A r \in Receipts, v \in Workers : QueueEventDelivered(v, r)' => QueueEventDelivered(v, r)
      BY <1>2 DEF QueueEventDelivered, JobStages
    <2>. QED
      BY <2>1, <2>2, SentStays DEF Inv, RowChange
  <1>6. StageInv'
    <2>. SUFFICES ASSUME "stage" \notin deployment.outlived, NEW v \in Workers, NEW r \in Receipts,
                         NEW s \in ProviderStages
                  PROVE  /\ Runs(v, r, s)' => stage'[r][s].status = "PROCESSING" /\ stage'[r][s].held
                         /\ Unsure(v, r, s)' => stage'[r][s].status = "COMPLETED"
                         /\ Owns(v, r, s)' => \A u \in Workers : Owns(u, r, s)' => u = v
      BY DEF StageInv
    <2>1. /\ Owns(w, r, s)' <=> r = Item(w) /\ (RunsNext(p, s) \/ UnsureNext(p, s))
          /\ \A u \in Workers \ {w} : Owns(u, r, s)' <=> Owns(u, r, s)
      BY <1>2 DEF Owns
    <2>2. Owns(w, r, s)' => \A u \in Workers \ {w} : ~Owns(u, r, s)
      BY <2>1 DEF StageChange
    <2>3. CASE v = w
      <3>1. /\ Runs(w, r, s)' => stage'[r][s].status = "PROCESSING" /\ stage'[r][s].held
            /\ Unsure(w, r, s)' => stage'[r][s].status = "COMPLETED"
        BY <1>2 DEF StageChange
      <3>. QED
        BY <2>1, <2>2, <2>3, <3>1
    <2>4. CASE v # w
      <3>1. /\ Runs(v, r, s) => stage[r][s].status = "PROCESSING" /\ stage[r][s].held
            /\ Unsure(v, r, s) => stage[r][s].status = "COMPLETED"
            /\ Owns(v, r, s) => \A u \in Workers : Owns(u, r, s) => u = v
        BY DEF Inv, StageInv
      <3>2. Owns(v, r, s) => stage'[r][s] = stage[r][s]
        BY <2>4 DEF StageChange
      <3>3. /\ Runs(v, r, s)' <=> Runs(v, r, s)
            /\ Unsure(v, r, s)' <=> Unsure(v, r, s)
        BY <1>2, <2>4
      <3>4. /\ Runs(v, r, s)' => stage'[r][s].status = "PROCESSING" /\ stage'[r][s].held
            /\ Unsure(v, r, s)' => stage'[r][s].status = "COMPLETED"
        BY <3>1, <3>2, <3>3 DEF Owns
      <3>5. Owns(v, r, s)' => \A u \in Workers : Owns(u, r, s)' => u = v
        BY <2>1, <2>2, <2>4, <3>1
      <3>. QED
        BY <3>4, <3>5
    <2>. QED
      BY <2>3, <2>4
  <1>7. Item(w) \in Receipts /\ worker[w].job.slot \in Slots /\ HoldsMessage(w, Item(w), worker[w].job.slot)
    BY ItemFacts DEF Inv, TypeInv, HoldsMessage, Item
  <1>8. RowBeforeEnd'
    <2>1. \A v \in Workers : At(v, "finished")' => row'[Item(v)'].version > 0
      <3>. SUFFICES ASSUME NEW v \in Workers, At(v, "finished")'
                    PROVE  row'[Item(v)'].version > 0
        OBVIOUS
      <3>1. CASE v = w
        BY <1>2, <3>1 DEF At, RowChange
      <3>2. CASE v # w
        <4>1. At(v, "finished") /\ Item(v)' = Item(v)
          BY <1>1, <3>2 DEF At, Item
        <4>2. Item(v) \in Receipts /\ row[Item(v)].version > 0
          BY <4>1, ItemFacts DEF Inv, TypeInv, RowBeforeEnd, At, JobStages
        <4>. QED
          BY <4>1, <4>2 DEF RowChange
      <3>. QED
        BY <3>1, <3>2
    <2>2. \A r \in Receipts : row'[r].version = 0 => row[r].version = 0
      <3>1. \A r \in Receipts : row[r].version \in Nat /\ row'[r].version \in Nat
        BY OutboxAssumption DEF Inv, TypeInv, RowChange, Rows
      <3>. QED
        BY <3>1 DEF RowChange
    <2>. QED
      BY <2>1, <2>2 DEF Inv, RowBeforeEnd
  <1>9. HolderInv'
    BY <1>2 DEF Inv, HolderInv
  <1>10. SafeInv'
    <2>. SUFFICES ASSUME "message" \notin deployment.outlived, NEW r \in Receipts,
                         row'[r].version > 0, ~HasResult(r)'
                  PROVE  \E s \in Slots : Safe(r, s)'
      BY DEF SafeInv
    <2>1. ~HasResult(r)
      BY EventFacts DEF RowChange, EventsKept, HasResult, Published
    <2>2. CASE row[r].version > 0
      <3>1. PICK s \in Slots : Safe(r, s)
        BY <2>1, <2>2 DEF Inv, SafeInv
      <3>2. HoldsMessage(w, r, s) => p \notin WithoutRow
        <4>. SUFFICES ASSUME HoldsMessage(w, r, s), p \in WithoutRow
                      PROVE  FALSE
          OBVIOUS
        <4>1. r = Item(w) /\ worker[w].pc \notin WithoutRow
          BY <3>1 DEF Safe, HoldsMessage, Item
        <4>2. HasResult(r)' \/ row'[r].version = 0
          BY <1>2, <4>1 DEF RowChange
        <4>. QED
          BY <4>2
      <3>3. \A v \in Workers : HoldsMessage(v, r, s)' => worker'[v].pc \notin WithoutRow
        BY <1>2, <3>1, <3>2 DEF Safe
      <3>. QED
        BY <3>1, <3>3 DEF Safe
    <2>3. CASE ~(row[r].version > 0)
      <3>1. row[r].version = 0
        BY <2>3, OutboxAssumption DEF Inv, TypeInv, Rows
      <3>2. r = Item(w) /\ p \notin WithoutRow
        BY <3>1 DEF RowChange
      <3>. PICK s : s = worker[w].job.slot
        OBVIOUS
      <3>3. /\ queue[r][s].status = "PROCESSING"
            /\ \A v \in Workers : HoldsMessage(v, r, s) => v = w
        BY <1>7, <3>2 DEF Inv, HolderInv
      <3>4. \A v \in Workers : HoldsMessage(v, r, s)' => worker'[v].pc \notin WithoutRow
        BY <1>2, <1>7, <3>2, <3>3
      <3>. QED
        BY <1>7, <3>3, <3>4 DEF Safe
    <2>. QED
      BY <2>2, <2>3
  <1>. QED
    BY <1>3, <1>4, <1>5, <1>6, <1>8, <1>9, <1>10 DEF Inv, RowChange

\* A step that leaves the rows and the outbox alone.
LEMMA RowRests ==
    ASSUME Inv, NEW w \in Workers, NEW p \in JobStages, Item(w)' = Item(w),
           UNCHANGED <<row, outbox, deployment>>,
           p = "finished" => row[Item(w)].version > 0,
           p \in WithoutRow /\ worker[w].pc \notin WithoutRow =>
               HasResult(Item(w)) \/ row[Item(w)].version = 0
    PROVE  RowChange(w, p) /\ CallbacksKept
  <1>1. CallbacksKept /\ EventsKept /\ \A r \in Receipts : QueueEvent(r)' = QueueEvent(r)
    BY DEF CallbacksKept, EventsKept, QueueEvent
  <1>2. RowInv'
    BY <1>1, RowInvKept DEF Inv
  <1>3. HasResult(Item(w))' <=> HasResult(Item(w))
    BY DEF HasResult, Published
  <1>. QED
    BY <1>1, <1>2, <1>3 DEF Inv, TypeInv, OutboxTypes, RowChange

\* A step that leaves the stages alone and does not run a provider.
LEMMA StageRests ==
    ASSUME Inv, NEW w \in Workers, NEW p \in JobStages \ OwningSteps, stage' = stage
    PROVE  StageChange(w, p)
  BY DEF Inv, TypeInv, StageTypes, StageChange, StagesKept, RunsNext, UnsureNext, OwningSteps

\* Who has a provider stage has it alone.
LEMMA OwnsAlone ==
    ASSUME Inv, NEW w \in Workers, worker[w].pc \in JobStages, NEW s \in ProviderStages,
           RunsNext(worker[w].pc, s) \/ UnsureNext(worker[w].pc, s)
    PROVE  /\ RunsNext(worker[w].pc, s) => Runs(w, Item(w), s)
           /\ UnsureNext(worker[w].pc, s) => Unsure(w, Item(w), s)
           /\ "stage" \notin deployment.outlived =>
                 /\ RunsNext(worker[w].pc, s) => stage[Item(w)][s].status = "PROCESSING"
                 /\ \A v \in Workers \ {w} : ~Owns(v, Item(w), s)
  <1>1. Item(w) \in Receipts /\ Working(w)
    BY ItemFacts DEF Inv, TypeInv
  <1>2. RunsNext(worker[w].pc, s) => Runs(w, Item(w), s)
    BY <1>1 DEF StageAt, At, RunsNext, ProviderStages, Runs
  <1>3. UnsureNext(worker[w].pc, s) => Unsure(w, Item(w), s)
    BY <1>1 DEF At, UnsureNext, Unsure
  <1>4. Owns(w, Item(w), s)
    BY <1>2, <1>3 DEF Owns
  <1>. QED
    BY <1>1, <1>2, <1>3, <1>4 DEF Inv, StageInv

\* The worker changes a stage that it has, as it fails, or the one of the image.
LEMMA OwnStage ==
    ASSUME Inv, NEW w \in Workers, NEW p \in JobStages \ OwningSteps, worker[w].pc \in JobStages,
           worker'[w].pc = p, NEW s \in Stages, NEW n \in StageRows,
           s \in ProviderStages => /\ RunsNext(worker[w].pc, s) \/ UnsureNext(worker[w].pc, s)
                                  /\ n.status \in {"FAILED_RETRYABLE", "FAILED_TERMINAL"}
                                  /\ p \in {"failed", "finalize"},
           n.status = "NONE" => n.attempts = 0,
           stage' = [stage EXCEPT ![Item(w)][s] = n], UNCHANGED deployment
    PROVE  StageChange(w, p)
  <1>. PICK r : r = Item(w)
    OBVIOUS
  <1>1. r \in Receipts
    BY ItemFacts DEF Inv, TypeInv
  <1>2. /\ StageTypes' /\ stage'[r][s] = n
        /\ \A q \in Receipts, t \in Stages : q # r \/ t # s => stage'[q][t] = stage[q][t]
    <2>1. StageTypes /\ stage' = [stage EXCEPT ![r][s] = n] /\ (n.status = "NONE" => n.attempts = 0)
      BY DEF Inv, TypeInv
    <2>. QED
      BY ONLY ZenonT(60), <1>1, <2>1, StageUpdate, s \in Stages, n \in StageRows
  <1>3. \A q \in Receipts, t \in ProviderStages : stage'[q][t] = stage[q][t] \/ (q = r /\ t = s)
    BY <1>2 DEF ProviderStages, Stages
  <1>4. \A q \in Receipts, t \in ProviderStages :
           "stage" \notin deployment.outlived => \/ stage'[q][t] = stage[q][t]
                                                 \/ \A v \in Workers \ {w} : ~Owns(v, q, t)
    <2>1. s \in ProviderStages /\ "stage" \notin deployment.outlived =>
              \A v \in Workers \ {w} : ~Owns(v, r, s)
      BY OwnsAlone
    <2>. QED
      BY <1>3, <2>1
  <1>5. StagesKept
    <2>. SUFFICES ASSUME s \in ProviderStages, stage[r][s].status = "COMPLETED"
                  PROVE  /\ n.status \in {"FAILED_RETRYABLE", "FAILED_TERMINAL"}
                         /\ worker'[w].pc \in {"failed", "finalize"}
                         /\ Unsure(w, r, s) \/ ("stage" \in deployment.outlived /\ Runs(w, r, s))
      BY <1>2, <1>3 DEF StagesKept
    <2>. QED
      BY OwnsAlone
  <1>6. \A t \in ProviderStages : ~RunsNext(p, t) /\ ~UnsureNext(p, t)
    BY DEF RunsNext, UnsureNext, OwningSteps
  <1>. QED
    BY <1>2, <1>4, <1>5, <1>6 DEF StageChange

\* The worker claims a stage that nobody runs.
LEMMA ClaimedStage ==
    ASSUME Inv, NEW w \in Workers, NEW p \in JobStages, worker[w].pc \in JobStages,
           NEW s \in Stages, \A t \in ProviderStages : ~UnsureNext(p, t) /\ (RunsNext(p, t) => t = s),
           StageClaimable(Item(w), s), ClaimStage(Item(w), s), UNCHANGED deployment
    PROVE  StageChange(w, p)
  <1>. PICK r : r = Item(w)
    OBVIOUS
  <1>. PICK n : n = [status |-> "PROCESSING", attempts |-> stage[r][s].attempts + 1, held |-> TRUE]
    OBVIOUS
  <1>1. r \in Receipts
    BY ItemFacts DEF Inv, TypeInv
  <1>2. n \in StageRows /\ n.status = "PROCESSING" /\ n.held
    <2>1. /\ stage[r][s].attempts \in 0 .. MaxStageAttempts
          /\ stage[r][s].status = "NONE" => stage[r][s].attempts = 0
      BY <1>1 DEF Inv, TypeInv, StageTypes, StageRows
    <2>2. stage[r][s].attempts < MaxStageAttempts
      BY <2>1, WorkflowAssumption DEF StageClaimable
    <2>3. stage[r][s].attempts + 1 \in 0 .. MaxStageAttempts
      BY <2>1, <2>2, WorkflowAssumption
    <2>. QED
      BY <2>3 DEF StageRows, StageStatuses
  <1>3. stage' = [stage EXCEPT ![r][s] = n]
    BY <1>1 DEF ClaimStage, Inv, TypeInv, StageTypes
  <1>4. /\ StageTypes' /\ stage'[r][s] = n
        /\ \A q \in Receipts, t \in Stages : q # r \/ t # s => stage'[q][t] = stage[q][t]
    <2>1. StageTypes
      BY DEF Inv, TypeInv
    <2>. QED
      BY ONLY ZenonT(60), <1>1, <1>2, <1>3, <2>1, StageUpdate, s \in Stages
  <1>5. s \in ProviderStages /\ "stage" \notin deployment.outlived => \A v \in Workers : ~Owns(v, r, s)
    BY <1>1 DEF Inv, StageInv, Owns, StageClaimable
  <1>6. StagesKept
    BY <1>4 DEF StagesKept, StageClaimable, ProviderStages, Stages
  <1>. QED
    BY <1>1, <1>2, <1>4, <1>5, <1>6 DEF StageChange, ProviderStages, Stages

\* A result is stored: the stages it completes are the worker's own.
LEMMA CompletedStages ==
    ASSUME Inv, NEW w \in Workers, NEW p \in JobStages, worker[w].pc \in JobStages, p \notin {"ocr", "gst"},
           NEW done, \A s \in done \cap ProviderStages : RunsNext(worker[w].pc, s),
           \A s \in ProviderStages : UnsureNext(p, s) => s \in done,
           Completed(Item(w), done), UNCHANGED deployment
    PROVE  StageChange(w, p)
  <1>. PICK r : r = Item(w)
    OBVIOUS
  <1>1. r \in Receipts
    BY ItemFacts DEF Inv, TypeInv
  <1>2. \A q \in Receipts, s \in Stages :
           stage'[q][s] = IF q = r /\ s \in done /\ stage[q][s].status # "NONE"
                          THEN [stage[q][s] EXCEPT !.status = "COMPLETED", !.held = FALSE]
                          ELSE stage[q][s]
    BY <1>1 DEF Completed, Inv, TypeInv, StageTypes
  <1>3. StageTypes'
    <2>1. \A q \in Receipts, s \in Stages :
             stage'[q][s] \in StageRows /\ (stage'[q][s].status = "NONE" => stage'[q][s].attempts = 0)
      <3>. SUFFICES ASSUME NEW q \in Receipts, NEW s \in Stages
                    PROVE  stage'[q][s] \in StageRows
                           /\ (stage'[q][s].status = "NONE" => stage'[q][s].attempts = 0)
        OBVIOUS
      <3>1. stage[q][s] \in StageRows /\ (stage[q][s].status = "NONE" => stage[q][s].attempts = 0)
        BY DEF Inv, TypeInv, StageTypes
      <3>2. CASE stage'[q][s] = stage[q][s]
        BY <3>1, <3>2
      <3>3. CASE stage'[q][s] = [stage[q][s] EXCEPT !.status = "COMPLETED", !.held = FALSE]
        BY <3>1, <3>3 DEF StageRows, StageStatuses
      <3>. QED
        BY <1>2, <3>2, <3>3
    <2>2. stage' \in [Receipts -> [Stages -> StageRows]]
      <3>1. stage' = [stage EXCEPT ![r] = [s \in Stages |-> stage'[r][s]]]
        BY <1>1 DEF Completed, Inv, TypeInv, StageTypes
      <3>2. [s \in Stages |-> stage'[r][s]] \in [Stages -> StageRows]
        BY <1>1, <2>1
      <3>. QED
        BY <3>1, <3>2 DEF Inv, TypeInv, StageTypes
    <2>. QED
      BY <2>1, <2>2 DEF StageTypes
  <1>4. \A s \in done \cap ProviderStages : "stage" \notin deployment.outlived =>
           /\ stage[r][s].status = "PROCESSING"
           /\ \A v \in Workers \ {w} : ~Owns(v, r, s)
    BY OwnsAlone
  <1>5. \A q \in Receipts, s \in ProviderStages :
           stage'[q][s] = stage[q][s] \/ (q = r /\ s \in done /\ stage'[q][s].status = "COMPLETED")
    <2>. SUFFICES ASSUME NEW q \in Receipts, NEW s \in ProviderStages, stage'[q][s] # stage[q][s]
                  PROVE  q = r /\ s \in done /\ stage'[q][s].status = "COMPLETED"
      OBVIOUS
    <2>1. /\ q = r /\ s \in done
          /\ stage'[q][s] = [stage[q][s] EXCEPT !.status = "COMPLETED", !.held = FALSE]
      BY <1>2 DEF ProviderStages, Stages
    <2>2. stage[q][s] \in StageRows
      BY DEF Inv, TypeInv, StageTypes, ProviderStages, Stages
    <2>. QED
      BY <2>1, <2>2 DEF StageRows
  <1>6. StagesKept
    BY <1>5 DEF StagesKept
  <1>7. \A s \in ProviderStages : ~RunsNext(p, s)
    BY DEF RunsNext
  <1>8. "stage" \notin deployment.outlived => \A s \in ProviderStages :
           UnsureNext(p, s) => /\ stage'[r][s].status = "COMPLETED"
                               /\ \A v \in Workers \ {w} : ~Owns(v, r, s)
    <2>. SUFFICES ASSUME "stage" \notin deployment.outlived, NEW s \in ProviderStages, UnsureNext(p, s)
                  PROVE  /\ stage'[r][s].status = "COMPLETED"
                         /\ \A v \in Workers \ {w} : ~Owns(v, r, s)
      OBVIOUS
    <2>1. s \in done /\ stage[r][s].status = "PROCESSING" /\ s \in Stages
      BY <1>4 DEF ProviderStages, Stages
    <2>2. stage'[r][s] = [stage[r][s] EXCEPT !.status = "COMPLETED", !.held = FALSE]
      BY <1>1, <1>2, <2>1
    <2>3. stage[r][s] \in StageRows
      BY <1>1, <2>1 DEF Inv, TypeInv, StageTypes
    <2>. QED
      BY <1>4, <2>1, <2>2, <2>3 DEF StageRows
  <1>9. "stage" \notin deployment.outlived => \A q \in Receipts, s \in ProviderStages :
           stage'[q][s] = stage[q][s] \/ \A v \in Workers \ {w} : ~Owns(v, q, s)
    BY <1>4, <1>5
  <1>. QED
    BY <1>3, <1>6, <1>7, <1>8, <1>9 DEF StageChange

\* Result v of receipt q is published, and nothing else is.
ResultAdded(q, v) ==
    /\ v = row[q].version + 1
    /\ \A r \in Receipts, u \in Versions : Published(r, u)' <=> Published(r, u) \/ (r = q /\ u = v)

\* A final row is stored with the callback that tells of it.
LEMMA FinalRow ==
    ASSUME Inv, NEW w \in Workers, NEW p \in JobStages, Item(w)' = Item(w), deployment' = deployment,
           NEW r \in Receipts, r = Item(w), NEW n \in Rows, n.version = row[r].version + 1,
           n.version \in Versions, n.status \in Results, row' = [row EXCEPT ![r] = n],
           outbox' \in [Events -> EventRows],
           outbox'[Event(r, "CALLBACK", n.version)] = NewEvent(n.status),
           \A e \in Events : \/ e = Event(r, "CALLBACK", n.version)
                             \/ outbox'[e] = outbox[e]
                             \/ e.kind = "CREDIT" /\ outbox'[e].status # "NONE"
    PROVE  RowChange(w, p) /\ ResultAdded(r, n.version)
  <1>. PICK v : v = n.version
    OBVIOUS
  <1>. PICK c : c = Event(r, "CALLBACK", v)
    OBVIOUS
  <1>1. /\ v \in Versions /\ v \in Nat /\ v > 0 /\ v = row[r].version + 1 /\ row[r].version \in Nat
        /\ c \in Events
    BY EventFacts, OutboxAssumption DEF Versions, Inv, TypeInv, Rows
  <1>2. outbox'[c].status = "PENDING" /\ outbox'[c].result = n.status
    BY NewEventFacts
  <1>3. row'[r] = n /\ (\A q \in Receipts \ {r} : row'[q] = row[q]) /\ row' \in [Receipts -> Rows]
    BY DEF Inv, TypeInv
  <1>4. \A q \in Receipts, u \in Versions : q # r \/ u # v =>
            outbox'[Event(q, "CALLBACK", u)] = outbox[Event(q, "CALLBACK", u)]
    <2>. SUFFICES ASSUME NEW q \in Receipts, NEW u \in Versions, q # r \/ u # v
                  PROVE  outbox'[Event(q, "CALLBACK", u)] = outbox[Event(q, "CALLBACK", u)]
      OBVIOUS
    <2>1. Event(q, "CALLBACK", u) # c /\ Event(q, "CALLBACK", u).kind = "CALLBACK"
      BY DEF Event
    <2>. QED
      BY <2>1, EventFacts
  <1>5. EventsKept /\ \A q \in Receipts : QueueEvent(q)' = QueueEvent(q)
    <2>1. \A q \in Receipts : LET e == Event(q, "QUEUE", 1) IN e \in Events /\ e # c /\ e.kind = "QUEUE"
      BY EventFacts DEF Event
    <2>2. \A q \in Receipts : QueueEvent(q)' = QueueEvent(q)
      BY <2>1 DEF QueueEvent
    <2>. QED
      BY <1>2, <2>2 DEF EventsKept
  <1>6. \A q \in Receipts, u \in Versions : Published(q, u)' <=> Published(q, u) \/ (q = r /\ u = v)
    BY <1>2, <1>4 DEF Published
  <1>7. HasResult(r)' /\ \A q \in Receipts : HasResult(q) => HasResult(q)'
    BY <1>1, <1>6 DEF HasResult
  <1>8. RowInv'
    <2>. SUFFICES ASSUME NEW q \in Receipts
                  PROVE  /\ \A u \in Versions : Published(q, u)' => u <= row'[q].version
                         /\ row'[q].status \in Results =>
                               /\ row'[q].version \in Versions
                               /\ outbox'[Event(q, "CALLBACK", row'[q].version)].result = row'[q].status
                         /\ FinishedRow(q)' => HasResult(q)'
                         /\ row'[q].gst => row'[q].version > 0 /\ HasResult(q)'
      BY DEF RowInv
    <2>1. CASE q = r
      <3>1. \A u \in Versions : u <= row[r].version => u <= v
        BY <1>1 DEF Versions
      <3>2. \A u \in Versions : Published(r, u)' => u <= v
        BY <1>1, <1>6, <3>1 DEF Inv, RowInv
      <3>. QED
        BY <1>1, <1>2, <1>3, <1>7, <2>1, <3>2
    <2>2. CASE q # r
      <3>1. row'[q] = row[q] /\ (FinishedRow(q)' <=> FinishedRow(q))
        BY <1>3, <2>2 DEF FinishedRow
      <3>2. \A u \in Versions : /\ Published(q, u)' <=> Published(q, u)
                                /\ outbox'[Event(q, "CALLBACK", u)] = outbox[Event(q, "CALLBACK", u)]
        BY <1>4, <1>6, <2>2
      <3>. QED
        BY <1>7, <3>1, <3>2 DEF Inv, RowInv
    <2>. QED
      BY <2>1, <2>2
  <1>9. HasResult(Item(w))'
    BY <1>7
  <1>10. ResultAdded(r, v)
    BY <1>1, <1>6 DEF ResultAdded
  <1>. QED
    BY <1>1, <1>3, <1>5, <1>7, <1>8, <1>9, <1>10 DEF RowChange

\* OCR is stored, and the row waits for GST.
LEMMA OcrRow ==
    ASSUME Inv, NEW w \in Workers, NEW p \in JobStages \ WithoutRow, Item(w)' = Item(w), deployment' = deployment, deployment.gst,
           NEW r \in Receipts, r = Item(w), NEW n \in Rows, n.version = row[r].version + 1,
           n.status = "PROCESSING", n.gst = row[r].gst, row' = [row EXCEPT ![r] = n], outbox' = outbox
    PROVE  RowChange(w, p) /\ CallbacksKept
  <1>1. CallbacksKept /\ EventsKept /\ \A q \in Receipts : QueueEvent(q)' = QueueEvent(q)
    BY DEF CallbacksKept, EventsKept, QueueEvent
  <1>2. row'[r] = n /\ (\A q \in Receipts \ {r} : row'[q] = row[q]) /\ row' \in [Receipts -> Rows]
    BY DEF Inv, TypeInv
  <1>3. row[r].version \in Nat /\ n.version > 0 /\ n.version \in Nat /\ n.status \notin Results
    BY OutboxAssumption DEF Inv, TypeInv, Rows, Results
  <1>4. \A q \in Receipts : /\ \A v \in Versions : Published(q, v)' <=> Published(q, v)
                            /\ HasResult(q)' <=> HasResult(q)
    BY <1>1, ResultsKept
  <1>5. RowInv'
    <2>. SUFFICES ASSUME NEW q \in Receipts
                  PROVE  /\ \A u \in Versions : Published(q, u)' => u <= row'[q].version
                         /\ row'[q].status \in Results =>
                               /\ row'[q].version \in Versions
                               /\ outbox'[Event(q, "CALLBACK", row'[q].version)].result = row'[q].status
                         /\ FinishedRow(q)' => HasResult(q)'
                         /\ row'[q].gst => row'[q].version > 0 /\ HasResult(q)'
      BY DEF RowInv
    <2>1. CASE q = r
      <3>1. \A u \in Versions : u <= row[r].version => u <= n.version
        BY <1>3 DEF Versions
      <3>2. FinishedRow(r)' => n.gst
        BY <1>2 DEF FinishedRow
      <3>. QED
        BY <1>2, <1>3, <1>4, <2>1, <3>1, <3>2 DEF Inv, RowInv
    <2>2. CASE q # r
      <3>1. row'[q] = row[q] /\ (FinishedRow(q)' <=> FinishedRow(q))
        BY <1>2, <2>2 DEF FinishedRow
      <3>. QED
        BY <1>4, <3>1 DEF Inv, RowInv
    <2>. QED
      BY <2>1, <2>2
  <1>6. p \notin WithoutRow /\ p # "finished"
    BY DEF WithoutRow
  <1>. QED
    BY <1>1, <1>2, <1>3, <1>5, <1>6 DEF RowChange, Inv, TypeInv, OutboxTypes

\* What the outbox is after a callback, or a callback and a credit, was written.
LEMMA WrittenFacts ==
    ASSUME Inv, NEW r \in Receipts, NEW v \in Versions, v = row[r].version + 1, NEW t \in Results,
           NEW box, box = WithCallback(outbox, r, v, t)
    PROVE  /\ box \in [Events -> EventRows] /\ box[Event(r, "CALLBACK", v)] = NewEvent(t)
           /\ \A e \in Events : e = Event(r, "CALLBACK", v) \/ box[e] = outbox[e]
           /\ WithCredit(box, r, v) \in [Events -> EventRows]
           /\ \A e \in Events : \/ WithCredit(box, r, v)[e] = box[e]
                                \/ e.kind = "CREDIT" /\ WithCredit(box, r, v)[e].status # "NONE"
           /\ WithCredit(box, r, v)[Event(r, "CALLBACK", v)] = NewEvent(t)
  <1>. PICK c, d : c = Event(r, "CALLBACK", v) /\ d = Event(r, "CREDIT", v)
    OBVIOUS
  <1>1. c \in Events /\ d \in Events /\ c # d /\ d.kind = "CREDIT"
    BY EventFacts DEF Event
  <1>2. ~Published(r, v)
    <2>1. row[r].version \in Nat
      BY OutboxAssumption DEF Inv, TypeInv, Rows
    <2>2. ~(v <= row[r].version)
      BY <2>1
    <2>. QED
      BY <2>2 DEF Inv, RowInv
  <1>3. box = [outbox EXCEPT ![c] = NewEvent(t)]
    BY <1>2 DEF WithCallback, Published
  <1>4. NewEvent(t) \in EventRows /\ NewEvent("NONE") \in EventRows /\ NewEvent("NONE").status # "NONE"
    BY NewEventFacts
  <1>5. /\ box \in [Events -> EventRows] /\ box[c] = NewEvent(t)
        /\ \A e \in Events : e = c \/ box[e] = outbox[e]
    BY <1>1, <1>3, <1>4 DEF Inv, TypeInv, OutboxTypes
  <1>6. WithCredit(box, r, v) = box \/ WithCredit(box, r, v) = [box EXCEPT ![d] = NewEvent("NONE")]
    BY DEF WithCredit
  <1>. PICK both : both = WithCredit(box, r, v)
    OBVIOUS
  <1>7. CASE both = box
    BY <1>5, <1>7
  <1>8. CASE both = [box EXCEPT ![d] = NewEvent("NONE")]
    BY <1>1, <1>4, <1>5, <1>8
  <1>. QED
    BY <1>6, <1>7, <1>8

\* What a step of process_receipt_event keeps, and what it adds.
ProcessResult(w) ==
    /\ Inv' /\ StagesKept
    /\ CallbacksKept \/ \E v \in Versions : ResultAdded(Item(w), v)

\* The step leads to p, with nothing changed but rows, results and stages.
Advances(w, p) ==
    /\ p \in JobStages /\ worker[w].pc \in JobStages /\ Goto(w, p)
    /\ UNCHANGED <<deployment, queue, delivery, receipt>> /\ faults' \in 0 .. deployment.faults

\* Such a step keeps the invariant when its changes of stages and rows do.
LEMMA AdvanceKeeps ==
    ASSUME Inv, NEW w \in Workers, NEW p, Advances(w, p), StageChange(w, p), RowChange(w, p)
    PROVE  Inv' /\ StagesKept
  BY ProcessKeeps DEF Advances, StageChange

\* The worker keeps its receipt.
LEMMA AdvanceFacts ==
    ASSUME Inv, NEW w \in Workers, NEW p, Advances(w, p)
    PROVE  Item(w)' = Item(w) /\ Item(w) \in Receipts /\ worker'[w].pc = p
  BY WorkerGoesOn, ItemFacts DEF Advances, Inv, TypeInv

\* The steps that only look at rows and stages.
LEMMA LookSteps ==
    ASSUME Inv, NEW w \in Workers, NEW p, Advances(w, p), UNCHANGED <<outbox, stores>>,
           p \notin OwningSteps, p = "finished" => row[Item(w)].version > 0,
           p \in WithoutRow /\ worker[w].pc \notin WithoutRow =>
               HasResult(Item(w)) \/ row[Item(w)].version = 0
    PROVE  ProcessResult(w)
  <1>1. StageChange(w, p)
    BY StageRests DEF Advances, stores
  <1>2. RowChange(w, p) /\ CallbacksKept
    BY RowRests, AdvanceFacts DEF Advances, stores
  <1>. QED
    BY <1>1, <1>2, AdvanceKeeps DEF ProcessResult

\* The steps that change stages only.
LEMMA StageSteps ==
    ASSUME Inv, NEW w \in Workers, NEW p, Advances(w, p), UNCHANGED <<outbox, row>>,
           p # "finished", p \in WithoutRow => worker[w].pc \in WithoutRow, StageChange(w, p)
    PROVE  ProcessResult(w)
  <1>1. RowChange(w, p) /\ CallbacksKept
    BY RowRests, AdvanceFacts DEF Advances
  <1>. QED
    BY <1>1, AdvanceKeeps DEF ProcessResult

\* process_receipt_event begins: it looks at the row of the receipt.
LEMMA BeginStep ==
    ASSUME Inv, NEW w \in Workers, Begin(w), UNCHANGED <<deployment, queue, faults>>
    PROVE  ProcessResult(w)
  <1>. PICK p : p = IF FinishedRow(Item(w)) THEN "finished"
                    ELSE IF row[Item(w)].version = 0 THEN "image" ELSE "gstClaim"
    OBVIOUS
  <1>1. Advances(w, p) /\ UNCHANGED <<outbox, stores>> /\ p \notin OwningSteps
    BY DEF Begin, At, OwningSteps, Advances, JobStages, outboxVars, Inv, TypeInv
  <1>2. Item(w) \in Receipts
    BY <1>1, AdvanceFacts
  <1>3. FinishedRow(Item(w)) => row[Item(w)].version > 0 /\ HasResult(Item(w))
    BY <1>2 DEF FinishedRow, Inv, RowInv
  <1>. QED
    BY <1>1, <1>3, LookSteps DEF WithoutRow

\* It looks whether the image has been taken already.
LEMMA LookAtImageStep ==
    ASSUME Inv, NEW w \in Workers, LookAtImageStage(w), UNCHANGED <<deployment, queue, faults>>
    PROVE  ProcessResult(w)
  <1>1. PICK p \in {"fetch", "imageClaim"} : Advances(w, p)
    BY DEF LookAtImageStage, At, Advances, JobStages, outboxVars, Inv, TypeInv
  <1>2. UNCHANGED <<outbox, stores>> /\ worker[w].pc \in WithoutRow /\ p \notin OwningSteps
    BY DEF LookAtImageStage, At, outboxVars, WithoutRow, OwningSteps
  <1>. QED
    BY <1>1, <1>2, LookSteps

\* It is refused a stage, and what is on record decides how it goes on.
LEMMA DeniedSteps ==
    ASSUME Inv, NEW w \in Workers, OcrDenied(w) \/ GstDenied(w), UNCHANGED <<deployment, queue, faults>>
    PROVE  ProcessResult(w)
  <1>1. PICK p \in {"finished", "failed"} : Goto(w, p) /\ (p = "finished" =>
           \/ At(w, "ocrDenied") /\ row[Item(w)].version > 0
           \/ At(w, "gstDenied") /\ row[Item(w)].gst)
    BY DEF OcrDenied, GstDenied
  <1>2. Advances(w, p) /\ UNCHANGED <<outbox, stores>>
    BY <1>1 DEF OcrDenied, GstDenied, At, Advances, JobStages, outboxVars, Inv, TypeInv
  <1>3. Item(w) \in Receipts
    BY <1>2, AdvanceFacts
  <1>4. row[Item(w)].gst => row[Item(w)].version > 0 /\ HasResult(Item(w))
    BY <1>3 DEF Inv, RowInv
  <1>. QED
    BY <1>1, <1>2, <1>4, LookSteps DEF WithoutRow, OwningSteps, At

\* A claim of a stage, granted or not.
LEMMA ClaimSteps ==
    ASSUME Inv, NEW w \in Workers, ClaimImageStage(w) \/ ClaimOcrStage(w) \/ ClaimGstStage(w),
           UNCHANGED <<deployment, queue, faults>>
    PROVE  ProcessResult(w)
  <1>1. PICK at \in {"imageClaim", "ocrClaim", "gstClaim"}, s \in Stages,
             next \in {"fetch", "ocr", "gst"}, denied \in {"failed", "ocrDenied", "gstDenied"} :
          /\ TryStage(w, at, s, next, denied)
          /\ \A t \in ProviderStages : ~UnsureNext(next, t) /\ (RunsNext(next, t) => t = s)
          /\ next \in WithoutRow => at \in WithoutRow
          /\ denied \in WithoutRow => at \in WithoutRow
    <2>1. CASE ClaimImageStage(w)
      <3>1. \A t \in ProviderStages : ~UnsureNext("fetch", t) /\ (RunsNext("fetch", t) => t = "IMAGE_FETCH")
        BY DEF RunsNext, UnsureNext
      <3>. QED
        BY <2>1, <3>1 DEF ClaimImageStage, Stages, WithoutRow
    <2>2. CASE ClaimOcrStage(w)
      <3>1. \A t \in ProviderStages : ~UnsureNext("ocr", t) /\ (RunsNext("ocr", t) => t = "OCR")
        BY DEF RunsNext, UnsureNext
      <3>. QED
        BY <2>2, <3>1 DEF ClaimOcrStage, Stages, WithoutRow
    <2>3. CASE ClaimGstStage(w)
      <3>1. \A t \in ProviderStages : ~UnsureNext("gst", t) /\ (RunsNext("gst", t) => t = "GST")
        BY DEF RunsNext, UnsureNext
      <3>. QED
        BY <2>3, <3>1 DEF ClaimGstStage, Stages, WithoutRow
    <2>. QED
      BY <2>1, <2>2, <2>3
  <1>2. worker[w].pc = at /\ UNCHANGED <<outbox, delivery, receipt, row>> /\ faults' \in 0 .. deployment.faults
    BY <1>1 DEF TryStage, At, outboxVars, Inv, TypeInv
  <1>3. CASE StageClaimable(Item(w), s) /\ ClaimStage(Item(w), s) /\ Goto(w, next)
    <2>1. Advances(w, next)
      BY <1>2, <1>3 DEF Advances, JobStages
    <2>2. StageChange(w, next)
      BY <1>1, <1>3, <2>1, ClaimedStage DEF Advances
    <2>. QED
      BY <1>1, <1>2, <2>1, <2>2, StageSteps
  <1>4. CASE Goto(w, denied) /\ UNCHANGED stage
    <2>1. Advances(w, denied)
      BY <1>2, <1>4 DEF Advances, JobStages
    <2>2. StageChange(w, denied)
      BY <1>4, <2>1, StageRests DEF Advances, OwningSteps
    <2>. QED
      BY <1>1, <1>2, <2>1, <2>2, StageSteps
  <1>. QED
    BY <1>1, <1>3, <1>4 DEF TryStage

\* The image was fetched.
LEMMA ImageStep ==
    ASSUME Inv, NEW w \in Workers, NEW p \in {"ocrClaim", "imageUnanswered"}, FetchImage(w, p),
           UNCHANGED <<deployment, queue>>, faults' \in 0 .. deployment.faults
    PROVE  ProcessResult(w)
  <1>. PICK r, s : r = Item(w) /\ s = "IMAGE_FETCH"
    OBVIOUS
  <1>1. /\ worker[w].pc = "fetch" /\ Advances(w, p) /\ UNCHANGED <<outbox, row>>
        /\ CompleteStage(r, s)
    BY DEF FetchImage, At, Advances, JobStages, outboxVars
  <1>2. r \in Receipts /\ s \in Stages /\ s \notin ProviderStages
    BY <1>1, AdvanceFacts DEF Stages, ProviderStages
  <1>3. stage[r][s] \in StageRows /\ (stage[r][s].status = "NONE" => stage[r][s].attempts = 0)
    BY <1>2 DEF Inv, TypeInv, StageTypes
  <1>. PICK n : n = IF stage[r][s].status = "PROCESSING"
                    THEN [stage[r][s] EXCEPT !.status = "COMPLETED", !.held = FALSE] ELSE stage[r][s]
    OBVIOUS
  <1>4. n \in StageRows /\ (n.status = "NONE" => n.attempts = 0)
    BY <1>3 DEF StageRows, StageStatuses
  <1>5. stage' = [stage EXCEPT ![r][s] = n]
    BY <1>1, <1>2 DEF CompleteStage, Inv, TypeInv, StageTypes
  <1>6. StageChange(w, p)
    BY <1>1, <1>2, <1>4, <1>5, AdvanceFacts, OwnStage DEF Advances, OwningSteps
  <1>. QED
    BY <1>1, <1>6, StageSteps DEF WithoutRow

\* A stage failed, for good or not.
LEMMA FailedStage ==
    ASSUME Inv, NEW w \in Workers, NEW p, Advances(w, p), UNCHANGED <<outbox, row>>,
           p \in {"finalize", "failed"}, NEW s \in Stages, NEW terminal \in BOOLEAN,
           FailStage(Item(w), s, terminal),
           s \in ProviderStages => RunsNext(worker[w].pc, s) \/ UnsureNext(worker[w].pc, s)
    PROVE  ProcessResult(w)
  <1>. PICK r : r = Item(w)
    OBVIOUS
  <1>1. r \in Receipts
    BY AdvanceFacts
  <1>2. stage[r][s] \in StageRows
    BY <1>1 DEF Inv, TypeInv, StageTypes
  <1>3. PICK x \in {"FAILED_TERMINAL", "FAILED_RETRYABLE"} :
          x = IF FailsForGood(r, s, terminal) THEN "FAILED_TERMINAL" ELSE "FAILED_RETRYABLE"
    OBVIOUS
  <1>. PICK n : n = [stage[r][s] EXCEPT !.held = FALSE, !.status = x]
    OBVIOUS
  <1>4. n \in StageRows /\ n.status = x /\ (n.status = "NONE" => n.attempts = 0)
    BY <1>2 DEF StageRows, StageStatuses
  <1>5. stage' = [stage EXCEPT ![r][s] = n]
    BY <1>1, <1>3 DEF FailStage, Inv, TypeInv, StageTypes
  <1>6. p \in JobStages \ OwningSteps /\ worker[w].pc \in JobStages /\ worker'[w].pc = p
        /\ deployment' = deployment
    BY AdvanceFacts DEF Advances, OwningSteps
  <1>7. StageChange(w, p)
    BY <1>3, <1>4, <1>5, <1>6, OwnStage
  <1>. QED
    BY <1>7, StageSteps DEF WithoutRow

\* A provider fails, a COMMIT was not answered or the image is no image: the
\* stage says so.
LEMMA FailSteps ==
    ASSUME Inv, NEW w \in Workers, UNCHANGED <<deployment, queue, faults>>,
           \/ ImageInvalid(w) \/ ProviderFails(w, "fetch", "IMAGE_FETCH")
           \/ ProviderFails(w, "ocr", "OCR") \/ ProviderFails(w, "gst", "GST")
           \/ ProviderFails(w, "imageUnanswered", "IMAGE_FETCH")
           \/ ProviderFails(w, "ocrUnanswered", "OCR") \/ ProviderFails(w, "gstUnanswered", "GST")
    PROVE  ProcessResult(w)
  <1>. DEFINE Fails(at, s, terminal, p) ==
                 /\ At(w, at) /\ FailStage(Item(w), s, terminal) /\ Goto(w, p) /\ UNCHANGED <<outboxVars, row>>
  <1>1. ASSUME NEW at \in {"fetch"} \cup OwningSteps \cup {"imageUnanswered"}, NEW s \in Stages,
               NEW terminal \in BOOLEAN, NEW p \in {"finalize", "failed"}, Fails(at, s, terminal, p),
               s \in ProviderStages => RunsNext(at, s) \/ UnsureNext(at, s)
        PROVE  ProcessResult(w)
    <2>1. Advances(w, p) /\ UNCHANGED <<outbox, row>> /\ worker[w].pc = at
      BY <1>1 DEF At, Advances, JobStages, OwningSteps, outboxVars, Inv, TypeInv
    <2>. QED
      BY <1>1, <2>1, FailedStage
  <1>2. CASE ImageInvalid(w)
    <2>1. Fails("fetch", "IMAGE_FETCH", TRUE, "finalize") /\ "IMAGE_FETCH" \in Stages \ ProviderStages
      BY <1>2 DEF ImageInvalid, Stages, ProviderStages
    <2>. QED
      BY <1>1, <2>1
  <1>3. ASSUME NEW at \in {"fetch"} \cup OwningSteps \cup {"imageUnanswered"}, NEW s \in Stages,
               ProviderFails(w, at, s), s \in ProviderStages => RunsNext(at, s) \/ UnsureNext(at, s)
        PROVE  ProcessResult(w)
    <2>1. \E p \in {"finalize", "failed"} : Fails(at, s, FALSE, p)
      BY <1>3 DEF ProviderFails
    <2>. QED
      BY <1>1, <1>3, <2>1
  <1>4. CASE ProviderFails(w, "fetch", "IMAGE_FETCH") \/ ProviderFails(w, "imageUnanswered", "IMAGE_FETCH")
    <2>1. "IMAGE_FETCH" \in Stages \ ProviderStages
      BY DEF Stages, ProviderStages
    <2>. QED
      BY <1>3, <1>4, <2>1
  <1>5. CASE ProviderFails(w, "ocr", "OCR") \/ ProviderFails(w, "ocrUnanswered", "OCR")
    <2>1. /\ "OCR" \in Stages /\ {"ocr", "ocrUnanswered"} \subseteq OwningSteps
          /\ RunsNext("ocr", "OCR") /\ UnsureNext("ocrUnanswered", "OCR")
      BY DEF Stages, OwningSteps, RunsNext, UnsureNext
    <2>. QED
      BY <1>3, <1>5, <2>1
  <1>6. CASE ProviderFails(w, "gst", "GST") \/ ProviderFails(w, "gstUnanswered", "GST")
    <2>1. /\ "GST" \in Stages /\ {"gst", "gstUnanswered"} \subseteq OwningSteps
          /\ RunsNext("gst", "GST") /\ UnsureNext("gstUnanswered", "GST")
      BY DEF Stages, OwningSteps, RunsNext, UnsureNext
    <2>. QED
      BY <1>3, <1>6, <2>1
  <1>. QED
    BY <1>2, <1>4, <1>5, <1>6

\* A final row was stored by the worker.
LEMMA FinalSteps ==
    ASSUME Inv, NEW w \in Workers, NEW p \in JobStages, Advances(w, p), StageChange(w, p),
           NEW t \in Results, row[Item(w)].version + 1 \in Versions,
           NEW n \in Rows, n.version = row[Item(w)].version + 1, n.status = t,
           row' = [row EXCEPT ![Item(w)] = n],
           LET box == WithCallback(outbox, Item(w), row[Item(w)].version + 1, t)
           IN  outbox' = box \/ outbox' = WithCredit(box, Item(w), row[Item(w)].version + 1)
    PROVE  ProcessResult(w)
  <1>. PICK r, v : r = Item(w) /\ v = row[r].version + 1
    OBVIOUS
  <1>. PICK box : box = WithCallback(outbox, r, v, t)
    OBVIOUS
  <1>1. r \in Receipts /\ Item(w)' = Item(w) /\ v \in Versions
    BY AdvanceFacts
  <1>2. n.version = v /\ n.status = t
    OBVIOUS
  <1>3. /\ box \in [Events -> EventRows] /\ box[Event(r, "CALLBACK", v)] = NewEvent(t)
        /\ \A e \in Events : e = Event(r, "CALLBACK", v) \/ box[e] = outbox[e]
        /\ WithCredit(box, r, v) \in [Events -> EventRows]
        /\ \A e \in Events : \/ WithCredit(box, r, v)[e] = box[e]
                             \/ e.kind = "CREDIT" /\ WithCredit(box, r, v)[e].status # "NONE"
        /\ WithCredit(box, r, v)[Event(r, "CALLBACK", v)] = NewEvent(t)
    BY <1>1, WrittenFacts
  <1>4. outbox' = box \/ outbox' = WithCredit(box, r, v)
    OBVIOUS
  <1>5. /\ outbox' \in [Events -> EventRows] /\ outbox'[Event(r, "CALLBACK", v)] = NewEvent(t)
        /\ \A e \in Events : \/ e = Event(r, "CALLBACK", v)
                             \/ outbox'[e] = outbox[e]
                             \/ e.kind = "CREDIT" /\ outbox'[e].status # "NONE"
    <2>1. CASE outbox' = box
      BY <1>3, <2>1
    <2>2. CASE outbox' = WithCredit(box, r, v)
      BY <1>3, <2>2
    <2>. QED
      BY <1>4, <2>1, <2>2
  <1>6. row' = [row EXCEPT ![r] = n] /\ deployment' = deployment
    BY DEF Advances
  <1>7. RowChange(w, p) /\ ResultAdded(r, v)
    <2>1. /\ r = Item(w) /\ n.version = row[r].version + 1 /\ n.version \in Versions /\ n.status \in Results
          /\ outbox'[Event(r, "CALLBACK", n.version)] = NewEvent(n.status)
          /\ \A e \in Events : \/ e = Event(r, "CALLBACK", n.version)
                               \/ outbox'[e] = outbox[e]
                               \/ e.kind = "CREDIT" /\ outbox'[e].status # "NONE"
      BY <1>1, <1>2, <1>5
    <2>2. RowChange(w, p) /\ ResultAdded(r, n.version)
      BY ONLY ZenonT(60), Inv, w \in Workers, p \in JobStages, n \in Rows, <1>1, <1>5, <1>6, <2>1, FinalRow
    <2>. QED
      BY <1>2, <2>2
  <1>. QED
    BY <1>1, <1>7, AdvanceKeeps DEF ProcessResult

\* OCR is stored.
LEMMA SaveOcrStep ==
    ASSUME Inv, NEW w \in Workers, NEW p \in {"gstClaim", "finished", "ocrUnanswered"}, SaveOcrTo(w, p),
           p = "finished" => ~deployment.gst,
           UNCHANGED <<deployment, queue>>, faults' \in 0 .. deployment.faults
    PROVE  ProcessResult(w)
  <1>. PICK r, v : r = Item(w) /\ v = row[r].version + 1
    OBVIOUS
  <1>1. PICK t \in IF deployment.gst THEN {"PROCESSING"} ELSE {"READY_FOR_REVIEW", "NEEDS_HUMAN_REVIEW"} :
          /\ row' = [row EXCEPT ![r].version = v, ![r].status = t]
          /\ outbox' = IF deployment.gst THEN outbox ELSE WithCallback(outbox, r, v, t)
    BY DEF SaveOcrTo, NextVersion
  <1>2. /\ Advances(w, p) /\ v \in Versions /\ Completed(r, {"IMAGE_FETCH", "OCR"})
        /\ worker[w].pc = "ocr"
    BY DEF SaveOcrTo, NextVersion, At, Advances, JobStages
  <1>3. r \in Receipts /\ Item(w)' = Item(w)
    BY <1>2, AdvanceFacts
  <1>4. StageChange(w, p)
    <2>1. \A s \in {"IMAGE_FETCH", "OCR"} \cap ProviderStages : RunsNext(worker[w].pc, s)
      BY <1>2 DEF RunsNext, ProviderStages
    <2>2. \A s \in ProviderStages : UnsureNext(p, s) => s \in {"IMAGE_FETCH", "OCR"}
      BY DEF UnsureNext
    <2>. QED
      BY <1>2, <2>1, <2>2, CompletedStages DEF Advances
  <1>5. row[r] \in Rows
    BY <1>3 DEF Inv, TypeInv
  <1>. PICK n : n = [row[r] EXCEPT !.version = v, !.status = t]
    OBVIOUS
  <1>6. row' = [row EXCEPT ![r] = n]
    BY <1>1, <1>3 DEF Inv, TypeInv
  <1>9. n \in Rows /\ n.version = v /\ n.status = t /\ n.gst = row[r].gst
    <2>1. v \in 0 .. MaxVersion
      BY <1>2, OutboxAssumption DEF Versions
    <2>2. t \in Results \cup {"NONE", "PROCESSING"}
      BY <1>1 DEF Results
    <2>. QED
      BY <1>5, <2>1, <2>2 DEF Rows
  <1>7. CASE deployment.gst
    <2>1. n.version = row[r].version + 1 /\ n.status = "PROCESSING" /\ outbox' = outbox
      BY <1>1, <1>7, <1>9
    <2>2. deployment' = deployment
      BY <1>2 DEF Advances
    <2>3. RowChange(w, p) /\ CallbacksKept
      <3>1. p \in JobStages \ WithoutRow
        BY <1>2, <1>7 DEF Advances, WithoutRow
      <3>. QED
        BY <1>3, <1>6, <1>7, <1>9, <2>1, <2>2, <3>1, OcrRow
    <2>. QED
      BY <1>2, <1>4, <1>7, <2>3, AdvanceKeeps DEF ProcessResult
  <1>8. CASE ~deployment.gst
    <2>1. t \in Results /\ row[r].gst \in BOOLEAN
      BY <1>5, <1>8 DEF Results, Rows
    <2>2. outbox' = WithCallback(outbox, r, v, t)
      BY <1>1, <1>8
    <2>. QED
      BY <1>2, <1>4, <1>6, <1>8, <1>9, <2>1, <2>2, FinalSteps DEF Advances
  <1>. QED
    BY <1>7, <1>8

\* GST is stored.
LEMMA SaveGstStep ==
    ASSUME Inv, NEW w \in Workers, NEW p \in {"finished", "gstUnanswered"}, SaveGstTo(w, p),
           UNCHANGED <<deployment, queue>>, faults' \in 0 .. deployment.faults
    PROVE  ProcessResult(w)
  <1>. PICK r, v : r = Item(w) /\ v = row[r].version + 1
    OBVIOUS
  <1>1. PICK t \in {"VERIFIED_GST", "GST_ANOMALY", "NEEDS_HUMAN_REVIEW"} :
          /\ row' = [row EXCEPT ![r] = [version |-> v, gst |-> TRUE, status |-> t]]
          /\ LET box == WithCallback(outbox, r, v, t)
             IN  outbox' = box \/ outbox' = WithCredit(box, r, v)
    BY DEF SaveGstTo, NextVersion
  <1>. PICK n : n = [version |-> v, gst |-> TRUE, status |-> t]
    OBVIOUS
  <1>2. /\ Advances(w, p) /\ v \in Versions /\ Completed(r, {"GST"})
        /\ worker[w].pc = "gst"
    BY DEF SaveGstTo, NextVersion, At, Advances, JobStages
  <1>3. StageChange(w, p)
    <2>1. \A s \in {"GST"} \cap ProviderStages : RunsNext(worker[w].pc, s)
      BY <1>2 DEF RunsNext
    <2>2. \A s \in ProviderStages : UnsureNext(p, s) => s \in {"GST"}
      BY DEF UnsureNext
    <2>. QED
      BY <1>2, <2>1, <2>2, CompletedStages DEF Advances
  <1>4. t \in Results /\ n \in Rows /\ n.version = v /\ n.status = t
    <2>1. v \in 0 .. MaxVersion
      BY <1>2, OutboxAssumption DEF Versions
    <2>. QED
      BY <2>1 DEF Results, Rows
  <1>. QED
    BY <1>1, <1>2, <1>3, <1>4, FinalSteps DEF Advances

\* The receipt is routed to a reviewer without a result of the provider.
LEMMA FinalizeStep ==
    ASSUME Inv, NEW w \in Workers, Finalize(w), UNCHANGED <<deployment, queue, faults>>
    PROVE  ProcessResult(w)
  <1>. PICK r, v, t : r = Item(w) /\ v = row[r].version + 1 /\ t = "NEEDS_HUMAN_REVIEW"
    OBVIOUS
  <1>1. /\ row' = [row EXCEPT ![r].version = v, ![r].status = t]
        /\ outbox' = WithCallback(outbox, r, v, t)
    BY DEF Finalize, NextVersion
  <1>2. Advances(w, "finished") /\ v \in Versions /\ stage' = stage
    BY DEF Finalize, NextVersion, At, Advances, JobStages, Inv, TypeInv
  <1>3. r \in Receipts
    BY <1>2, AdvanceFacts
  <1>4. StageChange(w, "finished")
    BY <1>2, StageRests DEF Advances, OwningSteps
  <1>. PICK n : n = [row[r] EXCEPT !.version = v, !.status = t]
    OBVIOUS
  <1>5. row[r] \in Rows
    BY <1>3 DEF Inv, TypeInv
  <1>6. row' = [row EXCEPT ![r] = n]
    BY <1>1, <1>3 DEF Inv, TypeInv
  <1>7. t \in Results /\ n \in Rows /\ n.version = v /\ n.status = t
    <2>1. v \in 0 .. MaxVersion
      BY <1>2, OutboxAssumption DEF Versions
    <2>. QED
      BY <1>5, <2>1 DEF Results, Rows
  <1>. QED
    BY <1>1, <1>2, <1>4, <1>5, <1>6, <1>7, FinalSteps DEF Advances

\* Every step of process_receipt_event.
LEMMA ProcessSteps ==
    ASSUME Inv, NEW w \in Workers, ProcessStep(w), UNCHANGED faults
    PROVE  ProcessResult(w) /\ UNCHANGED receipt
  <1>1. UNCHANGED <<deployment, queue, faults>>
    BY DEF ProcessStep
  <1>2. ProcessResult(w)
    <2>1. faults' \in 0 .. deployment.faults
      BY DEF Inv, TypeInv
    <2>2. ImageFetched(w) \/ SaveOcr(w) \/ SaveGst(w) => ProcessResult(w)
      BY <1>1, <2>1, ImageStep, SaveOcrStep, SaveGstStep DEF ImageFetched, SaveOcr, SaveGst
    <2>. QED
      BY <1>1, <2>2, BeginStep, LookAtImageStep, DeniedSteps, ClaimSteps, FailSteps, FinalizeStep
         DEF ProcessStep
  <1>3. UNCHANGED receipt
    BY DEF ProcessStep, Begin, LookAtImageStage, ClaimImageStage, ClaimOcrStage, ClaimGstStage, TryStage,
       ImageFetched, FetchImage, ImageInvalid, ProviderFails, OcrDenied, GstDenied, SaveOcr, SaveOcrTo,
       SaveGst, SaveGstTo, Finalize, outboxVars
  <1>. QED
    BY <1>2, <1>3

\* A worker dies, a database call raises, or a COMMIT is not answered.
LEMMA FaultStep ==
    ASSUME Inv, NEW w \in Workers, Fault(w)
    PROVE  /\ Inv' /\ StagesKept /\ UNCHANGED receipt
           /\ CallbacksKept \/ (Item(w) \in Receipts /\ \E v \in Versions : ResultAdded(Item(w), v))
  <1>1. UNCHANGED <<deployment, queue>> /\ faults < deployment.faults /\ faults' = faults + 1
    BY DEF Fault
  <1>2. faults' \in 0 .. deployment.faults
    BY <1>1, QueueAssumption DEF Inv, TypeInv, QueueTypeOK
  <1>3. CASE (Crash(w) \/ DatabaseError(w)) /\ UNCHANGED <<outboxVars, stores>>
    <2>1. StagesKept /\ CallbacksKept /\ UNCHANGED receipt
      BY <1>3 DEF StagesKept, stores, CallbacksKept, outboxVars
    <2>2. CASE Crash(w)
      <3>1. /\ queue' \in [Receipts -> [Slots -> Messages]] /\ MessageShape'
            /\ \A r \in Receipts : Sent(r) => Sent(r)'
        BY <1>1 DEF Inv, TypeInv, QueueTypeOK, MessageShape, Sent
      <3>2. LetsGo(w)
        BY <1>1 DEF LetsGo
      <3>. QED
        BY <1>1, <1>2, <1>3, <2>1, <2>2, <3>1, <3>2, RestartKeeps DEF Crash, ToDispatch
    <2>3. CASE DatabaseError(w)
      <3>1. worker[w].pc \in JobStages /\ Goto(w, "failed")
        BY <2>3, ItemFacts DEF DatabaseError, Inv, TypeInv
      <3>2. Advances(w, "failed") /\ UNCHANGED <<outbox, stores>>
        BY <1>1, <1>2, <1>3, <3>1 DEF Advances, JobStages, outboxVars
      <3>3. ProcessResult(w)
        BY <3>2, LookSteps DEF WithoutRow, OwningSteps
      <3>. QED
        BY <2>1, <3>3 DEF ProcessResult
    <2>. QED
      BY <1>3, <2>2, <2>3
  <1>4. CASE CommitUnanswered(w)
    <2>1. ProcessResult(w)
      BY <1>1, <1>2, <1>4, ImageStep, SaveOcrStep, SaveGstStep DEF CommitUnanswered
    <2>2. worker[w].pc \in JobStages /\ UNCHANGED receipt
      BY <1>4 DEF CommitUnanswered, FetchImage, SaveOcrTo, SaveGstTo, At, JobStages, outboxVars
    <2>3. Item(w) \in Receipts
      BY <2>2, ItemFacts DEF Inv, TypeInv
    <2>. QED
      BY <2>1, <2>2, <2>3 DEF ProcessResult
  <1>. QED
    BY <1>3, <1>4 DEF Fault

-----------------------------------------------------------------------------
(* The whole system.                                                       *)

\* Nothing has happened yet.
LEMMA InitKeeps ==
    ASSUME Init
    PROVE  Inv
  <1>1. QueueTypeOK
    <2>1. NoMessage \in Messages
      BY QueueAssumption DEF NoMessage, Messages, MessageStatuses
    <2>. QED
      BY <2>1 DEF Init, QueueInit, QueueTypeOK
  <1>2. OutboxTypes
    <2>1. NoEvent \in EventRows
      BY OutboxAssumption DEF NoEvent, EventRows, EventStatuses
    <2>2. [status |-> "NONE", shown |-> 0] \in ReceiptRows
      BY OutboxAssumption DEF ReceiptRows
    <2>3. "NONE" \in StageStatuses
      BY DEF StageStatuses
    <2>. QED
      BY <2>1, <2>2, <2>3 DEF Init, OutboxInit, OutboxTypes
  <1>3. IdleWorker \in WorkerRows /\ WorkerShape(IdleWorker)
    BY DEF IdleWorker, WorkerRows, WorkerShape, DispatchStages, JobStages
  <1>4. WorkerTypes
    BY <1>3 DEF Init, OutboxInit, WorkerTypes
  <1>5. StageTypes
    <2>1. NoStage \in StageRows /\ NoStage.attempts = 0
      BY WorkflowAssumption DEF NoStage, StageRows, StageStatuses
    <2>. QED
      BY <2>1 DEF Init, StageTypes
  <1>6. row \in [Receipts -> Rows] /\ faults \in 0 .. deployment.faults
    <2>1. NoRow \in Rows
      BY OutboxAssumption DEF NoRow, Rows
    <2>2. deployment.faults \in Nat
      BY QueueAssumption DEF Init, QueueInit
    <2>. QED
      BY <2>1, <2>2 DEF Init
  <1>7. \A w \in Workers : worker[w].pc = "dispatch" /\ worker[w].job = None /\ worker[w].batch = {}
    BY DEF Init, OutboxInit, IdleWorker
  <1>8. \A r \in Receipts : /\ row[r].version = 0 /\ ~row[r].gst /\ row[r].status = "NONE"
                            /\ \A s \in Slots : queue[r][s] = NoMessage /\ queue[r][s].status = "NONE"
    BY DEF Init, QueueInit, NoRow, NoMessage
  <1>9. \A e \in Events : outbox[e].status = "NONE"
    BY DEF Init, OutboxInit, NoEvent
  <1>10. ClaimedExist /\ MessageShape
    BY <1>7, <1>8 DEF ClaimedExist, MessageShape
  <1>11. SentInv
    BY <1>7, <1>9, EventFacts DEF SentInv, QueueEvent, QueueEventDelivered
  <1>12. RowInv
    <2>. SUFFICES ASSUME NEW r \in Receipts
                  PROVE  /\ \A v \in Versions : ~Published(r, v)
                         /\ row[r].status \notin Results
                         /\ ~FinishedRow(r) /\ ~row[r].gst
      BY DEF RowInv
    <2>1. \A v \in Versions : ~Published(r, v)
      BY <1>9, EventFacts DEF Published
    <2>. QED
      BY <1>8, <2>1 DEF FinishedRow, Results
  <1>13. StageInv /\ HolderInv
    BY <1>7 DEF StageInv, HolderInv, Owns, Runs, Unsure, HoldsMessage, Working
  <1>14. RowBeforeEnd /\ SafeInv
    BY <1>7, <1>8 DEF RowBeforeEnd, SafeInv, At
  <1>. QED
    BY <1>1, <1>2, <1>4, <1>5, <1>6, <1>10, <1>11, <1>12, <1>13, <1>14 DEF Inv, TypeInv

\* What becomes of results, of the results shown and of decisions.
Publishes(r) == \E v \in Versions : ResultAdded(r, v) /\ UNCHANGED receipt
\* The authority projects a published version ...
Shows(r) == CallbacksKept /\ \E v \in Versions :
    /\ Published(r, v)
    /\ receipt' = [receipt EXCEPT ![r].status = StatusAfterProjection(@), ![r].shown = v]
\* ... a reviewer decides ...
Decides(r) == CallbacksKept /\ Review(r)
\* ... or nothing that EnrichmentLog sees changes.
Silent == CallbacksKept /\ (UNCHANGED receipt \/ \E r \in Receipts :
    receipt[r].status = "NONE" /\ receipt' = [receipt EXCEPT ![r].status = "RECEIVED"])
\* Every step does one of these.
LogEffect == Silent \/ \E r \in Receipts : Publishes(r) \/ Shows(r) \/ Decides(r)

\* Every step of a worker.
LEMMA WorkerSteps ==
    ASSUME Inv, NEW w \in Workers, WorkerStep(w)
    PROVE  Inv' /\ StagesKept /\ LogEffect
  <1>1. UNCHANGED faults
    BY DEF WorkerStep
  <1>2. CASE DispatchStep(w) /\ UNCHANGED stores
    <2>1. LeavesWork
      BY <1>1, <1>2, DispatchSteps DEF Inv
    <2>2. Inv' /\ CallbacksKept /\ StagesKept
      BY <2>1, LeavesWorkInv DEF LeavesWork, StagesKept, stores
    <2>3. UNCHANGED receipt \/ \E c \in worker[w].batch : Project(w, c)
      BY <1>2 DEF DispatchStep, ClaimOutbox, EndDispatch, MarkDelivered, MarkFailed, Mark, SendToQueue,
         SendCredit, Undeliverable, DisableCredit, outboxVars
    <2>4. ASSUME NEW c \in worker[w].batch, Project(w, c) PROVE \E r \in Receipts : Shows(r)
      BY <2>2, <2>4, ProjectStep DEF Inv, Shows
    <2>. QED
      BY <2>2, <2>3, <2>4 DEF LogEffect, Silent
  <1>3. CASE \/ \E r \in Receipts, s \in Slots : TakeMessage(w, r, s)
             \/ NoMessageWaiting(w) \/ MessageDone(w) \/ MessageFailed(w)
    <2>1. Inv'
      BY <1>1, <1>3, TakeStep, NoMessageStep, MessageDoneStep, MessageFailedStep
    <2>2. UNCHANGED <<outboxVars, stores>>
      BY <1>3 DEF TakeMessage, NoMessageWaiting, MessageDone, MessageFailed
    <2>3. CallbacksKept /\ UNCHANGED receipt /\ StagesKept
      BY <2>2 DEF CallbacksKept, StagesKept, outboxVars, stores
    <2>. QED
      BY <2>1, <2>3 DEF LogEffect, Silent
  <1>4. CASE ProcessStep(w)
    <2>1. ProcessResult(w) /\ UNCHANGED receipt
      BY <1>1, <1>4, ProcessSteps
    <2>2. CASE CallbacksKept
      BY <2>1, <2>2 DEF ProcessResult, LogEffect, Silent
    <2>3. ASSUME NEW v \in Versions, ResultAdded(Item(w), v) PROVE LogEffect
      <3>1. worker[w].pc \in JobStages
        BY <1>4 DEF ProcessStep, Begin, LookAtImageStage, ClaimImageStage, ClaimOcrStage, ClaimGstStage,
           TryStage, ImageFetched, FetchImage, ImageInvalid, ProviderFails, OcrDenied, GstDenied,
           SaveOcr, SaveOcrTo, SaveGst, SaveGstTo, Finalize, At, JobStages
      <3>2. Item(w) \in Receipts
        BY <3>1, ItemFacts DEF Inv, TypeInv
      <3>. QED
        BY <2>1, <2>3, <3>2 DEF LogEffect, Publishes
    <2>. QED
      BY <2>1, <2>2, <2>3 DEF ProcessResult
  <1>. QED
    BY <1>2, <1>3, <1>4 DEF WorkerStep

\* Every step keeps the invariant and completed provider stages, and does to
\* results, projections and decisions what EnrichmentLog allows.
LEMMA Steps ==
    ASSUME Inv, [Next]_vars
    PROVE  Inv' /\ StagesKept /\ LogEffect
  <1>1. ASSUME NEW w \in Workers, WorkerStep(w) \/ Fault(w) PROVE Inv' /\ StagesKept /\ LogEffect
    BY <1>1, WorkerSteps, FaultStep DEF LogEffect, Silent, Publishes
  <1>2. CASE TimeStep
    <2>1. UNCHANGED <<receipt, row>>
      BY <1>2 DEF TimeStep, StageTimePasses, QueueTime, TimePassesFor, EventTimePasses, outboxVars, stores
    <2>2. CASE \E r \in Receipts, s \in Stages : StageTimePasses(r, s)
      <3>1. Inv' /\ StagesKept
        BY <2>2, StageTimeStep
      <3>2. CallbacksKept
        BY <2>2 DEF StageTimePasses, CallbacksKept, outboxVars
      <3>. QED
        BY <2>1, <3>1, <3>2 DEF LogEffect, Silent
    <2>3. CASE \E r \in Receipts, s \in Slots : QueueTime(r, s)
      <3>1. Inv' /\ StagesKept
        BY <2>3, QueueTimeStep
      <3>2. CallbacksKept
        BY <2>3 DEF QueueTime, CallbacksKept, outboxVars
      <3>. QED
        BY <2>1, <3>1, <3>2 DEF LogEffect, Silent
    <2>4. CASE \E e \in Events : TimePassesFor(e)
      <3>1. LeavesWork
        BY <2>4, EventTimeStep
      <3>2. Inv' /\ CallbacksKept /\ StagesKept
        BY <3>1, LeavesWorkInv DEF LeavesWork, StagesKept, stores
      <3>. QED
        BY <2>1, <3>2 DEF LogEffect, Silent
    <2>. QED
      BY <1>2, <2>2, <2>3, <2>4 DEF TimeStep
  <1>3. ASSUME NEW r \in Receipts, RecordReceipt(r) \/ Review(r),
               UNCHANGED <<deployment, queue, worker, stores, faults>>
        PROVE  Inv' /\ StagesKept /\ LogEffect
    <2>1. LeavesWork
      BY <1>3, RecordStep, ReviewStep
    <2>2. Inv' /\ CallbacksKept /\ StagesKept
      BY <2>1, LeavesWorkInv DEF LeavesWork, StagesKept, stores
    <2>3. LogEffect
      BY <1>3, <2>2 DEF LogEffect, Silent, Decides, RecordReceipt
    <2>. QED
      BY <2>2, <2>3
  <1>4. CASE UNCHANGED vars
    <2>1. CallbacksKept /\ UNCHANGED receipt /\ StagesKept
      BY <1>4 DEF vars, CallbacksKept, StagesKept
    <2>2. UNCHANGED <<deployment, queue, outbox, delivery, receipt, worker, stage, row, faults>>
      BY <1>4 DEF vars
    <2>3. LeavesWork
      <3>1. OutboxTypes' /\ EventsKept /\ \A r \in Receipts : QueueEvent(r)' = QueueEvent(r)
        BY <2>2 DEF Inv, TypeInv, OutboxTypes, EventsKept, QueueEvent
      <3>. QED
        BY <2>1, <2>2, <3>1, OutboxAlone DEF Inv, stores
    <2>. QED
      BY <2>1, <2>3, LeavesWorkInv DEF LogEffect, Silent
  <1>. QED
    BY <1>1, <1>2, <1>3, <1>4 DEF Next

\* The invariant holds always.
THEOREM WorkflowInvariant == Spec => []Inv
  <1>1. Init => Inv
    BY InitKeeps
  <1>2. Inv /\ [Next]_vars => Inv'
    BY Steps
  <1>. QED
    BY <1>1, <1>2, PTL DEF Spec

\* The state is what it is declared to be (TypeOK): attempts stay below their
\* limits, and no worker holds a message or an event without a claim.
THEOREM WorkflowTypeCorrect == Spec => []TypeOK
  <1>1. Inv => TypeOK
    BY DEF Inv, TypeInv, TypeOK, OutboxTypeOK, OutboxTypes, WorkerTypes, WorkerRows, StageTypes
  <1>. QED
    BY <1>1, WorkflowInvariant, PTL

\* Whatever crashes, is delivered twice or is outlived, a final
\* enrichment_receipts row has the callback of its version and status.
THEOREM ResultsPublished == Spec => []FinalResultPublished
  <1>1. Inv => FinalResultPublished
    BY DEF Inv, RowInv, FinalResultPublished
  <1>. QED
    BY <1>1, WorkflowInvariant, PTL

\* A provider is never called by two workers at a time for one receipt, as
\* long as no worker outlives the lease of its stage.
THEOREM ProvidersRunOnce == Spec => []OneProviderRun
  <1>1. Inv => OneProviderRun
    BY DEF Inv, StageInv, Owns, OneProviderRun, ProviderStages
  <1>. QED
    BY <1>1, WorkflowInvariant, PTL

\* A completed OCR or GST stage is never claimed again, and only fail_stage
\* opens it: for the worker whose own COMMIT of it was not answered, or for one
\* that outlived the lease of the stage.
THEOREM CompletedStagesStay == Spec => CompletedStagesKept
  <1>1. Inv /\ [Next]_vars =>
        [(\A r \in Receipts, s \in {"OCR", "GST"} :
             stage[r][s].status = "COMPLETED" /\ stage'[r][s].status # "COMPLETED" =>
                /\ stage'[r][s].status \in {"FAILED_RETRYABLE", "FAILED_TERMINAL"}
                /\ \E w \in Workers :
                      /\ worker'[w].pc \in {"failed", "finalize"}
                      /\ \/ Unsure(w, r, s)
                         \/ "stage" \in deployment.outlived /\ Runs(w, r, s))]_vars
    BY Steps DEF StagesKept, ProviderStages
  <1>. QED
    BY <1>1, WorkflowInvariant, PTL DEF Spec, CompletedStagesKept

\* When all messages of a receipt were deleted, its result is published, as
\* long as no worker outlives its message or stage.
THEOREM NothingLostSilently == Spec => []NoSilentLoss
  <1>1. Inv => NoSilentLoss
    <2>. SUFFICES ASSUME Inv, NEW r \in Receipts, "message" \notin deployment.outlived,
                         QueueEvent(r) = "DELIVERED",
                         \A s \in Slots : queue[r][s].status \in {"NONE", "DELIVERED"}
                  PROVE  HasResult(r)
      BY DEF NoSilentLoss
    <2>1. PICK s \in Slots : queue[r][s].status # "NONE"
      BY DEF Inv, SentInv, Sent
    <2>2. row[r].version # 0
      BY <2>1 DEF Inv, RowBeforeEnd
    <2>3. row[r].version > 0
      BY <2>2, OutboxAssumption DEF Inv, TypeInv, Rows
    <2>4. \A t \in Slots : ~Safe(r, t)
      BY DEF Safe
    <2>. QED
      BY <2>3, <2>4 DEF Inv, SafeInv
  <1>. QED
    BY <1>1, WorkflowInvariant, PTL

-----------------------------------------------------------------------------
(* The refinement of EnrichmentLog.                                        *)

\* The state of EnrichmentLog, as Log maps it.
PublishedResults == [r \in Receipts |-> {v \in Versions : Published(r, v)}]
\* The version that the authority shows of each receipt.
ShownResults == [r \in Receipts |-> receipt[r].shown]
\* The receipts that a reviewer has decided.
Decided == {r \in Receipts : receipt[r].status = "REVIEWED"}

\* Nothing is published, and nothing goes.
LEMMA SameResults ==
    ASSUME CallbacksKept
    PROVE  PublishedResults' = PublishedResults
  <1>1. \A r \in Receipts : {v \in Versions : Published(r, v)'} = {v \in Versions : Published(r, v)}
    BY ResultsKept
  <1>. QED
    BY <1>1 DEF PublishedResults

\* A result is published under the greatest version.
LEMMA PublishMaps ==
    ASSUME Inv, NEW r \in Receipts, Publishes(r)
    PROVE  Log!Publish(r)
  <1>1. PICK v \in Versions : ResultAdded(r, v) /\ UNCHANGED receipt
    BY DEF Publishes
  <1>2. PublishedResults' = [PublishedResults EXCEPT ![r] = @ \cup {v}]
    <2>1. \A q \in Receipts \ {r} :
             {u \in Versions : Published(q, u)'} = {u \in Versions : Published(q, u)}
      BY <1>1 DEF ResultAdded
    <2>2. {u \in Versions : Published(r, u)'} = {u \in Versions : Published(r, u)} \cup {v}
      BY <1>1 DEF ResultAdded
    <2>. QED
      BY <2>1, <2>2 DEF PublishedResults
  <1>3. v \in PublishedResults'[r] /\ \A u \in PublishedResults[r] : u < v
    <2>1. v \in PublishedResults'[r]
      BY <1>2 DEF PublishedResults
    <2>2. ASSUME NEW u \in PublishedResults[r] PROVE u < v
      <3>1. u \in Versions /\ Published(r, u)
        BY DEF PublishedResults
      <3>2. u <= row[r].version /\ v = row[r].version + 1
        BY <1>1, <3>1 DEF ResultAdded, Inv, RowInv
      <3>3. u \in Nat /\ row[r].version \in Nat
        BY <3>1, OutboxAssumption DEF Versions, Inv, TypeInv, Rows
      <3>. QED
        BY <3>2, <3>3
    <2>. QED
      BY <2>1, <2>2
  <1>4. ShownResults' = ShownResults /\ Decided' = Decided
    BY <1>1 DEF ShownResults, Decided
  <1>. QED
    BY <1>2, <1>3, <1>4 DEF Log!Publish, PublishedResults, ShownResults, Decided

\* A receipt shows a published result; a decision stays.
LEMMA ShowMaps ==
    ASSUME Inv, NEW r \in Receipts, Shows(r)
    PROVE  Log!Show(r)
  <1>1. PICK v \in Versions : /\ CallbacksKept /\ Published(r, v)
                              /\ receipt' = [receipt EXCEPT ![r].status = StatusAfterProjection(@),
                                                            ![r].shown = v]
    BY DEF Shows
  <1>2. receipt[r] \in ReceiptRows /\ receipt \in [Receipts -> ReceiptRows]
    BY DEF Inv, TypeInv, OutboxTypes
  <1>3. /\ receipt'[r].shown = v /\ (receipt'[r].status = "REVIEWED" <=> receipt[r].status = "REVIEWED")
        /\ \A q \in Receipts \ {r} : receipt'[q] = receipt[q]
    <2>1. PICK n : n = [receipt[r] EXCEPT !.status = StatusAfterProjection(@), !.shown = v]
      OBVIOUS
    <2>2. receipt' = [receipt EXCEPT ![r] = n]
      BY <1>1, <1>2, <2>1
    <2>3. n.shown = v /\ n.status = StatusAfterProjection(receipt[r].status)
      BY <1>2, <2>1 DEF ReceiptRows
    <2>. QED
      BY <1>2, <2>2, <2>3 DEF StatusAfterProjection
  <1>4. ShownResults' = [ShownResults EXCEPT ![r] = v]
    BY <1>3 DEF ShownResults
  <1>5. Decided' = Decided
    BY <1>3 DEF Decided
  <1>6. v \in PublishedResults[r] /\ PublishedResults' = PublishedResults
    BY <1>1, SameResults DEF PublishedResults
  <1>. QED
    BY <1>4, <1>5, <1>6 DEF Log!Show, PublishedResults, ShownResults, Decided

\* A decision.
LEMMA DecideMaps ==
    ASSUME Inv, NEW r \in Receipts, Decides(r)
    PROVE  Log!Decide(r)
  <1>1. CallbacksKept /\ receipt' = [receipt EXCEPT ![r].status = "REVIEWED"]
    BY DEF Decides, Review
  <1>2. receipt[r] \in ReceiptRows /\ receipt \in [Receipts -> ReceiptRows]
    BY DEF Inv, TypeInv, OutboxTypes
  <1>3. /\ receipt'[r].status = "REVIEWED" /\ receipt'[r].shown = receipt[r].shown
        /\ \A q \in Receipts \ {r} : receipt'[q] = receipt[q]
    <2>1. PICK n : n = [receipt[r] EXCEPT !.status = "REVIEWED"]
      OBVIOUS
    <2>2. receipt' = [receipt EXCEPT ![r] = n]
      BY <1>1, <1>2, <2>1
    <2>3. n.shown = receipt[r].shown /\ n.status = "REVIEWED"
      BY <1>2, <2>1 DEF ReceiptRows
    <2>. QED
      BY <1>2, <2>2, <2>3
  <1>4. Decided' = Decided \cup {r}
    BY <1>3 DEF Decided
  <1>5. ShownResults' = ShownResults
    BY <1>3 DEF ShownResults
  <1>6. PublishedResults' = PublishedResults
    BY <1>1, SameResults
  <1>. QED
    BY <1>4, <1>5, <1>6 DEF Log!Decide, PublishedResults, ShownResults, Decided

\* What EnrichmentLog does not see.
LEMMA SilentMaps ==
    ASSUME Inv, Silent
    PROVE  UNCHANGED Log!vars
  <1>1. PublishedResults' = PublishedResults
    BY SameResults DEF Silent
  <1>2. ShownResults' = ShownResults /\ Decided' = Decided
    <2>1. CASE UNCHANGED receipt
      BY <2>1 DEF ShownResults, Decided
    <2>2. ASSUME NEW r \in Receipts, receipt[r].status = "NONE",
                 receipt' = [receipt EXCEPT ![r].status = "RECEIVED"]
          PROVE  ShownResults' = ShownResults /\ Decided' = Decided
      <3>1. receipt[r] \in ReceiptRows /\ receipt \in [Receipts -> ReceiptRows]
        BY DEF Inv, TypeInv, OutboxTypes
      <3>2. /\ receipt'[r].status = "RECEIVED" /\ receipt'[r].shown = receipt[r].shown
            /\ \A q \in Receipts \ {r} : receipt'[q] = receipt[q]
        <4>1. PICK n : n = [receipt[r] EXCEPT !.status = "RECEIVED"]
          OBVIOUS
        <4>2. receipt' = [receipt EXCEPT ![r] = n]
          BY <2>2, <3>1, <4>1
        <4>3. n.shown = receipt[r].shown /\ n.status = "RECEIVED"
          BY <3>1, <4>1 DEF ReceiptRows
        <4>. QED
          BY <3>1, <4>2, <4>3
      <3>3. ShownResults' = ShownResults
        BY <3>2 DEF ShownResults
      <3>4. Decided' = Decided
        BY <2>2, <3>2 DEF Decided
      <3>. QED
        BY <3>3, <3>4
    <2>. QED
      BY <2>1, <2>2 DEF Silent
  <1>. QED
    BY <1>1, <1>2 DEF Log!vars, PublishedResults, ShownResults, Decided

\* The outbox, the queue and the workers implement EnrichmentLog: results are
\* published under increasing versions and stay, a receipt shows only what
\* was published, and decisions stay.
THEOREM WorkflowImplementsLog == Spec => ImplementsEnrichmentLog
  <1>1. Init => Log!Init
    <2>. SUFFICES ASSUME Init PROVE Log!Init
      OBVIOUS
    <2>1. \A r \in Receipts, v \in Versions : ~Published(r, v)
      BY EventFacts DEF Init, OutboxInit, NoEvent, Published
    <2>2. \A r \in Receipts : receipt[r].shown = 0 /\ receipt[r].status # "REVIEWED"
      BY DEF Init, OutboxInit
    <2>3. /\ PublishedResults = [r \in Receipts |-> {}] /\ ShownResults = [r \in Receipts |-> 0]
          /\ Decided = {}
      BY <2>1, <2>2 DEF PublishedResults, ShownResults, Decided
    <2>. QED
      BY <2>3 DEF Log!Init, PublishedResults, ShownResults, Decided
  <1>2. Inv /\ [Next]_vars => [Log!Next]_Log!vars
    <2>. SUFFICES ASSUME Inv, [Next]_vars PROVE Log!Next \/ UNCHANGED Log!vars
      OBVIOUS
    <2>1. LogEffect
      BY Steps
    <2>. QED
      BY <2>1, PublishMaps, ShowMaps, DecideMaps, SilentMaps DEF LogEffect, Log!Next
  <1>. QED
    BY <1>1, <1>2, WorkflowInvariant, PTL DEF Spec, ImplementsEnrichmentLog, Log!Spec
=============================================================================
