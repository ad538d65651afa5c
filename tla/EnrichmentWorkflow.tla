------------------------- MODULE EnrichmentWorkflow -------------------------
(***************************************************************************)
(* The enrichment workers: process_receipt_event (services/enrichment/app/ *)
(* workflow.py) with the transactions of storage.py, in the loops of       *)
(* local_worker.py and tasks.py, composed with the outbox and the queue.   *)
(*                                                                         *)
(* Every action is one transaction or one provider call of a worker.       *)
(* Clocks are abstract: a lease may end as soon as nobody works under it,  *)
(* and, if it is outlived, also under a worker that still works.        *)
(***************************************************************************)
EXTENDS Outbox

CONSTANTS
    MaxStageAttempts    \* 5 attempts of a provider stage

ASSUME WorkflowAssumption == MaxStageAttempts \in Nat \ {0}

VARIABLES
    stage,      \* workflow_stages of the provider stages
    row,        \* enrichment_receipts; version 0: no row
    faults      \* history: the faults so far

vars == <<deployment, queue, outbox, delivery, receipt, worker, stage, row, faults>>
stores == <<stage, row>>

Stages == {"IMAGE_FETCH", "OCR", "GST"}
StageRows == [status : StageStatuses, attempts : 0 .. MaxStageAttempts, held : BOOLEAN]
NoStage == [status |-> "NONE", attempts |-> 0, held |-> FALSE]

\* gst: gst_status is not NOT_CHECKED
Rows == [version : 0 .. MaxVersion, gst : BOOLEAN,
         status : Results \cup {"NONE", "PROCESSING"}]
NoRow == [version |-> 0, gst |-> FALSE, status |-> "NONE"]

TypeOK ==
    /\ QueueTypeOK
    /\ OutboxTypeOK
    /\ stage \in [Receipts -> [Stages -> StageRows]]
    /\ row \in [Receipts -> Rows]
    /\ faults \in 0 .. deployment.faults

Init ==
    /\ QueueInit
    /\ OutboxInit
    /\ stage = [r \in Receipts |-> [s \in Stages |-> NoStage]]
    /\ row = [r \in Receipts |-> NoRow]
    /\ faults = 0

Published(r, v) == outbox[Event(r, "CALLBACK", v)].status # "NONE"
HasResult(r) == \E v \in Versions : Published(r, v)

-----------------------------------------------------------------------------
(* Wrong variants, as in Outbox.                                           *)

FinishedOnAnyRow(r) == row[r].version > 0
ClaimableAgain(r, s) ==
    \/ stage[r][s].status = "NONE"
    \/ stage[r][s].status \in {"FAILED_RETRYABLE", "COMPLETED"} /\ stage[r][s].attempts < MaxStageAttempts
    \/ stage[r][s].status = "PROCESSING" /\ ~stage[r][s].held /\ stage[r][s].attempts < MaxStageAttempts
ClaimableLeased(r, s) ==
    \/ stage[r][s].status = "NONE"
    \/ stage[r][s].status \in {"FAILED_RETRYABLE", "PROCESSING"} /\ stage[r][s].attempts < MaxStageAttempts
WithCallbackOnce(box, r, v, result) ==
    IF HasResult(r) THEN box ELSE [box EXCEPT ![Event(r, "CALLBACK", v)] = NewEvent(result)]

-----------------------------------------------------------------------------
(* The transactions of storage.py                                          *)

\* claim_stage: the condition of its ON CONFLICT clause
StageClaimable(r, s) ==
    \/ stage[r][s].status = "NONE"
    \/ /\ \/ stage[r][s].status = "FAILED_RETRYABLE"
          \/ stage[r][s].status = "PROCESSING" /\ ~stage[r][s].held
       /\ stage[r][s].attempts < MaxStageAttempts

ClaimStage(r, s) ==
    stage' = [stage EXCEPT ![r][s] =
                 [status |-> "PROCESSING", attempts |-> @.attempts + 1, held |-> TRUE]]

\* complete_stage
CompleteStage(r, s) ==
    stage' = [stage EXCEPT ![r][s] =
                 IF @.status = "PROCESSING"
                 THEN [@ EXCEPT !.status = "COMPLETED", !.held = FALSE] ELSE @]

FailsForGood(r, s, terminal) == terminal \/ stage[r][s].attempts >= MaxStageAttempts

\* fail_stage: it does not look at the status.
FailStage(r, s, terminal) ==
    stage' = [stage EXCEPT ![r][s].held = FALSE,
                           ![r][s].status = IF FailsForGood(r, s, terminal)
                                            THEN "FAILED_TERMINAL" ELSE "FAILED_RETRYABLE"]

\* The stages that a save_*_result completes, whatever their status; a stage
\* without a row stays without one.
Completed(r, done) ==
    stage' = [stage EXCEPT ![r] =
                 [s \in Stages |-> IF s \in done /\ @[s].status # "NONE"
                                   THEN [@[s] EXCEPT !.status = "COMPLETED", !.held = FALSE]
                                   ELSE @[s]]]

\* _insert_callback: ON CONFLICT (receipt, type, version) DO NOTHING
WithCallback(box, r, v, result) ==
    IF box[Event(r, "CALLBACK", v)].status # "NONE" THEN box
    ELSE [box EXCEPT ![Event(r, "CALLBACK", v)] = NewEvent(result)]

WithCredit(box, r, v) ==
    IF box[Event(r, "CREDIT", v)].status # "NONE" THEN box
    ELSE [box EXCEPT ![Event(r, "CREDIT", v)] = NewEvent("NONE")]

NextVersion(r) == row[r].version + 1

-----------------------------------------------------------------------------
(* process_receipt_event                                                   *)

Item(w) == worker[w].job.receipt
At(w, pc) == worker[w].pc = pc
Goto(w, pc) == worker' = [worker EXCEPT ![w].pc = pc]

\* A result that process_receipt_event returns at once.
FinishedRow(r) == row[r].version > 0 /\ (~deployment.gst \/ row[r].gst)

\* existing_enrichment_result
Begin(w) ==
    /\ At(w, "begin")
    /\ Goto(w, IF FinishedRow(Item(w)) THEN "finished"
               ELSE IF row[Item(w)].version = 0 THEN "image" ELSE "gstClaim")
    /\ UNCHANGED <<outboxVars, stores>>

\* stage_status of IMAGE_FETCH
LookAtImageStage(w) ==
    /\ At(w, "image")
    /\ Goto(w, IF stage[Item(w)]["IMAGE_FETCH"].status = "COMPLETED"
               THEN "fetch" ELSE "imageClaim")
    /\ UNCHANGED <<outboxVars, stores>>

\* claim_stage: the worker goes on to "next", or to "denied".
TryStage(w, at, s, next, denied) ==
    /\ At(w, at)
    /\ \/ /\ StageClaimable(Item(w), s)
          /\ ClaimStage(Item(w), s)
          /\ Goto(w, next)
       \/ /\ ~StageClaimable(Item(w), s)
          /\ Goto(w, denied)
          /\ UNCHANGED stage
    /\ UNCHANGED <<outboxVars, row>>

ClaimImageStage(w) == TryStage(w, "imageClaim", "IMAGE_FETCH", "fetch", "failed")
ClaimOcrStage(w) == TryStage(w, "ocrClaim", "OCR", "ocr", "ocrDenied")
ClaimGstStage(w) == TryStage(w, "gstClaim", "GST", "gst", "gstDenied")

\* The image is there; the worker goes on to "next".
FetchImage(w, next) ==
    /\ At(w, "fetch")
    /\ CompleteStage(Item(w), "IMAGE_FETCH")
    /\ Goto(w, next)
    /\ UNCHANGED <<outboxVars, row>>

ImageFetched(w) == FetchImage(w, "ocrClaim")

\* InvalidReceiptImage is terminal at once.
ImageInvalid(w) ==
    /\ At(w, "fetch")
    /\ FailStage(Item(w), "IMAGE_FETCH", TRUE)
    /\ Goto(w, "finalize")
    /\ UNCHANGED <<outboxVars, row>>

\* The provider call of stage s raised, or the COMMIT of its result: both are
\* in the same try block, and fail_stage does not tell them apart.
ProviderFails(w, at, s) ==
    /\ At(w, at)
    /\ FailStage(Item(w), s, FALSE)
    /\ Goto(w, IF FailsForGood(Item(w), s, FALSE) THEN "finalize" ELSE "failed")
    /\ UNCHANGED <<outboxVars, row>>

\* The claim was refused and another worker may have stored a row.
OcrDenied(w) ==
    /\ At(w, "ocrDenied")
    /\ Goto(w, IF row[Item(w)].version > 0 THEN "finished" ELSE "failed")
    /\ UNCHANGED <<outboxVars, stores>>

GstDenied(w) ==
    /\ At(w, "gstDenied")
    /\ Goto(w, IF row[Item(w)].gst THEN "finished" ELSE "failed")
    /\ UNCHANGED <<outboxVars, stores>>

\* save_ocr_result; the confidence decides the status of a final result.
SaveOcrTo(w, next) ==
    LET r == Item(w)
        v == NextVersion(r) IN
    /\ At(w, "ocr") /\ v \in Versions
    /\ \E status \in IF deployment.gst THEN {"PROCESSING"}
                     ELSE {"READY_FOR_REVIEW", "NEEDS_HUMAN_REVIEW"} :
          /\ row' = [row EXCEPT ![r].version = v, ![r].status = status]
          /\ outbox' = IF deployment.gst THEN outbox ELSE WithCallback(outbox, r, v, status)
    /\ Completed(r, {"IMAGE_FETCH", "OCR"})
    /\ Goto(w, next)
    /\ UNCHANGED <<delivery, receipt>>

SaveOcr(w) == SaveOcrTo(w, IF deployment.gst THEN "gstClaim" ELSE "finished")

\* save_gst_result; validate_gst asks for a review when data is missing or the
\* provider does not answer, and a verified receipt may have a credit payload.
SaveGstTo(w, next) ==
    LET r == Item(w)
        v == NextVersion(r) IN
    /\ At(w, "gst") /\ v \in Versions /\ row[r].version > 0
    /\ \E status \in {"VERIFIED_GST", "GST_ANOMALY", "NEEDS_HUMAN_REVIEW"} :
          LET box == WithCallback(outbox, r, v, status) IN
          /\ row' = [row EXCEPT ![r] = [version |-> v, gst |-> TRUE, status |-> status]]
          /\ \/ outbox' = box
             \/ status = "VERIFIED_GST" /\ outbox' = WithCredit(box, r, v)
    /\ Completed(r, {"GST"})
    /\ Goto(w, next)
    /\ UNCHANGED <<delivery, receipt>>

SaveGst(w) == SaveGstTo(w, "finished")

\* finalize_provider_failure
Finalize(w) ==
    LET r == Item(w)
        v == NextVersion(r) IN
    /\ At(w, "finalize") /\ v \in Versions
    /\ row' = [row EXCEPT ![r].version = v, ![r].status = "NEEDS_HUMAN_REVIEW"]
    /\ outbox' = WithCallback(outbox, r, v, "NEEDS_HUMAN_REVIEW")
    /\ Goto(w, "finished")
    /\ UNCHANGED <<delivery, receipt, stage>>

ProcessStep(w) ==
    /\ \/ Begin(w) \/ LookAtImageStage(w)
       \/ ClaimImageStage(w) \/ ClaimOcrStage(w) \/ ClaimGstStage(w)
       \/ ImageFetched(w) \/ ImageInvalid(w)
       \/ ProviderFails(w, "fetch", "IMAGE_FETCH")
       \/ ProviderFails(w, "ocr", "OCR") \/ ProviderFails(w, "gst", "GST")
       \/ ProviderFails(w, "imageUnanswered", "IMAGE_FETCH")
       \/ ProviderFails(w, "ocrUnanswered", "OCR")
       \/ ProviderFails(w, "gstUnanswered", "GST")
       \/ OcrDenied(w) \/ GstDenied(w)
       \/ SaveOcr(w) \/ SaveGst(w) \/ Finalize(w)
    /\ UNCHANGED <<deployment, queue>>

-----------------------------------------------------------------------------
(* run_worker: dispatch the outbox, take a message, process it, dispatch    *)
(* the outbox once more, and again from the start.                         *)

ToDispatch(w) == worker' = [worker EXCEPT ![w] = IdleWorker]

Working(w) == worker[w].job # None
HoldsMessage(w, r, s) ==
    Working(w) /\ worker[w].job.receipt = r /\ worker[w].job.slot = s

TakeMessage(w, r, s) ==
    /\ At(w, "receive")
    /\ Receive(r, s)
    /\ worker' = [worker EXCEPT ![w].pc = "begin",
                     ![w].job = [receipt |-> r, slot |-> s,
                                 last |-> queue[r][s].attempts + 1 >= MaxReceives]]
    /\ UNCHANGED <<outboxVars, stores, deployment>>

NoMessageWaiting(w) ==
    /\ At(w, "receive")
    /\ \A r \in Receipts, s \in Slots : ~Visible(r, s) \/ Exhausted(r, s)
    /\ ToDispatch(w)
    /\ UNCHANGED <<outboxVars, stores, deployment, queue>>

MessageDone(w) ==
    /\ At(w, "finished")
    /\ CompleteMessage(Item(w), worker[w].job.slot)
    /\ worker' = [worker EXCEPT ![w] = [IdleWorker EXCEPT !.again = TRUE]]
    /\ UNCHANGED <<outboxVars, stores, deployment>>

MessageFailed(w) ==
    /\ At(w, "failed")
    /\ FailMessage(Item(w), worker[w].job.slot, worker[w].job.last)
    /\ ToDispatch(w)
    /\ UNCHANGED <<outboxVars, stores, deployment>>

\* The worker dies and is started again.  An exception in the dispatch after
\* a message leaves the worker in the same state.
Crash(w) ==
    /\ worker[w] # IdleWorker
    /\ ToDispatch(w)

\* A database call of process_receipt_event raises outside the try blocks, or
\* fail_stage itself does.
DatabaseError(w) ==
    /\ Working(w) /\ ~At(w, "failed")
    /\ Goto(w, "failed")

\* The result of a stage is committed and its COMMIT raises: the worker takes
\* the stage for failed.
CommitUnanswered(w) ==
    \/ FetchImage(w, "imageUnanswered")
    \/ SaveOcrTo(w, "ocrUnanswered")
    \/ SaveGstTo(w, "gstUnanswered")

Fault(w) ==
    /\ faults < deployment.faults
    /\ \/ (Crash(w) \/ DatabaseError(w)) /\ UNCHANGED <<outboxVars, stores>>
       \/ CommitUnanswered(w)
    /\ faults' = faults + 1
    /\ UNCHANGED <<deployment, queue>>

WorkerStep(w) ==
    /\ \/ DispatchStep(w) /\ UNCHANGED stores
       \/ \E r \in Receipts, s \in Slots : TakeMessage(w, r, s)
       \/ NoMessageWaiting(w) \/ MessageDone(w) \/ MessageFailed(w)
       \/ ProcessStep(w)
    /\ UNCHANGED faults

-----------------------------------------------------------------------------
(* Time                                                                    *)

StageAt(w) == CASE At(w, "fetch") -> "IMAGE_FETCH"
                [] At(w, "ocr")   -> "OCR"
                [] At(w, "gst")   -> "GST"
                [] OTHER          -> "NONE"

Runs(w, r, s) == Working(w) /\ Item(w) = r /\ StageAt(w) = s

\* The worker's COMMIT of the stage was not answered.
Unsure(w, r, s) ==
    /\ Working(w) /\ Item(w) = r
    /\ \/ s = "OCR" /\ At(w, "ocrUnanswered")
       \/ s = "GST" /\ At(w, "gstUnanswered")

\* Nobody works under this lease, or its kind may be outlived.
MayEnd(kind, working) == kind \in deployment.outlived \/ ~working

StageTimePasses(r, s) ==
    /\ stage[r][s].held
    /\ MayEnd("stage", \E w \in Workers : Runs(w, r, s))
    /\ stage' = [stage EXCEPT ![r][s].held = FALSE]
    /\ UNCHANGED <<deployment, queue, outboxVars, worker, row, faults>>

TimePassesFor(e) ==
    /\ MayEnd("event", \E w \in Workers : HoldsEvent(w, e))
    /\ EventTimePasses(e)
    /\ UNCHANGED <<deployment, queue, worker, stores, faults>>

QueueTime(r, s) ==
    /\ \/ /\ MayEnd("message", \E w \in Workers : HoldsMessage(w, r, s))
             /\ MessageTimePasses(r, s)
       \/ Redrive(r, s)
    /\ UNCHANGED <<deployment, outboxVars, worker, stores, faults>>

TimeStep ==
    \/ \E r \in Receipts, s \in Stages : StageTimePasses(r, s)
    \/ \E r \in Receipts, s \in Slots : QueueTime(r, s)
    \/ \E e \in Events : TimePassesFor(e)

-----------------------------------------------------------------------------
Next ==
    \/ \E w \in Workers : WorkerStep(w) \/ Fault(w)
    \/ TimeStep
    \/ \E r \in Receipts : (RecordReceipt(r) \/ Review(r))
                            /\ UNCHANGED <<deployment, queue, worker, stores, faults>>

Spec == Init /\ [][Next]_vars

\* A worker goes on by itself and its loop never ends; leases, back-offs and
\* visibility timeouts end.
Fairness ==
    /\ \A w \in Workers : WF_vars(WorkerStep(w))
    /\ \A r \in Receipts, s \in Stages : WF_vars(StageTimePasses(r, s))
    /\ \A r \in Receipts, s \in Slots : WF_vars(QueueTime(r, s))
    /\ \A e \in Events : WF_vars(TimePassesFor(e))

FairSpec == Spec /\ Fairness

-----------------------------------------------------------------------------
(* Properties                                                              *)

Ended(status) == status \in {"DELIVERED", "FAILED_TERMINAL", "DISABLED"}

QueueEvent(r) == outbox[Event(r, "QUEUE", 1)].status

\* Nothing is left that would process the receipt: its queue event and all
\* its messages have ended.
NothingPending(r) ==
    /\ Ended(QueueEvent(r))
    /\ \A s \in Slots : queue[r][s].status = "NONE" \/ Ended(queue[r][s].status)

\* A final enrichment_receipts row is never without the callback that tells
\* receipts of it: same version, same status.
FinalResultPublished ==
    \A r \in Receipts :
        row[r].status \in Results =>
            outbox[Event(r, "CALLBACK", row[r].version)].result = row[r].status

\* When every message of a receipt was deleted as processed, its result has
\* been published.  A worker that outlives its message may return the
\* unfinished row of another (OcrDenied), by which the message is deleted.
NoSilentLoss ==
    \A r \in Receipts :
        /\ deployment.outlived \cap {"message", "stage"} = {}
        /\ QueueEvent(r) = "DELIVERED"
        /\ \A s \in Slots : queue[r][s].status \in {"NONE", "DELIVERED"}
        => HasResult(r)

\* A receipt for which nothing is pending any more was routed to a reviewer,
\* with a result or with NEEDS_HUMAN_REVIEW.  It is not when the failures of
\* two stages, each below its limit, use up the receives of the message.
ProviderFailureReviewed ==
    \A r \in Receipts :
        QueueEvent(r) = "DELIVERED" /\ NothingPending(r) => HasResult(r)

\* Two workers never call the same provider for one receipt at a time, even
\* if the message is delivered to both, unless one outlives the stage lease.
OneProviderRun ==
    "stage" \notin deployment.outlived =>
    \A v, w \in Workers, r \in Receipts, s \in {"OCR", "GST"} :
        Runs(v, r, s) /\ Runs(w, r, s) => v = w

\* A completed OCR or GST stage is opened again in two ways only, however often
\* the message is delivered: fail_stage, which does not look at the status,
\* overwrites it after the worker's own COMMIT was not answered, or for a
\* worker that outlived the stage lease.  No claim and no other worker does it.
CompletedStagesKept ==
    [][\A r \in Receipts, s \in {"OCR", "GST"} :
          stage[r][s].status = "COMPLETED" /\ stage'[r][s].status # "COMPLETED" =>
             /\ stage'[r][s].status \in {"FAILED_RETRYABLE", "FAILED_TERMINAL"}
             /\ \E w \in Workers :
                   /\ worker'[w].pc \in {"failed", "finalize"}
                   /\ \/ Unsure(w, r, s)
                      \/ "stage" \in deployment.outlived /\ Runs(w, r, s)]_vars

\* What EnrichmentLog promises of results, projections and decisions.
Log == INSTANCE EnrichmentLog WITH
    published <- [r \in Receipts |-> {v \in Versions : Published(r, v)}],
    shown <- [r \in Receipts |-> receipt[r].shown],
    decided <- {r \in Receipts : receipt[r].status = "REVIEWED"}

ImplementsEnrichmentLog == Log!Spec

GivenUp(r) ==
    \/ QueueEvent(r) = "FAILED_TERMINAL"
    \/ \E s \in Slots : queue[r][s].status = "FAILED_TERMINAL"
    \/ \E v \in Versions : outbox[Event(r, "CALLBACK", v)].status = "FAILED_TERMINAL"

\* Once faults stop (their number is bounded), a recorded receipt shows a
\* result in the end, or an event or message of it was given up for good.
EnrichmentEnds ==
    \A r \in Receipts :
        receipt[r].status # "NONE" ~> (receipt[r].shown # 0 \/ GivenUp(r))
=============================================================================
