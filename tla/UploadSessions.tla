--------------------------- MODULE UploadSessions ---------------------------
(***************************************************************************)
(* The server side of the resumable receipt upload: PostgreSQL rows, S3    *)
(* objects, the request handlers of services/enrichment/app/authoritative  *)
(* .py and the cleanup job of services/enrichment/app/jobs.py.             *)
(*                                                                         *)
(* An upload session is identified by its receipt: upload_sessions has a   *)
(* UNIQUE receipt_id, so a receipt has at most one session.  Every action  *)
(* is one database transaction or one S3 request of a handler; between two *)
(* of them any other handler, the job or a crash may intervene.  The       *)
(* clients are not constrained here: any request may arrive at any time.   *)
(***************************************************************************)
EXTENDS Naturals, FiniteSets

CONSTANTS
    Receipts,       \* receipt UUIDs of one organization and site
    Parts,          \* the part numbers of an image (256 KB each)
    ImageBytes,     \* total_bytes of an image, the same for all receipts
    StorageLimit,   \* 90 % of organizations.storage_byte_limit
    DailyLimit,     \* the smaller of the site's and organization's daily limits
    MaxDay,         \* bound: the last calendar day of the model
    CommitAnswers,  \* what a COMMIT may report: "committed" or "unknown"
    CleanDuringCompletion \* may the cleanup job and a completion overlap?

ASSUME UploadAssumption ==
    /\ IsFiniteSet(Receipts)
    /\ Parts # {}
    /\ ImageBytes \in Nat
    /\ StorageLimit \in Nat
    /\ DailyLimit \in Nat
    /\ MaxDay \in Nat \ {0}
    /\ CommitAnswers \subseteq {"committed", "unknown"}
    /\ CleanDuringCompletion \in BOOLEAN

VARIABLES
    \* PostgreSQL: upload_sessions and upload_parts
    session,    \* status of the receipt's session, "NONE" before it exists
    expired,    \* receipts whose session has expires_at <= NOW()
    quiet,      \* receipts whose session has updated_at over 15 minutes ago
    finalKey,   \* final_object_key, named by its date prefix; 0 is NULL
    rows,       \* part numbers that have an upload_parts row
    \* PostgreSQL: receipts and organizations
    receipt,    \* the receipts row: dates of image_key and created_at, and
                \* (history, not a column) the quota_date of its completion
    stored,     \* organizations.stored_image_bytes
    \* S3
    partObjs,   \* part objects under uploads/
    images,     \* dates under which the receipt has a final image object
    \* handlers in progress
    put,        \* PUT part requests, one at a time per part (advisory lock)
    job,        \* the complete request that claimed the session
    clean,      \* the cleanup job's work on the session
    \* the clock
    day

uploadRows == <<session, expired, quiet, finalKey, rows>>
tenantRows == <<receipt, stored>>
objects    == <<partObjs, images>>
vars == <<uploadRows, tenantRows, objects, put, job, clean, day>>

Days  == 1 .. MaxDay
Dates == 0 .. MaxDay        \* 0 stands for NULL

NoReceipt == [key |-> 0, created |-> 0, lockDay |-> 0]
IdleJob   == [pc |-> "idle", parts |-> {}, key |-> 0, lockDay |-> 0, txDay |-> 0]
IdleClean == [pc |-> "idle", key |-> 0, parts |-> {}]

Statuses == {"NONE", "OPEN", "COMPLETING", "COMPLETE", "EXPIRED", "FAILED"}
JobStages == {"idle", "claimed", "assembled", "keyed", "stored", "begun",
              "counted", "undo", "revert", "committed", "cleaned"}
CleanStages == {"idle", "selected", "listed", "deleted"}

ReceiptRows == [key : Dates, created : Dates, lockDay : Dates]
Jobs == [pc : JobStages, parts : SUBSET Parts, key : Dates,
         lockDay : Dates, txDay : Dates]
Cleanings == [pc : CleanStages, key : Dates, parts : SUBSET Parts]

TypeOK ==
    /\ session \in [Receipts -> Statuses]
    /\ expired \subseteq Receipts
    /\ quiet \subseteq Receipts
    /\ finalKey \in [Receipts -> Dates]
    /\ rows \in [Receipts -> SUBSET Parts]
    /\ receipt \in [Receipts -> ReceiptRows]
    /\ stored \in Nat
    /\ partObjs \in [Receipts -> SUBSET Parts]
    /\ images \in [Receipts -> SUBSET Dates]
    /\ put \in [Receipts -> [Parts -> {"idle", "checked", "stored"}]]
    /\ job \in [Receipts -> Jobs]
    /\ clean \in [Receipts -> Cleanings]
    /\ day \in Days

Init ==
    /\ session  = [r \in Receipts |-> "NONE"]
    /\ expired  = {}
    /\ quiet    = {}
    /\ finalKey = [r \in Receipts |-> 0]
    /\ rows     = [r \in Receipts |-> {}]
    /\ receipt  = [r \in Receipts |-> NoReceipt]
    /\ stored   = 0
    /\ partObjs = [r \in Receipts |-> {}]
    /\ images   = [r \in Receipts |-> {}]
    /\ put      = [r \in Receipts |-> [p \in Parts |-> "idle"]]
    /\ job      = [r \in Receipts |-> IdleJob]
    /\ clean    = [r \in Receipts |-> IdleClean]
    /\ day      = 1

Recorded == {r \in Receipts : receipt[r].key # 0}
ReceivedSince(d) == {r \in Recorded : receipt[r].created >= d}

-----------------------------------------------------------------------------
(* Wrong variants of definitions below.  No specification uses them: they  *)
(* are put in the place of the definition they distort to see that a       *)
(* property notices.                                                       *)

AfterReceiptSubtracted == stored - ImageBytes
FitsStorageUnchecked == TRUE
ClaimableWhileCompleting(r) == session[r] \in {"OPEN", "COMPLETING"}
QuotaLockForgotten(r) == job[r].lockDay \in Days
WholeInStorage(r) == Parts \subseteq partObjs[r]
CleanableUnexpired(r) == session[r] \in {"OPEN", "COMPLETING"}
CleanableWithoutQuiet(r) ==
    \/ session[r] \in {"OPEN", "COMPLETING"} /\ r \in expired
    \/ session[r] = "COMPLETE" /\ r \in quiet /\ rows[r] # {}
CleanableWithoutComplete(r) ==
    \/ session[r] \in {"OPEN", "COMPLETING"} /\ r \in expired
    \/ session[r] = "COMPLETING" /\ r \in quiet
KeyToCleanAlways(r) == finalKey[r]
ExpirableAny(r) == session[r] # "NONE"
SetUploadStatusBlindly(r, expected, next) ==
    /\ session' = [session EXCEPT ![r] = next]
    /\ quiet' = quiet \ {r}

-----------------------------------------------------------------------------
(* POST /v1/uploads: create_upload_session.  A second call for the receipt *)
(* returns the session it finds, whatever its status, and changes nothing. *)

\* stored_image_bytes + total_bytes <= 0.9 * storage_byte_limit
FitsStorage == stored + ImageBytes <= StorageLimit

CreateUploadSession(r) ==
    /\ r \notin Recorded
    /\ session[r] = "NONE"
    /\ FitsStorage
    /\ session' = [session EXCEPT ![r] = "OPEN"]
    /\ UNCHANGED <<expired, quiet, finalKey, rows>>
    /\ UNCHANGED <<tenantRows, objects, put, job, clean, day>>

-----------------------------------------------------------------------------
(* PUT /v1/uploads/{id}/parts/{n}: put_upload_part.  The transaction holds *)
(* an advisory lock for the part from its first statement to its end; it   *)
(* reads the session without locking the row.                              *)

AcceptsParts(r) == session[r] = "OPEN" /\ r \notin expired

\* The checks, up to the S3 request.  A part that already has a row is
\* confirmed without a change.
PutBegin(r, p) ==
    /\ put[r][p] = "idle"
    /\ AcceptsParts(r)
    /\ p \notin rows[r]
    /\ put' = [put EXCEPT ![r][p] = "checked"]
    /\ UNCHANGED <<uploadRows, tenantRows, objects, job, clean, day>>

PutStore(r, p) ==
    /\ put[r][p] = "checked"
    /\ partObjs' = [partObjs EXCEPT ![r] = @ \cup {p}]
    /\ put' = [put EXCEPT ![r][p] = "stored"]
    /\ UNCHANGED <<uploadRows, tenantRows, images, job, clean, day>>

\* The INSERT follows the S3 request.
PutStored(r, p) == put[r][p] = "stored"

PutCommit(r, p) ==
    /\ PutStored(r, p)
    /\ rows' = [rows EXCEPT ![r] = @ \cup {p}]
    /\ put' = [put EXCEPT ![r][p] = "idle"]
    /\ UNCHANGED <<session, expired, quiet, finalKey>>
    /\ UNCHANGED <<tenantRows, objects, job, clean, day>>

\* An S3 or database error, or the death of the process: the transaction
\* rolls back and the lock is released; a stored object stays.
PutAbort(r, p) ==
    /\ put[r][p] # "idle"
    /\ put' = [put EXCEPT ![r][p] = "idle"]
    /\ UNCHANGED <<uploadRows, tenantRows, objects, job, clean, day>>

-----------------------------------------------------------------------------
(* POST /v1/uploads/{id}/complete: complete_upload_session.                *)

\* _set_upload_status: the UPDATE names the status it expects.
SetUploadStatus(r, expected, next) ==
    IF session[r] = expected
    THEN /\ session' = [session EXCEPT ![r] = next]
         /\ quiet' = quiet \ {r}
    ELSE UNCHANGED <<session, quiet>>

Claimable(r) == session[r] = "OPEN"

\* OPEN -> COMPLETING and the part rows, in one transaction.  It does not
\* look at expires_at.
Claim(r) ==
    /\ Claimable(r)
    /\ CleanDuringCompletion \/ clean[r].pc = "idle"
    /\ session' = [session EXCEPT ![r] = "COMPLETING"]
    /\ quiet' = quiet \ {r}
    /\ job' = [job EXCEPT ![r] = [IdleJob EXCEPT !.pc = "claimed", !.parts = rows[r]]]
    /\ UNCHANGED <<expired, finalKey, rows>>
    /\ UNCHANGED <<tenantRows, objects, put, clean, day>>

\* Every part was confirmed and is in S3.
Whole(r) == job[r].parts = Parts /\ Parts \subseteq partObjs[r]

Assemble(r) ==
    /\ job[r].pc = "claimed"
    /\ Whole(r)
    /\ job' = [job EXCEPT ![r].pc = "assembled"]
    /\ UNCHANGED <<uploadRows, tenantRows, objects, put, clean, day>>

\* The bytes are not a WebP image, or not those of image_sha256.  Contents
\* are not modelled: either verdict is possible.
AssembleInvalid(r) ==
    /\ job[r].pc = "claimed"
    /\ Whole(r)
    /\ SetUploadStatus(r, "COMPLETING", "FAILED")
    /\ job' = [job EXCEPT ![r] = IdleJob]
    /\ UNCHANGED <<expired, finalKey, rows>>
    /\ UNCHANGED <<tenantRows, objects, put, clean, day>>

\* A part is missing, or S3 does not answer.
AssembleFail(r) ==
    /\ job[r].pc = "claimed"
    /\ SetUploadStatus(r, "COMPLETING", "OPEN")
    /\ job' = [job EXCEPT ![r] = IdleJob]
    /\ UNCHANGED <<expired, finalKey, rows>>
    /\ UNCHANGED <<tenantRows, objects, put, clean, day>>

\* image_key carries the date of the service's clock.
RecordKey(r) ==
    /\ job[r].pc = "assembled"
    /\ IF session[r] = "COMPLETING"
       THEN finalKey' = [finalKey EXCEPT ![r] = day] /\ quiet' = quiet \ {r}
       ELSE UNCHANGED <<finalKey, quiet>>
    /\ job' = [job EXCEPT ![r] = [@ EXCEPT !.pc = "keyed", !.key = day]]
    /\ UNCHANGED <<session, expired, rows>>
    /\ UNCHANGED <<tenantRows, objects, put, clean, day>>

\* The final image, then quota_date from the service's clock.
StoreImage(r) ==
    /\ job[r].pc = "keyed"
    /\ images' = [images EXCEPT ![r] = @ \cup {job[r].key}]
    /\ job' = [job EXCEPT ![r] = [@ EXCEPT !.pc = "stored", !.lockDay = day]]
    /\ UNCHANGED <<uploadRows, tenantRows, partObjs, put, clean, day>>

\* The final transaction starts: NOW() and CURRENT_DATE are fixed, the
\* session row is locked FOR UPDATE and must still be COMPLETING.
Begin(r) ==
    /\ job[r].pc = "stored"
    /\ job' = [job EXCEPT ![r] = IF session[r] = "COMPLETING"
                                 THEN [@ EXCEPT !.pc = "begun", !.txDay = day]
                                 ELSE [@ EXCEPT !.pc = "undo"]]
    /\ UNCHANGED <<uploadRows, tenantRows, objects, put, clean, day>>

\* The advisory locks daily-organization:...:quota_date and daily-site:...
QuotaLockFree(r) ==
    \A q \in Receipts : job[q].pc = "counted" => job[q].lockDay # job[r].lockDay

\* The locks are taken and the receipts created since CURRENT_DATE counted.
CountQuota(r) ==
    /\ job[r].pc = "begun"
    /\ QuotaLockFree(r)
    /\ Cardinality(ReceivedSince(job[r].txDay)) < DailyLimit
    /\ job' = [job EXCEPT ![r].pc = "counted"]
    /\ UNCHANGED <<uploadRows, tenantRows, objects, put, clean, day>>

\* Any error of the final transaction: a limit is reached, the site is not
\* active, the connection breaks.  It rolls back and releases its locks.
RollBack(r) ==
    /\ job[r].pc \in {"begun", "counted"}
    /\ job' = [job EXCEPT ![r].pc = "undo"]
    /\ UNCHANGED <<uploadRows, tenantRows, objects, put, clean, day>>

AfterReceipt == stored + ImageBytes

\* The conditional quota UPDATE, the receipts row (with its audit event and
\* its outbox message), COMPLETE, and COMMIT.  When the connection breaks
\* during COMMIT the handler gets an error although the commit took effect.
Commit(r) ==
    /\ job[r].pc = "counted"
    /\ FitsStorage
    /\ stored' = AfterReceipt
    /\ receipt' = [receipt EXCEPT ![r] = [key |-> job[r].key, created |-> job[r].txDay,
                                          lockDay |-> job[r].lockDay]]
    /\ session' = [session EXCEPT ![r] = "COMPLETE"]
    /\ quiet' = quiet \ {r}
    /\ \E answer \in CommitAnswers :
          job' = [job EXCEPT ![r].pc = IF answer = "committed" THEN "committed" ELSE "undo"]
    /\ UNCHANGED <<expired, finalKey, rows>>
    /\ UNCHANGED <<objects, put, clean, day>>

\* except Exception: every version of image_key is deleted; an error of the
\* deletion is logged and swallowed ...
DeleteImage(r) ==
    /\ job[r].pc = "undo"
    /\ images' = [images EXCEPT ![r] = @ \ {job[r].key}]
    /\ job' = [job EXCEPT ![r].pc = "revert"]
    /\ UNCHANGED <<uploadRows, tenantRows, partObjs, put, clean, day>>

DeleteImageFail(r) ==
    /\ job[r].pc = "undo"
    /\ job' = [job EXCEPT ![r].pc = "revert"]
    /\ UNCHANGED <<uploadRows, tenantRows, objects, put, clean, day>>

\* ... and the session is open again.
Revert(r) ==
    /\ job[r].pc = "revert"
    /\ SetUploadStatus(r, "COMPLETING", "OPEN")
    /\ job' = [job EXCEPT ![r] = IdleJob]
    /\ UNCHANGED <<expired, finalKey, rows>>
    /\ UNCHANGED <<tenantRows, objects, put, clean, day>>

\* After the commit the part objects are deleted; only when all deletions
\* succeed are the rows deleted too.  The request succeeds either way.
DeleteParts(r) ==
    /\ job[r].pc = "committed"
    /\ partObjs' = [partObjs EXCEPT ![r] = @ \ job[r].parts]
    /\ job' = [job EXCEPT ![r].pc = "cleaned"]
    /\ UNCHANGED <<uploadRows, tenantRows, images, put, clean, day>>

DeletePartsFail(r) ==
    /\ job[r].pc = "committed"
    /\ \E gone \in SUBSET job[r].parts :
          partObjs' = [partObjs EXCEPT ![r] = @ \ gone]
    /\ job' = [job EXCEPT ![r] = IdleJob]
    /\ UNCHANGED <<uploadRows, tenantRows, images, put, clean, day>>

DeleteRows(r) ==
    /\ job[r].pc = "cleaned"
    /\ rows' = [rows EXCEPT ![r] = {}]
    /\ job' = [job EXCEPT ![r] = IdleJob]
    /\ UNCHANGED <<session, expired, quiet, finalKey>>
    /\ UNCHANGED <<tenantRows, objects, put, clean, day>>

\* The handler dies, or an error outside its try blocks ends it (RecordKey
\* and StoreImage are outside them): the session keeps its status.
Abandon(r) ==
    /\ job[r].pc # "idle"
    /\ job' = [job EXCEPT ![r] = IdleJob]
    /\ UNCHANGED <<uploadRows, tenantRows, objects, put, clean, day>>

-----------------------------------------------------------------------------
(* The retention job: cleanup_orphan_uploads.                              *)

Cleanable(r) ==
    \/ session[r] \in {"OPEN", "COMPLETING"} /\ r \in expired
    \/ session[r] = "COMPLETING" /\ r \in quiet
    \/ session[r] = "COMPLETE" /\ r \in quiet /\ rows[r] # {}

\* final_object_key is deleted too unless the row read is COMPLETE.
KeyToClean(r) == IF session[r] = "COMPLETE" THEN 0 ELSE finalKey[r]

\* The first transaction: the sessions to clean, as they are now.
CleanSelect(r) ==
    /\ clean[r].pc = "idle"
    /\ CleanDuringCompletion \/ job[r].pc = "idle"
    /\ Cleanable(r)
    /\ clean' = [clean EXCEPT ![r] = [IdleClean EXCEPT !.pc = "selected",
                                                       !.key = KeyToClean(r)]]
    /\ UNCHANGED <<uploadRows, tenantRows, objects, put, job, day>>

CleanList(r) ==
    /\ clean[r].pc = "selected"
    /\ clean' = [clean EXCEPT ![r] = [@ EXCEPT !.pc = "listed", !.parts = rows[r]]]
    /\ UNCHANGED <<uploadRows, tenantRows, objects, put, job, day>>

CleanObjects(r) ==
    /\ clean[r].pc = "listed"
    /\ partObjs' = [partObjs EXCEPT ![r] = @ \ clean[r].parts]
    /\ images' = [images EXCEPT ![r] = @ \ {clean[r].key}]
    /\ clean' = [clean EXCEPT ![r].pc = "deleted"]
    /\ UNCHANGED <<uploadRows, tenantRows, put, job, day>>

\* A deletion fails after some objects are gone: the session is skipped.
CleanObjectsFail(r) ==
    /\ clean[r].pc = "listed"
    /\ \E gone \in SUBSET clean[r].parts :
          partObjs' = [partObjs EXCEPT ![r] = @ \ gone]
    /\ clean' = [clean EXCEPT ![r] = IdleClean]
    /\ UNCHANGED <<uploadRows, tenantRows, images, put, job, day>>

Expirable(r) == session[r] \in {"OPEN", "COMPLETING"}

\* The last transaction: it waits for the row lock of a completion's final
\* transaction.
CleanRows(r) ==
    /\ clean[r].pc = "deleted"
    /\ job[r].pc \notin {"begun", "counted"}
    /\ rows' = [rows EXCEPT ![r] = {}]
    /\ IF Expirable(r)
       THEN session' = [session EXCEPT ![r] = "EXPIRED"] /\ quiet' = quiet \ {r}
       ELSE UNCHANGED <<session, quiet>>
    /\ clean' = [clean EXCEPT ![r] = IdleClean]
    /\ UNCHANGED <<expired, finalKey>>
    /\ UNCHANGED <<tenantRows, objects, put, job, day>>

\* The job dies.
CleanAbandon(r) ==
    /\ clean[r].pc # "idle"
    /\ clean' = [clean EXCEPT ![r] = IdleClean]
    /\ UNCHANGED <<uploadRows, tenantRows, objects, put, job, day>>

\* The sweep of objects that no row names and that are older than 25 hours:
\* the session, one hour younger at the most, expired before.
SweepUntracked(r, p) ==
    /\ r \in expired
    /\ put[r][p] = "idle"
    /\ p \in partObjs[r] \ rows[r]
    /\ partObjs' = [partObjs EXCEPT ![r] = @ \ {p}]
    /\ UNCHANGED <<uploadRows, tenantRows, images, put, job, clean, day>>

-----------------------------------------------------------------------------
(* Time.                                                                   *)

PassExpiry(r) ==
    /\ session[r] # "NONE"
    /\ r \notin expired
    /\ expired' = expired \cup {r}
    /\ UNCHANGED <<session, quiet, finalKey, rows>>
    /\ UNCHANGED <<tenantRows, objects, put, job, clean, day>>

\* 15 minutes without an update: no complete request runs that long.
PassQuiet(r) ==
    /\ session[r] \in {"COMPLETING", "COMPLETE"}
    /\ r \notin quiet
    /\ job[r].pc = "idle"
    /\ quiet' = quiet \cup {r}
    /\ UNCHANGED <<session, expired, finalKey, rows>>
    /\ UNCHANGED <<tenantRows, objects, put, job, clean, day>>

NextDay ==
    /\ day < MaxDay
    /\ day' = day + 1
    /\ UNCHANGED <<uploadRows, tenantRows, objects, put, job, clean>>

-----------------------------------------------------------------------------
PutStep(r, p) == PutStore(r, p) \/ PutCommit(r, p)

\* The steps of a complete request that has claimed its session.
JobStep(r) ==
    \/ Assemble(r) \/ AssembleInvalid(r) \/ AssembleFail(r)
    \/ RecordKey(r) \/ StoreImage(r) \/ Begin(r) \/ CountQuota(r)
    \/ RollBack(r) \/ Commit(r) \/ DeleteImage(r) \/ DeleteImageFail(r)
    \/ Revert(r) \/ DeleteParts(r)

\* The last step of a request that succeeds.
JobEnd(r) == DeletePartsFail(r) \/ DeleteRows(r)

CleanStep(r) ==
    \/ CleanSelect(r) \/ CleanList(r) \/ CleanObjects(r)
    \/ CleanObjectsFail(r) \/ CleanRows(r) \/ CleanAbandon(r)

Next ==
    \/ \E r \in Receipts :
          \/ CreateUploadSession(r) \/ Claim(r)
          \/ JobStep(r) \/ JobEnd(r) \/ Abandon(r)
          \/ CleanStep(r) \/ PassExpiry(r) \/ PassQuiet(r)
          \/ \E p \in Parts : \/ PutBegin(r, p) \/ PutStep(r, p)
                              \/ PutAbort(r, p) \/ SweepUntracked(r, p)
    \/ NextDay

Spec == Init /\ [][Next]_vars

\* What goes wrong without need: an error where the request could have
\* gone on, the death of a process.
JobFault(r) ==
    \/ AssembleFail(r) /\ Whole(r)
    \/ RollBack(r) /\ FitsStorage
    \/ DeleteImageFail(r)
    \/ Abandon(r)
CleanFault(r) == CleanObjectsFail(r) \/ CleanAbandon(r)

\* A request that has started ends, the clock runs, and the retention job is
\* scheduled again and again.
Fairness ==
    /\ \A r \in Receipts :
          /\ WF_vars(JobStep(r) \/ JobEnd(r))
          /\ WF_vars(PassQuiet(r))
          /\ WF_vars(CleanStep(r))

-----------------------------------------------------------------------------
(* Properties.                                                             *)

\* A receipt exists exactly when its session is COMPLETE: neither a crash,
\* a broken COMMIT nor the cleanup job separates the two tables.
ReceiptIffComplete ==
    \A r \in Receipts : r \in Recorded <=> session[r] = "COMPLETE"

\* organizations.stored_image_bytes is the size of the recorded images and
\* stays within the limit, whatever completions race for the last bytes.
StorageLedger ==
    /\ stored = ImageBytes * Cardinality(Recorded)
    /\ stored <= StorageLimit

RecordedUnder(d, l) ==
    {r \in Recorded : receipt[r].created = d /\ receipt[r].lockDay = l}
Counting(d, l) ==
    {r \in Receipts : job[r].pc = "counted" /\ job[r].txDay = d /\ job[r].lockDay = l}

\* Completions that hold the daily locks of one date never overrun the
\* limit: the receipts of a day that were recorded under one lock, and the
\* completions that have passed the count with it, stay within the limit.
QuotaHoldsPerLock ==
    \A d, l \in Days :
        Cardinality(RecordedUnder(d, l)) + Cardinality(Counting(d, l)) <= DailyLimit

\* The limit itself.  It does not hold at midnight: quota_date is read
\* before the transaction starts, so two completions may hold locks of two
\* dates and count the receipts of the same day.
DailyLimitHolds ==
    \A d \in Days : Cardinality({r \in Recorded : receipt[r].created = d}) <= DailyLimit

\* A part the server has confirmed is in S3 as long as the session accepts
\* parts: a client that resumes never skips a part that is gone.
ConfirmedPartsStored ==
    \A r \in Receipts : AcceptsParts(r) => rows[r] \subseteq partObjs[r]

\* Once a session is COMPLETE no part request is in progress for it, so no
\* part appears after the handler has removed the parts.
NoPartAfterComplete ==
    \A r \in Receipts, p \in Parts : session[r] = "COMPLETE" => put[r][p] = "idle"

\* A received receipt keeps its image.  It does not hold: the cleanup job may
\* have taken the key of an expired session just before its completion commits.
ImageDurable ==
    \A r \in Recorded : receipt[r].key \in images[r]

\* The cleanup job is about to delete the receipt's final image.
TakesImage(r) == clean[r].pc # "idle" /\ clean[r].key # 0

\* What does hold, with every fault.  A completion that commits before its
\* session expires has its image in S3, and no cleanup at hand that would take
\* it; no cleanup takes the image of a receipt once it is recorded; so the only
\* step that can still delete it is the error path of its own completion, when
\* a COMMIT that took effect was not answered.
TimelyImageKept ==
    [][\A r \in Receipts :
          /\ r \notin Recorded /\ r \in Recorded' /\ r \notin expired =>
                 receipt'[r].key \in images'[r] /\ ~TakesImage(r)'
          /\ r \in Recorded /\ ~TakesImage(r) =>
                 /\ ~TakesImage(r)'
                 /\ receipt[r].key \in images[r] /\ job[r].pc # "undo" =>
                        receipt[r].key \in images'[r]]_vars

\* COMPLETE, EXPIRED and FAILED are final, and a recorded receipt is never
\* written again.
TerminalStates ==
    [][\A r \in Receipts :
          session[r] \in {"COMPLETE", "EXPIRED", "FAILED"} =>
              session'[r] = session[r] /\ receipt'[r] = receipt[r]]_vars

\* A session is claimed by one complete request at a time: a second one
\* never starts while a first is between its claim and its end.
OneCompleter ==
    [][\A r \in Receipts : job'[r].pc = "claimed" => job[r].pc \in {"idle", "claimed"}]_vars
=============================================================================
