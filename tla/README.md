# ChallanSe in TLA+

TLA+ specifications of ChallanSe, the receipt capture system of this repository:
phones on construction sites photograph delivery receipts, upload them to an
authoritative service, which has them read by OCR and reviewed, and reconciles
the reviewed quantities with purchase orders. Paths below are relative to the
root of the source tree; `app/` stands for `services/enrichment/app/`.

Three parts are modelled: the resumable upload, which turns a photograph on a
phone into a recorded receipt; the enrichment that follows it, with its outbox,
queue and workers; and the control plane around both: administration, devices,
reviews and the audit chain, retention, the ingress of the edge, and the local
pilot with its sign-in, its life cycle and its test runs.

## The system

| Component | Where | State | Operations |
|---|---|---|---|
| Capture store | `apps/mobile/src/engine` | SQLCipher tables `receipt_events` | capture (serialised by a promise queue), purge of payloads |
| Background sync | `apps/mobile/src/sync`, Kotlin `ReceiptSyncKickWorker` | `receipt_sync_state`, `receipt_upload_sessions`, artifacts | `runOnce`, `syncReceipt`, back-off, gate (charging, approved Wi-Fi) |
| Edge worker | `apps/edge/src` | none | sign and forward requests, Access identities |
| Upload service | `app/authoritative.py` 256-627 | `upload_sessions`, `upload_parts`, `receipts`, `organizations.stored_image_bytes`, S3 parts and images | create, progress, put part, complete |
| Cleanup and retention | `app/jobs.py` | the same tables and objects, tombstones | `cleanup_orphan_uploads`, `apply_retention` |
| Device access | `app/authoritative.py` 72-217, 856-885, 1334-1377 | `devices`, `enrollment_codes`, nonces, rate windows | authenticate, consume nonce, enroll, revoke, change the limit, download the configuration |
| Outbox and queue | `app/outbox.py`, `app/queueing.py`, workers | `transactional_outbox`, `local_receipt_queue` or SQS | claim with a lease, deliver, mark |
| Enrichment workflow | `app/workflow.py`, `app/storage.py` | `workflow_stages`, `enrichment_receipts`, audits | image fetch, OCR, GST, finalise |
| Review and reconciliation | `app/authoritative.py` 750-832, `app/reconciliation.py` | `receipts.version`, `verified_receipts`, Tally imports | verify, reject, import, compare |
| Audit chain | `app/audit_chain.py` and every writer of `audit_events` | hash chain per site | append under an advisory lock, verify |
| Administration | `app/authoritative.py` 1037-1377 | memberships, invitations, sites, vendors, quotas | upsert, invite, accept |
| Local pilot | `app/local_*.py`, `app/pilot_control.py` | `local_test_runs`, `local_pilot_control`, reviewer credentials | test runs, cancellation, activation, login |
| Service ingress, telemetry | `app/ingress.py`, `app/main.py`, `app/jobs.py` | `service_ingress_requests`, telemetry tables | reserve, queue, record, digest |

**How they interact.** The phone talks HTTP through the edge worker to the
service; any request or answer may be lost, and a handler continues when its
client is gone. Handlers run concurrently (FastAPI, several processes) and share
only PostgreSQL (READ COMMITTED, row locks, advisory locks) and S3, which no
transaction covers. The final transaction of an upload writes the receipt, an
audit event and an outbox message; workers claim outbox messages with a lease
and put them into the queue, from which the enrichment workflow takes them. Its
result returns to `receipts` through the outbox again. The cleanup job runs as a
process of its own next to all of this.

**What is hard.** Steps of S3 and PostgreSQL with crashes between them; a cleanup
job that reads, deletes and writes in three steps; two workers of one phone; lost
answers; quotas counted under locks whose name depends on the clock; leases that
nobody owns. `PROJECT.json` lists each hazard at its line with the property
that covers it, or why none does.

**What makes each component correct.**

- Upload service: a receipt exists exactly when its session is COMPLETE; bytes
  are counted once and within the limit; the daily limit holds; one completer
  per session; final statuses are final; a receipt completed in time keeps its
  image, unless its COMMIT took effect and was not answered.
- Cleanup: it takes nothing from a session that is alive or that it finds
  received, and reclaims what a dead completion left.
- Background sync: a receipt is shown as synced only when it is recorded; uploads
  resume and end.
- Outbox, queue, workflow: a provider stage runs once, and only a `fail_stage` that
  comes late opens it again; every receipt gets a final callback; the projection
  shows only results that were published (not always the newest of them), and
  what a reviewer decided stays.
- Review: what reconciliation counts is the newest verification anybody sent;
  every decision is audited. Audit chain: what was appended verifies, unless the
  order of commits or retention breaks it. Administration: an organization keeps
  an administrator.
- Devices: a code enrolls once and within the limit; a request runs once; a
  device's vendor list is as new as its configuration version.
- Retention and ingress: the bytes of an image come off the charge once, and with
  its deletion on record; an answered event is on the queue.
- Local pilot: guesses are limited and recovery codes used once; the controlled
  mode has the client that was prepared; a test run cleans up, or says it did not.

## Modules

| Module | What it is |
|---|---|
| `UploadSessions` | the upload service and the cleanup job |
| `UploadSync` | `runOnce`/`syncReceipt` on the phone, composed with `UploadSessions` |
| `ReceiptLog` | the abstract promise: receipts are recorded once; the phone believes only recorded ones |
| `UploadSessionsProofs` | theorems about `UploadSessions`, proved |
| `ReceiptQueue` | the receipt queue: `local_receipt_queue` or SQS |
| `Outbox` | outbox, dispatcher and projection into `receipts`, on top of `ReceiptQueue` |
| `EnrichmentWorkflow` | the workers that dispatch, take messages and enrich, on top of `Outbox` |
| `EnrichmentLog` | the abstract promise: versions grow, only published results are shown, decisions stay |
| `AuditChain` | the audit chain of a site: append and verify |
| `Administration` | memberships, invitations, site and vendors, on top of `AuditChain` |
| `DeviceAccess` | enrollment, revocation, the device limit, configuration download, on top of `Administration` |
| `DeviceRequests` | timestamp window, nonce and rate limit of a device's requests |
| `ReceiptReview` | reviews and `verified_receipts`, on top of `AuditChain` |
| `Retention` | the retention job, on top of `ReceiptReview` |
| `ServiceIngress` | receipt events of the edge: reserve, queue, mark |
| `LocalAuth` | sign-in of the local pilot: lockout, recovery codes, sessions |
| `PilotControl` | prepare, activate, end, purge, reset and seed of the local pilot |
| `LocalTestRuns` | test runs of the local console, on top of `PilotControl` |
| `ControlPlane` | the modules from `AuditChain` on, composed |
| `UploadSyncProofs` | theorems about `UploadSync`, from those about `UploadSessions` |
| `EnrichmentProofs` | theorems about `EnrichmentWorkflow` |
| `AuditChainProofs` | the audit chain, for any component that appends to it |
| `DeviceAccessProofs` | `Administration` and `DeviceAccess` |
| `RetentionProofs` | `ReceiptReview` and `Retention` |
| `ServiceProofs` | `DeviceRequests`, `ServiceIngress`, `LocalAuth`, `PilotControl`, `LocalTestRuns` |
| `ControlPlaneProofs` | theorems about `ControlPlane`, from the four modules before it |
| `MCUploadSessions`, `MCUploadSync`, `MCEnrichment`, `MCControlPlane` | model values, deployments, groups of actors and symmetry for TLC |

### UploadSessions

`upload_sessions.receipt_id` is unique, so a session is identified by its
receipt. `session`, `expired`, `quiet`, `finalKey` and `rows` are the columns
status, `expires_at <= NOW()`, `updated_at` more than 15 minutes ago,
`final_object_key`, and the rows of `upload_parts`. `receipt` and `stored` are
the receipts row and `organizations.stored_image_bytes`; `partObjs` and `images`
are the S3 objects (an image key contains the date, so a receipt may have images
under several dates). `put`, `job` and `clean` are the local state of the part
requests, the completion and the cleanup job.

Each action is one transaction or one S3 request of a handler:

- `CreateUploadSession`; `PutBegin`, `PutStore`, `PutCommit` with `PutAbort`;
- `Claim`, `Assemble` (or `AssembleInvalid`, `AssembleFail`), `RecordKey`,
  `StoreImage`, `Begin`, `CountQuota`, `Commit`, `DeleteParts`, `DeleteRows`; the
  error path `RollBack`, `DeleteImage`, `Revert`; `Abandon` is process death;
- `CleanSelect`, `CleanList`, `CleanObjects`, `CleanRows`, `SweepUntracked`;
- `PassExpiry`, `PassQuiet`, `NextDay`: time.

The final transaction is three actions (`Begin`, `CountQuota`, `Commit`) because
another handler can be seen between them: the daily locks are taken in the middle,
and NOW() is fixed at its beginning while quota_date was read before it.

Abstractions: bytes, hashes and metadata (a verdict on an image is a choice);
all receipts have the same size; the limits of site and organization are one
number; one organization and site. Several deletions of one step are one action
when all succeed, and any subset when one fails. `PassQuiet` assumes that no
completion runs for 15 minutes, and `SweepUntracked` that no part request runs
for an hour. Two constants name assumptions on the environment:
`CommitAnswers` (may COMMIT report an error after it took effect?) and
`CleanDuringCompletion` (may the cleanup job meet a running completion, which
takes one that runs past `expires_at`?). The code excludes neither: `upload_sync`
has both, and the theorems hold for every value. Only the fairness of
`upload_sync_live` needs true answers and a cleanup that keeps away.

### UploadSync

A worker is one execution of `runOnce`; there are several because
`ReceiptSyncKickWorker` stops waiting after 120 seconds and WorkManager starts
another. `sync` is the set of receipts with status 'synced', `uploadId` those
with a row in `receipt_upload_sessions`. A request starts the server's action
(`PostUploads` is `CreateUploadSession`, `SendPart` is `PutBegin`,
`PostComplete` is `Claim`), the answer comes with the last one (`PartStored`,
`CompleteAnswered`) if the worker still waits; `Lost` makes it stop waiting while
the server goes on, `Refused` is an error status, `KillApp` ends all workers.

### ReceiptQueue, Outbox, EnrichmentWorkflow

The three modules are layers over one set of workers. `queue` has the messages
of each receipt: one row with PostgreSQL, one per send with SQS. `outbox` is
`transactional_outbox` by its unique key (receipt, event type, version);
`delivery` and `stage` are the rows of `workflow_stages` of the dispatcher and of
the providers; `receipt` and `row` are `receipts` and `enrichment_receipts`. A
worker has a program counter, the batch of events it has claimed, the event whose
effect is done but not marked, and its message. `deployment` is the
configuration and environment at hand and never changes: the queue provider,
whether GST is enabled, the kinds of lease a worker may outlive, the number of
faults.

- Dispatcher: `ClaimOutbox`; `Project`, `SendToQueue`, `SendCredit` or
  `Undeliverable`; `MarkDelivered`, `MarkFailed`, `DisableCredit`;
  `EndDispatch`. The effect of an event and its mark are two actions because a
  crash or another dispatcher can come between them.
- Queue: `Enqueue`, `Receive`, `CompleteMessage`, `FailMessage`, `Redrive`.
- Workflow: `Begin`, `LookAtImageStage`, a claim of each stage, its outcome
  (`ImageFetched`, `ImageInvalid`, `ProviderFails`, `SaveOcr`, `SaveGst`), the
  refusals `OcrDenied` and `GstDenied`, `Finalize`.
- Loop: `TakeMessage`, `NoMessageWaiting`, `MessageDone`, `MessageFailed`.
- Faults: `Crash`; `DatabaseError`, a database call that raises outside the `try`
  blocks of a stage, or in `fail_stage`; `CommitUnanswered`, the COMMIT of
  `complete_stage`, `save_ocr_result` or `save_gst_result` that takes effect and
  raises, inside the `try` block: the worker goes on to `fail_stage`, which does
  not look at the status and overwrites what was completed. A provider call or
  `save_*` that raises without effect is no fault: `ProviderFails` is always possible.
- Environment: `RecordReceipt` (the commit of an upload), `Review`, and time.

Abstractions: `held` says that `locked_until`, `available_at` or the visibility
timeout lies ahead; it may end at any time unless somebody works under it and its
kind is not in `outlived`. Attempts are counted up to the limit they are compared
with. Results are reduced to version, status and whether GST was checked. The
20 events a dispatcher may claim exceed what the model can have. Where a COMMIT of
`process_receipt_event` outside those three takes effect unanswered, the result is
that step followed by `DatabaseError`; in a dispatcher, the step followed by
`Crash`. SQS neither loses nor duplicates
messages by itself; a lost answer to `send_message` is `SendToQueue` followed by
`MarkFailed`.

### AuditChain and the modules that append to it

`events` has the rows of `audit_events`, each with `created_at` (`at`), the hash
of its predecessor (`previous`, the `at` of the event it is of) and its receipt.
`clock` is the latest start of a transaction. `created_at` is NOW(), the start,
whereas the place in the chain comes with the advisory lock, just before the
commit; so a handler is two actions, `Begin...` and `Commit...` (`Decide`,
`ReceiptArrives`). A transaction that waits for a row before it reads anything
begins, for the model, at any time before it gets the row.

- `Administration`: `Authenticate` reads the role in a transaction of its own,
  `Begin.../CommitMembership`, `...Site`, `...Vendor`, `...Invite`, `...Accept`,
  `RequestFails`, `InvitationExpires`. `request` is the request of each user's
  browser. Row locks are the `Holds...` operators.
- `DeviceAccess`: `CreateCode`, `CodeExpires`, `RevokeDevice`,
  `Begin.../CommitEnrollment`, `Begin.../CommitQuota`, `Begin.../CommitRevokeAll`,
  and the two reads of `mobile_bootstrap`.
- `ReceiptReview`: a reviewer's `copies` of a receipt, `Load`, `BeginReview`,
  `Decide`; `EdgeReview` is `record_verified_review`; `BeginArrival` and
  `ReceiptArrives` are the last transaction of an upload.
- `Retention`: per image `MarkPending`, `DeleteObject` (or `DeleteFails` and
  `MarkRetryable`), `MarkCompleted`; per run `StartPurge` and `Purge`, which are one
  transaction whose first DELETE took its snapshot before the second.

### DeviceRequests, ServiceIngress, LocalAuth

These share no state with the others. `DeviceRequests` has one device and a
clock of minutes; the network delivers a request as often and as late as it
likes. `ServiceIngress` has one receipt, whose event may be posted again with the
same or another request id; reserving, queueing and marking are separate
actions, and `HandlerDies` may come between. `LocalAuth` has one reviewer;
a login judges the lock by the time it began (`login`), under a row lock it gets
later.

### PilotControl and LocalTestRuns

`command` is what the command of each operator does next: preparation has four
transactions, and activation, reset and seed check the mode in one transaction
and change data in another. `Deletable` is the foreign key of `audit_events`: an
organization that was bootstrapped has an event and cannot be deleted by a
statement that leaves its events. In `LocalTestRuns`, `run` is the newest row of
`local_test_runs`; `worker` is its thread or the recovery at start, with the
step it has reached, what it does after a cleanup (`after`) and whether the
newest row is the one it works on (`own`); `upload` is a request in flight, which
goes on in the service when its client is gone.

### ControlPlane

`atWork` never changes: it names the group of actors that work in a behaviour, so
one run explores twelve small groups, each around one kind of conflict, from
the same initial state.

## Runs

| Run | Instance | Shows |
|---|---|---|
| `upload_sessions` | 2 receipts, 1 part, 2 days, space for one image, a daily limit of 1, unanswered COMMITs | `StorageLedger`, `NoPartAfterComplete`, `QuotaHoldsPerLock` |
| `upload_sync` | 1 receipt, 2 parts, 2 workers, 2 days, unanswered COMMITs, cleanup beside completions | `ReceiptIffComplete`, `ConfirmedPartsStored`, `TerminalStates`, `OneCompleter`, `TimelyImageKept`, refinement of `ReceiptLog` |
| `upload_sync_live` | 1 receipt, 2 parts, 2 workers, 1 day | `UploadEnds`, `CompletedPartsReclaimed`, under fairness |
| `enrichment` | 1 receipt, 2 workers, 2 messages, 2 attempts, seven deployments | `FinalResultPublished`, `NoSilentLoss`, `OneProviderRun`, `CompletedStagesKept`, refinement of `EnrichmentLog` |
| `enrichment_live` | 1 receipt, 1 worker, 2 deliveries, one fault, PostgreSQL and GST | `EnrichmentEnds`, under fairness |
| `control_plane` | twelve groups of two to five actors | `ChainBrokenOnlyByOverlapOrDeletion`, `AdministratorKept`, `EnrollmentsWithinLimit`, `VendorsAsNewAsVersion`, `RequestRunsOnce`, `NewestVerificationCounted`, `EveryDecisionAudited`, `ImagesChargedOnce`, `AnsweredMeansQueued`, `SessionsFollowCredentials`, `GuessesLimited`, `ControlledPrepared`, `EndsClean` |
| `lost_answer` | 1 receipt, 2 parts, 1 worker | `UploadResumes` fails |
| `image_lost` | 1 receipt, cleanup beside completions | `ImageDurable` fails |
| `midnight_quota` | 2 receipts, 2 days, a daily limit of 1, space for both | `DailyLimitHolds` fails |
| `provider_failure` | 1 receipt, 1 worker, SQS, the real limits of 5 receives and 5 attempts, no fault | `ProviderFailureReviewed` fails |
| `purge_refused` | 1 operator of the local pilot | `DueDataPurged` fails |
| `image_outlives_receipt` | 1 receipt, 1 retention job, 1 reviewer | `UndeletedImageKeepsReceipt` fails |

**Bounds.** Receipts interact only through `stored` and the daily locks, both of
which are full with two receipts; the theorems below cover any number. A session
needs two parts for a partial upload to differ from a complete one, which is
the instance of `upload_sync`; the other runs have one part because they
are about completions. Two days give every order of key date, lock date and
transaction date. Two workers are the overlap that the 120-second timeout
produces. The cleanup meets running completions in `upload_sync` and not in
`upload_sessions`: it works on the rows and objects of one receipt at a time, and
with two receipts the instance has 3.5 million states, too many to check every
time; the theorems cover it. `upload_sync` is symmetric in its parts and workers; the temporal
properties are checked without symmetry. Deadlock is not checked in the upload
runs, where everything may have ended; it is in the others, whose workers never
stop.

Enrichment rows of different receipts never meet, so one receipt is enough; a
batch still has several events, of several versions. Two workers are every
overlap of two; with two messages both may hold the same receipt. Limits of 2
separate the first attempt from the last. `MaxVersion` 3 is never reached as a
limit: a receipt gets at most one version from OCR, one from GST and one from a
failure. The deployments of `enrichment` are one fault (a crash, a failing database
call or an unanswered COMMIT) with SQS and without GST, and with PostgreSQL and GST;
and, without faults, messages that are delivered again while they are worked on
(SQS with and without GST, PostgreSQL without), messages and stages that are both
taken again while they are worked on (PostgreSQL without GST), and events that are
claimed again while they are delivered (PostgreSQL). A stage lease is five minutes,
longer than the timeouts of the provider calls, but a worker that is suspended
outlives it. Faults and outlived leases together are not explored by TLC; the
theorems cover them.

The groups of `control_plane` have at most two actors of each kind that
conflict: two administrators, two devices with one or two codes, two reviewers
with and without the edge service, two retention jobs with a reviewer or with a
second receipt, two requests of a device, two commands of the pilot, and one beside the
test runs. Posts of an event and sign-ins are three, because a third handler may
find what the second has left of the first. `lastStart` bounds the transactions
that append to the chain (the bootstrap is the first): four besides it in
the groups that need a decision, a counter-decision and what follows, fewer where
other actors add steps. `MaxMinute` 12 exceeds the ten minutes of a nonce, so its
deletion is reached; `MaxFailed` 2, `MaxPeriod` 2 and `MaxRotations` 2 give a
lockout, its end, the next lockout and a new credential in between. `MaxVersion`
3 is the last version an event of the edge names, below and above those of the
reviewers. One upload is in flight at a time in the test runs; a thread waits for
the answer of each. Deadlock is not checked in this run, whose clocks reach their
bounds.

**Fairness** (`UploadSync`, for `UploadEnds`, `CompletedPartsReclaimed` and
`UploadResumes`). A worker continues by itself and WorkManager, with
`Result.retry()`, wakes it as long as something is pending; a request that the
server has begun ends; the retention job is scheduled again and again, strongly
fair because without `CleanDuringCompletion` a session may be busy whenever it
looks. Faults need not stop: the properties say what happens if they do
(`FaultsRecur` is the other case), and a refusal by the server is no fault.

**Fairness** (`EnrichmentWorkflow`, for `EnrichmentEnds`). A worker continues by
itself, its loop never ends and a dead one is started again by its service
manager; leases, back-offs and visibility timeouts end. Nothing is assumed of the
providers, which may always fail.

**The six disagreements.**

- `lost_answer`: after the completion took effect and its answer was lost, the
  device finds a COMPLETE session without part rows, sends part 0 again, gets
  409 UPLOAD_NOT_OPEN and never clears its upload id, since only a 404 or 409 of
  GET progress does that. `docs/release-readiness.md:42` says that interrupted
  uploads resume after app or OS termination.
- `image_lost`: a completion that passes `expires_at` commits between the
  cleanup job's SELECT and its deletions, which remove the image.
  `docs/hybrid-enrichment.md:17` says that 202 means S3 durability.
- `midnight_quota`: two completions hold the locks of two dates and count the
  same day. `docs/hybrid-enrichment.md:19` says that quota overruns are prevented.
- `provider_failure`: a stage is final after five failures of its own, but a
  message goes to the dead-letter queue after five receives, whatever failed in
  them. One failed image fetch and four failed OCR calls leave the receipt
  RECEIVED, without result or callback. `docs/hybrid-enrichment.md:49` says that
  provider failure routes it to NEEDS_HUMAN_REVIEW.
- `purge_refused`: `purge_ended_pilot` deletes the organizations without their
  audit events, which refer to them ON DELETE RESTRICT, and every bootstrapped
  organization has an event; the transaction fails whenever it is due.
  `docs/local-pilot.md:101` says that the purge removes the data of the ended
  pilot. The same statement stops `prepare_client_configuration` and
  `reset_synthetic_data` once any organization was seeded.
- `image_outlives_receipt`: the yearly part of `apply_retention` deletes receipts
  whether or not their image was deleted, and images are found by their
  receipts. When a deletion has failed until the receipt is a year old, or fails in
  that run, nothing tries again: the object stays and its bytes stay charged.
  `docs/hybrid-enrichment.md:68` says that image versions are removed after 90 days.

**What the properties allow.** Some of them name what the code may do and exclude
the rest; a reader should know what passes.

`TimelyImageKept` is about receipts that were completed before their session
expired; `image_lost` shows what happens to others. It admits one loss: the error
path of a COMMIT that took effect unanswered deletes the image it has just recorded
(authoritative.py:601). `CompletedStagesKept` admits that `fail_stage` overwrites a
completed stage after an unanswered COMMIT, and when a worker outlived its stage
lease; both happen in the run. `EnrichmentLog`, with the projection of outbox
events, admits that an older published version is shown after a newer one.
`EnrichmentEnds` counts a receipt as ended that is given up visibly, in the
dead-letter queue or FAILED_TERMINAL, though it has no result: a worker that dies in
the last attempt at a stage leaves it so. `ImagesChargedOnce` is the ledger as the
code keeps it: the images of receipts that were removed before them stay charged,
which is what `image_outlives_receipt` is about.

`ChainBrokenOnlyByOverlapOrDeletion` admits that
`verify_audit_chains` rejects a chain nobody touched: two transactions that commit
in the other order than they began, and the yearly deletion of events in the
middle of the chain. `AdministratorKept` admits that two administrators who remove
each other at the same time leave none, since `upsert_membership` counts them
without locking them; that an invitation may demote the last one; and that the
only site may be deactivated, after which nobody is authenticated. `EndsClean`
admits an object that an upload leaves after its client is gone, if it was put
after the cleanup. Two more behaviours of the test runs are visible in the
model and no property excludes them: a progress update overwrites a
CANCEL_REQUESTED with RUNNING, so that the cancellation is forgotten; and a run
that is cancelled during its recovery stays CANCEL_REQUESTED, and blocks new
runs, until the worker starts again.

**What `NoSilentLoss` leaves out.** With GST, a worker whose claim of OCR is refused
returns the row of the other worker although it is not final (workflow.py:62-65),
and its message is deleted. That is harmless as long as the other still has its
message; if both have the same message, because one outlived it, and GST
then fails, nothing processes the receipt again. The SQS worker extends its
visibility timeout every two minutes, the PostgreSQL worker relies on three minutes
being enough. `NoSilentLoss` is claimed only where no worker outlives its message.

## Proofs

Every safety invariant and action property that a passing run checks, and both
refinements, are also proved, for all values of the constants. The assumptions are
those that the modules state about their constants (`UploadAssumption`,
`OutboxAssumption`, `DeviceAssumption` and so on), and nothing else: sets of
receipts, devices, codes and users are finite, limits and bounds are natural
numbers. The bounds of the model (`MaxDay`, `MaxClock`, `MaxVersion`, the limits
of attempts) are constants too, so a theorem holds for each of their values.

### Uploads

| Theorem | Statement |
|---|---|
| `TypeCorrect` | `Spec => []TypeOK` |
| `ReceiptMatchesSession` | `Spec => []ReceiptIffComplete` |
| `NoLatePart` | `Spec => []NoPartAfterComplete` |
| `PartsHeld` | `Spec => []ConfirmedPartsStored` |
| `StatusesTerminal` | `Spec => TerminalStates` |
| `SingleCompleter` | `Spec => OneCompleter` |
| `LedgerBalanced` | `Spec => []StorageLedger` |
| `QuotaPerLock` | `Spec => []QuotaHoldsPerLock` |
| `TimelyImagesKept` | `Spec => TimelyImageKept` |
| `SyncInvariant` | `SyncSpec => []SyncInv` |
| `SyncImplementsSessions` | `SyncSpec => Spec` |
| `SessionsHoldUnderSync` | the properties above hold of `SyncSpec` |
| `SyncTypeCorrect`, `ResumedPartsHeld` | `SyncSpec => []SyncTypeOK`, `SyncSpec => []ConfirmedPartsStored` |
| `SyncImplementsLog` | `SyncSpec => ImplementsReceiptLog` |

The inductive invariant `Inv` of `UploadSessionsProofs` has three parts for each
receipt. `Lifecycle` ties the status to the stage of the completion: the final
transaction keeps the row lock, so the session it commits is COMPLETING and was
never recorded. `HoldsParts` is why no part arrives late: a part request in
progress has no row (it holds the advisory lock), the rows a completion has read
stay until it ends, and a completion that assembled the image had all of them.
`KeepsAlive` keeps the cleanup job away from sessions that still take parts. None of
`ReceiptIffComplete`, `NoPartAfterComplete` and `ConfirmedPartsStored` is
inductive without it. The ledger needs in addition that only `Commit` touches
receipts (`OnlyCommitRecords`) and that its receipt is new; the quota, that the
lock of a date has one holder (`OneHolder`), by which the count that admitted it
is still true when it commits.

For the image, `ImagesHeld` is added: a completion whose session is alive has its
image, since the cleanup job has no live session in its hands (`KeepsAlive`). So a
completion that commits before its session expires has its image, with no cleanup
under way that would take it (`TimelyCommit`); afterwards the session is COMPLETE,
and a cleanup that selects it has no final key to delete (`RecordedImageStays`).
Nothing is assumed of COMMIT or of the cleanup.

`UploadSyncProofs` shows first that whatever the phone does is a step of `Next` or
leaves the server alone (`StepRefines`, which needs that a worker in the middle
of `syncReceipt` has a receipt). So `SyncSpec` implements `Spec`, and what holds of
the service for any clients holds under the workers.
`SyncedRecorded`, that a receipt shown as synced has its row, then follows from
`Inv`: `PostCompleteAgain` acts on a COMPLETE session, `CompleteAnswered` on a
completion past its commit. With `OnlyCommitRecords` it makes every step a
`Record`, an `Acknowledge` or a stutter of `ReceiptLog`.

### Enrichment

| Theorem | Statement |
|---|---|
| `WorkflowInvariant` | `Spec => []Inv` |
| `WorkflowTypeCorrect` | `Spec => []TypeOK` |
| `ResultsPublished` | `Spec => []FinalResultPublished` |
| `ProvidersRunOnce` | `Spec => []OneProviderRun` |
| `CompletedStagesStay` | `Spec => CompletedStagesKept` |
| `NothingLostSilently` | `Spec => []NoSilentLoss` |
| `WorkflowImplementsLog` | `Spec => ImplementsEnrichmentLog` |

`Inv` of `EnrichmentProofs` was checked by TLC on the deployments of `enrichment`
before it was proved. Its parts are

- `TypeInv`, with the shape of a worker: it has a message exactly while it
  processes one, and a claimed event once there is something to mark;
- `ClaimedExist`, `MessageShape`, `SentInv`: events in a worker's hands exist, an
  unused slot of the queue is as new, and once the QUEUE event of a receipt is
  delivered, marked or not, the receipt has a message;
- `RowInv`: published versions do not exceed that of the row, a final row has the
  callback of its version and status, and a row that leaves nothing to do
  has a result;
- `StageInv`: the worker that runs OCR or GST is alone and has the lease of the
  stage, unless stage leases are outlived, and a worker whose COMMIT was not
  answered (`Unsure`) has completed its stage;
- `RowBeforeEnd`, `HolderInv`, `SafeInv`: while message leases are not outlived,
  a message in work has one holder, and a receipt with a row and no result keeps a
  message whose worker does not go the way of a receipt without a row.

The last is what `NoSilentLoss` needs and what is hard to see in the code: a worker
that started before there was a row and finds that of another deletes its message
although nothing is published, which is harmless because the other still has its own.
The refinement proof sorts steps by what becomes of results, of what is shown and of
decisions (`LogEffect`) and maps each to a step of `EnrichmentLog` or a stutter.

### Control plane

| Theorem | Statement |
|---|---|
| `PlaneInvariant`, `PlaneTypeCorrect` | `PlaneSpec => []PlaneInv`, `PlaneSpec => []PlaneTypeOK` |
| `ChainBreaksOnlySo` | `PlaneSpec => []ChainBrokenOnlyByOverlapOrDeletion` |
| `EnrollmentsLimited` | `PlaneSpec => []EnrollmentsWithinLimit` |
| `VendorsFollowVersion` | `PlaneSpec => []VendorsAsNewAsVersion` |
| `RequestsRunOnce` | `PlaneSpec => []RequestRunsOnce` |
| `NewestCounted` | `PlaneSpec => []NewestVerificationCounted` |
| `DecisionsAudited` | `PlaneSpec => []EveryDecisionAudited` |
| `ImageLedgerKept` | `PlaneSpec => []ImagesChargedOnce` |
| `AnsweredEventsQueued` | `PlaneSpec => []AnsweredMeansQueued` |
| `SessionsCurrent` | `PlaneSpec => []SessionsFollowCredentials` |
| `GuessesBounded` | `PlaneSpec => []GuessesLimited` |
| `ControlledPilotPrepared` | `PlaneSpec => []ControlledPrepared` |
| `AdministratorStays` | `PlaneSpec => AdministratorKept` |
| `RunsEndClean` | `PlaneSpec => EndsClean` |

The components are proved apart and composed. Each of the four that append to the
audit chain shows what a step of its own does to it (`ChainMove`): a transaction
begins with a new start, appends its event and ends, or ends without. `Chain`
(starts are unique, and of two events the one appended later names one no older
than the other) survives such moves whoever makes them, and gives
`ChainBrokenOnlyByOverlapOrDeletion`. `PlaneInv` is the conjunction of the
components' invariants and `Chain` of all transactions under way. What the
invariants add to the properties:

- `DeviceInv`: at most one enrollment or quota change holds the organization
  (`OneHolder`), so the place that was counted is free until the commit
  (`PlaceFree`); a device's copy is behind the site (`CopiesBehind`), whose version
  every change of site or vendors raises (`MovesVersion`).
- `RetentionInv`: a receipt has as many events as versions; `verified_receipts` has
  the newest version told; a receipt that was ever in the tables does not arrive
  again (`Known`), without which a deleted image could be charged twice.
- `RequestsInv`: the row of an accepted nonce stays as long as its timestamp is in
  the window (`NonceOutlivesWindow`), from `2 * Window <= NonceLife`.
- `IngressInv`: a handler that is about to mark has queued.
- `AuthInv`: beyond `MaxFailed` each further failure moved the end of the lockout by
  a period (`LockoutFollowsFailures`); a code that is still in the row was not used.
- `PilotInv`, `TestInv`: what readiness found holds until the activation commits;
  the end of a run is reached only through a verified cleanup or with the error
  that says it failed (`EndsVerified`), and an upload in flight that the thread does
  not wait for has outlived it (`UploadOutlives`).

Two declarations were made stricter for the proofs: `request.seen` records the
administrators that a transaction counted, so that `AdministratorKept` can compare
them with those of its commit, and `DeviceAssumption` states the CHECK of
`organizations.device_limit`.

**Only model-checked:** the liveness properties `UploadEnds`,
`CompletedPartsReclaimed` and `EnrichmentEnds`, because the prover does not reason about
ENABLED and so not about fairness, and the six disagreements, which are
counterexamples.

## Not modelled, and the plan

What is left of the plan:

1. `ServiceIngress` on top of `ReceiptQueue`, so that an event which is queued onto a
   row in FAILED_TERMINAL or DELIVERED is told from one that will be processed.
2. Lemmas that liveness rests on and that are safety, such as that a completion
   past its claim always has a step (`JobStep` or `JobEnd`).
3. Two test runs side by side, and the fate of a cancellation.
4. Which receipts `EnrichmentEnds` may count as given up: those whose stage was left
   PROCESSING with its attempts used up, apart from those that failed for good.

Not modelled inside the parts that are: reads that change nothing; several
organizations or sites, and the row-level security that separates them; the chain
of the operator's own events (`verify_local_operator_chain`), which is appended
and verified in the same way; of the test runs, pruning, artifacts and the manual
acceptance commands; that `prepare_client_configuration` refuses when real
receipts exist; the order of SQS messages.

Not modelled at all: the capture store and the settings on the phone (one
writer, apart from the status column, which `UploadSync` models); the import of
Tally files and their comparison (inserts in one transaction, and a computation
over rows); telemetry, digests and nightly reports (rows inserted once, and
computations over them, that no other actor changes); user interfaces; cryptography and request signing; OCR and image conversion;
infrastructure and scripts. The edge worker keeps no state; it is part of the
network.
