----------------------------- MODULE UploadSync -----------------------------
(***************************************************************************)
(* The background sync of the mobile app (apps/mobile/src/sync) against    *)
(* the upload server of UploadSessions.                                    *)
(*                                                                         *)
(* A worker is one execution of runOnce.  There may be two of them: when   *)
(* ReceiptSyncKickWorker stops waiting for its headless task, WorkManager  *)
(* starts another while the first still runs.  A request or its answer may *)
(* be lost at any time; the handler on the server goes on regardless.      *)
(***************************************************************************)
EXTENDS UploadSessions

CONSTANT Workers            \* concurrent executions of runOnce

VARIABLES
    sync,       \* receipts with status 'synced' in receipt_sync_state
    uploadId,   \* receipts with a row in receipt_upload_sessions
    run         \* the workers

phone == <<sync, uploadId, run>>
syncVars == <<vars, phone>>

None == "none"
IdleRun == [pc |-> "idle", todo |-> {}, item |-> None, confirmed |-> {}, part |-> None]

RunStages == {"idle", "next", "create", "progress", "parts", "awaiting",
              "completing", "synced"}

SyncTypeOK ==
    /\ TypeOK
    /\ sync \subseteq Receipts
    /\ uploadId \subseteq Receipts
    /\ run \in [Workers -> [pc : RunStages, todo : SUBSET Receipts,
                            item : Receipts \cup {None},
                            confirmed : SUBSET Parts, part : Parts \cup {None}]]

SyncInit ==
    /\ Init
    /\ sync = {}
    /\ uploadId = {}
    /\ run = [w \in Workers |-> IdleRun]

Awaits(w, r, p) ==
    run[w].pc = "awaiting" /\ run[w].item = r /\ run[w].part = p
AwaitsEnd(w, r) == run[w].pc = "completing" /\ run[w].item = r

-----------------------------------------------------------------------------
(* Wrong variants, as in UploadSessions.                                   *)

AckOnClaim(r) == session[r] \in {"COMPLETING", "COMPLETE"}

-----------------------------------------------------------------------------
(* runOnce                                                                 *)

\* listPendingReceiptSyncItems: unsynced receipts whose back-off is over.
Wake(w) ==
    /\ run[w].pc = "idle"
    /\ \E due \in SUBSET (Receipts \ sync) :
          /\ due # {}
          /\ run' = [run EXCEPT ![w] = [IdleRun EXCEPT !.pc = "next", !.todo = due]]
    /\ UNCHANGED <<vars, sync, uploadId>>

\* syncReceipt starts: getReceiptUploadId decides where.
StartItem(w) ==
    /\ run[w].pc = "next"
    /\ \E r \in run[w].todo :
          run' = [run EXCEPT ![w] = [run[w] EXCEPT
                     !.pc = IF r \in uploadId THEN "progress" ELSE "create",
                     !.todo = run[w].todo \ {r}, !.item = r]]
    /\ UNCHANGED <<vars, sync, uploadId>>

EndRun(w) ==
    /\ run[w].pc = "next"
    /\ run[w].todo = {}
    /\ run' = [run EXCEPT ![w] = IdleRun]
    /\ UNCHANGED <<vars, sync, uploadId>>

\* syncReceipt throws, and incrementReceiptSyncAttempt writes 'backoff' over
\* any status.
FailItem(w) ==
    /\ sync' = sync \ {run[w].item}
    /\ run' = [run EXCEPT ![w] = [IdleRun EXCEPT !.pc = "next", !.todo = run[w].todo]]
    /\ UNCHANGED <<vars, uploadId>>

\* A request or its answer is lost, or the gate (charging, approved Wi-Fi)
\* closes.  A handler that runs on the server is not affected.
Lost(w) ==
    /\ run[w].pc \in {"create", "progress", "parts", "awaiting", "completing"}
    /\ FailItem(w)

\* The operating system ends the app; its tables stay.
KillApp ==
    /\ \E w \in Workers : run[w].pc # "idle"
    /\ run' = [w \in Workers |-> IdleRun]
    /\ UNCHANGED <<vars, sync, uploadId>>

-----------------------------------------------------------------------------
(* syncReceipt: the session and its confirmed parts                        *)

ToProgress(w) ==
    /\ uploadId' = uploadId \cup {run[w].item}
    /\ run' = [run EXCEPT ![w].pc = "progress"]
    /\ UNCHANGED sync

PostUploads(w) ==
    /\ run[w].pc = "create"
    /\ CreateUploadSession(run[w].item)
    /\ ToProgress(w)

PostUploadsLost(w) ==
    /\ run[w].pc = "create"
    /\ CreateUploadSession(run[w].item)
    /\ UNCHANGED phone

\* The receipt has a session already, in whatever status.
PostUploadsAgain(w) ==
    /\ run[w].pc = "create"
    /\ session[run[w].item] # "NONE"
    /\ run[w].item \notin Recorded
    /\ ToProgress(w)
    /\ UNCHANGED vars

\* session.complete: the receipt is recorded.
PostUploadsComplete(w) ==
    /\ run[w].pc = "create"
    /\ run[w].item \in Recorded
    /\ sync' = sync \cup {run[w].item}
    /\ run' = [run EXCEPT ![w] = [IdleRun EXCEPT !.pc = "next", !.todo = run[w].todo]]
    /\ UNCHANGED <<vars, uploadId>>

\* get_upload_session answers for every status (the sessions of this model
\* are never deleted, so no 404); markReceiptSyncState writes 'uploading'
\* over any status.
GetProgress(w) ==
    /\ run[w].pc = "progress"
    /\ session[run[w].item] # "NONE"
    /\ sync' = sync \ {run[w].item}
    /\ run' = [run EXCEPT ![w] = [@ EXCEPT !.pc = "parts", !.confirmed = rows[run[w].item]]]
    /\ UNCHANGED <<vars, uploadId>>

-----------------------------------------------------------------------------
(* syncReceipt: parts                                                      *)

SendPart(w, p) ==
    /\ run[w].pc = "parts"
    /\ p \notin run[w].confirmed
    /\ PutBegin(run[w].item, p)
    /\ run' = [run EXCEPT ![w] = [@ EXCEPT !.pc = "awaiting", !.part = p]]
    /\ UNCHANGED <<sync, uploadId>>

\* The server has the part, from another request.
SendPartAgain(w, p) ==
    LET r == run[w].item IN
    /\ run[w].pc = "parts"
    /\ p \notin run[w].confirmed
    /\ put[r][p] = "idle" /\ AcceptsParts(r) /\ p \in rows[r]
    /\ run' = [run EXCEPT ![w].confirmed = @ \cup {p}]
    /\ UNCHANGED <<vars, sync, uploadId>>

\* 204 reaches the worker that still waits for it.
PartStored(r, p) ==
    /\ PutCommit(r, p)
    /\ run' = [w \in Workers |->
                 IF Awaits(w, r, p)
                 THEN [run[w] EXCEPT !.pc = "parts", !.confirmed = @ \cup {p}, !.part = None]
                 ELSE run[w]]
    /\ UNCHANGED <<sync, uploadId>>

-----------------------------------------------------------------------------
(* syncReceipt: completion                                                 *)

PostComplete(w) ==
    /\ run[w].pc = "parts"
    /\ Parts \subseteq run[w].confirmed
    /\ Claim(run[w].item)
    /\ run' = [run EXCEPT ![w].pc = "completing"]
    /\ UNCHANGED <<sync, uploadId>>

\* The statuses that complete_upload_session answers with a duplicate.
Duplicate(r) == session[r] = "COMPLETE"

\* 202 with duplicate: true.
PostCompleteAgain(w) ==
    /\ run[w].pc = "parts"
    /\ Parts \subseteq run[w].confirmed
    /\ Duplicate(run[w].item)
    /\ sync' = sync \cup {run[w].item}
    /\ run' = [run EXCEPT ![w].pc = "synced"]
    /\ UNCHANGED <<vars, uploadId>>

\* 202 reaches the worker that still waits: completeReceiptSync.
CompleteAnswered(r) ==
    /\ JobEnd(r)
    /\ sync' = IF \E w \in Workers : AwaitsEnd(w, r) THEN sync \cup {r} ELSE sync
    /\ run' = [w \in Workers |-> IF AwaitsEnd(w, r) THEN [run[w] EXCEPT !.pc = "synced"]
                                                   ELSE run[w]]
    /\ UNCHANGED uploadId

\* clearReceiptUploadId
ForgetUpload(w) ==
    /\ run[w].pc = "synced"
    /\ uploadId' = uploadId \ {run[w].item}
    /\ run' = [run EXCEPT ![w] = [IdleRun EXCEPT !.pc = "next", !.todo = run[w].todo]]
    /\ UNCHANGED <<vars, sync>>

\* An error status: 507 for a new session, 409 for a part or a completion
\* of a session that is not open, 4xx or 5xx when the request ended without
\* success.  The upload id stays.
Refusal(w) ==
    LET r == run[w].item IN
    \/ run[w].pc = "create" /\ session[r] = "NONE" /\ ~FitsStorage
    \/ /\ run[w].pc = "parts"
       /\ \E p \in Parts \ run[w].confirmed : put[r][p] = "idle"
       /\ ~AcceptsParts(r)
    \/ /\ run[w].pc = "parts" /\ Parts \subseteq run[w].confirmed
       /\ ~Claimable(r) /\ ~Duplicate(r)
    \/ run[w].pc = "awaiting" /\ put[r][run[w].part] = "idle"
    \/ run[w].pc = "completing" /\ job[r].pc = "idle"

Refused(w) == Refusal(w) /\ FailItem(w)

-----------------------------------------------------------------------------
\* What runOnce does by itself.
WorkerStep(w) ==
    \/ Wake(w) \/ StartItem(w) \/ EndRun(w) \/ Refused(w)
    \/ PostUploads(w) \/ PostUploadsAgain(w) \/ PostUploadsComplete(w)
    \/ GetProgress(w)
    \/ \E p \in Parts : SendPart(w, p) \/ SendPartAgain(w, p)
    \/ PostComplete(w) \/ PostCompleteAgain(w) \/ ForgetUpload(w)

\* Steps of the server that no worker sees.
ServerStep(r) ==
    /\ \/ JobStep(r) \/ Abandon(r) \/ CleanStep(r) \/ PassExpiry(r) \/ PassQuiet(r)
       \/ \E p \in Parts : PutStore(r, p) \/ PutAbort(r, p) \/ SweepUntracked(r, p)
    /\ UNCHANGED phone

SyncNext ==
    \/ \E w \in Workers : WorkerStep(w) \/ Lost(w) \/ PostUploadsLost(w)
    \/ KillApp
    \/ \E r \in Receipts :
          \/ ServerStep(r) \/ CompleteAnswered(r)
          \/ \E p \in Parts : PartStored(r, p)
    \/ NextDay /\ UNCHANGED phone

SyncSpec == SyncInit /\ [][SyncNext]_syncVars

Fault ==
    \/ \E w \in Workers : (Lost(w) /\ ~Refusal(w)) \/ PostUploadsLost(w)
    \/ KillApp /\ \E w \in Workers : run[w].item # None \/ run[w].todo # {}
    \/ \E r \in Receipts : \/ JobFault(r) \/ CleanFault(r)
                           \/ \E p \in Parts : PutAbort(r, p)

\* The scheduler wakes runOnce until nothing is pending, a worker goes on
\* by itself, the server's requests end, the retention job is run again and
\* again (strong fairness: without CleanDuringCompletion it finds the session
\* at work now and then).
SyncFairness ==
    /\ \A w \in Workers : WF_syncVars(WorkerStep(w))
    /\ \A r \in Receipts :
          /\ WF_syncVars((JobStep(r) /\ UNCHANGED phone) \/ CompleteAnswered(r))
          /\ WF_syncVars(PassQuiet(r) /\ UNCHANGED phone)
          /\ SF_syncVars(CleanStep(r) /\ UNCHANGED phone)
          /\ \A p \in Parts :
                WF_syncVars((PutStore(r, p) /\ UNCHANGED phone) \/ PartStored(r, p))

SyncFairSpec == SyncSpec /\ SyncFairness

-----------------------------------------------------------------------------
(* Properties.                                                             *)

\* The upload path as ReceiptLog sees it: the receipts that have their row, and
\* those that the device shows as synced.
Log == INSTANCE ReceiptLog WITH recorded <- Recorded, acknowledged <- sync

\* The upload path implements ReceiptLog, with every fault: rows appear once and
\* stay, and syncReceipt marks a receipt as synced only when it has its row.
ImplementsReceiptLog == Log!Spec

FaultsRecur == []<><<Fault>>_syncVars

\* Once faults stop, an upload resumes where it was and ends: the device has
\* the acknowledgement, or the session is dead, or the receipt is recorded
\* and the answer that said so was lost.
UploadEnds ==
    \A r \in Receipts :
        \/ FaultsRecur
        \/ <>(\/ r \in sync
              \/ session[r] \in {"EXPIRED", "FAILED"}
              \/ r \in Recorded /\ ~ \E w \in Workers : AwaitsEnd(w, r))

\* Once faults stop, an interrupted upload whose session stays alive ends
\* with the device's acknowledgement.  It does not when the answer to the
\* completion is lost: the parts are gone, the session takes no parts, and
\* the device keeps the upload id and sends the parts again.
UploadResumes ==
    \A r \in Receipts :
        \/ FaultsRecur
        \/ <>(r \in sync)
        \/ <>(session[r] \in {"EXPIRED", "FAILED"})

\* The part objects of a received receipt disappear in the end, even when
\* the completion dies before it deletes them.
CompletedPartsReclaimed ==
    \A r \in Receipts :
        \/ FaultsRecur
        \/ (session[r] = "COMPLETE") ~> (partObjs[r] = {})
=============================================================================
