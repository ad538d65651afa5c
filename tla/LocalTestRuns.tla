--------------------------- MODULE LocalTestRuns ---------------------------
(***************************************************************************)
(* The acceptance runs of the local console (local_test_runs.py and        *)
(* local_acceptance.py): requests of the API, and the worker's thread that *)
(* bootstraps an organization, uploads receipts to it through the API and  *)
(* deletes it again.  The worker may stop at any time and recovers when it *)
(* starts; an upload may outlive the thread that sent it.  The pilot's     *)
(* commands run beside it.                                                 *)
(***************************************************************************)
EXTENDS PilotControl

VARIABLES
    run,            \* local_test_runs: the newest row; `dirty` when its error
                    \* is local_test_cleanup_failed
    worker,         \* the thread of the run, or the recovery
    objects,        \* objects exist under the organization's prefix
    upload,         \* the upload in flight (bound: one at a time)
    late            \* history: it has outlived its client

testRows == <<objects, upload, late>>
testVars == <<pilotVars, run, worker, testRows>>

IdleWorker == [step |-> "idle", after |-> "", cancelled |-> FALSE, dirty |-> FALSE, own |-> TRUE]
Active == {"QUEUED", "RUNNING", "CANCEL_REQUESTED"}

TestInit ==
    /\ PilotInit
    /\ run = [status |-> "NONE", dirty |-> FALSE]
    /\ worker = [IdleWorker EXCEPT !.step = "down"]
    /\ objects = FALSE
    /\ upload = "none"
    /\ late = FALSE

-----------------------------------------------------------------------------
\* The API.  A unique index keeps a second active run out.
CreateRun ==
    /\ run.status \notin Active
    /\ run' = [status |-> "QUEUED", dirty |-> FALSE]
    /\ worker' = [worker EXCEPT !.own = worker.step \in {"idle", "down"}]
    /\ UNCHANGED <<pilotVars, testRows>>

RequestCancellation ==
    /\ \/ run.status = "QUEUED" /\ run' = [run EXCEPT !.status = "CANCELLED"]
       \/ run.status = "RUNNING" /\ run' = [run EXCEPT !.status = "CANCEL_REQUESTED"]
    /\ UNCHANGED <<pilotVars, worker, testRows>>

\* An upload's object is put before its transaction; if the organization is
\* gone by then, the transaction fails and the object may or may not be deleted.
UploadPuts ==
    /\ upload = "sent"
    /\ \/ upload' = "put" /\ objects' = TRUE
       \/ upload' = "none" /\ UNCHANGED objects
    /\ UNCHANGED <<pilotVars, run, worker, late>>

UploadEnds ==
    /\ upload = "put"
    /\ upload' = "none"
    /\ objects' \in IF "acceptance" \in organizations THEN {objects} ELSE {objects, FALSE}
    /\ UNCHANGED <<pilotVars, run, worker, late>>

-----------------------------------------------------------------------------
\* The worker.
At(step) == worker.step = step
Goes(step) == worker' = [worker EXCEPT !.step = step]
Cleans(after) == worker' = [worker EXCEPT !.step = "cleanup", !.after = after]
Outlives == late' = (late \/ upload # "none")

WorkerStarts ==
    /\ At("down")
    /\ worker' = IF run.status \in {"RUNNING", "CANCEL_REQUESTED"}
                 THEN [IdleWorker EXCEPT !.step = "cleanup", !.after = "recovered",
                                         !.cancelled = (run.status = "CANCEL_REQUESTED")]
                 ELSE IdleWorker
    /\ UNCHANGED <<pilotVars, run, testRows>>

WorkerStops ==
    /\ ~At("down")
    /\ worker' = [IdleWorker EXCEPT !.step = "down"]
    /\ Outlives
    /\ UNCHANGED <<pilotVars, run, objects, upload>>

ClaimRun ==
    /\ At("idle")
    /\ run.status = "QUEUED"
    /\ run' = [run EXCEPT !.status = "RUNNING"]
    /\ worker' = [IdleWorker EXCEPT !.step = "prewarm"]
    /\ late' = (upload # "none")
    /\ UNCHANGED <<pilotVars, objects, upload>>

\* _update with the default status: it overwrites CANCEL_REQUESTED.
SetStage(from, to) ==
    /\ At(from)
    /\ run' = [run EXCEPT !.status = "RUNNING"]
    /\ Goes(to)
    /\ UNCHANGED <<pilotVars, testRows>>

\* Wrong on purpose: the run is reported without a cleanup.
ReportsError(cancelled) ==
    worker' = [worker EXCEPT !.step = "failed", !.after = "failed", !.cancelled = cancelled]

\* The except branch of run_claimed_test.
OnError(cancelled) ==
    worker' = [worker EXCEPT !.step = "cleanup", !.after = "failed", !.cancelled = cancelled]

CheckCancelled(from, to) ==
    /\ At(from)
    /\ IF run.status = "CANCEL_REQUESTED" THEN OnError(TRUE) ELSE Goes(to)
    /\ UNCHANGED <<pilotVars, run, testRows>>

Working == {"prewarm", "prewarmed", "fixtures", "prepare", "bootstrap", "upload", "send",
            "sent", "uploaded", "drain", "drained", "finish", "evidence", "pass", "audit"}

StepFails ==
    /\ worker.step \in Working
    /\ OnError(FALSE)
    /\ Outlives
    /\ UNCHANGED <<pilotVars, run, objects, upload>>

\* prepare_acceptance checks the mode, cleans up and bootstraps.
Prepare ==
    /\ At("prepare")
    /\ mode = "synthetic-demo"
    /\ Cleans("bootstrap")
    /\ UNCHANGED <<pilotVars, run, testRows>>

Bootstrap ==
    /\ At("bootstrap")
    /\ organizations' = organizations \cup {"acceptance"}
    /\ Goes("upload")
    /\ UNCHANGED <<mode, ended, configured, users, enrolled, command, history, run, testRows>>

\* The stage CLEANUP of a run whose report has passed.
Finish ==
    /\ At("finish")
    /\ Cleans("evidence")
    /\ UNCHANGED <<pilotVars, run, testRows>>

SendUpload ==
    /\ At("send")
    /\ upload = "none"
    /\ upload' = "sent"
    /\ Goes("sent")
    /\ UNCHANGED <<pilotVars, run, objects, late>>

UploadAnswered ==
    /\ At("sent")
    /\ upload = "none"
    /\ Goes("uploaded")
    /\ UNCHANGED <<pilotVars, run, testRows>>

\* cleanup_acceptance: the objects, then every row in one transaction.
CleanObjects ==
    /\ At("cleanup")
    /\ mode = "synthetic-demo"
    /\ objects' = FALSE
    /\ Goes("rows")
    /\ UNCHANGED <<pilotVars, run, upload, late>>

CleanRows ==
    /\ At("rows")
    /\ organizations' = organizations \ {"acceptance"}
    /\ Goes(IF worker.after = "bootstrap" THEN "bootstrap" ELSE "verify")
    /\ UNCHANGED <<mode, ended, configured, users, enrolled, command, history, run, testRows>>

\* verify_acceptance_cleanup.
VerifyClean ==
    /\ At("verify")
    /\ mode = "synthetic-demo"
    /\ "acceptance" \notin organizations
    /\ ~objects
    /\ Goes(worker.after)
    /\ UNCHANGED <<pilotVars, run, testRows>>

\* The mode, S3, the database or the verification refuses.
CleanupFails ==
    /\ worker.step \in {"cleanup", "rows", "verify"}
    /\ IF worker.after \in {"failed", "recovered"}
       THEN worker' = [worker EXCEPT !.step = worker.after, !.dirty = TRUE]
       ELSE OnError(FALSE)
    /\ UNCHANGED <<pilotVars, run, testRows>>

Ends(status) == run' = IF worker.own THEN [status |-> status, dirty |-> worker.dirty] ELSE run

Pass ==
    /\ At("pass")
    /\ Ends("PASSED")
    /\ Goes("audit")
    /\ UNCHANGED <<pilotVars, testRows>>

\* The operator's audit event; if it fails, the run that has passed fails.
AuditPass ==
    /\ At("audit")
    /\ worker' = IdleWorker
    /\ UNCHANGED <<pilotVars, run, testRows>>

\* The last update of the except branch.  If it fails, the thread ends and the
\* run stays as it is until the worker starts again.
Report ==
    /\ At("failed")
    /\ \/ Ends(IF worker.cancelled THEN "CANCELLED" ELSE "FAILED")
       \/ UNCHANGED run
    /\ worker' = IdleWorker
    /\ UNCHANGED <<pilotVars, testRows>>

\* recover_interrupted_test_runs acts on the status read before the cleanup; a
\* run cancelled since then stays CANCEL_REQUESTED, with no thread.
Recover ==
    /\ At("recovered")
    /\ \/ worker.dirty /\ Ends("FAILED")
       \/ ~worker.dirty /\ worker.cancelled /\ Ends("CANCELLED")
       \/ /\ ~worker.dirty /\ ~worker.cancelled
          /\ run' = IF run.status = "RUNNING" THEN [run EXCEPT !.status = "QUEUED"] ELSE run
    /\ worker' = IdleWorker
    /\ UNCHANGED <<pilotVars, testRows>>

WorkerNext ==
    \/ WorkerStarts \/ WorkerStops \/ ClaimRun
    \/ SetStage("prewarm", "prewarmed")
    \/ CheckCancelled("prewarmed", "fixtures")
    \/ SetStage("fixtures", "prepare")      \* the stages FIXTURES and PREPARE
    \/ Prepare \/ Bootstrap
    \/ CheckCancelled("upload", "send") \/ SendUpload \/ UploadAnswered
    \/ SetStage("uploaded", "upload")
    \/ SetStage("uploaded", "drain")        \* after the last: UPLOAD, OCR_DRAIN
    \/ CheckCancelled("drain", "drained")
    \/ SetStage("drained", "finish") \/ Finish
    \/ CleanObjects \/ CleanRows \/ VerifyClean \/ CleanupFails
    \/ SetStage("evidence", "pass")
    \/ Pass \/ AuditPass \/ StepFails \/ Report \/ Recover

TestNext ==
    \/ CreateRun \/ RequestCancellation \/ UploadPuts \/ UploadEnds
    \/ WorkerNext

TestTypeOK ==
    /\ PilotTypeOK
    /\ run \in [status : Active \cup {"NONE", "CANCELLED", "PASSED", "FAILED"}, dirty : BOOLEAN]
    /\ worker.step \in Working \cup {"down", "idle", "cleanup", "rows", "verify", "failed", "recovered"}
    /\ objects \in BOOLEAN /\ upload \in {"none", "sent", "put"} /\ late \in BOOLEAN

-----------------------------------------------------------------------------
\* A run that was under way ends, in whatever way and after whatever failures,
\* restarts, cancellations and changes of mode, either with the error that says
\* its cleanup failed or with its organization deleted and its objects too, but
\* for those of an upload that outlived its client.
EndsClean ==
    [][run.status \in {"RUNNING", "CANCEL_REQUESTED"} /\ run'.status \notin Active =>
         run'.dirty \/ ("acceptance" \notin organizations' /\ (objects' => late'))]_testVars
=============================================================================
