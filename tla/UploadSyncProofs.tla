-------------------------- MODULE UploadSyncProofs --------------------------
(***************************************************************************)
(* What the background sync guarantees for every set of receipts, parts    *)
(* and workers: no device takes a receipt for synced that the server has   *)
(* not recorded.                                                           *)
(*                                                                         *)
(* The workers only restrict the clients of UploadSessions: a step of      *)
(* SyncSpec is a step of its Next or leaves its variables alone.  So the   *)
(* invariants of UploadSessionsProofs hold here too, once it is known that *)
(* a worker that is at work on a receipt has one (AtWork).  SyncedRecorded *)
(* then rests on the server's invariant: an answer to a completion is only *)
(* given when the session is COMPLETE, and a COMPLETE session has its row. *)
(***************************************************************************)
EXTENDS UploadSync, UploadSessionsProofs

-----------------------------------------------------------------------------
(* The workers.                                                            *)

\* A run of the sync, whatever step it is at.
Runs == [pc : RunStages, todo : SUBSET Receipts, item : Receipts \cup {None},
         confirmed : SUBSET Parts, part : Parts \cup {None}]

\* What the workers remember has its type ...
PhoneTypeOK ==
    /\ sync \subseteq Receipts
    /\ uploadId \subseteq Receipts
    /\ run \in [Workers -> Runs]

\* ... a worker in the middle of syncReceipt has a receipt ...
AtWork == \A w \in Workers : run[w].pc \notin {"idle", "next"} => run[w].item \in Receipts

\* ... and a receipt that a device takes for synced has its row.
SyncedRecorded == sync \subseteq Recorded

\* The two parts that need no fact about the server.
PhoneInv == PhoneTypeOK /\ AtWork

\* A worker that has nothing to do is well typed.
LEMMA IdleRunType == IdleRun \in Runs
  BY DEF IdleRun, Runs, RunStages

\* The worker that gives an item up, or has finished it, goes on with the rest.
LEMMA BackToNext ==
    ASSUME PhoneInv, NEW w \in Workers,
           run' = [run EXCEPT ![w] = [IdleRun EXCEPT !.pc = "next", !.todo = run[w].todo]],
           sync' \subseteq Receipts, uploadId' \subseteq Receipts
    PROVE  PhoneInv'
  <1>1. PICK n : n = [IdleRun EXCEPT !.pc = "next", !.todo = run[w].todo]
    OBVIOUS
  <1>2. n \in Runs /\ n.pc = "next"
    BY <1>1, IdleRunType DEF Runs, RunStages, PhoneInv, PhoneTypeOK, IdleRun
  <1>3. run' = [run EXCEPT ![w] = n]
    BY <1>1
  <1>. QED
    BY <1>2, <1>3 DEF PhoneInv, PhoneTypeOK, AtWork

\* A worker that changes stage and keeps its receipt stays well formed.
LEMMA NextStage ==
    ASSUME PhoneInv, NEW w \in Workers, NEW n \in Runs,
           run' = [run EXCEPT ![w] = n],
           n.pc \notin {"idle", "next"} => n.item \in Receipts,
           sync' \subseteq Receipts, uploadId' \subseteq Receipts
    PROVE  PhoneInv'
  BY DEF PhoneInv, PhoneTypeOK, AtWork

\* The initial state: no worker runs.
LEMMA PhoneInit == SyncInit => PhoneInv
  BY IdleRunType DEF SyncInit, PhoneInv, PhoneTypeOK, AtWork, IdleRun
-----------------------------------------------------------------------------
(* Every step keeps the types of the workers.                              *)

\* A worker starts, picks a receipt or ends.
LEMMA StartsKeepPhone ==
    ASSUME PhoneInv, NEW w \in Workers, Wake(w) \/ StartItem(w) \/ EndRun(w)
    PROVE  PhoneInv'
  <1>1. CASE Wake(w)
    <2>1. PICK due \in SUBSET (Receipts \ sync) :
              run' = [run EXCEPT ![w] = [IdleRun EXCEPT !.pc = "next", !.todo = due]]
      BY <1>1 DEF Wake
    <2>2. PICK n : n = [IdleRun EXCEPT !.pc = "next", !.todo = due]
      OBVIOUS
    <2>3. n \in Runs /\ n.pc = "next"
      BY <2>2, IdleRunType DEF Runs, RunStages, IdleRun
    <2>4. run' = [run EXCEPT ![w] = n] /\ sync' = sync /\ uploadId' = uploadId
      BY <1>1, <2>1, <2>2 DEF Wake
    <2>. QED
      BY <2>3, <2>4, NextStage DEF PhoneInv, PhoneTypeOK
  <1>2. CASE StartItem(w)
    <2>1. PICK r \in run[w].todo :
              run' = [run EXCEPT ![w] = [run[w] EXCEPT
                         !.pc = IF r \in uploadId THEN "progress" ELSE "create",
                         !.todo = run[w].todo \ {r}, !.item = r]]
      BY <1>2 DEF StartItem
    <2>2. PICK n : n = [run[w] EXCEPT
                         !.pc = IF r \in uploadId THEN "progress" ELSE "create",
                         !.todo = run[w].todo \ {r}, !.item = r]
      OBVIOUS
    <2>3. run[w] \in Runs
      BY DEF PhoneInv, PhoneTypeOK
    <2>4. n \in Runs /\ n.item \in Receipts
      BY <2>2, <2>3 DEF Runs, RunStages
    <2>5. run' = [run EXCEPT ![w] = n] /\ sync' = sync /\ uploadId' = uploadId
      BY <1>2, <2>1, <2>2 DEF StartItem
    <2>. QED
      BY <2>4, <2>5, NextStage DEF PhoneInv, PhoneTypeOK
  <1>3. CASE EndRun(w)
    <2>1. run' = [run EXCEPT ![w] = IdleRun] /\ sync' = sync /\ uploadId' = uploadId
      BY <1>3 DEF EndRun
    <2>. QED
      BY <2>1, IdleRunType, NextStage DEF PhoneInv, PhoneTypeOK, IdleRun
  <1>. QED
    BY <1>1, <1>2, <1>3

\* A receipt is put back, or the whole app ends.
LEMMA FailuresKeepPhone ==
    ASSUME PhoneInv, (\E w \in Workers : FailItem(w)) \/ KillApp
    PROVE  PhoneInv'
  <1>1. ASSUME NEW w \in Workers, FailItem(w) PROVE PhoneInv'
    BY <1>1, BackToNext DEF FailItem, PhoneInv, PhoneTypeOK
  <1>2. CASE KillApp
    BY <1>2, IdleRunType DEF KillApp, PhoneInv, PhoneTypeOK, AtWork, IdleRun
  <1>. QED
    BY <1>1, <1>2

\* The answer to POST /v1/uploads.
LEMMA CreatesKeepPhone ==
    ASSUME PhoneInv, NEW w \in Workers,
           PostUploads(w) \/ PostUploadsAgain(w) \/ PostUploadsComplete(w)
    PROVE  PhoneInv'
  <1>1. run[w] \in Runs
    BY DEF PhoneInv, PhoneTypeOK
  <1>2. CASE run[w].pc = "create" /\ ToProgress(w)
    <2>1. PICK n : n = [run[w] EXCEPT !.pc = "progress"]
      OBVIOUS
    <2>2. n \in Runs /\ n.item = run[w].item
      BY <1>1, <2>1 DEF Runs, RunStages
    <2>3. run[w].item \in Receipts
      BY <1>2 DEF PhoneInv, AtWork
    <2>4. /\ run' = [run EXCEPT ![w] = n]
          /\ sync' = sync
          /\ uploadId' = uploadId \cup {run[w].item}
      BY <1>2, <2>1 DEF ToProgress
    <2>. QED
      BY <2>2, <2>3, <2>4, NextStage DEF PhoneInv, PhoneTypeOK
  <1>3. CASE PostUploadsComplete(w)
    <2>1. run[w].item \in Receipts
      BY <1>3 DEF PostUploadsComplete, Recorded
    <2>. QED
      BY <1>3, <2>1, BackToNext DEF PostUploadsComplete, PhoneInv, PhoneTypeOK
  <1>. QED
    BY <1>2, <1>3 DEF PostUploads, PostUploadsAgain

\* The parts that the server confirms, and the one a worker sends.
LEMMA PartsKeepPhone ==
    ASSUME PhoneInv, rows \in [Receipts -> SUBSET Parts], NEW w \in Workers,
           GetProgress(w) \/ \E p \in Parts : SendPart(w, p) \/ SendPartAgain(w, p)
    PROVE  PhoneInv'
  <1>1. run[w] \in Runs
    BY DEF PhoneInv, PhoneTypeOK
  <1>2. CASE GetProgress(w)
    <2>1. run[w].item \in Receipts
      BY <1>2 DEF GetProgress, PhoneInv, AtWork
    <2>2. PICK n : n = [run[w] EXCEPT !.pc = "parts", !.confirmed = rows[run[w].item]]
      OBVIOUS
    <2>3. n \in Runs /\ n.item = run[w].item
      BY <1>1, <2>1, <2>2 DEF Runs, RunStages
    <2>4. run' = [run EXCEPT ![w] = n] /\ sync' \subseteq sync /\ uploadId' = uploadId
      BY <1>2, <2>2 DEF GetProgress
    <2>. QED
      BY <2>1, <2>3, <2>4, NextStage DEF PhoneInv, PhoneTypeOK
  <1>3. ASSUME NEW p \in Parts, SendPart(w, p) PROVE PhoneInv'
    <2>1. run[w].item \in Receipts
      BY <1>3 DEF SendPart, PhoneInv, AtWork
    <2>2. PICK n : n = [run[w] EXCEPT !.pc = "awaiting", !.part = p]
      OBVIOUS
    <2>3. n \in Runs /\ n.item = run[w].item
      BY <1>1, <2>2 DEF Runs, RunStages
    <2>4. run' = [run EXCEPT ![w] = n] /\ sync' = sync /\ uploadId' = uploadId
      BY <1>3, <2>2 DEF SendPart
    <2>. QED
      BY <2>1, <2>3, <2>4, NextStage DEF PhoneInv, PhoneTypeOK
  <1>4. ASSUME NEW p \in Parts, SendPartAgain(w, p) PROVE PhoneInv'
    <2>1. run[w].item \in Receipts
      BY <1>4 DEF SendPartAgain, PhoneInv, AtWork
    <2>2. PICK n : n = [run[w] EXCEPT !.confirmed = @ \cup {p}]
      OBVIOUS
    <2>3. n \in Runs /\ n.item = run[w].item
      BY <1>1, <2>2 DEF Runs, RunStages
    <2>4. run' = [run EXCEPT ![w] = n] /\ sync' = sync /\ uploadId' = uploadId
      BY <1>4, <2>2 DEF SendPartAgain
    <2>. QED
      BY <2>1, <2>3, <2>4, NextStage DEF PhoneInv, PhoneTypeOK
  <1>. QED
    BY <1>2, <1>3, <1>4

\* The completion, and the end of an item.
LEMMA CompletionsKeepPhone ==
    ASSUME PhoneInv, NEW w \in Workers,
           PostComplete(w) \/ PostCompleteAgain(w) \/ ForgetUpload(w)
    PROVE  PhoneInv'
  <1>1. run[w] \in Runs
    BY DEF PhoneInv, PhoneTypeOK
  <1>2. CASE PostComplete(w)
    <2>1. PICK n : n = [run[w] EXCEPT !.pc = "completing"]
      OBVIOUS
    <2>2. run[w].item \in Receipts /\ n \in Runs /\ n.item = run[w].item
      BY <1>1, <1>2, <2>1 DEF PostComplete, Runs, RunStages, PhoneInv, AtWork
    <2>3. run' = [run EXCEPT ![w] = n] /\ sync' = sync /\ uploadId' = uploadId
      BY <1>2, <2>1 DEF PostComplete
    <2>. QED
      BY <2>2, <2>3, NextStage DEF PhoneInv, PhoneTypeOK
  <1>3. CASE PostCompleteAgain(w)
    <2>1. PICK n : n = [run[w] EXCEPT !.pc = "synced"]
      OBVIOUS
    <2>2. run[w].item \in Receipts /\ n \in Runs /\ n.item = run[w].item
      BY <1>1, <1>3, <2>1 DEF PostCompleteAgain, Runs, RunStages, PhoneInv, AtWork
    <2>3. /\ run' = [run EXCEPT ![w] = n]
          /\ sync' = sync \cup {run[w].item}
          /\ uploadId' = uploadId
      BY <1>3, <2>1 DEF PostCompleteAgain
    <2>. QED
      BY <2>2, <2>3, NextStage DEF PhoneInv, PhoneTypeOK
  <1>4. CASE ForgetUpload(w)
    BY <1>4, BackToNext DEF ForgetUpload, PhoneInv, PhoneTypeOK
  <1>. QED
    BY <1>2, <1>3, <1>4

\* An answer of the server reaches the workers that wait for it.
LEMMA AnswersKeepPhone ==
    ASSUME PhoneInv, NEW r \in Receipts,
           CompleteAnswered(r) \/ \E p \in Parts : PartStored(r, p)
    PROVE  PhoneInv'
  <1>1. CASE CompleteAnswered(r)
    <2>1. run' = [w \in Workers |-> IF AwaitsEnd(w, r)
                                    THEN [run[w] EXCEPT !.pc = "synced"] ELSE run[w]]
      BY <1>1 DEF CompleteAnswered
    <2>2. ASSUME NEW w \in Workers
          PROVE  /\ run'[w] \in Runs
                 /\ run'[w].pc \notin {"idle", "next"} => run'[w].item \in Receipts
      <3>1. run[w] \in Runs
        BY DEF PhoneInv, PhoneTypeOK
      <3>2. CASE AwaitsEnd(w, r)
        BY <2>1, <3>1, <3>2 DEF AwaitsEnd, Runs, RunStages
      <3>3. CASE ~AwaitsEnd(w, r)
        BY <2>1, <3>1, <3>3 DEF PhoneInv, AtWork
      <3>. QED
        BY <3>2, <3>3
    <2>3. run' \in [Workers -> Runs]
      BY <2>1, <2>2
    <2>4. sync' \subseteq Receipts /\ uploadId' \subseteq Receipts
      BY <1>1 DEF CompleteAnswered, PhoneInv, PhoneTypeOK
    <2>. QED
      BY <2>2, <2>3, <2>4 DEF PhoneInv, PhoneTypeOK, AtWork
  <1>2. ASSUME NEW p \in Parts, PartStored(r, p) PROVE PhoneInv'
    <2>1. run' = [w \in Workers |->
                    IF Awaits(w, r, p)
                    THEN [run[w] EXCEPT !.pc = "parts", !.confirmed = @ \cup {p},
                                        !.part = None]
                    ELSE run[w]]
      BY <1>2 DEF PartStored
    <2>2. ASSUME NEW w \in Workers
          PROVE  /\ run'[w] \in Runs
                 /\ run'[w].pc \notin {"idle", "next"} => run'[w].item \in Receipts
      <3>1. run[w] \in Runs
        BY DEF PhoneInv, PhoneTypeOK
      <3>2. CASE Awaits(w, r, p)
        BY <2>1, <3>1, <3>2 DEF Awaits, Runs, RunStages
      <3>3. CASE ~Awaits(w, r, p)
        BY <2>1, <3>1, <3>3 DEF PhoneInv, AtWork
      <3>. QED
        BY <3>2, <3>3
    <2>3. run' \in [Workers -> Runs]
      BY <2>1, <2>2
    <2>4. sync' \subseteq Receipts /\ uploadId' \subseteq Receipts
      BY <1>2 DEF PartStored, PhoneInv, PhoneTypeOK
    <2>. QED
      BY <2>2, <2>3, <2>4 DEF PhoneInv, PhoneTypeOK, AtWork
  <1>. QED
    BY <1>1, <1>2

\* Every step of the system keeps the types of the workers.
LEMMA PhoneStep ==
    ASSUME TypeOK, PhoneInv, [SyncNext]_syncVars
    PROVE  PhoneInv'
  <1>1. rows \in [Receipts -> SUBSET Parts]
    BY DEF TypeOK
  <1>2. CASE UNCHANGED phone
    BY <1>2 DEF phone, PhoneInv, PhoneTypeOK, AtWork
  <1>3. ASSUME NEW w \in Workers, WorkerStep(w) PROVE PhoneInv'
    BY <1>1, <1>3, StartsKeepPhone, FailuresKeepPhone, CreatesKeepPhone, PartsKeepPhone,
       CompletionsKeepPhone DEF WorkerStep, Refused
  <1>4. ASSUME NEW w \in Workers, Lost(w) PROVE PhoneInv'
    BY <1>4, FailuresKeepPhone DEF Lost
  <1>5. CASE KillApp
    BY <1>5, FailuresKeepPhone
  <1>. QED
    BY <1>2, <1>3, <1>4, <1>5, AnswersKeepPhone
       DEF SyncNext, ServerStep, PostUploadsLost, syncVars
-----------------------------------------------------------------------------
(* The server's invariants hold under the workers too.                     *)

\* What a worker does to the server is a request that any client might send.
LEMMA StepRefines ==
    ASSUME PhoneInv, [SyncNext]_syncVars
    PROVE  [Next]_vars
  <1>1. ASSUME NEW w \in Workers, run[w].pc = "create",
               CreateUploadSession(run[w].item)
        PROVE  Next
    BY <1>1 DEF PhoneInv, AtWork, Next
  <1>2. ASSUME NEW w \in Workers, WorkerStep(w) PROVE [Next]_vars
    <2>1. CASE \E p \in Parts : SendPart(w, p)
      BY <2>1 DEF SendPart, PhoneInv, AtWork, Next
    <2>2. CASE PostComplete(w)
      BY <2>2 DEF PostComplete, PhoneInv, AtWork, Next
    <2>3. CASE PostUploads(w)
      BY <1>1, <2>3 DEF PostUploads
    <2>4. CASE UNCHANGED vars
      BY <2>4
    <2>. QED
      BY <1>2, <2>1, <2>2, <2>3, <2>4
         DEF WorkerStep, Wake, StartItem, EndRun, Refused, FailItem, PostUploadsAgain,
             PostUploadsComplete, GetProgress, SendPartAgain, PostCompleteAgain, ForgetUpload
  <1>3. ASSUME NEW w \in Workers, Lost(w) \/ PostUploadsLost(w) PROVE [Next]_vars
    BY <1>1, <1>3 DEF Lost, FailItem, PostUploadsLost
  <1>4. CASE KillApp
    BY <1>4 DEF KillApp
  <1>5. ASSUME NEW r \in Receipts, ServerStep(r) PROVE Next
    BY <1>5 DEF ServerStep, Next, PutStep
  <1>6. ASSUME NEW r \in Receipts, CompleteAnswered(r) PROVE Next
    BY <1>6 DEF CompleteAnswered, Next
  <1>7. ASSUME NEW r \in Receipts, NEW p \in Parts, PartStored(r, p) PROVE Next
    BY <1>7 DEF PartStored, Next, PutStep
  <1>8. CASE NextDay
    BY <1>8 DEF Next
  <1>9. CASE UNCHANGED syncVars
    BY <1>9 DEF syncVars
  <1>. QED
    BY <1>2, <1>3, <1>4, <1>5, <1>6, <1>7, <1>8, <1>9 DEF SyncNext

\* Receipts are recorded for good, and only by a step that no device sees.
LEMMA RecordedGrows ==
    ASSUME TypeOK, Inv, PhoneInv, [SyncNext]_syncVars
    PROVE  \/ Recorded' = Recorded
           \/ \E r \in Receipts : /\ r \notin Recorded
                                  /\ Recorded' = Recorded \cup {r}
                                  /\ UNCHANGED phone
  <1>1. CASE UNCHANGED receipt
    BY <1>1 DEF Recorded
  <1>2. ASSUME NEW r \in Receipts, Commit(r)
        PROVE  r \notin Recorded /\ Recorded' = Recorded \cup {r}
    BY <1>2, CommitRecordsNew DEF Commit, Recorded, TypeOK, ReceiptRows
  <1>3. UNCHANGED phone \/ UNCHANGED receipt
    <2>. USE DEF tenantRows
    <2>1. ASSUME NEW w \in Workers, WorkerStep(w) PROVE UNCHANGED receipt
      BY <2>1 DEF WorkerStep, Wake, StartItem, EndRun, Refused, FailItem, PostUploads,
          PostUploadsAgain, PostUploadsComplete, GetProgress, SendPart, SendPartAgain,
          PostComplete, PostCompleteAgain, ForgetUpload, CreateUploadSession, PutBegin,
          Claim, vars
    <2>2. ASSUME NEW w \in Workers, Lost(w) \/ PostUploadsLost(w) \/ KillApp
          PROVE  UNCHANGED receipt
      BY <2>2 DEF Lost, FailItem, PostUploadsLost, CreateUploadSession, KillApp, vars
    <2>3. ASSUME NEW r \in Receipts, CompleteAnswered(r) PROVE UNCHANGED receipt
      BY <2>3 DEF CompleteAnswered, JobEnd, DeletePartsFail, DeleteRows
    <2>4. ASSUME NEW r \in Receipts, NEW p \in Parts, PartStored(r, p)
          PROVE  UNCHANGED receipt
      BY <2>4 DEF PartStored, PutCommit
    <2>5. CASE UNCHANGED syncVars
      BY <2>5 DEF syncVars
    <2>6. CASE KillApp
      BY <2>6 DEF KillApp, vars
    <2>. QED
      BY <2>1, <2>2, <2>3, <2>4, <2>5, <2>6 DEF SyncNext, ServerStep
  <1>. QED
    BY <1>1, <1>2, <1>3, StepRefines, OnlyCommitRecords

\* A device marks a receipt as synced only when it has its row: the answers
\* it acts on are given for COMPLETE sessions.
LEMMA SyncedOnlyRecorded ==
    ASSUME TypeOK, Inv, PhoneInv, SyncedRecorded, [SyncNext]_syncVars
    PROVE  sync' \subseteq Recorded
  <1>1. ASSUME NEW w \in Workers, WorkerStep(w) PROVE sync' \subseteq Recorded
    <2>1. CASE PostUploadsComplete(w)
      BY <2>1 DEF PostUploadsComplete, SyncedRecorded
    <2>2. CASE PostCompleteAgain(w)
      <3>1. run[w].item \in Receipts /\ session[run[w].item] = "COMPLETE"
        BY <2>2 DEF PostCompleteAgain, Duplicate, PhoneInv, AtWork
      <3>2. run[w].item \in Recorded
        BY <3>1 DEF Inv, Lifecycle, RecordedIsComplete, Recorded
      <3>. QED
        BY <2>2, <3>2 DEF PostCompleteAgain, SyncedRecorded
    <2>3. CASE sync' \subseteq sync
      BY <2>3 DEF SyncedRecorded
    <2>. QED
      BY <1>1, <2>1, <2>2, <2>3
         DEF WorkerStep, Wake, StartItem, EndRun, Refused, FailItem, PostUploads,
             PostUploadsAgain, ToProgress, GetProgress, SendPart, SendPartAgain,
             PostComplete, ForgetUpload
  <1>2. ASSUME NEW r \in Receipts, CompleteAnswered(r) PROVE sync' \subseteq Recorded
    <2>1. session[r] = "COMPLETE"
      BY <1>2 DEF CompleteAnswered, JobEnd, DeletePartsFail, DeleteRows, Inv, Lifecycle,
                  CommittedIsComplete
    <2>2. r \in Recorded
      BY <2>1 DEF Inv, Lifecycle, RecordedIsComplete, Recorded
    <2>. QED
      BY <1>2, <2>2 DEF CompleteAnswered, SyncedRecorded
  <1>3. CASE sync' \subseteq sync
    BY <1>3 DEF SyncedRecorded
  <1>. QED
    BY <1>1, <1>2, <1>3
       DEF SyncNext, ServerStep, Lost, FailItem, PostUploadsLost, KillApp, PartStored,
           phone, syncVars

\* The server's and the workers' invariant together.
SyncInv == TypeOK /\ Inv /\ PhoneInv /\ SyncedRecorded

\* It is inductive.
LEMMA SyncInvStep ==
    ASSUME SyncInv, [SyncNext]_syncVars
    PROVE  SyncInv'
  <1>1. TypeOK' /\ Inv'
    BY StepRefines, TypeStep, InvStep DEF SyncInv
  <1>2. PhoneInv'
    BY PhoneStep DEF SyncInv
  <1>3. SyncedRecorded'
    BY RecordedGrows, SyncedOnlyRecorded DEF SyncInv, SyncedRecorded
  <1>. QED
    BY <1>1, <1>2, <1>3 DEF SyncInv

\* In every state the server's invariant holds, the workers are at work on
\* receipts, and a device takes a receipt for synced only if it has its row.
THEOREM SyncInvariant == SyncSpec => []SyncInv
  <1>1. SyncInit => SyncInv
    BY TypeInit, InvInit, PhoneInit DEF SyncInit, SyncInv, SyncedRecorded
  <1>. QED
    BY <1>1, SyncInvStep, PTL DEF SyncSpec

-----------------------------------------------------------------------------
(* What follows.                                                           *)

\* With the phone's workers as its clients the upload service still behaves as
\* UploadSessions says: none of their behaviours is new to it.
THEOREM SyncImplementsSessions == SyncSpec => Spec
  <1>1. SyncInit => Init
    BY DEF SyncInit
  <1>2. SyncInv /\ [SyncNext]_syncVars => [Next]_vars
    BY StepRefines DEF SyncInv
  <1>. QED
    BY <1>1, <1>2, SyncInvariant, PTL DEF SyncSpec, Spec

\* So everything that holds of the service for any clients holds under the
\* workers: the two tables agree, bytes and daily receipts are within their
\* limits, statuses are final, no part comes late, no session is claimed twice,
\* and the images of receipts completed in time stay.
THEOREM SessionsHoldUnderSync ==
    SyncSpec => /\ []ReceiptIffComplete /\ []StorageLedger /\ []QuotaHoldsPerLock
                /\ []NoPartAfterComplete /\ TerminalStates /\ OneCompleter
                /\ TimelyImageKept
  BY SyncImplementsSessions, ReceiptMatchesSession, LedgerBalanced, QuotaPerLock,
     NoLatePart, StatusesTerminal, SingleCompleter, TimelyImagesKept

\* Every variable of the server and of the devices keeps its type, whatever
\* answers are lost and whenever the app is ended.
THEOREM SyncTypeCorrect == SyncSpec => []SyncTypeOK
  <1>1. SyncInv => SyncTypeOK
    BY DEF SyncInv, PhoneInv, PhoneTypeOK, SyncTypeOK, Runs
  <1>. QED
    BY <1>1, SyncInvariant, PTL

\* A device that resumes an upload never skips a part that is gone from S3.
THEOREM ResumedPartsHeld == SyncSpec => []ConfirmedPartsStored
  <1>1. SyncInv => ConfirmedPartsStored
    BY DEF SyncInv, Inv, KeepsAlive, AliveHasParts, Alive, AcceptsParts,
           ConfirmedPartsStored
  <1>. QED
    BY <1>1, SyncInvariant, PTL

-----------------------------------------------------------------------------
(* The refinement of ReceiptLog.                                           *)

\* A commit is a Record; every other step tells devices of recorded receipts,
\* takes receipts for pending again, or changes nothing that ReceiptLog sees.
LEMMA LogStep ==
    ASSUME SyncInv, [SyncNext]_syncVars
    PROVE  [Log!Next]_Log!vars
  <1>1. CASE Recorded' = Recorded
    <2>1. sync' \in SUBSET Recorded
      BY SyncedOnlyRecorded DEF SyncInv
    <2>2. Log!Acknowledge
      BY <1>1, <2>1 DEF Log!Acknowledge
    <2>. QED
      BY <2>2 DEF Log!Next
  <1>2. ASSUME NEW r \in Receipts, r \notin Recorded, Recorded' = Recorded \cup {r},
               UNCHANGED phone
        PROVE  Log!Record(r)
    BY <1>2 DEF Log!Record, phone
  <1>. QED
    BY <1>1, <1>2, RecordedGrows DEF SyncInv, Log!Next

\* The upload path, with faults of the network, the app and the server at any
\* point, implements ReceiptLog: receipts are recorded once and stay, and
\* devices take only recorded ones for synced.
THEOREM SyncImplementsLog == SyncSpec => ImplementsReceiptLog
  <1>1. SyncInit => Log!Init
    BY DEF SyncInit, Init, Log!Init, Recorded, NoReceipt
  <1>2. SyncInv /\ [SyncNext]_syncVars => [Log!Next]_Log!vars
    BY LogStep
  <1>. QED
    BY <1>1, <1>2, SyncInvariant, PTL DEF SyncSpec, ImplementsReceiptLog, Log!Spec
=============================================================================
