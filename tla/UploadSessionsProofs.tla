------------------------ MODULE UploadSessionsProofs ------------------------
(***************************************************************************)
(* What UploadSessions guarantees for every set of receipts and parts and  *)
(* every limit.                                                            *)
(*                                                                         *)
(* The safety invariants are not inductive: whether a COMMIT may record a  *)
(* receipt depends on who may have changed its session since the claim.    *)
(* Inv adds what the handlers rely on: the status a session has at each    *)
(* stage of its completion, the rows a completion has read, and what the   *)
(* cleanup job can have chosen.  One lemma shows that every step keeps     *)
(* Inv; the theorems follow from it.                                       *)
(***************************************************************************)
EXTENDS UploadSessions, FiniteSetTheorems, TLAPS

-----------------------------------------------------------------------------
(* Type correctness.                                                       *)

\* The days and dates of the model: 0 is a date and no day.
LEMMA DateFacts == 0 \in Dates /\ 1 \in Days /\ Days \subseteq Dates /\ 0 \notin Days
  BY UploadAssumption DEF Days, Dates

\* The initial records have their types.
LEMMA RecordFacts ==
    NoReceipt \in ReceiptRows /\ IdleJob \in Jobs /\ IdleClean \in Cleanings
  BY DateFacts DEF NoReceipt, IdleJob, IdleClean, ReceiptRows, Jobs, Cleanings,
                   JobStages, CleanStages

\* The initial state is well typed.
LEMMA TypeInit == Init => TypeOK
  BY UploadAssumption, DateFacts, RecordFacts DEF Init, TypeOK, Statuses

\* Every step keeps the types.
LEMMA TypeStep ==
    ASSUME TypeOK, [Next]_vars
    PROVE  TypeOK'
  <1>. USE UploadAssumption, DateFacts, RecordFacts
       DEF TypeOK, Statuses, uploadRows, tenantRows, objects
  <1>1. CASE UNCHANGED vars
    BY <1>1 DEF vars
  <1>2. ASSUME NEW r \in Receipts, CreateUploadSession(r) PROVE TypeOK'
    BY <1>2 DEF CreateUploadSession
  <1>3. ASSUME NEW r \in Receipts, Claim(r) PROVE TypeOK'
    BY <1>3 DEF Claim, Jobs, JobStages
  <1>4. ASSUME NEW r \in Receipts, Assemble(r) PROVE TypeOK'
    BY <1>4 DEF Assemble, Jobs, JobStages
  <1>5. ASSUME NEW r \in Receipts, AssembleInvalid(r) PROVE TypeOK'
    BY <1>5 DEF AssembleInvalid, SetUploadStatus
  <1>6. ASSUME NEW r \in Receipts, AssembleFail(r) PROVE TypeOK'
    BY <1>6 DEF AssembleFail, SetUploadStatus
  <1>7. ASSUME NEW r \in Receipts, RecordKey(r) PROVE TypeOK'
    BY <1>7 DEF RecordKey, Jobs, JobStages
  <1>8. ASSUME NEW r \in Receipts, StoreImage(r) PROVE TypeOK'
    BY <1>8 DEF StoreImage, Jobs, JobStages
  <1>9. ASSUME NEW r \in Receipts, Begin(r) PROVE TypeOK'
    BY <1>9 DEF Begin, Jobs, JobStages
  <1>10. ASSUME NEW r \in Receipts, CountQuota(r) PROVE TypeOK'
    BY <1>10 DEF CountQuota, Jobs, JobStages
  <1>11. ASSUME NEW r \in Receipts, RollBack(r) PROVE TypeOK'
    BY <1>11 DEF RollBack, Jobs, JobStages
  <1>12. ASSUME NEW r \in Receipts, Commit(r) PROVE TypeOK'
    <2>1. PICK answer : job' = [job EXCEPT ![r].pc =
                                   IF answer = "committed" THEN "committed" ELSE "undo"]
      BY <1>12 DEF Commit
    <2>2. job' \in [Receipts -> Jobs]
      BY <2>1 DEF Jobs, JobStages
    <2>3. [key |-> job[r].key, created |-> job[r].txDay, lockDay |-> job[r].lockDay]
              \in ReceiptRows
      BY DEF Jobs, ReceiptRows
    <2>4. stored' \in Nat
      BY <1>12 DEF Commit, AfterReceipt
    <2>. QED
      BY <1>12, <2>2, <2>3, <2>4 DEF Commit
  <1>13. ASSUME NEW r \in Receipts, DeleteImage(r) PROVE TypeOK'
    BY <1>13 DEF DeleteImage, Jobs, JobStages
  <1>14. ASSUME NEW r \in Receipts, DeleteImageFail(r) PROVE TypeOK'
    BY <1>14 DEF DeleteImageFail, Jobs, JobStages
  <1>15. ASSUME NEW r \in Receipts, Revert(r) PROVE TypeOK'
    BY <1>15 DEF Revert, SetUploadStatus
  <1>16. ASSUME NEW r \in Receipts, DeleteParts(r) PROVE TypeOK'
    BY <1>16 DEF DeleteParts, Jobs, JobStages
  <1>17. ASSUME NEW r \in Receipts, DeletePartsFail(r) PROVE TypeOK'
    BY <1>17 DEF DeletePartsFail
  <1>18. ASSUME NEW r \in Receipts, DeleteRows(r) PROVE TypeOK'
    BY <1>18 DEF DeleteRows
  <1>19. ASSUME NEW r \in Receipts, Abandon(r) PROVE TypeOK'
    BY <1>19 DEF Abandon
  <1>20. ASSUME NEW r \in Receipts, CleanSelect(r) PROVE TypeOK'
    BY <1>20 DEF CleanSelect, KeyToClean, Cleanings, CleanStages
  <1>21. ASSUME NEW r \in Receipts, CleanList(r) PROVE TypeOK'
    BY <1>21 DEF CleanList, Cleanings, CleanStages
  <1>22. ASSUME NEW r \in Receipts, CleanObjects(r) PROVE TypeOK'
    BY <1>22 DEF CleanObjects, Cleanings, CleanStages
  <1>23. ASSUME NEW r \in Receipts, CleanObjectsFail(r) PROVE TypeOK'
    BY <1>23 DEF CleanObjectsFail
  <1>24. ASSUME NEW r \in Receipts, CleanRows(r) PROVE TypeOK'
    BY <1>24 DEF CleanRows
  <1>25. ASSUME NEW r \in Receipts, CleanAbandon(r) PROVE TypeOK'
    BY <1>25 DEF CleanAbandon
  <1>26. ASSUME NEW r \in Receipts, PassExpiry(r) PROVE TypeOK'
    BY <1>26 DEF PassExpiry
  <1>27. ASSUME NEW r \in Receipts, PassQuiet(r) PROVE TypeOK'
    BY <1>27 DEF PassQuiet
  <1>28. ASSUME NEW r \in Receipts, NEW p \in Parts, PutBegin(r, p) PROVE TypeOK'
    BY <1>28 DEF PutBegin
  <1>29. ASSUME NEW r \in Receipts, NEW p \in Parts, PutStore(r, p) PROVE TypeOK'
    BY <1>29 DEF PutStore
  <1>30. ASSUME NEW r \in Receipts, NEW p \in Parts, PutCommit(r, p) PROVE TypeOK'
    BY <1>30 DEF PutCommit
  <1>31. ASSUME NEW r \in Receipts, NEW p \in Parts, PutAbort(r, p) PROVE TypeOK'
    BY <1>31 DEF PutAbort
  <1>32. ASSUME NEW r \in Receipts, NEW p \in Parts, SweepUntracked(r, p) PROVE TypeOK'
    BY <1>32 DEF SweepUntracked
  <1>33. CASE NextDay
    <2>1. day' \in Days
      BY <1>33 DEF NextDay, Days
    <2>. QED
      BY <1>33, <2>1 DEF NextDay
  <1>. QED
    BY <1>1, <1>2, <1>3, <1>4, <1>5, <1>6, <1>7, <1>8, <1>9, <1>10, <1>11,
       <1>12, <1>13, <1>14, <1>15, <1>16, <1>17, <1>18, <1>19, <1>20, <1>21, <1>22,
       <1>23, <1>24, <1>25, <1>26, <1>27, <1>28, <1>29, <1>30, <1>31, <1>32, <1>33
       DEF Next, JobStep, JobEnd, CleanStep, PutStep

\* Every variable keeps its type, whatever requests, faults and days follow.
THEOREM TypeCorrect == Spec => []TypeOK
  BY TypeInit, TypeStep, PTL DEF Spec

-----------------------------------------------------------------------------
(* The inductive invariant.                                                *)

\* A session that nobody has claimed has no completion at work ...
OpenHasNoJob(r) == session[r] \in {"NONE", "OPEN"} => job[r].pc = "idle"
\* ... the final transaction keeps its row lock ...
FinalTransactionHoldsRow(r) ==
    job[r].pc \in {"begun", "counted"} => session[r] = "COMPLETING"
\* ... and before it no completion has recorded anything, after it one has.
UncommittedIsNotComplete(r) ==
    job[r].pc \in {"claimed", "assembled", "keyed", "stored"} => session[r] # "COMPLETE"
CommittedIsComplete(r) == job[r].pc \in {"committed", "cleaned"} => session[r] = "COMPLETE"
RecordedIsComplete(r) == receipt[r].key # 0 <=> session[r] = "COMPLETE"
JobHasKey(r) == job[r].pc \in {"keyed", "stored", "begun", "counted"} => job[r].key # 0

Lifecycle(r) ==
    /\ OpenHasNoJob(r)
    /\ FinalTransactionHoldsRow(r)
    /\ UncommittedIsNotComplete(r)
    /\ CommittedIsComplete(r)
    /\ RecordedIsComplete(r)
    /\ JobHasKey(r)

\* The advisory lock of a part: while its request runs no other inserts it.
PartInProgressHasNoRow(r) ==
    \A p \in Parts : put[r][p] # "idle" => p \notin rows[r]
\* The rows that a completion has read stay until it ends.
ClaimedPartsHaveRows(r) ==
    /\ session[r] = "COMPLETING"
    /\ job[r].pc \in {"claimed", "assembled", "keyed", "stored", "begun", "counted"}
    => job[r].parts \subseteq rows[r]
AssembledIsWhole(r) ==
    job[r].pc \in {"assembled", "keyed", "stored", "begun", "counted"} =>
        job[r].parts = Parts
CompleteHasNoPartInProgress(r) ==
    session[r] = "COMPLETE" => \A p \in Parts : put[r][p] = "idle"

HoldsParts(r) ==
    /\ PartInProgressHasNoRow(r)
    /\ ClaimedPartsHaveRows(r)
    /\ AssembledIsWhole(r)
    /\ CompleteHasNoPartInProgress(r)

\* A session that takes parts, or may do so again when its completion fails.
Alive(r) ==
    /\ r \notin expired
    /\ session[r] = "OPEN" \/ (session[r] = "COMPLETING" /\ job[r].pc # "idle")
NewIsEmpty(r) ==
    session[r] = "NONE" => /\ rows[r] = {}
                           /\ \A p \in Parts : put[r][p] = "idle"
                           /\ clean[r].pc = "idle"
QuietHasNoJob(r) == session[r] = "COMPLETING" /\ r \in quiet => job[r].pc = "idle"
\* The cleanup job never has a live session in its hands ...
CleanedIsNotAlive(r) == clean[r].pc # "idle" => ~Alive(r)
\* ... so a live session has every object that a row, or soon a row, names.
AliveHasParts(r) ==
    Alive(r) => /\ rows[r] \subseteq partObjs[r]
                /\ \A p \in Parts : put[r][p] = "stored" => p \in partObjs[r]

KeepsAlive(r) ==
    /\ NewIsEmpty(r)
    /\ QuietHasNoJob(r)
    /\ CleanedIsNotAlive(r)
    /\ AliveHasParts(r)

Inv == \A r \in Receipts : Lifecycle(r) /\ HoldsParts(r) /\ KeepsAlive(r)

\* The initial state satisfies the invariant.
LEMMA InvInit == Init => Inv
  BY DEF Init, Inv, Lifecycle, OpenHasNoJob, FinalTransactionHoldsRow,
         UncommittedIsNotComplete, CommittedIsComplete, RecordedIsComplete, JobHasKey,
         HoldsParts, PartInProgressHasNoRow, ClaimedPartsHaveRows, AssembledIsWhole,
         CompleteHasNoPartInProgress, KeepsAlive, Alive, NewIsEmpty, QuietHasNoJob,
         CleanedIsNotAlive, AliveHasParts, NoReceipt, IdleJob, IdleClean

\* Every step keeps the invariant, action by action.
LEMMA InvStep ==
    ASSUME TypeOK, TypeOK', Inv, [Next]_vars
    PROVE  Inv'
  <1>. USE DEF TypeOK, Jobs, ReceiptRows, Cleanings, uploadRows, tenantRows, objects,
         Inv, Lifecycle, OpenHasNoJob, FinalTransactionHoldsRow,
         UncommittedIsNotComplete, CommittedIsComplete, RecordedIsComplete, JobHasKey,
         HoldsParts, PartInProgressHasNoRow, ClaimedPartsHaveRows, AssembledIsWhole,
         CompleteHasNoPartInProgress, KeepsAlive, Alive, NewIsEmpty, QuietHasNoJob,
         CleanedIsNotAlive, AliveHasParts
  <1>1. CASE UNCHANGED vars
    BY <1>1 DEF vars
  <1>2. ASSUME NEW r \in Receipts, CreateUploadSession(r) PROVE Inv'
    BY <1>2 DEF CreateUploadSession
  <1>3. ASSUME NEW r \in Receipts, Claim(r) PROVE Inv'
    BY <1>3 DEF Claim, Claimable, IdleJob
  <1>4. ASSUME NEW r \in Receipts, Assemble(r) PROVE Inv'
    BY <1>4 DEF Assemble, Whole
  <1>5. ASSUME NEW r \in Receipts, AssembleInvalid(r) PROVE Inv'
    BY <1>5 DEF AssembleInvalid, SetUploadStatus, IdleJob
  <1>6. ASSUME NEW r \in Receipts, AssembleFail(r) PROVE Inv'
    BY <1>6 DEF AssembleFail, SetUploadStatus, IdleJob
  <1>7. ASSUME NEW r \in Receipts, RecordKey(r) PROVE Inv'
    <2>1. /\ job'[r].pc = "keyed" /\ job'[r].parts = job[r].parts /\ job'[r].key # 0
          /\ \A q \in Receipts \ {r} : job'[q] = job[q]
      BY <1>7, DateFacts DEF RecordKey
    <2>2. /\ job[r].pc = "assembled" /\ quiet' \subseteq quiet
          /\ UNCHANGED <<session, expired, rows, receipt, partObjs, put, clean>>
      BY <1>7 DEF RecordKey
    <2>. SUFFICES ASSUME NEW q \in Receipts
                  PROVE  (Lifecycle(q) /\ HoldsParts(q) /\ KeepsAlive(q))'
      OBVIOUS
    <2>3. CASE q = r
      BY <2>1, <2>2, <2>3
    <2>4. CASE q # r
      BY <2>1, <2>2, <2>4
    <2>. QED
      BY <2>3, <2>4
  <1>8. ASSUME NEW r \in Receipts, StoreImage(r) PROVE Inv'
    BY <1>8 DEF StoreImage
  <1>9. ASSUME NEW r \in Receipts, Begin(r) PROVE Inv'
    BY <1>9 DEF Begin
  <1>10. ASSUME NEW r \in Receipts, CountQuota(r) PROVE Inv'
    BY <1>10 DEF CountQuota
  <1>11. ASSUME NEW r \in Receipts, RollBack(r) PROVE Inv'
    BY <1>11 DEF RollBack
  <1>12. ASSUME NEW r \in Receipts, Commit(r) PROVE Inv'
    BY <1>12 DEF Commit
  <1>13. ASSUME NEW r \in Receipts, DeleteImage(r) PROVE Inv'
    BY <1>13 DEF DeleteImage
  <1>14. ASSUME NEW r \in Receipts, DeleteImageFail(r) PROVE Inv'
    BY <1>14 DEF DeleteImageFail
  <1>15. ASSUME NEW r \in Receipts, Revert(r) PROVE Inv'
    BY <1>15 DEF Revert, SetUploadStatus, IdleJob
  <1>16. ASSUME NEW r \in Receipts, DeleteParts(r) PROVE Inv'
    BY <1>16 DEF DeleteParts
  <1>17. ASSUME NEW r \in Receipts, DeletePartsFail(r) PROVE Inv'
    BY <1>17 DEF DeletePartsFail, IdleJob
  <1>18. ASSUME NEW r \in Receipts, DeleteRows(r) PROVE Inv'
    BY <1>18 DEF DeleteRows, IdleJob
  <1>19. ASSUME NEW r \in Receipts, Abandon(r) PROVE Inv'
    BY <1>19 DEF Abandon, IdleJob
  <1>20. ASSUME NEW r \in Receipts, CleanSelect(r) PROVE Inv'
    BY <1>20 DEF CleanSelect, Cleanable
  <1>21. ASSUME NEW r \in Receipts, CleanList(r) PROVE Inv'
    BY <1>21 DEF CleanList
  <1>22. ASSUME NEW r \in Receipts, CleanObjects(r) PROVE Inv'
    BY <1>22 DEF CleanObjects
  <1>23. ASSUME NEW r \in Receipts, CleanObjectsFail(r) PROVE Inv'
    BY <1>23 DEF CleanObjectsFail
  <1>24. ASSUME NEW r \in Receipts, CleanRows(r) PROVE Inv'
    BY <1>24 DEF CleanRows, Expirable
  <1>25. ASSUME NEW r \in Receipts, CleanAbandon(r) PROVE Inv'
    BY <1>25 DEF CleanAbandon
  <1>26. ASSUME NEW r \in Receipts, PassExpiry(r) PROVE Inv'
    BY <1>26 DEF PassExpiry
  <1>27. ASSUME NEW r \in Receipts, PassQuiet(r) PROVE Inv'
    BY <1>27 DEF PassQuiet
  <1>28. ASSUME NEW r \in Receipts, NEW p \in Parts, PutBegin(r, p) PROVE Inv'
    BY <1>28 DEF PutBegin, AcceptsParts
  <1>29. ASSUME NEW r \in Receipts, NEW p \in Parts, PutStore(r, p) PROVE Inv'
    BY <1>29 DEF PutStore
  <1>30. ASSUME NEW r \in Receipts, NEW p \in Parts, PutCommit(r, p) PROVE Inv'
    BY <1>30 DEF PutCommit, PutStored
  <1>31. ASSUME NEW r \in Receipts, NEW p \in Parts, PutAbort(r, p) PROVE Inv'
    BY <1>31 DEF PutAbort
  <1>32. ASSUME NEW r \in Receipts, NEW p \in Parts, SweepUntracked(r, p) PROVE Inv'
    BY <1>32 DEF SweepUntracked
  <1>33. CASE NextDay
    BY <1>33 DEF NextDay
  <1>. QED
    BY <1>1, <1>2, <1>3, <1>4, <1>5, <1>6, <1>7, <1>8, <1>9, <1>10, <1>11,
       <1>12, <1>13, <1>14, <1>15, <1>16, <1>17, <1>18, <1>19, <1>20, <1>21, <1>22,
       <1>23, <1>24, <1>25, <1>26, <1>27, <1>28, <1>29, <1>30, <1>31, <1>32, <1>33
       DEF Next, JobStep, JobEnd, CleanStep, PutStep

\* The inductive invariant holds in every reachable state.
LEMMA Invariant == Spec => [](TypeOK /\ Inv)
  <1>1. Init => TypeOK /\ Inv
    BY TypeInit, InvInit
  <1>2. TypeOK /\ Inv /\ [Next]_vars => (TypeOK /\ Inv)'
    BY TypeStep, InvStep
  <1>. QED
    BY <1>1, <1>2, PTL DEF Spec

-----------------------------------------------------------------------------
(* What follows from the invariant.                                        *)

\* A receipts row exists exactly when its session is COMPLETE.
THEOREM ReceiptMatchesSession == Spec => []ReceiptIffComplete
  <1>1. Inv => ReceiptIffComplete
    BY DEF Inv, Lifecycle, RecordedIsComplete, ReceiptIffComplete, Recorded
  <1>. QED
    BY <1>1, Invariant, PTL

\* No part request is in progress for a COMPLETE session.
THEOREM NoLatePart == Spec => []NoPartAfterComplete
  <1>1. Inv => NoPartAfterComplete
    BY DEF Inv, HoldsParts, CompleteHasNoPartInProgress, NoPartAfterComplete
  <1>. QED
    BY <1>1, Invariant, PTL

\* The parts a resuming client is told to skip are in S3, although cleanup
\* job and completions overlap.
THEOREM PartsHeld == Spec => []ConfirmedPartsStored
  <1>1. Inv => ConfirmedPartsStored
    BY DEF Inv, KeepsAlive, AliveHasParts, Alive, AcceptsParts, ConfirmedPartsStored
  <1>. QED
    BY <1>1, Invariant, PTL

\* What a step can do to receipt q: only Claim and CountQuota bring its
\* completion to those stages, and no step moves it out of a final status.
StepEffects(q) ==
    /\ job'[q].pc = "claimed" => job'[q] = job[q] \/ Claim(q)
    /\ job'[q].pc = "counted" => job'[q] = job[q] \/ CountQuota(q)
    /\ session[q] \in {"COMPLETE", "EXPIRED", "FAILED"} =>
           session'[q] = session[q] /\ receipt'[q] = receipt[q]

\* Every step has these effects and no others.
LEMMA EffectsOfStep ==
    ASSUME TypeOK, Inv, [Next]_vars, NEW q \in Receipts
    PROVE  StepEffects(q)
  <1>. USE DEF TypeOK, Jobs, StepEffects, uploadRows, tenantRows, objects,
               Inv, Lifecycle, OpenHasNoJob, FinalTransactionHoldsRow
  <1>1. CASE UNCHANGED vars
    BY <1>1 DEF vars
  <1>2. ASSUME NEW r \in Receipts, CreateUploadSession(r) PROVE StepEffects(q)
    BY <1>2 DEF CreateUploadSession
  <1>3. ASSUME NEW r \in Receipts, Claim(r) PROVE StepEffects(q)
    BY <1>3 DEF Claim, Claimable, IdleJob
  <1>4. ASSUME NEW r \in Receipts, Assemble(r) PROVE StepEffects(q)
    BY <1>4 DEF Assemble
  <1>5. ASSUME NEW r \in Receipts, AssembleInvalid(r) PROVE StepEffects(q)
    BY <1>5 DEF AssembleInvalid, SetUploadStatus, IdleJob
  <1>6. ASSUME NEW r \in Receipts, AssembleFail(r) PROVE StepEffects(q)
    BY <1>6 DEF AssembleFail, SetUploadStatus, IdleJob
  <1>7. ASSUME NEW r \in Receipts, RecordKey(r) PROVE StepEffects(q)
    BY <1>7 DEF RecordKey
  <1>8. ASSUME NEW r \in Receipts, StoreImage(r) PROVE StepEffects(q)
    BY <1>8 DEF StoreImage
  <1>9. ASSUME NEW r \in Receipts, Begin(r) PROVE StepEffects(q)
    BY <1>9 DEF Begin
  <1>10. ASSUME NEW r \in Receipts, CountQuota(r) PROVE StepEffects(q)
    BY <1>10 DEF CountQuota
  <1>11. ASSUME NEW r \in Receipts, RollBack(r) PROVE StepEffects(q)
    BY <1>11 DEF RollBack
  <1>12. ASSUME NEW r \in Receipts, Commit(r) PROVE StepEffects(q)
    BY <1>12 DEF Commit
  <1>13. ASSUME NEW r \in Receipts, DeleteImage(r) PROVE StepEffects(q)
    BY <1>13 DEF DeleteImage
  <1>14. ASSUME NEW r \in Receipts, DeleteImageFail(r) PROVE StepEffects(q)
    BY <1>14 DEF DeleteImageFail
  <1>15. ASSUME NEW r \in Receipts, Revert(r) PROVE StepEffects(q)
    BY <1>15 DEF Revert, SetUploadStatus, IdleJob
  <1>16. ASSUME NEW r \in Receipts, DeleteParts(r) PROVE StepEffects(q)
    BY <1>16 DEF DeleteParts
  <1>17. ASSUME NEW r \in Receipts, DeletePartsFail(r) PROVE StepEffects(q)
    BY <1>17 DEF DeletePartsFail, IdleJob
  <1>18. ASSUME NEW r \in Receipts, DeleteRows(r) PROVE StepEffects(q)
    BY <1>18 DEF DeleteRows, IdleJob
  <1>19. ASSUME NEW r \in Receipts, Abandon(r) PROVE StepEffects(q)
    BY <1>19 DEF Abandon, IdleJob
  <1>20. ASSUME NEW r \in Receipts, CleanSelect(r) PROVE StepEffects(q)
    BY <1>20 DEF CleanSelect
  <1>21. ASSUME NEW r \in Receipts, CleanList(r) PROVE StepEffects(q)
    BY <1>21 DEF CleanList
  <1>22. ASSUME NEW r \in Receipts, CleanObjects(r) PROVE StepEffects(q)
    BY <1>22 DEF CleanObjects
  <1>23. ASSUME NEW r \in Receipts, CleanObjectsFail(r) PROVE StepEffects(q)
    BY <1>23 DEF CleanObjectsFail
  <1>24. ASSUME NEW r \in Receipts, CleanRows(r) PROVE StepEffects(q)
    BY <1>24 DEF CleanRows, Expirable
  <1>25. ASSUME NEW r \in Receipts, CleanAbandon(r) PROVE StepEffects(q)
    BY <1>25 DEF CleanAbandon
  <1>26. ASSUME NEW r \in Receipts, PassExpiry(r) PROVE StepEffects(q)
    BY <1>26 DEF PassExpiry
  <1>27. ASSUME NEW r \in Receipts, PassQuiet(r) PROVE StepEffects(q)
    BY <1>27 DEF PassQuiet
  <1>28. ASSUME NEW r \in Receipts, NEW p \in Parts, PutBegin(r, p) PROVE StepEffects(q)
    BY <1>28 DEF PutBegin
  <1>29. ASSUME NEW r \in Receipts, NEW p \in Parts, PutStore(r, p) PROVE StepEffects(q)
    BY <1>29 DEF PutStore
  <1>30. ASSUME NEW r \in Receipts, NEW p \in Parts, PutCommit(r, p) PROVE StepEffects(q)
    BY <1>30 DEF PutCommit
  <1>31. ASSUME NEW r \in Receipts, NEW p \in Parts, PutAbort(r, p) PROVE StepEffects(q)
    BY <1>31 DEF PutAbort
  <1>32. ASSUME NEW r \in Receipts, NEW p \in Parts, SweepUntracked(r, p) PROVE StepEffects(q)
    BY <1>32 DEF SweepUntracked
  <1>33. CASE NextDay
    BY <1>33 DEF NextDay
  <1>. QED
    BY <1>1, <1>2, <1>3, <1>4, <1>5, <1>6, <1>7, <1>8, <1>9, <1>10, <1>11,
       <1>12, <1>13, <1>14, <1>15, <1>16, <1>17, <1>18, <1>19, <1>20, <1>21, <1>22,
       <1>23, <1>24, <1>25, <1>26, <1>27, <1>28, <1>29, <1>30, <1>31, <1>32, <1>33
       DEF Next, JobStep, JobEnd, CleanStep, PutStep

\* COMPLETE, EXPIRED and FAILED are final.
THEOREM StatusesTerminal == Spec => TerminalStates
  <1>1. TypeOK /\ Inv /\ [Next]_vars =>
            [\A r \in Receipts :
                session[r] \in {"COMPLETE", "EXPIRED", "FAILED"} =>
                    session'[r] = session[r] /\ receipt'[r] = receipt[r]]_vars
    BY EffectsOfStep DEF StepEffects
  <1>. QED
    BY <1>1, Invariant, PTL DEF Spec, TerminalStates

\* A session is never claimed while a completion is at work on it.
THEOREM SingleCompleter == Spec => OneCompleter
  <1>1. TypeOK /\ Inv /\ [Next]_vars =>
            [\A r \in Receipts :
                job'[r].pc = "claimed" => job[r].pc \in {"idle", "claimed"}]_vars
    <2>. SUFFICES ASSUME TypeOK, Inv, [Next]_vars, NEW r \in Receipts,
                         job'[r].pc = "claimed"
                  PROVE  job[r].pc \in {"idle", "claimed"}
      OBVIOUS
    <2>1. job'[r] = job[r] \/ Claim(r)
      BY EffectsOfStep DEF StepEffects
    <2>. QED
      BY <2>1 DEF Claim, Claimable, Inv, Lifecycle, OpenHasNoJob
  <1>. QED
    BY <1>1, Invariant, PTL DEF Spec, OneCompleter

-----------------------------------------------------------------------------
(* The storage ledger.                                                     *)

\* Only the COMMIT of a completion touches receipts and stored_image_bytes.
LEMMA OnlyCommitRecords ==
    ASSUME [Next]_vars
    PROVE  UNCHANGED <<receipt, stored>> \/ \E r \in Receipts : Commit(r)
  <1>. USE DEF tenantRows
  <1>1. CASE UNCHANGED vars
    BY <1>1 DEF vars
  <1>2. ASSUME NEW r \in Receipts, JobStep(r)
        PROVE  UNCHANGED <<receipt, stored>> \/ Commit(r)
    BY <1>2 DEF JobStep, Assemble, AssembleInvalid, AssembleFail, RecordKey, StoreImage,
                Begin, CountQuota, RollBack, DeleteImage, DeleteImageFail, Revert,
                DeleteParts
  <1>3. ASSUME NEW r \in Receipts,
               JobEnd(r) \/ Abandon(r) \/ Claim(r) \/ CreateUploadSession(r)
        PROVE  UNCHANGED <<receipt, stored>>
    BY <1>3 DEF JobEnd, DeletePartsFail, DeleteRows, Abandon, Claim, CreateUploadSession
  <1>4. ASSUME NEW r \in Receipts, CleanStep(r) \/ PassExpiry(r) \/ PassQuiet(r)
        PROVE  UNCHANGED <<receipt, stored>>
    BY <1>4 DEF CleanStep, CleanSelect, CleanList, CleanObjects, CleanObjectsFail,
                CleanRows, CleanAbandon, PassExpiry, PassQuiet
  <1>5. ASSUME NEW r \in Receipts, NEW p \in Parts,
               PutBegin(r, p) \/ PutStep(r, p) \/ PutAbort(r, p) \/ SweepUntracked(r, p)
        PROVE  UNCHANGED <<receipt, stored>>
    BY <1>5 DEF PutBegin, PutStep, PutStore, PutCommit, PutAbort, SweepUntracked
  <1>6. CASE NextDay
    BY <1>6 DEF NextDay
  <1>. QED
    BY <1>1, <1>2, <1>3, <1>4, <1>5, <1>6 DEF Next

\* The receipt that a completion commits was not recorded before.
LEMMA CommitRecordsNew ==
    ASSUME Inv, NEW r \in Receipts, Commit(r)
    PROVE  r \notin Recorded /\ job[r].key # 0
  BY DEF Commit, Inv, Lifecycle, FinalTransactionHoldsRow, RecordedIsComplete, JobHasKey,
         Recorded

\* Every step keeps the ledger: a commit adds one receipt and its bytes.
LEMMA LedgerStep ==
    ASSUME TypeOK, Inv, StorageLedger, [Next]_vars
    PROVE  StorageLedger'
  <1>1. CASE UNCHANGED <<receipt, stored>>
    BY <1>1 DEF StorageLedger, Recorded
  <1>2. ASSUME NEW r \in Receipts, Commit(r) PROVE StorageLedger'
    <2>1. r \notin Recorded /\ Recorded' = Recorded \cup {r}
      BY <1>2, CommitRecordsNew DEF Commit, Recorded, TypeOK, ReceiptRows
    <2>2. Cardinality(Recorded) \in Nat /\ IsFiniteSet(Recorded)
      BY FS_Subset, FS_CardinalityType, UploadAssumption DEF Recorded
    <2>3. Cardinality(Recorded') = Cardinality(Recorded) + 1
      BY <2>1, <2>2, FS_AddElement
    <2>4. stored' = stored + ImageBytes /\ stored + ImageBytes <= StorageLimit
      BY <1>2 DEF Commit, AfterReceipt, FitsStorage
    <2>5. \A c \in Nat, b \in Nat : b * (c + 1) = b * c + b
      OBVIOUS
    <2>. QED
      BY <2>2, <2>3, <2>4, <2>5, UploadAssumption DEF StorageLedger
  <1>. QED
    BY <1>1, <1>2, OnlyCommitRecords

\* stored_image_bytes is the size of the recorded images, within the limit.
THEOREM LedgerBalanced == Spec => []StorageLedger
  <1>1. Init => StorageLedger
    <2>. SUFFICES ASSUME Init PROVE StorageLedger
      OBVIOUS
    <2>1. Recorded = {} /\ stored = 0
      BY DEF Init, Recorded, NoReceipt
    <2>. QED
      BY <2>1, FS_EmptySet, UploadAssumption DEF StorageLedger
  <1>2. TypeOK /\ Inv /\ StorageLedger /\ [Next]_vars => StorageLedger'
    BY LedgerStep
  <1>. QED
    BY <1>1, <1>2, Invariant, PTL DEF Spec

-----------------------------------------------------------------------------
(* The daily quota.                                                        *)

\* The advisory locks of a date have one holder.
OneHolder == \A q, r \in Receipts :
    /\ job[q].pc = "counted" /\ job[r].pc = "counted"
    /\ job[q].lockDay = job[r].lockDay
    => q = r

\* A lock that is held is not granted to a second completion.
LEMMA OneHolderStep ==
    ASSUME TypeOK, Inv, OneHolder, [Next]_vars
    PROVE  OneHolder'
  <1>. SUFFICES ASSUME NEW q \in Receipts, NEW r \in Receipts,
                      job'[q].pc = "counted", job'[r].pc = "counted",
                      job'[q].lockDay = job'[r].lockDay, q # r
               PROVE  FALSE
    BY DEF OneHolder
  <1>1. job'[q] = job[q] \/ CountQuota(q)
    BY EffectsOfStep DEF StepEffects
  <1>2. job'[r] = job[r] \/ CountQuota(r)
    BY EffectsOfStep DEF StepEffects
  <1>3. CASE CountQuota(q)
    BY <1>3 DEF CountQuota, QuotaLockFree, TypeOK, Jobs
  <1>4. CASE CountQuota(r)
    BY <1>4 DEF CountQuota, QuotaLockFree, TypeOK, Jobs
  <1>. QED
    BY <1>1, <1>2, <1>3, <1>4 DEF OneHolder

\* The sets that the quota counts are finite, now and after a step.
LEMMA FiniteSets == \A d, l :
    /\ IsFiniteSet(RecordedUnder(d, l)) /\ IsFiniteSet(RecordedUnder(d, l)')
    /\ IsFiniteSet(Counting(d, l)) /\ IsFiniteSet(Counting(d, l)')
  BY UploadAssumption, FS_Subset DEF RecordedUnder, Counting, Recorded

\* The count that admits a completion makes room for it.
LEMMA CountQuotaKeeps ==
    ASSUME TypeOK, OneHolder, QuotaHoldsPerLock, NEW r \in Receipts, CountQuota(r)
    PROVE  QuotaHoldsPerLock'
  <1>. SUFFICES ASSUME NEW d \in Days, NEW l \in Days
               PROVE  (Cardinality(RecordedUnder(d, l)) + Cardinality(Counting(d, l))
                           <= DailyLimit)'
    BY DEF QuotaHoldsPerLock
  <1>1. RecordedUnder(d, l)' = RecordedUnder(d, l)
    BY DEF CountQuota, RecordedUnder, Recorded, tenantRows
  <1>2. CASE job[r].txDay = d /\ job[r].lockDay = l
    <2>1. Counting(d, l)' = {r}
      BY <1>2 DEF CountQuota, QuotaLockFree, Counting, TypeOK, Jobs
    <2>2. RecordedUnder(d, l) \subseteq ReceivedSince(job[r].txDay)
      BY <1>2 DEF RecordedUnder, ReceivedSince, Days, TypeOK, Recorded, ReceiptRows, Dates
    <2>3. Cardinality(RecordedUnder(d, l)) < DailyLimit
      <3>1. IsFiniteSet(ReceivedSince(job[r].txDay))
        BY FS_Subset, UploadAssumption DEF ReceivedSince, Recorded
      <3>2. Cardinality(RecordedUnder(d, l)) <= Cardinality(ReceivedSince(job[r].txDay))
        BY <2>2, <3>1, FS_Subset
      <3>. QED
        BY <3>1, <3>2, <2>2, FS_Subset, FS_CardinalityType, UploadAssumption DEF CountQuota
    <2>4. Cardinality({r}) = 1 /\ Cardinality(RecordedUnder(d, l)) \in Nat
      BY FS_Singleton, FiniteSets, FS_CardinalityType
    <2>. QED
      BY <1>1, <2>1, <2>3, <2>4, UploadAssumption
  <1>3. CASE ~(job[r].txDay = d /\ job[r].lockDay = l)
    <2>1. Counting(d, l)' = Counting(d, l)
      BY <1>3 DEF CountQuota, Counting, TypeOK, Jobs
    <2>. QED
      BY <1>1, <2>1 DEF QuotaHoldsPerLock
  <1>. QED
    BY <1>2, <1>3

\* A commit moves its receipt from the counting to the recorded ones.
LEMMA CommitKeeps ==
    ASSUME TypeOK, OneHolder, QuotaHoldsPerLock, NEW r \in Receipts,
           r \notin Recorded, job[r].key # 0, Commit(r)
    PROVE  QuotaHoldsPerLock'
  <1>. SUFFICES ASSUME NEW d \in Days, NEW l \in Days
               PROVE  (Cardinality(RecordedUnder(d, l)) + Cardinality(Counting(d, l))
                           <= DailyLimit)'
    BY DEF QuotaHoldsPerLock
  <1>1. CASE job[r].txDay = d /\ job[r].lockDay = l
    <2>1. Counting(d, l) = {r} /\ Counting(d, l)' = {}
      BY <1>1 DEF Commit, OneHolder, Counting, TypeOK, Jobs
    <2>2. RecordedUnder(d, l)' = RecordedUnder(d, l) \cup {r} /\ r \notin RecordedUnder(d, l)
      BY <1>1 DEF RecordedUnder, Recorded, TypeOK, ReceiptRows, Commit
    <2>3. Cardinality(RecordedUnder(d, l)') = Cardinality(RecordedUnder(d, l)) + 1
      BY <2>2, FiniteSets, FS_AddElement
    <2>4. /\ Cardinality({r}) = 1 /\ Cardinality({}) = 0
          /\ Cardinality(RecordedUnder(d, l)) \in Nat
      BY FS_Singleton, FS_EmptySet, FiniteSets, FS_CardinalityType
    <2>5. Cardinality(RecordedUnder(d, l)) + 1 <= DailyLimit
      BY <2>1, <2>4 DEF QuotaHoldsPerLock
    <2>. QED
      BY <2>1, <2>3, <2>4, <2>5, UploadAssumption
  <1>2. CASE ~(job[r].txDay = d /\ job[r].lockDay = l)
    <2>1. RecordedUnder(d, l)' = RecordedUnder(d, l)
      BY <1>2 DEF Commit, RecordedUnder, Recorded, TypeOK, ReceiptRows
    <2>2. Counting(d, l)' = Counting(d, l)
      BY <1>2 DEF Commit, Counting, TypeOK, Jobs
    <2>. QED
      BY <2>1, <2>2 DEF QuotaHoldsPerLock
  <1>. QED
    BY <1>1, <1>2

\* A step that records nothing and admits nobody cannot raise the count.
LEMMA OtherStepKeeps ==
    ASSUME TypeOK, Inv, QuotaHoldsPerLock, [Next]_vars, UNCHANGED receipt,
           \A q \in Receipts : ~CountQuota(q)
    PROVE  QuotaHoldsPerLock'
  <1>. SUFFICES ASSUME NEW d \in Days, NEW l \in Days
               PROVE  (Cardinality(RecordedUnder(d, l)) + Cardinality(Counting(d, l))
                           <= DailyLimit)'
    BY DEF QuotaHoldsPerLock
  <1>1. RecordedUnder(d, l)' = RecordedUnder(d, l)
    BY DEF RecordedUnder, Recorded
  <1>2. Counting(d, l)' \subseteq Counting(d, l)
    BY EffectsOfStep DEF Counting, StepEffects
  <1>3. Cardinality(Counting(d, l)') <= Cardinality(Counting(d, l))
    BY <1>2, FiniteSets, FS_Subset
  <1>. QED
    BY <1>1, <1>3, FiniteSets, FS_CardinalityType, UploadAssumption DEF QuotaHoldsPerLock

\* Every step keeps the quota of every lock.
LEMMA QuotaStep ==
    ASSUME TypeOK, Inv, OneHolder, QuotaHoldsPerLock, [Next]_vars
    PROVE  QuotaHoldsPerLock'
  <1>1. CASE \E r \in Receipts : CountQuota(r)
    BY <1>1, CountQuotaKeeps
  <1>2. CASE \E r \in Receipts : Commit(r)
    BY <1>2, CommitRecordsNew, CommitKeeps
  <1>3. CASE UNCHANGED receipt /\ \A r \in Receipts : ~CountQuota(r)
    BY <1>3, OtherStepKeeps
  <1>. QED
    BY <1>1, <1>2, <1>3, OnlyCommitRecords

\* Completions that hold one date's locks never overrun the daily limit.
THEOREM QuotaPerLock == Spec => []QuotaHoldsPerLock
  <1>1. Init => OneHolder /\ QuotaHoldsPerLock
    <2>. SUFFICES ASSUME Init PROVE OneHolder /\ QuotaHoldsPerLock
      OBVIOUS
    <2>1. \A d, l \in Days : RecordedUnder(d, l) = {} /\ Counting(d, l) = {}
      BY DEF Init, RecordedUnder, Counting, Recorded, NoReceipt, IdleJob
    <2>2. OneHolder
      BY DEF Init, OneHolder, IdleJob
    <2>. QED
      BY <2>1, <2>2, FS_EmptySet, UploadAssumption DEF QuotaHoldsPerLock
  <1>2. TypeOK /\ Inv /\ OneHolder /\ QuotaHoldsPerLock /\ [Next]_vars =>
            (OneHolder /\ QuotaHoldsPerLock)'
    BY OneHolderStep, QuotaStep
  <1>. QED
    BY <1>1, <1>2, Invariant, PTL DEF Spec

-----------------------------------------------------------------------------
(* The image of a received receipt.                                        *)

\* A completion whose session is alive has its image: the cleanup job, which
\* deletes final objects too, has no such session in its hands.
AliveHasImage(r) ==
    Alive(r) /\ job[r].pc \in {"stored", "begun", "counted"} => job[r].key \in images[r]
ImagesHeld == \A r \in Receipts : AliveHasImage(r)

\* What a step can do to the image of receipt q and to the cleanup's hold of it.
ImageEffects(q) ==
    /\ \/ images[q] \subseteq images'[q]
       \/ job[q].pc = "undo"
       \/ clean[q].pc # "idle" /\ images'[q] = images[q] \ {clean[q].key}
    /\ job'[q].pc = "stored" => job'[q] = job[q] \/ job'[q].key \in images'[q]
    /\ job'[q].pc \in {"begun", "counted"} =>
           job'[q].key = job[q].key /\ job[q].pc \in {"stored", "begun", "counted"}
    /\ \/ clean'[q].pc = "idle"
       \/ clean'[q].key = clean[q].key /\ clean[q].pc # "idle"
       \/ clean'[q].key = KeyToClean(q)
    /\ q \in expired => q \in expired'

\* Every step has these effects and no others.
LEMMA ImageEffectsOfStep ==
    ASSUME TypeOK, [Next]_vars, NEW q \in Receipts
    PROVE  ImageEffects(q)
  <1>. USE DEF TypeOK, Jobs, Cleanings, ImageEffects, uploadRows, tenantRows, objects
  <1>1. CASE UNCHANGED vars
    BY <1>1 DEF vars
  <1>2. ASSUME NEW r \in Receipts, CreateUploadSession(r) PROVE ImageEffects(q)
    BY <1>2 DEF CreateUploadSession
  <1>3. ASSUME NEW r \in Receipts, Claim(r) PROVE ImageEffects(q)
    BY <1>3 DEF Claim, IdleJob
  <1>4. ASSUME NEW r \in Receipts, Abandon(r) PROVE ImageEffects(q)
    BY <1>4 DEF Abandon, IdleJob
  <1>5. ASSUME NEW r \in Receipts, Assemble(r) PROVE ImageEffects(q)
    BY <1>5 DEF Assemble
  <1>6. ASSUME NEW r \in Receipts, AssembleInvalid(r) PROVE ImageEffects(q)
    BY <1>6 DEF AssembleInvalid, IdleJob
  <1>7. ASSUME NEW r \in Receipts, AssembleFail(r) PROVE ImageEffects(q)
    BY <1>7 DEF AssembleFail, IdleJob
  <1>8. ASSUME NEW r \in Receipts, RecordKey(r) PROVE ImageEffects(q)
    BY <1>8 DEF RecordKey
  <1>9. ASSUME NEW r \in Receipts, StoreImage(r) PROVE ImageEffects(q)
    BY <1>9 DEF StoreImage
  <1>10. ASSUME NEW r \in Receipts, Begin(r) PROVE ImageEffects(q)
    BY <1>10 DEF Begin
  <1>11. ASSUME NEW r \in Receipts, CountQuota(r) PROVE ImageEffects(q)
    BY <1>11 DEF CountQuota
  <1>12. ASSUME NEW r \in Receipts, RollBack(r) PROVE ImageEffects(q)
    BY <1>12 DEF RollBack
  <1>13. ASSUME NEW r \in Receipts, Commit(r) PROVE ImageEffects(q)
    BY <1>13 DEF Commit
  <1>14. ASSUME NEW r \in Receipts, DeleteImage(r) PROVE ImageEffects(q)
    BY <1>14 DEF DeleteImage
  <1>15. ASSUME NEW r \in Receipts, DeleteImageFail(r) PROVE ImageEffects(q)
    BY <1>15 DEF DeleteImageFail
  <1>16. ASSUME NEW r \in Receipts, Revert(r) PROVE ImageEffects(q)
    BY <1>16 DEF Revert, IdleJob
  <1>17. ASSUME NEW r \in Receipts, DeleteParts(r) PROVE ImageEffects(q)
    BY <1>17 DEF DeleteParts
  <1>18. ASSUME NEW r \in Receipts, DeletePartsFail(r) PROVE ImageEffects(q)
    BY <1>18 DEF DeletePartsFail, IdleJob
  <1>19. ASSUME NEW r \in Receipts, DeleteRows(r) PROVE ImageEffects(q)
    BY <1>19 DEF DeleteRows, IdleJob
  <1>20. ASSUME NEW r \in Receipts, CleanSelect(r) PROVE ImageEffects(q)
    BY <1>20 DEF CleanSelect, IdleClean
  <1>21. ASSUME NEW r \in Receipts, CleanList(r) PROVE ImageEffects(q)
    BY <1>21 DEF CleanList
  <1>22. ASSUME NEW r \in Receipts, CleanObjects(r) PROVE ImageEffects(q)
    BY <1>22 DEF CleanObjects
  <1>23. ASSUME NEW r \in Receipts, CleanObjectsFail(r) PROVE ImageEffects(q)
    BY <1>23 DEF CleanObjectsFail, IdleClean
  <1>24. ASSUME NEW r \in Receipts, CleanRows(r) PROVE ImageEffects(q)
    BY <1>24 DEF CleanRows, IdleClean
  <1>25. ASSUME NEW r \in Receipts, CleanAbandon(r) PROVE ImageEffects(q)
    BY <1>25 DEF CleanAbandon, IdleClean
  <1>26. ASSUME NEW r \in Receipts, PassExpiry(r) PROVE ImageEffects(q)
    BY <1>26 DEF PassExpiry
  <1>27. ASSUME NEW r \in Receipts, PassQuiet(r) PROVE ImageEffects(q)
    BY <1>27 DEF PassQuiet
  <1>28. ASSUME NEW r \in Receipts, NEW p \in Parts,
                PutBegin(r, p) \/ PutStep(r, p) \/ PutAbort(r, p) \/ SweepUntracked(r, p)
         PROVE  ImageEffects(q)
    BY <1>28 DEF PutBegin, PutStep, PutStore, PutCommit, PutAbort, SweepUntracked
  <1>29. CASE NextDay
    BY <1>29 DEF NextDay
  <1>. QED
    BY <1>1, <1>2, <1>3, <1>4, <1>5, <1>6, <1>7, <1>8, <1>9, <1>10, <1>11, <1>12,
       <1>13, <1>14, <1>15, <1>16, <1>17, <1>18, <1>19, <1>20, <1>21, <1>22, <1>23,
       <1>24, <1>25, <1>26, <1>27, <1>28, <1>29 DEF Next, JobStep, JobEnd, CleanStep

\* Every step keeps the images of the completions at work on live sessions.
LEMMA ImagesHeldStep ==
    ASSUME TypeOK, Inv, Inv', ImagesHeld, [Next]_vars
    PROVE  ImagesHeld'
  <1>. SUFFICES ASSUME NEW q \in Receipts, Alive(q)',
                       job'[q].pc \in {"stored", "begun", "counted"}
                PROVE  job'[q].key \in images'[q]
    BY DEF ImagesHeld, AliveHasImage
  <1>1. ImageEffects(q) /\ StepEffects(q)
    BY ImageEffectsOfStep, EffectsOfStep
  <1>2. CASE job[q].pc \in {"stored", "begun", "counted"} /\ job'[q].key = job[q].key
    <2>1. session'[q] = "COMPLETING" /\ q \notin expired'
      BY DEF Alive, Inv, Lifecycle, OpenHasNoJob
    <2>2. Alive(q)
      <3>1. q \notin expired
        BY <1>1, <2>1 DEF ImageEffects
      <3>2. session[q] \in {"COMPLETING", "EXPIRED", "FAILED"}
        BY <1>2 DEF TypeOK, Statuses, Inv, Lifecycle, OpenHasNoJob, UncommittedIsNotComplete,
                    FinalTransactionHoldsRow
      <3>. QED
        BY <1>1, <1>2, <2>1, <3>1, <3>2 DEF StepEffects, Alive
    <2>3. clean[q].pc = "idle" /\ job[q].key \in images[q]
      BY <1>2, <2>2 DEF Inv, KeepsAlive, CleanedIsNotAlive, ImagesHeld, AliveHasImage
    <2>. QED
      BY <1>1, <1>2, <2>3 DEF ImageEffects
  <1>3. CASE job'[q].pc = "stored" /\ job'[q].key \in images'[q]
    BY <1>3
  <1>. QED
    BY <1>1, <1>2, <1>3 DEF ImageEffects

\* A completion that commits in time has its image, and nobody is about to take it.
LEMMA TimelyCommit ==
    ASSUME TypeOK, Inv, ImagesHeld, NEW r \in Receipts, Commit(r), r \notin expired
    PROVE  receipt'[r].key \in images'[r] /\ ~TakesImage(r)'
  <1>1. Alive(r) /\ job[r].pc = "counted"
    BY DEF Commit, Alive, Inv, Lifecycle, FinalTransactionHoldsRow
  <1>2. clean[r].pc = "idle" /\ job[r].key \in images[r]
    BY <1>1 DEF Inv, KeepsAlive, CleanedIsNotAlive, ImagesHeld, AliveHasImage
  <1>3. receipt'[r].key = job[r].key /\ images' = images /\ clean' = clean
    BY DEF Commit, TypeOK, objects
  <1>. QED
    BY <1>2, <1>3 DEF TakesImage

\* No cleanup takes the image of a recorded receipt, and only its own
\* completion's error path may.
LEMMA RecordedImageStays ==
    ASSUME TypeOK, Inv, [Next]_vars, NEW r \in Recorded, ~TakesImage(r)
    PROVE  /\ ~TakesImage(r)'
           /\ receipt[r].key \in images[r] /\ job[r].pc # "undo" =>
                  receipt[r].key \in images'[r]
  <1>1. r \in Receipts /\ receipt[r].key # 0 /\ session[r] = "COMPLETE"
    BY DEF Recorded, Inv, Lifecycle, RecordedIsComplete
  <1>2. ImageEffects(r)
    BY <1>1, ImageEffectsOfStep
  <1>3. KeyToClean(r) = 0
    BY <1>1 DEF KeyToClean
  <1>. QED
    BY <1>1, <1>2, <1>3 DEF ImageEffects, TakesImage

\* The image of a receipt that was completed in time is lost only when its
\* COMMIT took effect unanswered: whatever else fails, overlaps or is retried.
THEOREM TimelyImagesKept == Spec => TimelyImageKept
  <1>1. Init => ImagesHeld
    BY DEF Init, ImagesHeld, AliveHasImage, IdleJob
  <1>2. (TypeOK /\ Inv) /\ (TypeOK /\ Inv)' /\ ImagesHeld /\ [Next]_vars => ImagesHeld'
    BY ImagesHeldStep
  <1>3. Spec => []ImagesHeld
    BY <1>1, <1>2, Invariant, PTL DEF Spec
  <1>4. TypeOK /\ Inv /\ ImagesHeld /\ [Next]_vars =>
            [\A r \in Receipts :
                /\ r \notin Recorded /\ r \in Recorded' /\ r \notin expired =>
                       receipt'[r].key \in images'[r] /\ ~TakesImage(r)'
                /\ r \in Recorded /\ ~TakesImage(r) =>
                       /\ ~TakesImage(r)'
                       /\ receipt[r].key \in images[r] /\ job[r].pc # "undo" =>
                              receipt[r].key \in images'[r]]_vars
    <2>. SUFFICES ASSUME TypeOK, Inv, ImagesHeld, [Next]_vars, NEW r \in Receipts
         PROVE  /\ r \notin Recorded /\ r \in Recorded' /\ r \notin expired =>
                       receipt'[r].key \in images'[r] /\ ~TakesImage(r)'
                /\ r \in Recorded /\ ~TakesImage(r) =>
                       /\ ~TakesImage(r)'
                       /\ receipt[r].key \in images[r] /\ job[r].pc # "undo" =>
                              receipt[r].key \in images'[r]
      OBVIOUS
    <2>1. r \notin Recorded /\ r \in Recorded' => Commit(r)
      BY OnlyCommitRecords DEF Recorded, Commit, TypeOK
    <2>. QED
      BY <2>1, TimelyCommit, RecordedImageStays
  <1>. QED
    BY <1>3, <1>4, Invariant, PTL DEF Spec, TimelyImageKept
=============================================================================
