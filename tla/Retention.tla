------------------------------ MODULE Retention ------------------------------
(***************************************************************************)
(* The retention job (apply_retention of jobs.py): images go after 90      *)
(* days, receipts with their audit events after a year.  An image takes    *)
(* two transactions with the deletion of the S3 object between them; two   *)
(* runs of the job may overlap, a deletion may fail and a run may die.     *)
(***************************************************************************)
EXTENDS ReceiptReview

CONSTANT Jobs       \* runs of the retention job in progress at a time

VARIABLES
    age,            \* of a receipt: "new", "90 days", "1 year"
    image,          \* receipts with an object under their image_key
    imageDeleted,   \* receipts with image_deleted_at set
    stored,         \* organizations.stored_image_bytes, in images
    tombstone,      \* retention_tombstones.status, "NONE" for no row
    job,            \* the runs of the job
    unswept         \* history: purged although their image was not deleted

retentionRows == <<age, image, imageDeleted, stored, tombstone, unswept>>
retentionVars == <<reviewVars, retentionRows, job>>

Resting == [step |-> "resting"]
Exists(r) == receipt[r].status # "NONE"
WithImage == {r \in Receipts : Exists(r) /\ r \notin imageDeleted}

RetentionInit ==
    /\ ReviewInit
    /\ age = [r \in Receipts |-> "new"]
    /\ image = {}
    /\ imageDeleted = {}
    /\ stored = 0
    /\ tombstone = [r \in Receipts |-> "NONE"]
    /\ job = [j \in Jobs |-> Resting]
    /\ unswept = {}

\* An upload completes once; a purged receipt does not come back.
BeginUpload(r) ==
    /\ r \notin image \cup imageDeleted \cup unswept
    /\ BeginArrival(r)
    /\ UNCHANGED <<retentionRows, job>>

ImageArrives(r) ==
    /\ ReceiptArrives(r)
    /\ image' = image \cup {r}
    /\ stored' = stored + 1
    /\ UNCHANGED <<age, imageDeleted, tombstone, unswept, job>>

Ages(r) ==
    /\ Exists(r)
    /\ \/ age[r] = "new" /\ age' = [age EXCEPT ![r] = "90 days"]
       \/ age[r] = "90 days" /\ age' = [age EXCEPT ![r] = "1 year"]
    /\ UNCHANGED <<reviewVars, image, imageDeleted, stored, tombstone, unswept, job>>

StartRetention(j) ==
    /\ job[j] = Resting
    /\ job' = [job EXCEPT ![j] = [step |-> "images", todo |-> {r \in WithImage : age[r] # "new"}]]
    /\ UNCHANGED <<reviewVars, retentionRows>>

\* The PENDING tombstone is written, or reset, before the object is touched.
MarkPending(j, r) ==
    /\ job[j].step = "images"
    /\ r \in job[j].todo
    /\ tombstone' = [tombstone EXCEPT ![r] = "PENDING"]
    /\ job' = [job EXCEPT ![j] = [step |-> "delete", todo |-> @.todo \ {r}, receipt |-> r]]
    /\ UNCHANGED <<reviewVars, age, image, imageDeleted, stored, unswept>>

DeleteObject(j) ==
    /\ job[j].step = "delete"
    /\ image' = image \ {job[j].receipt}
    /\ job' = [job EXCEPT ![j].step = "deleted"]
    /\ UNCHANGED <<reviewVars, age, imageDeleted, stored, tombstone, unswept>>

\* delete_all_object_versions raises, before or after its last deletion.
DeleteFails(j) ==
    /\ job[j].step = "delete"
    /\ image' \in {image, image \ {job[j].receipt}}
    /\ job' = [job EXCEPT ![j].step = "failed"]
    /\ UNCHANGED <<reviewVars, age, imageDeleted, stored, tombstone, unswept>>

MarkRetryable(j) ==
    /\ job[j].step = "failed"
    /\ tombstone' = [tombstone EXCEPT ![job[j].receipt] = "FAILED_RETRYABLE"]
    /\ job' = [job EXCEPT ![j] = [step |-> "images", todo |-> @.todo]]
    /\ UNCHANGED <<reviewVars, age, image, imageDeleted, stored, unswept>>

\* Wrong on purpose: without image_deleted_at IS NULL.
MarksExisting(r) == Exists(r)

\* The receipts that UPDATE ... image_deleted_at IS NULL RETURNING finds.
Marks(r) == Exists(r) /\ r \notin imageDeleted

\* One transaction: the tombstone, the receipt, and the organization's bytes
\* only if this run is the one that sets image_deleted_at.
MarkCompleted(j) ==
    /\ job[j].step = "deleted"
    /\ LET r == job[j].receipt IN
          /\ tombstone' = [tombstone EXCEPT ![r] = "COMPLETED"]
          /\ \/ /\ Marks(r)
                /\ imageDeleted' = imageDeleted \cup {r}
                /\ stored' = Max({0, stored - 1})
             \/ /\ ~Marks(r)
                /\ UNCHANGED <<imageDeleted, stored>>
    /\ job' = [job EXCEPT ![j] = [step |-> "images", todo |-> @.todo]]
    /\ UNCHANGED <<reviewVars, age, image, unswept>>

\* The yearly part: the receipts, and the snapshot of their audit events that
\* the first DELETE of the transaction takes.
StartPurge(j) ==
    /\ job[j].step = "images"
    /\ job[j].todo = {}
    /\ LET old == {r \in Receipts : Exists(r) /\ age[r] = "1 year"} IN
          job' = [job EXCEPT ![j] = [step |-> "purge", receipts |-> old,
                                     events |-> UNION {ReceiptEvents(r) : r \in old}]]
    /\ UNCHANGED <<reviewVars, retentionRows>>

\* Wrong on purpose: the reference of an event does not hold its receipt.
ReferencesAllow(gone, left) == TRUE

\* receipt_id REFERENCES receipts(id) ON DELETE RESTRICT
References(gone, left) == \A e \in left : e.receipt \notin gone

\* The receipts go only if no audit event still refers to one; the whole
\* transaction fails otherwise.
Purge(j) ==
    /\ job[j].step = "purge"
    /\ LET gone == job[j].receipts
           left == events \ job[j].events IN
          /\ References(gone, left)
          /\ events' = left
          /\ receipt' = [r \in Receipts |->
                IF r \in gone THEN [status |-> "NONE", version |-> 0] ELSE receipt[r]]
          /\ verified' = [r \in Receipts |-> IF r \in gone THEN 0 ELSE verified[r]]
          /\ told' = [r \in Receipts |-> IF r \in gone THEN {} ELSE told[r]]
          /\ unswept' = unswept \cup (gone \cap WithImage)
    /\ job' = [job EXCEPT ![j] = Resting]
    /\ UNCHANGED <<clock, arriving, copies, age, image, imageDeleted, stored, tombstone>>

\* A transaction fails, or the run dies.
RetentionDies(j) ==
    /\ job[j] # Resting
    /\ job' = [job EXCEPT ![j] = Resting]
    /\ UNCHANGED <<reviewVars, retentionRows>>

RetentionNext(jobs, receipts) ==
    \/ \E r \in receipts : BeginUpload(r) \/ ImageArrives(r) \/ Ages(r)
    \/ \E j \in jobs :
          \/ StartRetention(j)
          \/ \E r \in receipts : MarkPending(j, r)
          \/ DeleteObject(j) \/ DeleteFails(j) \/ MarkRetryable(j) \/ MarkCompleted(j)
          \/ StartPurge(j) \/ Purge(j) \/ RetentionDies(j)

RetentionTypeOK ==
    /\ ReviewTypeOK
    /\ age \in [Receipts -> {"new", "90 days", "1 year"}]
    /\ image \subseteq Receipts /\ imageDeleted \subseteq Receipts /\ unswept \subseteq Receipts
    /\ stored \in Nat
    /\ tombstone \in [Receipts -> {"NONE", "PENDING", "FAILED_RETRYABLE", "COMPLETED"}]

-----------------------------------------------------------------------------
\* Overlapping, failing and dying runs of the job neither forget the bytes of
\* an image nor take them off twice, and mark none deleted that is still there.
\* This is the ledger as the code keeps it, not as it should be: the images of
\* receipts that the yearly part removed before them (unswept) stay charged for
\* ever, whether their object is gone or not; see UndeletedImageKeepsReceipt.
ImagesChargedOnce ==
    /\ stored = Cardinality(WithImage) + Cardinality(unswept)
    /\ \A r \in Receipts : r \in imageDeleted \/ tombstone[r] = "COMPLETED" => r \notin image
    /\ \A r \in image : Exists(r) \/ r \in unswept

\* An image whose deletion failed is still that of a receipt: the job finds the
\* images to delete by their receipts, and nothing else would try again.  The
\* yearly part does not look at image_deleted_at and removes such receipts too.
UndeletedImageKeepsReceipt ==
    \A r \in image : tombstone[r] = "FAILED_RETRYABLE" => Exists(r)
=============================================================================
