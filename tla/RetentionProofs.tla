-------------------------- MODULE RetentionProofs --------------------------
(***************************************************************************)
(* ReceiptReview and Retention for any number of receipts, reviewers, runs *)
(* of the job and versions.                                                *)
(*                                                                         *)
(* RetentionInv has a part for each property: the events of a receipt are  *)
(* counted by its version, the row of verified_receipts is the newest that *)
(* was told, and the ledger of images is exact because a receipt that the  *)
(* tables have known never arrives again.                                  *)
(***************************************************************************)
EXTENDS Retention, AuditChainProofs

-----------------------------------------------------------------------------
(* The invariant.                                                          *)

\* What a reviewer has loaded.
CopyOK(q) ==
    \/ q = NoCopyLoaded
    \/ q.step \in {"loaded", "begun"} /\ q.receipt \in Receipts /\ q.version \in Nat

\* The rows of the receipts and of their verifications.
ReviewTypes ==
    /\ receipt \in [Receipts -> [status : {"NONE", "RECEIVED", "NEEDS_REVIEW", "VERIFIED", "REJECTED"},
                                 version : Nat]]
    /\ arriving \in [Receipts -> 0 .. MaxClock]
    /\ verified \in [Receipts -> Nat]
    /\ told \in [Receipts -> SUBSET Nat]
    /\ DOMAIN copies = Reviewers
    /\ \A w \in Reviewers : CopyOK(copies[w])

\* A receipt has no version before it arrives, and as many events as versions.
Audited ==
    \A r \in Receipts :
        /\ receipt[r].status = "NONE" => receipt[r].version = 0
        /\ arriving[r] # Null => receipt[r].status = "NONE"
        /\ Cardinality(ReceiptEvents(r)) = receipt[r].version

\* The row is the newest verification told, and none older than the decision.
NewestTold ==
    \A r \in Receipts :
        /\ told[r] = {} => verified[r] = 0
        /\ told[r] # {} => verified[r] \in told[r] /\ \A v \in told[r] : v <= verified[r]
        /\ receipt[r].status = "VERIFIED" => verified[r] >= receipt[r].version

\* A receipt that has been in the tables; its upload cannot complete again.
Known(r) == Exists(r) \/ r \in imageDeleted \/ r \in unswept

\* What a run of the job has in hand: receipts that have been in the tables.
JobOK(q) ==
    \/ q = Resting
    \/ q.step = "images" /\ q.todo \subseteq Receipts /\ \A r \in q.todo : Known(r)
    \/ /\ q.step \in {"delete", "deleted", "failed"}
       /\ q.todo \subseteq Receipts /\ \A r \in q.todo : Known(r)
       /\ q.receipt \in Receipts /\ Known(q.receipt)
       /\ q.step = "deleted" => q.receipt \notin image
    \/ /\ q.step = "purge" /\ q.receipts \subseteq Receipts
       /\ \A e \in q.events : e.receipt \in q.receipts

\* So it is for every run.
JobsOK == DOMAIN job = Jobs /\ \A j \in Jobs : JobOK(job[j])

\* Where a receipt's image, its row and its tombstone stand to each other.
ReceiptImagesOK(r) ==
    /\ r \in imageDeleted \/ tombstone[r] = "COMPLETED" => r \notin image
    /\ r \in image => Exists(r) \/ r \in unswept
    /\ arriving[r] # Null => ~Known(r) /\ r \notin image
    /\ tombstone[r] # "NONE" => Known(r)
    /\ r \in unswept => ~Exists(r)

\* The job's tables and the objects.
RetentionTypes ==
    /\ age \in [Receipts -> {"new", "90 days", "1 year"}]
    /\ image \subseteq Receipts /\ imageDeleted \subseteq Receipts /\ unswept \subseteq Receipts
    /\ stored \in Nat
    /\ tombstone \in [Receipts -> {"NONE", "PENDING", "FAILED_RETRYABLE", "COMPLETED"}]

\* The organization is charged for the images of its receipts, and for those of
\* receipts that were purged although their image was not deleted.
StoredCharged == stored = Cardinality(WithImage) + Cardinality(unswept)

\* The part of the invariant that the image ledger needs.
Ledger ==
    /\ RetentionTypes
    /\ \A r \in Receipts : ReceiptImagesOK(r)
    /\ StoredCharged

\* The invariant of ReceiptReview and Retention.
RetentionInv == ReviewTypes /\ Audited /\ NewestTold /\ Ledger /\ JobsOK

\* The transactions of arrivals and reviews that have begun.
Arrivals == {[of |-> "arrival", by |-> r, at |-> arriving[r]] : r \in {q \in Receipts : arriving[q] # Null}}
Reviews == {[of |-> "review", by |-> w, at |-> copies[w].at] :
                w \in {v \in Reviewers : copies[v].step = "begun"}}

\* What a step of arrivals, reviews and the job does to the audit chain.
ReviewMove ==
    ChainMove(Arrivals \cup Reviews, events, clock, Arrivals' \cup Reviews', events', clock')

\* Starts of arrivals and reviews are in the past and have no event yet.
ReviewsBegun ==
    /\ clock \in Nat /\ IsFiniteSet(events)
    /\ \A r \in Receipts : arriving[r] # Null => \A e \in events : e.at # arriving[r]
    /\ \A w \in Reviewers : copies[w].step = "begun" => \A e \in events : e.at # copies[w].at

-----------------------------------------------------------------------------
(* The parts that a step does not touch.                                   *)

\* Every set of receipts is finite.
LEMMA ReceiptSets ==
    ASSUME NEW S, S \subseteq Receipts
    PROVE  IsFiniteSet(S) /\ Cardinality(S) \in Nat
  BY ReviewAssumption, FS_Subset, FS_CardinalityType

\* An event of another receipt, or of none, leaves a receipt's events alone; a
\* new one counts.
LEMMA AppendedEvent ==
    ASSUME IsFiniteSet(events), NEW at, NEW rec, \A e \in events : e.at # at,
           events' = Append(events, at, rec), NEW r \in Receipts
    PROVE  /\ r # rec => ReceiptEvents(r)' = ReceiptEvents(r)
           /\ r = rec => Cardinality(ReceiptEvents(r)') = Cardinality(ReceiptEvents(r)) + 1
  <1>. DEFINE new == [at |-> at, previous |-> Newest(events), receipt |-> rec]
  <1>1. events' = events \cup {new} /\ new.at = at /\ new.receipt = rec
    BY DEF Append
  <1>2. new \notin events
    BY <1>1
  <1>. HIDE DEF new
  <1>3. CASE r # rec
    BY <1>1, <1>3 DEF ReceiptEvents
  <1>4. CASE r = rec
    <2>1. ReceiptEvents(r)' = ReceiptEvents(r) \cup {new} /\ new \notin ReceiptEvents(r)
      BY <1>1, <1>2, <1>4 DEF ReceiptEvents
    <2>2. IsFiniteSet(ReceiptEvents(r))
      BY FS_Subset DEF ReceiptEvents
    <2>. QED
      BY <1>4, <2>1, <2>2, FS_AddElement
  <1>. QED
    BY <1>3, <1>4

\* Whether the tables have known a receipt, and so the ledger, hangs on the
\* status of receipts only.
LEMMA LedgerKept ==
    ASSUME Ledger, JobsOK, UNCHANGED retentionRows, UNCHANGED job,
           \A r \in Receipts : (receipt'[r].status = "NONE" <=> receipt[r].status = "NONE"),
           \A r \in Receipts : arriving'[r] # Null => arriving[r] # Null
    PROVE  Ledger' /\ JobsOK'
  <1>1. UNCHANGED <<age, image, imageDeleted, stored, tombstone, unswept, job>>
    BY DEF retentionRows
  <1>2. \A r \in Receipts : (Exists(r)' <=> Exists(r)) /\ (Known(r)' <=> Known(r))
    BY <1>1 DEF Exists, Known
  <1>3. WithImage' = WithImage
    BY <1>1, <1>2 DEF WithImage
  <1>4. \A r \in Receipts : ReceiptImagesOK(r)'
    BY <1>1, <1>2 DEF Ledger, ReceiptImagesOK
  <1>5. Ledger'
    BY <1>1, <1>3, <1>4 DEF Ledger, RetentionTypes, StoredCharged
  <1>6. JobsOK'
    BY <1>1, <1>2 DEF JobsOK, JobOK
  <1>. QED
    BY <1>5, <1>6

\* Steps of the administrators append events of no receipt.
LEMMA RetentionKept ==
    ASSUME RetentionInv, IsFiniteSet(events), UNCHANGED <<reviewRows, retentionRows, job>>,
           \/ events' = events
           \/ \E at : events' = Append(events, at, NoReceipt) /\ \A e \in events : e.at # at
    PROVE  RetentionInv'
  <1>1. \A r \in Receipts : ReceiptEvents(r)' = ReceiptEvents(r)
    <2>1. CASE events' = events
      BY <2>1 DEF ReceiptEvents
    <2>2. CASE \E at : events' = Append(events, at, NoReceipt) /\ \A e \in events : e.at # at
      <3>1. PICK at : events' = Append(events, at, NoReceipt) /\ \A e \in events : e.at # at
        BY <2>2
      <3>2. \A r \in Receipts : r # NoReceipt
        BY ReviewAssumption
      <3>. QED
        BY <3>1, <3>2, AppendedEvent
    <2>. QED
      BY <2>1, <2>2
  <1>2. UNCHANGED <<receipt, arriving, verified, copies, told, age, image, imageDeleted, stored,
                    tombstone, unswept, job>>
    BY DEF reviewRows, retentionRows
  <1>3. Ledger' /\ JobsOK'
    BY <1>2, LedgerKept DEF RetentionInv
  <1>4. ReviewTypes'
    BY <1>2 DEF RetentionInv, ReviewTypes
  <1>5. Audited' /\ NewestTold'
    BY <1>1, <1>2 DEF RetentionInv, Audited, NewestTold
  <1>. QED
    BY <1>3, <1>4, <1>5 DEF RetentionInv

-----------------------------------------------------------------------------
(* ReceiptReview                                                           *)

\* The row after an upsert is the newest of the versions told.
LEMMA UpsertNewest ==
    ASSUME ReviewTypes, NewestTold, NEW r \in Receipts, NEW v \in Nat,
           verified' = [verified EXCEPT ![r] = IF verified[r] < v THEN v ELSE verified[r]],
           told' = [told EXCEPT ![r] = told[r] \cup {v}]
    PROVE  /\ verified' \in [Receipts -> Nat] /\ told' \in [Receipts -> SUBSET Nat]
           /\ \A q \in Receipts \ {r} : verified'[q] = verified[q] /\ told'[q] = told[q]
           /\ told'[r] # {} /\ verified'[r] \in told'[r] /\ \A x \in told'[r] : x <= verified'[r]
           /\ verified'[r] >= verified[r] /\ verified'[r] >= v
  <1>. DEFINE n == IF verified[r] < v THEN v ELSE verified[r]
  <1>1. /\ verified[r] \in Nat /\ told[r] \subseteq Nat
        /\ told[r] = {} => verified[r] = 0
        /\ told[r] # {} => verified[r] \in told[r] /\ \A x \in told[r] : x <= verified[r]
    BY DEF ReviewTypes, NewestTold
  <1>2. /\ n \in Nat /\ n >= verified[r] /\ n >= v
        /\ n \in told[r] \cup {v} /\ \A x \in told[r] \cup {v} : x <= n
    BY <1>1
  <1>3. verified' = [verified EXCEPT ![r] = n]
    OBVIOUS
  <1>. HIDE DEF n
  <1>4. verified' \in [Receipts -> Nat] /\ told' \in [Receipts -> SUBSET Nat]
    BY <1>1, <1>2, <1>3 DEF ReviewTypes
  <1>5. /\ \A q \in Receipts \ {r} : verified'[q] = verified[q] /\ told'[q] = told[q]
        /\ verified'[r] = n /\ told'[r] = told[r] \cup {v}
    BY <1>3 DEF ReviewTypes
  <1>. QED
    BY <1>2, <1>4, <1>5

\* An upload that has not completed is given up.
LEMMA ArrivalFailsStep ==
    ASSUME RetentionInv, NEW r \in Receipts, ArrivalFails(r), UNCHANGED <<retentionRows, job>>
    PROVE  RetentionInv' /\ ReviewMove
  <1>1. /\ UNCHANGED <<clock, events, receipt, verified, copies, told>>
        /\ arriving' = [arriving EXCEPT ![r] = Null]
    BY DEF ArrivalFails, auditVars
  <1>2. arriving' \in [Receipts -> 0 .. MaxClock] /\ \A q \in Receipts : arriving'[q] \in {Null, arriving[q]}
    BY <1>1, ClockAssumption DEF RetentionInv, ReviewTypes, Null
  <1>3. Ledger' /\ JobsOK'
    BY <1>1, <1>2, LedgerKept DEF RetentionInv
  <1>4. Audited' /\ NewestTold'
    BY <1>1, <1>2 DEF RetentionInv, Audited, NewestTold, ReceiptEvents
  <1>5. Arrivals' \subseteq Arrivals /\ Reviews' = Reviews
    BY <1>1, <1>2 DEF Arrivals, Reviews
  <1>6. ReviewMove
    BY <1>1, <1>5 DEF ReviewMove, ChainMove
  <1>7. ReviewTypes'
    BY <1>1, <1>2 DEF RetentionInv, ReviewTypes
  <1>. QED
    BY <1>3, <1>4, <1>6, <1>7 DEF RetentionInv

\* Steps that change what a reviewer has on the screen or has submitted.
LEMMA CopiesStep ==
    ASSUME RetentionInv, ReviewsBegun, NEW w \in Reviewers,
           (\E r \in Receipts : Load(w, r)) \/ BeginReview(w) \/ ReviewFails(w),
           UNCHANGED <<retentionRows, job>>
    PROVE  RetentionInv' /\ ReviewMove
  <1>1. UNCHANGED <<events, receipt, arriving, verified, told>>
    BY DEF Load, BeginReview, ReviewFails, auditVars
  <1>2. Ledger' /\ JobsOK'
    BY <1>1, LedgerKept DEF RetentionInv
  <1>3. Audited' /\ NewestTold'
    BY <1>1 DEF RetentionInv, Audited, NewestTold, ReceiptEvents
  <1>4. ASSUME NEW q, CopyOK(q), copies' = [copies EXCEPT ![w] = q]
        PROVE  /\ RetentionInv' /\ Arrivals' = Arrivals
               /\ \A v \in Reviewers \ {w} : copies'[v] = copies[v]
               /\ copies'[w] = q
    <2>1. /\ DOMAIN copies' = Reviewers /\ copies'[w] = q
          /\ \A v \in Reviewers \ {w} : copies'[v] = copies[v]
      BY <1>4 DEF RetentionInv, ReviewTypes
    <2>2. ReviewTypes'
      BY <1>1, <1>4, <2>1 DEF RetentionInv, ReviewTypes
    <2>. QED
      BY <1>1, <1>2, <1>3, <2>1, <2>2 DEF RetentionInv, Arrivals
  <1>5. ASSUME NEW r \in Receipts, Load(w, r) PROVE RetentionInv' /\ ReviewMove
    <2>. DEFINE q == [step |-> "loaded", receipt |-> r, version |-> receipt[r].version]
    <2>1. /\ copies' = [copies EXCEPT ![w] = q] /\ UNCHANGED <<clock, events, arriving>>
          /\ copies[w].step \in {"none", "loaded"}
      BY <1>5 DEF Load, auditVars
    <2>2. CopyOK(q) /\ q.step # "begun"
      BY DEF CopyOK, RetentionInv, ReviewTypes
    <2>. HIDE DEF q
    <2>3. /\ RetentionInv' /\ Arrivals' = Arrivals
          /\ \A v \in Reviewers \ {w} : copies'[v] = copies[v]
          /\ copies'[w] = q
      BY <1>4, <2>1, <2>2
    <2>4. Reviews' \subseteq Reviews
      BY <2>2, <2>3 DEF Reviews
    <2>. QED
      BY <2>1, <2>3, <2>4 DEF ReviewMove, ChainMove
  <1>6. CASE BeginReview(w)
    <2>. DEFINE q == [step |-> "begun", receipt |-> copies[w].receipt, version |-> copies[w].version,
                      at |-> clock']
                p == [of |-> "review", by |-> w, at |-> clock']
    <2>1. /\ copies' = [copies EXCEPT ![w] = q] /\ UNCHANGED <<events, arriving>>
          /\ clock' = clock + 1 /\ copies[w].step = "loaded"
      BY <1>6 DEF BeginReview, Starts
    <2>2. CopyOK(q) /\ q.at = clock'
      BY <2>1 DEF CopyOK, RetentionInv, ReviewTypes, NoCopyLoaded
    <2>. HIDE DEF q
    <2>3. /\ RetentionInv' /\ Arrivals' = Arrivals
          /\ \A v \in Reviewers \ {w} : copies'[v] = copies[v]
          /\ copies'[w] = q
      BY <1>4, <2>1, <2>2
    <2>4. p.at = clock' /\ Reviews' \subseteq Reviews \cup {p}
      BY <2>2, <2>3 DEF Reviews
    <2>. HIDE DEF p
    <2>5. Arrivals' \cup Reviews' \subseteq (Arrivals \cup Reviews) \cup {p}
      BY <2>3, <2>4
    <2>. QED
      BY <2>1, <2>3, <2>4, <2>5 DEF ReviewMove, ChainMove
  <1>7. CASE ReviewFails(w)
    <2>1. /\ copies' = [copies EXCEPT ![w] = NoCopyLoaded] /\ UNCHANGED <<clock, events, arriving>>
      BY <1>7 DEF ReviewFails, auditVars
    <2>2. /\ RetentionInv' /\ Arrivals' = Arrivals
          /\ \A v \in Reviewers \ {w} : copies'[v] = copies[v]
          /\ copies'[w] = NoCopyLoaded
      BY <1>4, <2>1 DEF CopyOK
    <2>3. Reviews' \subseteq Reviews
      BY <2>2 DEF Reviews, NoCopyLoaded
    <2>. QED
      BY <2>1, <2>2, <2>3 DEF ReviewMove, ChainMove
  <1>. QED
    BY <1>5, <1>6, <1>7

\* A result is shown, or the edge tells a verification.
LEMMA ShowOrTellStep ==
    ASSUME RetentionInv, NEW r \in Receipts,
           ShowResult(r) \/ (\E v \in 1 .. MaxVersion : EdgeReview(r, v)),
           UNCHANGED <<retentionRows, job>>
    PROVE  RetentionInv' /\ ReviewMove
  <1>1. UNCHANGED <<clock, events, arriving, copies>>
    BY DEF ShowResult, EdgeReview, auditVars
  <1>2. ReviewMove
    BY <1>1 DEF ReviewMove, ChainMove, Arrivals, Reviews
  <1>3. CASE ShowResult(r)
    <2>1. /\ receipt[r].status = "RECEIVED"
          /\ receipt' = [receipt EXCEPT ![r].status = "NEEDS_REVIEW"] /\ UNCHANGED <<verified, told>>
      BY <1>3 DEF ShowResult
    <2>2. \A q \in Receipts : /\ receipt'[q].version = receipt[q].version
                              /\ receipt'[q].status = "NONE" <=> receipt[q].status = "NONE"
                              /\ receipt'[q].status = "VERIFIED" => receipt[q].status = "VERIFIED"
      BY <2>1 DEF RetentionInv, ReviewTypes
    <2>3. ReviewTypes'
      BY <1>1, <2>1 DEF RetentionInv, ReviewTypes
    <2>4. Audited' /\ NewestTold'
      BY <1>1, <2>1, <2>2 DEF RetentionInv, Audited, NewestTold, ReceiptEvents
    <2>5. Ledger' /\ JobsOK'
      BY <1>1, <2>2, LedgerKept DEF RetentionInv
    <2>. QED
      BY <1>2, <2>3, <2>4, <2>5 DEF RetentionInv
  <1>4. CASE \E v \in 1 .. MaxVersion : EdgeReview(r, v)
    <2>1. PICK v \in 1 .. MaxVersion : EdgeReview(r, v)
      BY <1>4
    <2>2. /\ verified' = [verified EXCEPT ![r] = IF verified[r] < v THEN v ELSE verified[r]]
          /\ told' = [told EXCEPT ![r] = told[r] \cup {v}] /\ UNCHANGED receipt
      BY <2>1 DEF EdgeReview, Upsert
    <2>7. /\ verified' \in [Receipts -> Nat] /\ told' \in [Receipts -> SUBSET Nat]
          /\ \A q \in Receipts \ {r} : verified'[q] = verified[q] /\ told'[q] = told[q]
          /\ told'[r] # {} /\ verified'[r] \in told'[r] /\ \A x \in told'[r] : x <= verified'[r]
          /\ verified'[r] >= verified[r]
      <3>1. v \in Nat
        BY ReviewAssumption
      <3>. QED
        BY <2>2, <3>1, UpsertNewest DEF RetentionInv
    <2>3. ReviewTypes'
      BY <1>1, <2>2, <2>7 DEF RetentionInv, ReviewTypes
    <2>4. Audited'
      BY <1>1, <2>2 DEF RetentionInv, Audited, ReceiptEvents
    <2>5. NewestTold'
      <3>1. receipt[r].status = "VERIFIED" => verified'[r] >= receipt[r].version
        BY <2>7 DEF RetentionInv, ReviewTypes, NewestTold
      <3>. QED
        BY <2>2, <2>7, <3>1 DEF RetentionInv, NewestTold
    <2>6. Ledger' /\ JobsOK'
      BY <1>1, <2>2, LedgerKept DEF RetentionInv
    <2>. QED
      BY <1>2, <2>3, <2>4, <2>5, <2>6 DEF RetentionInv
  <1>. QED
    BY <1>3, <1>4

\* A decision raises the version and appends one event of its receipt.
LEMMA DecideStep ==
    ASSUME RetentionInv, ReviewsBegun, NEW w \in Reviewers, NEW status \in {"VERIFIED", "REJECTED"},
           Decide(w, status), UNCHANGED <<retentionRows, job>>
    PROVE  RetentionInv' /\ ReviewMove
  <1>0. copies[w].receipt \in Receipts
    BY DEF Decide, RetentionInv, ReviewTypes, CopyOK, NoCopyLoaded
  <1>. PICK r \in Receipts : r = copies[w].receipt
    BY <1>0
  <1>. PICK v : v = receipt[r].version + 1
    OBVIOUS
  <1>1. /\ copies[w].step = "begun" /\ receipt[r].status # "NONE"
        /\ receipt' = [receipt EXCEPT ![r] = [status |-> status, version |-> v]]
        /\ events' = Append(events, copies[w].at, r)
        /\ copies' = [copies EXCEPT ![w] = NoCopyLoaded]
        /\ UNCHANGED <<clock, arriving>>
        /\ \/ /\ status = "VERIFIED"
              /\ verified' = [verified EXCEPT ![r] = IF verified[r] < v THEN v ELSE verified[r]]
              /\ told' = [told EXCEPT ![r] = told[r] \cup {v}]
           \/ status = "REJECTED" /\ UNCHANGED <<verified, told>>
    BY DEF Decide, Upsert
  <1>2. r \in Receipts /\ v \in Nat \ {0}
    BY DEF RetentionInv, ReviewTypes
  <1>3. /\ DOMAIN copies' = Reviewers /\ copies'[w] = NoCopyLoaded
        /\ \A x \in Reviewers \ {w} : copies'[x] = copies[x]
    BY <1>1 DEF RetentionInv, ReviewTypes
  <1>4. ReviewTypes'
    <2>1. \A x \in Reviewers : CopyOK(copies'[x])
      BY <1>3 DEF CopyOK, RetentionInv, ReviewTypes
    <2>2. receipt' \in [Receipts -> [status : {"NONE", "RECEIVED", "NEEDS_REVIEW", "VERIFIED", "REJECTED"},
                                     version : Nat]]
      BY <1>1, <1>2 DEF RetentionInv, ReviewTypes
    <2>3. verified' \in [Receipts -> Nat] /\ told' \in [Receipts -> SUBSET Nat]
      BY <1>1, <1>2, UpsertNewest DEF RetentionInv, ReviewTypes
    <2>. QED
      BY <1>1, <1>3, <2>1, <2>2, <2>3 DEF RetentionInv, ReviewTypes
  <1>5. /\ receipt'[r].status = status /\ receipt'[r].version = receipt[r].version + 1
        /\ \A q \in Receipts \ {r} : receipt'[q] = receipt[q]
    BY <1>1, <1>2 DEF RetentionInv, ReviewTypes
  <1>6. Audited'
    <2>1. \A e \in events : e.at # copies[w].at
      BY <1>1 DEF ReviewsBegun
    <2>2. /\ \A q \in Receipts \ {r} : ReceiptEvents(q)' = ReceiptEvents(q)
          /\ Cardinality(ReceiptEvents(r)') = Cardinality(ReceiptEvents(r)) + 1
      <3>1. IsFiniteSet(events)
        BY DEF ReviewsBegun
      <3>2. \A q \in Receipts : /\ q # r => ReceiptEvents(q)' = ReceiptEvents(q)
                                /\ q = r => Cardinality(ReceiptEvents(q)') = Cardinality(ReceiptEvents(q)) + 1
        BY <1>1, <2>1, <3>1, AppendedEvent
      <3>. QED
        BY <1>2, <3>2 DEF ReceiptEvents
    <2>3. \A q \in Receipts \ {r} :
             /\ receipt'[q].status = "NONE" => receipt'[q].version = 0
             /\ arriving'[q] # Null => receipt'[q].status = "NONE"
             /\ Cardinality(ReceiptEvents(q)') = receipt'[q].version
      BY <1>1, <1>5, <2>2 DEF RetentionInv, Audited
    <2>4. /\ receipt'[r].status # "NONE" /\ arriving'[r] = Null
          /\ Cardinality(ReceiptEvents(r)') = receipt'[r].version
      BY <1>1, <1>2, <1>5, <2>2 DEF RetentionInv, Audited
    <2>. QED
      <3>. SUFFICES ASSUME NEW q \in Receipts
                    PROVE  /\ receipt'[q].status = "NONE" => receipt'[q].version = 0
                           /\ arriving'[q] # Null => receipt'[q].status = "NONE"
                           /\ Cardinality(ReceiptEvents(q)') = receipt'[q].version
        BY DEF Audited
      <3>1. CASE q = r
        BY <2>4, <3>1 DEF ReceiptEvents
      <3>2. CASE q # r
        BY <2>3, <3>2
      <3>. QED
        BY <3>1, <3>2
  <1>7. NewestTold'
    <2>1. CASE status = "VERIFIED"
      <3>1. /\ \A q \in Receipts \ {r} : verified'[q] = verified[q] /\ told'[q] = told[q]
            /\ told'[r] # {} /\ verified'[r] \in told'[r] /\ \A x \in told'[r] : x <= verified'[r]
            /\ verified'[r] >= v
        BY <1>1, <1>2, <2>1, UpsertNewest DEF RetentionInv
      <3>2. receipt'[r].version = v
        BY <1>5
      <3>4. \A q \in Receipts \ {r} :
               /\ told'[q] = {} => verified'[q] = 0
               /\ told'[q] # {} => verified'[q] \in told'[q] /\ \A x \in told'[q] : x <= verified'[q]
               /\ receipt'[q].status = "VERIFIED" => verified'[q] >= receipt'[q].version
        BY <1>5, <3>1 DEF RetentionInv, NewestTold
      <3>. QED
        BY <3>1, <3>2, <3>4 DEF NewestTold
    <2>2. CASE status = "REJECTED"
      BY <1>1, <1>5, <2>2 DEF RetentionInv, NewestTold
    <2>. QED
      BY <2>1, <2>2
  <1>8. Ledger' /\ JobsOK'
    <2>1. \A q \in Receipts : (receipt'[q].status = "NONE" <=> receipt[q].status = "NONE")
      BY <1>1, <1>2, <1>5
    <2>. QED
      BY <1>1, <2>1, LedgerKept DEF RetentionInv
  <1>9. ReviewMove
    <2>. DEFINE p == [of |-> "review", by |-> w, at |-> copies[w].at]
    <2>1. p \in Reviews /\ p.at = copies[w].at
      BY <1>1 DEF Reviews
    <2>2. Arrivals' = Arrivals /\ p \notin Arrivals
      BY <1>1 DEF Arrivals
    <2>3. Reviews' \subseteq Reviews \ {p}
      BY <1>3 DEF Reviews, NoCopyLoaded
    <2>. HIDE DEF p
    <2>. QED
      BY <1>1, <2>1, <2>2, <2>3 DEF ReviewMove, ChainMove
  <1>. QED
    BY <1>4, <1>6, <1>7, <1>8, <1>9 DEF RetentionInv

\* Every step of the reviewers.
LEMMA ReviewStep ==
    ASSUME RetentionInv, ReviewsBegun, NEW reviewers \in SUBSET Reviewers,
           NEW receipts \in SUBSET Receipts,
           \/ ReviewNext(reviewers, receipts)
           \/ \E r \in receipts, v \in 1 .. MaxVersion : EdgeReview(r, v),
           UNCHANGED <<retentionRows, job>>
    PROVE  RetentionInv' /\ ReviewMove
  <1>1. ASSUME NEW w \in reviewers, (\E r \in receipts : Load(w, r)) \/ BeginReview(w) \/ ReviewFails(w)
        PROVE  RetentionInv' /\ ReviewMove
    BY <1>1, CopiesStep
  <1>2. ASSUME NEW r \in receipts, ShowResult(r) \/ (\E v \in 1 .. MaxVersion : EdgeReview(r, v))
        PROVE  RetentionInv' /\ ReviewMove
    BY <1>2, ShowOrTellStep
  <1>3. ASSUME NEW w \in reviewers, NEW status \in {"VERIFIED", "REJECTED"}, Decide(w, status)
        PROVE  RetentionInv' /\ ReviewMove
    BY <1>3, DecideStep
  <1>4. ASSUME NEW r \in receipts, ArrivalFails(r) PROVE RetentionInv' /\ ReviewMove
    BY <1>4, ArrivalFailsStep
  <1>. QED
    BY <1>1, <1>2, <1>3, <1>4 DEF ReviewNext

-----------------------------------------------------------------------------
(* Retention                                                               *)

\* Steps that leave the tables of the reviews alone.
LEMMA ReviewsRest ==
    ASSUME RetentionInv, UNCHANGED reviewVars
    PROVE  /\ ReviewTypes' /\ Audited' /\ NewestTold' /\ ReviewMove
           /\ UNCHANGED <<clock, events, receipt, arriving, verified, copies, told>>
  <1>1. UNCHANGED <<clock, events, receipt, arriving, verified, copies, told>>
    BY DEF reviewVars, reviewRows, auditVars
  <1>2. ReviewTypes'
    BY <1>1 DEF RetentionInv, ReviewTypes
  <1>3. Audited' /\ NewestTold'
    BY <1>1 DEF RetentionInv, Audited, NewestTold, ReceiptEvents
  <1>4. ReviewMove
    BY <1>1 DEF ReviewMove, ChainMove, Arrivals, Reviews
  <1>. QED
    BY <1>1, <1>2, <1>3, <1>4

\* One run of the job moves on; what the tables have known they keep knowing,
\* and no object of a known receipt comes back.
LEMMA JobUpdate ==
    ASSUME JobsOK, NEW j \in Jobs, NEW q, job' = [job EXCEPT ![j] = q], JobOK(q)',
           \A r \in Receipts : Known(r) => Known(r)' /\ (r \notin image => r \notin image')
    PROVE  JobsOK'
  <1>1. DOMAIN job' = Jobs /\ job'[j] = q /\ \A i \in Jobs \ {j} : job'[i] = job[i]
    BY DEF JobsOK
  <1>2. \A i \in Jobs \ {j} : JobOK(job[i])'
    <2>. SUFFICES ASSUME NEW i \in Jobs \ {j} PROVE JobOK(job[i])'
      OBVIOUS
    <2>. PICK p : p = job[i]
      OBVIOUS
    <2>1. job'[i] = p /\ JobOK(p)
      BY <1>1 DEF JobsOK
    <2>2. JobOK(p)'
      BY <2>1 DEF JobOK
    <2>. QED
      BY <2>1, <2>2
  <1>3. JobOK(job[j])'
    BY <1>1
  <1>. QED
    BY <1>1, <1>2, <1>3 DEF JobsOK

\* The steps that change only which receipts are old, and what a run of the job
\* has read.
LEMMA JobOnlyStep ==
    ASSUME RetentionInv, NEW j \in Jobs,
           StartRetention(j) \/ StartPurge(j) \/ RetentionDies(j)
    PROVE  RetentionInv' /\ ReviewMove
  <1>1. UNCHANGED reviewVars /\ UNCHANGED retentionRows
    BY DEF StartRetention, StartPurge, RetentionDies
  <1>2. /\ ReviewTypes' /\ Audited' /\ NewestTold' /\ ReviewMove
        /\ UNCHANGED <<clock, events, receipt, arriving, verified, copies, told>>
    BY <1>1, ReviewsRest
  <1>3. UNCHANGED <<age, image, imageDeleted, stored, tombstone, unswept>>
    BY <1>1 DEF retentionRows
  <1>4. \A r \in Receipts : (Exists(r)' <=> Exists(r)) /\ (Known(r)' <=> Known(r))
    BY <1>2, <1>3 DEF Exists, Known
  <1>5. Ledger'
    <2>1. WithImage' = WithImage
      BY <1>3, <1>4 DEF WithImage
    <2>2. \A r \in Receipts : ReceiptImagesOK(r)'
      BY <1>2, <1>3, <1>4 DEF RetentionInv, Ledger, ReceiptImagesOK
    <2>. QED
      BY <1>3, <2>1, <2>2 DEF RetentionInv, Ledger, RetentionTypes, StoredCharged
  <1>6. \E q : job' = [job EXCEPT ![j] = q] /\ JobOK(q)'
    <2>1. CASE StartRetention(j)
      <3>. PICK q : q = [step |-> "images", todo |-> {r \in WithImage : age[r] # "new"}]
        OBVIOUS
      <3>1. job' = [job EXCEPT ![j] = q]
        BY <2>1 DEF StartRetention
      <3>2. q.todo \subseteq Receipts /\ \A r \in q.todo : Known(r)
        BY DEF WithImage, Known
      <3>3. JobOK(q)'
        BY <1>4, <3>2 DEF JobOK
      <3>. QED
        BY <3>1, <3>3
    <2>2. CASE StartPurge(j)
      <3>. PICK old : old = {r \in Receipts : Exists(r) /\ age[r] = "1 year"}
        OBVIOUS
      <3>. PICK q : q = [step |-> "purge", receipts |-> old, events |-> UNION {ReceiptEvents(r) : r \in old}]
        OBVIOUS
      <3>1. job' = [job EXCEPT ![j] = q]
        BY <2>2 DEF StartPurge
      <3>2. q.step = "purge" /\ q.receipts = old /\ old \subseteq Receipts
        OBVIOUS
      <3>3. \A e \in q.events : e.receipt \in q.receipts
        BY DEF ReceiptEvents
      <3>4. JobOK(q)'
        BY <3>2, <3>3 DEF JobOK
      <3>. QED
        BY <3>1, <3>4
    <2>3. CASE RetentionDies(j)
      BY <2>3 DEF RetentionDies, JobOK
    <2>. QED
      BY <2>1, <2>2, <2>3
  <1>7. JobsOK'
    BY <1>3, <1>4, <1>6, JobUpdate DEF RetentionInv
  <1>. QED
    BY <1>2, <1>5, <1>7 DEF RetentionInv

\* A receipt grows older.
LEMMA AgesStep ==
    ASSUME RetentionInv, NEW r \in Receipts, Ages(r)
    PROVE  RetentionInv' /\ ReviewMove
  <1>1. UNCHANGED reviewVars /\ UNCHANGED <<image, imageDeleted, stored, tombstone, unswept, job>>
    BY DEF Ages
  <1>2. /\ ReviewTypes' /\ Audited' /\ NewestTold' /\ ReviewMove
        /\ UNCHANGED <<clock, events, receipt, arriving, verified, copies, told>>
    BY <1>1, ReviewsRest
  <1>3. \A q \in Receipts : (Exists(q)' <=> Exists(q)) /\ (Known(q)' <=> Known(q))
    BY <1>1, <1>2 DEF Exists, Known
  <1>4. age' \in [Receipts -> {"new", "90 days", "1 year"}]
    BY DEF Ages, RetentionInv, Ledger, RetentionTypes
  <1>5. Ledger'
    <2>1. WithImage' = WithImage
      BY <1>1, <1>3 DEF WithImage
    <2>2. \A q \in Receipts : ReceiptImagesOK(q)'
      BY <1>1, <1>2, <1>3 DEF RetentionInv, Ledger, ReceiptImagesOK
    <2>. QED
      BY <1>1, <1>4, <2>1, <2>2 DEF RetentionInv, Ledger, RetentionTypes, StoredCharged
  <1>6. JobsOK'
    BY <1>1, <1>3 DEF RetentionInv, JobsOK, JobOK
  <1>. QED
    BY <1>2, <1>5, <1>6 DEF RetentionInv

\* An image on its way out: its tombstone and its object change, and whether
\* its receipt is charged does not.
LEMMA DeletionStep ==
    ASSUME RetentionInv, NEW j \in Jobs,
           \/ \E r \in Receipts : MarkPending(j, r)
           \/ DeleteObject(j) \/ DeleteFails(j) \/ MarkRetryable(j)
    PROVE  RetentionInv' /\ ReviewMove
  <1>1. UNCHANGED reviewVars /\ UNCHANGED <<age, imageDeleted, stored, unswept>>
    BY DEF MarkPending, DeleteObject, DeleteFails, MarkRetryable
  <1>2. /\ ReviewTypes' /\ Audited' /\ NewestTold' /\ ReviewMove
        /\ UNCHANGED <<clock, events, receipt, arriving, verified, copies, told>>
    BY <1>1, ReviewsRest
  <1>3. \A q \in Receipts : (Exists(q)' <=> Exists(q)) /\ (Known(q)' <=> Known(q))
    BY <1>1, <1>2 DEF Exists, Known
  <1>. PICK p : p = job[j]
    OBVIOUS
  <1>4. JobOK(p)
    BY DEF RetentionInv, JobsOK
  <1>5. \E q : /\ job' = [job EXCEPT ![j] = q] /\ JobOK(q)'
               /\ image' \subseteq image
               /\ tombstone' \in [Receipts -> {"NONE", "PENDING", "FAILED_RETRYABLE", "COMPLETED"}]
               /\ \A r \in Receipts : /\ tombstone'[r] = "COMPLETED" => tombstone[r] = "COMPLETED"
                                      /\ tombstone'[r] # "NONE" => Known(r)
    <2>0. /\ tombstone \in [Receipts -> {"NONE", "PENDING", "FAILED_RETRYABLE", "COMPLETED"}]
          /\ \A r \in Receipts : tombstone[r] # "NONE" => Known(r)
      BY DEF RetentionInv, Ledger, RetentionTypes, ReceiptImagesOK
    <2>1. ASSUME NEW r \in Receipts, MarkPending(j, r)
          PROVE  \E q : /\ job' = [job EXCEPT ![j] = q] /\ JobOK(q)'
                        /\ image' \subseteq image
                        /\ tombstone' \in [Receipts -> {"NONE", "PENDING", "FAILED_RETRYABLE", "COMPLETED"}]
                        /\ \A x \in Receipts : /\ tombstone'[x] = "COMPLETED" => tombstone[x] = "COMPLETED"
                                               /\ tombstone'[x] # "NONE" => Known(x)
      <3>. PICK q : q = [step |-> "delete", todo |-> p.todo \ {r}, receipt |-> r]
        OBVIOUS
      <3>1. /\ p.step = "images" /\ r \in p.todo
            /\ job' = [job EXCEPT ![j] = q] /\ tombstone' = [tombstone EXCEPT ![r] = "PENDING"]
            /\ image' = image
        BY <2>1 DEF MarkPending
      <3>2. p.todo \subseteq Receipts /\ \A x \in p.todo : Known(x)
        BY <1>4, <3>1 DEF JobOK, Resting
      <3>3. q.step = "delete" /\ q.todo = p.todo \ {r} /\ q.receipt = r
        OBVIOUS
      <3>4. JobOK(q)'
        BY <1>3, <3>1, <3>2, <3>3 DEF JobOK
      <3>. QED
        BY <2>0, <3>1, <3>2, <3>4
    <2>2. CASE DeleteObject(j) \/ DeleteFails(j)
      <3>1. /\ p.step = "delete" /\ image' \in {image, image \ {p.receipt}}
            /\ UNCHANGED tombstone
            /\ \/ job' = [job EXCEPT ![j].step = "deleted"] /\ image' = image \ {p.receipt}
               \/ job' = [job EXCEPT ![j].step = "failed"]
        BY <2>2 DEF DeleteObject, DeleteFails
      <3>2. PICK s \in {"deleted", "failed"} : /\ job' = [job EXCEPT ![j].step = s]
                                               /\ s = "deleted" => image' = image \ {p.receipt}
        BY <3>1
      <3>. PICK q : q = [p EXCEPT !.step = s]
        OBVIOUS
      <3>3. job' = [job EXCEPT ![j] = q]
        BY <3>2
      <3>4. JobOK(q)'
        <4>1. /\ p.todo \subseteq Receipts /\ \A x \in p.todo : Known(x)
              /\ p.receipt \in Receipts /\ Known(p.receipt)
          BY <1>4, <3>1 DEF JobOK, Resting
        <4>. QED
          BY <1>3, <3>2, <4>1 DEF JobOK
      <3>. QED
        BY <2>0, <3>1, <3>3, <3>4
    <2>3. CASE MarkRetryable(j)
      <3>. PICK q : q = [step |-> "images", todo |-> p.todo]
        OBVIOUS
      <3>1. /\ p.step = "failed" /\ tombstone' = [tombstone EXCEPT ![p.receipt] = "FAILED_RETRYABLE"]
            /\ job' = [job EXCEPT ![j] = q] /\ image' = image
        BY <2>3 DEF MarkRetryable
      <3>2. /\ p.todo \subseteq Receipts /\ \A x \in p.todo : Known(x)
            /\ p.receipt \in Receipts /\ Known(p.receipt)
        BY <1>4, <3>1 DEF JobOK, Resting
      <3>3. JobOK(q)'
        BY <1>3, <3>2 DEF JobOK
      <3>. QED
        BY <2>0, <3>1, <3>2, <3>3
    <2>. QED
      BY <2>1, <2>2, <2>3
  <1>6. PICK q : /\ job' = [job EXCEPT ![j] = q] /\ JobOK(q)'
                 /\ image' \subseteq image
                 /\ tombstone' \in [Receipts -> {"NONE", "PENDING", "FAILED_RETRYABLE", "COMPLETED"}]
                 /\ \A r \in Receipts : /\ tombstone'[r] = "COMPLETED" => tombstone[r] = "COMPLETED"
                                        /\ tombstone'[r] # "NONE" => Known(r)
    BY <1>5
  <1>7. Ledger'
    <2>1. WithImage' = WithImage
      BY <1>1, <1>3 DEF WithImage
    <2>2. \A r \in Receipts : ReceiptImagesOK(r)'
      BY <1>1, <1>2, <1>3, <1>6 DEF RetentionInv, Ledger, ReceiptImagesOK
    <2>. QED
      BY <1>1, <1>6, <2>1, <2>2 DEF RetentionInv, Ledger, RetentionTypes, StoredCharged
  <1>8. JobsOK'
    BY <1>3, <1>6, JobUpdate DEF RetentionInv
  <1>. QED
    BY <1>2, <1>7, <1>8 DEF RetentionInv

\* An upload of a receipt the tables have not known begins to complete.
LEMMA BeginUploadStep ==
    ASSUME RetentionInv, clock \in Nat, NEW r \in Receipts, BeginUpload(r)
    PROVE  RetentionInv' /\ ReviewMove
  <1>1. /\ r \notin image \cup imageDeleted \cup unswept
        /\ receipt[r].status = "NONE" /\ clock' = clock + 1 /\ clock' \in 0 .. MaxClock
        /\ arriving' = [arriving EXCEPT ![r] = clock']
        /\ UNCHANGED <<events, receipt, verified, copies, told>>
        /\ UNCHANGED <<age, image, imageDeleted, stored, tombstone, unswept, job>>
    BY ClockAssumption DEF BeginUpload, BeginArrival, Starts, retentionRows
  <1>2. /\ arriving' \in [Receipts -> 0 .. MaxClock] /\ arriving'[r] = clock'
        /\ \A q \in Receipts \ {r} : arriving'[q] = arriving[q]
    <2>. PICK c : c = clock'
      OBVIOUS
    <2>1. c \in 0 .. MaxClock /\ arriving' = [arriving EXCEPT ![r] = c]
      BY <1>1
    <2>. QED
      BY <2>1 DEF RetentionInv, ReviewTypes
  <1>3. \A q \in Receipts : (Exists(q)' <=> Exists(q)) /\ (Known(q)' <=> Known(q))
    BY <1>1 DEF Exists, Known
  <1>4. Ledger'
    <2>1. WithImage' = WithImage
      BY <1>1, <1>3 DEF WithImage
    <2>2. \A q \in Receipts : ReceiptImagesOK(q)'
      <3>1. ~Known(r) /\ r \notin image
        BY <1>1 DEF Known, Exists
      <3>2. \A q \in Receipts : arriving'[q] # Null => ~Known(q) /\ q \notin image
        BY <1>2, <3>1 DEF RetentionInv, Ledger, ReceiptImagesOK
      <3>. QED
        BY <1>1, <1>3, <3>2 DEF RetentionInv, Ledger, ReceiptImagesOK
    <2>. QED
      BY <1>1, <2>1, <2>2 DEF RetentionInv, Ledger, RetentionTypes, StoredCharged
  <1>5. JobsOK'
    BY <1>1, <1>3 DEF RetentionInv, JobsOK, JobOK
  <1>6. Audited' /\ NewestTold'
    BY <1>1, <1>2 DEF RetentionInv, Audited, NewestTold, ReceiptEvents
  <1>7. ReviewTypes'
    BY <1>1, <1>2 DEF RetentionInv, ReviewTypes
  <1>8. ReviewMove
    <2>. PICK c : c = clock'
      OBVIOUS
    <2>. DEFINE p == [of |-> "arrival", by |-> r, at |-> c]
    <2>1. p.at = clock' /\ Arrivals' \subseteq Arrivals \cup {p}
      BY <1>2 DEF Arrivals
    <2>2. Reviews' = Reviews
      BY <1>1 DEF Reviews
    <2>. HIDE DEF p
    <2>. QED
      BY <1>1, <2>1, <2>2 DEF ReviewMove, ChainMove
  <1>. QED
    BY <1>4, <1>5, <1>6, <1>7, <1>8 DEF RetentionInv

\* An upload completes: the receipt, its event and its image come together.
LEMMA ImageArrivesStep ==
    ASSUME RetentionInv, ReviewsBegun, NEW r \in Receipts, ImageArrives(r)
    PROVE  RetentionInv' /\ ReviewMove
  <1>1. /\ arriving[r] # Null
        /\ receipt' = [receipt EXCEPT ![r] = [status |-> "RECEIVED", version |-> 1]]
        /\ events' = Append(events, arriving[r], r)
        /\ arriving' = [arriving EXCEPT ![r] = Null]
        /\ image' = image \cup {r} /\ stored' = stored + 1
        /\ UNCHANGED <<clock, verified, copies, told, age, imageDeleted, tombstone, unswept, job>>
    BY DEF ImageArrives, ReceiptArrives
  <1>2. /\ receipt[r].status = "NONE" /\ receipt[r].version = 0
        /\ ~Known(r) /\ r \notin image /\ tombstone[r] # "COMPLETED"
        /\ Cardinality(ReceiptEvents(r)) = 0
    BY <1>1 DEF RetentionInv, Audited, Ledger, ReceiptImagesOK
  <1>3. /\ receipt' \in [Receipts -> [status : {"NONE", "RECEIVED", "NEEDS_REVIEW", "VERIFIED", "REJECTED"},
                                      version : Nat]]
        /\ receipt'[r].status = "RECEIVED" /\ receipt'[r].version = 1
        /\ \A q \in Receipts \ {r} : receipt'[q] = receipt[q]
        /\ arriving' \in [Receipts -> 0 .. MaxClock] /\ arriving'[r] = Null
        /\ \A q \in Receipts \ {r} : arriving'[q] = arriving[q]
    BY <1>1, ClockAssumption DEF RetentionInv, ReviewTypes, Null
  <1>4. \A q \in Receipts \ {r} : (Exists(q)' <=> Exists(q)) /\ (Known(q)' <=> Known(q))
    BY <1>1, <1>3 DEF Exists, Known
  <1>5. Exists(r)' /\ Known(r)'
    BY <1>3 DEF Exists, Known
  <1>6. Ledger'
    <2>1. WithImage' = WithImage \cup {r} /\ r \notin WithImage
      BY <1>1, <1>2, <1>4, <1>5 DEF WithImage, Known
    <2>2. Cardinality(WithImage') = Cardinality(WithImage) + 1
      <3>1. WithImage \subseteq Receipts
        BY DEF WithImage
      <3>2. IsFiniteSet(WithImage)
        BY <3>1, ReceiptSets
      <3>. QED
        BY <2>1, <3>2, FS_AddElement
    <2>3. Cardinality(WithImage) \in Nat /\ Cardinality(unswept) \in Nat
      BY ReceiptSets DEF WithImage, RetentionInv, Ledger, RetentionTypes
    <2>4. StoredCharged'
      BY <1>1, <2>2, <2>3 DEF RetentionInv, Ledger, StoredCharged
    <2>5. \A q \in Receipts : ReceiptImagesOK(q)'
      <3>1. ReceiptImagesOK(r)'
        BY <1>1, <1>2, <1>3, <1>5 DEF ReceiptImagesOK, Known, RetentionInv, Ledger
      <3>2. \A q \in Receipts \ {r} : ReceiptImagesOK(q)'
        BY <1>1, <1>3, <1>4 DEF ReceiptImagesOK, RetentionInv, Ledger
      <3>. QED
        BY <3>1, <3>2
    <2>6. RetentionTypes'
      <3>1. RetentionTypes
        BY DEF RetentionInv, Ledger
      <3>2. image' \subseteq Receipts /\ stored' \in Nat
        <4>1. image' = image \cup {r} /\ stored' = stored + 1
          BY <1>1
        <4>2. image \subseteq Receipts /\ stored \in Nat
          BY <3>1 DEF RetentionTypes
        <4>. QED
          BY <4>1, <4>2
      <3>. QED
        BY <1>1, <3>1, <3>2 DEF RetentionTypes
    <2>. QED
      BY <2>4, <2>5, <2>6 DEF Ledger
  <1>7. JobsOK'
    <2>1. \A q \in Receipts : Known(q) => Known(q)' /\ (q \notin image => q \notin image')
      BY <1>1, <1>2, <1>4
    <2>. QED
      BY <1>1, <2>1 DEF RetentionInv, JobsOK, JobOK
  <1>8. Audited'
    <2>1. \A e \in events : e.at # arriving[r]
      BY <1>1 DEF ReviewsBegun
    <2>2. IsFiniteSet(events)
      BY DEF ReviewsBegun
    <2>3. \A q \in Receipts : /\ q # r => ReceiptEvents(q)' = ReceiptEvents(q)
                              /\ q = r => Cardinality(ReceiptEvents(q)') = Cardinality(ReceiptEvents(q)) + 1
      BY <1>1, <2>1, <2>2, AppendedEvent
    <2>. SUFFICES ASSUME NEW q \in Receipts
                  PROVE  /\ receipt'[q].status = "NONE" => receipt'[q].version = 0
                         /\ arriving'[q] # Null => receipt'[q].status = "NONE"
                         /\ Cardinality(ReceiptEvents(q)') = receipt'[q].version
      BY DEF Audited
    <2>4. CASE q = r
      <3>1. Cardinality(ReceiptEvents(q)') = 0 + 1
        BY <1>2, <2>3, <2>4 DEF ReceiptEvents
      <3>. QED
        BY <1>3, <2>4, <3>1
    <2>5. CASE q # r
      BY <1>3, <2>3, <2>5 DEF RetentionInv, Audited
    <2>. QED
      BY <2>4, <2>5
  <1>9. NewestTold'
    BY <1>1, <1>3 DEF RetentionInv, NewestTold
  <1>10. ReviewTypes'
    BY <1>1, <1>3 DEF RetentionInv, ReviewTypes
  <1>11. ReviewMove
    <2>. DEFINE p == [of |-> "arrival", by |-> r, at |-> arriving[r]]
    <2>1. p \in Arrivals /\ p.at = arriving[r]
      BY <1>1 DEF Arrivals
    <2>2. Reviews' = Reviews /\ p \notin Reviews
      BY <1>1 DEF Reviews
    <2>3. Arrivals' \subseteq Arrivals \ {p}
      BY <1>3 DEF Arrivals
    <2>. HIDE DEF p
    <2>. QED
      BY <1>1, <2>1, <2>2, <2>3 DEF ReviewMove, ChainMove
  <1>. QED
    BY <1>6, <1>7, <1>8, <1>9, <1>10, <1>11 DEF RetentionInv

\* The transaction that sets image_deleted_at: the first one for a receipt gives
\* its image back, every other one leaves the ledger alone.
LEMMA MarkCompletedStep ==
    ASSUME RetentionInv, NEW j \in Jobs, MarkCompleted(j)
    PROVE  RetentionInv' /\ ReviewMove
  <1>. PICK p : p = job[j]
    OBVIOUS
  <1>. PICK r : r = p.receipt
    OBVIOUS
  <1>. PICK q : q = [step |-> "images", todo |-> p.todo]
    OBVIOUS
  <1>1. /\ p.step = "deleted" /\ job' = [job EXCEPT ![j] = q]
        /\ tombstone' = [tombstone EXCEPT ![r] = "COMPLETED"]
        /\ \/ Marks(r) /\ imageDeleted' = imageDeleted \cup {r} /\ stored' = Max({0, stored - 1})
           \/ ~Marks(r) /\ UNCHANGED <<imageDeleted, stored>>
        /\ UNCHANGED reviewVars /\ UNCHANGED <<age, image, unswept>>
    BY DEF MarkCompleted
  <1>2. /\ p.todo \subseteq Receipts /\ \A x \in p.todo : Known(x)
        /\ r \in Receipts /\ Known(r) /\ r \notin image
    BY <1>1 DEF RetentionInv, JobsOK, JobOK, Resting
  <1>3. /\ ReviewTypes' /\ Audited' /\ NewestTold' /\ ReviewMove
        /\ UNCHANGED <<clock, events, receipt, arriving, verified, copies, told>>
    BY <1>1, ReviewsRest
  <1>4. /\ imageDeleted \subseteq imageDeleted' /\ imageDeleted' \subseteq imageDeleted \cup {r}
        /\ \A x \in Receipts : (Exists(x)' <=> Exists(x)) /\ (Known(x)' <=> Known(x))
    BY <1>1, <1>2, <1>3 DEF Exists, Known
  <1>5. StoredCharged' /\ stored' \in Nat
    <2>0. /\ IsFiniteSet(WithImage) /\ Cardinality(WithImage) \in Nat /\ Cardinality(unswept) \in Nat
          /\ stored = Cardinality(WithImage) + Cardinality(unswept)
      BY ReceiptSets DEF WithImage, RetentionInv, Ledger, RetentionTypes, StoredCharged
    <2>1. CASE Marks(r) /\ imageDeleted' = imageDeleted \cup {r} /\ stored' = Max({0, stored - 1})
      <3>1. WithImage' = WithImage \ {r} /\ r \in WithImage
        BY <1>2, <1>4, <2>1 DEF WithImage, Marks
      <3>2. Cardinality(WithImage') = Cardinality(WithImage) - 1
        BY <2>0, <3>1, FS_RemoveElement
      <3>3. Cardinality(WithImage) # 0
        BY <2>0, <3>1, FS_EmptySet
      <3>4. stored - 1 \in Nat
        BY <2>0, <3>3
      <3>5. Max({0, stored - 1}) = stored - 1
        BY <3>4, MaxIs
      <3>. QED
        BY <1>1, <2>0, <2>1, <3>2, <3>4, <3>5 DEF StoredCharged
    <2>2. CASE ~Marks(r) /\ UNCHANGED <<imageDeleted, stored>>
      <3>1. WithImage' = WithImage
        BY <1>4, <2>2 DEF WithImage
      <3>. QED
        BY <1>1, <2>0, <2>2, <3>1 DEF StoredCharged
    <2>. QED
      BY <1>1, <2>1, <2>2
  <1>6. \A x \in Receipts : ReceiptImagesOK(x)'
    <2>1. \A x \in Receipts : /\ tombstone'[x] # "NONE" => Known(x)
                              /\ tombstone'[x] = "COMPLETED" => x \notin image
      BY <1>1, <1>2 DEF RetentionInv, Ledger, RetentionTypes, ReceiptImagesOK
    <2>. QED
      BY <1>1, <1>2, <1>3, <1>4, <2>1 DEF RetentionInv, Ledger, ReceiptImagesOK
  <1>7. RetentionTypes'
    BY <1>1, <1>2, <1>4, <1>5 DEF RetentionInv, Ledger, RetentionTypes
  <1>8. JobsOK'
    <2>1. JobOK(q)'
      BY <1>2, <1>4 DEF JobOK
    <2>. QED
      BY <1>1, <1>4, <2>1, JobUpdate DEF RetentionInv
  <1>. QED
    BY <1>3, <1>5, <1>6, <1>7, <1>8 DEF RetentionInv, Ledger

\* The yearly transaction: receipts go with all their events, and the images
\* that were still there stay charged.
LEMMA PurgeStep ==
    ASSUME RetentionInv, NEW j \in Jobs, Purge(j)
    PROVE  RetentionInv' /\ ReviewMove
  <1>. PICK p : p = job[j]
    OBVIOUS
  <1>. PICK gone : gone = p.receipts
    OBVIOUS
  <1>. PICK left : left = events \ p.events
    OBVIOUS
  <1>1. /\ p.step = "purge" /\ References(gone, left) /\ events' = left
        /\ receipt' = [r \in Receipts |->
              IF r \in gone THEN [status |-> "NONE", version |-> 0] ELSE receipt[r]]
        /\ verified' = [r \in Receipts |-> IF r \in gone THEN 0 ELSE verified[r]]
        /\ told' = [r \in Receipts |-> IF r \in gone THEN {} ELSE told[r]]
        /\ unswept' = unswept \cup (gone \cap WithImage)
        /\ job' = [job EXCEPT ![j] = Resting]
        /\ UNCHANGED <<clock, arriving, copies, age, image, imageDeleted, stored, tombstone>>
    BY DEF Purge
  <1>2. gone \subseteq Receipts /\ \A e \in p.events : e.receipt \in gone
    BY <1>1 DEF RetentionInv, JobsOK, JobOK, Resting
  <1>3. /\ \A r \in gone : ReceiptEvents(r)' = {}
        /\ \A r \in Receipts \ gone : ReceiptEvents(r)' = ReceiptEvents(r)
    BY <1>1, <1>2 DEF ReceiptEvents, References
  <1>4. /\ \A r \in gone : receipt'[r] = [status |-> "NONE", version |-> 0]
                           /\ verified'[r] = 0 /\ told'[r] = {}
        /\ \A r \in Receipts \ gone : receipt'[r] = receipt[r]
                                      /\ verified'[r] = verified[r] /\ told'[r] = told[r]
    BY <1>1, <1>2
  <1>5. ReviewTypes'
    <2>1. /\ receipt' \in [Receipts -> [status : {"NONE", "RECEIVED", "NEEDS_REVIEW", "VERIFIED", "REJECTED"},
                                        version : Nat]]
          /\ verified' \in [Receipts -> Nat] /\ told' \in [Receipts -> SUBSET Nat]
      BY <1>1 DEF RetentionInv, ReviewTypes
    <2>. QED
      BY <1>1, <2>1 DEF RetentionInv, ReviewTypes
  <1>6. Audited'
    <2>1. \A r \in gone : /\ receipt'[r].status = "NONE" /\ receipt'[r].version = 0
                          /\ Cardinality(ReceiptEvents(r)') = 0
      <3>1. Cardinality({}) = 0
        BY FS_EmptySet
      <3>. SUFFICES ASSUME NEW r \in gone
                    PROVE  /\ receipt'[r].status = "NONE" /\ receipt'[r].version = 0
                           /\ Cardinality(ReceiptEvents(r)') = 0
        OBVIOUS
      <3>2. ReceiptEvents(r)' = {}
        BY <1>3
      <3>3. Cardinality(ReceiptEvents(r)') = 0
        BY <3>1, <3>2
      <3>. QED
        BY <1>4, <3>3
    <2>2. \A r \in Receipts \ gone : /\ receipt'[r].status = "NONE" => receipt'[r].version = 0
                                     /\ arriving'[r] # Null => receipt'[r].status = "NONE"
                                     /\ Cardinality(ReceiptEvents(r)') = receipt'[r].version
      BY <1>1, <1>3, <1>4 DEF RetentionInv, Audited
    <2>. QED
      BY <2>1, <2>2 DEF Audited
  <1>7. NewestTold'
    BY <1>4 DEF RetentionInv, NewestTold
  <1>8. /\ \A r \in gone : ~Exists(r)'
        /\ \A r \in Receipts \ gone : Exists(r)' <=> Exists(r)
        /\ \A r \in Receipts : /\ Known(r) => Known(r)'
                               /\ ~Known(r) => ~Known(r)'
                               /\ Exists(r)' => Exists(r)
    <2>1. /\ \A r \in gone : ~Exists(r)'
          /\ \A r \in Receipts \ gone : Exists(r)' <=> Exists(r)
      BY <1>4 DEF Exists
    <2>2. \A r \in Receipts : /\ Known(r) => Known(r)'
                              /\ ~Known(r) => ~Known(r)'
      BY <1>1, <2>1 DEF Known, WithImage
    <2>. QED
      BY <2>1, <2>2
  <1>9. StoredCharged'
    <2>. DEFINE S == gone \cap WithImage
    <2>0. /\ IsFiniteSet(WithImage) /\ Cardinality(WithImage) \in Nat /\ WithImage \subseteq Receipts
          /\ IsFiniteSet(unswept) /\ Cardinality(unswept) \in Nat
          /\ stored = Cardinality(WithImage) + Cardinality(unswept)
      BY ReceiptSets DEF WithImage, RetentionInv, Ledger, RetentionTypes, StoredCharged
    <2>1. WithImage' = WithImage \ S
      BY <1>1, <1>8 DEF WithImage
    <2>2. IsFiniteSet(S) /\ Cardinality(S) \in Nat /\ S \subseteq WithImage
      BY <2>0, ReceiptSets
    <2>3. unswept \cap S = {}
      BY DEF WithImage, RetentionInv, Ledger, ReceiptImagesOK
    <2>4. unswept' = unswept \cup S
      BY <1>1
    <2>. HIDE DEF S
    <2>5. Cardinality(unswept \cup S) = Cardinality(unswept) + Cardinality(S)
      <3>1. Cardinality(unswept \cap S) = 0
        BY <2>3, FS_EmptySet
      <3>2. Cardinality(unswept \cup S) =
              Cardinality(unswept) + Cardinality(S) - Cardinality(unswept \cap S)
        BY <2>0, <2>2, FS_Union
      <3>. QED
        BY <2>0, <2>2, <3>1, <3>2
    <2>6. Cardinality(WithImage \ S) = Cardinality(WithImage) - Cardinality(S)
      <3>1. WithImage \cap S = S
        BY <2>2
      <3>2. Cardinality(WithImage \ S) = Cardinality(WithImage) - Cardinality(WithImage \cap S)
        BY <2>0, FS_Difference
      <3>. QED
        BY <3>1, <3>2
    <2>7. /\ Cardinality(WithImage') = Cardinality(WithImage) - Cardinality(S)
          /\ Cardinality(unswept') = Cardinality(unswept) + Cardinality(S)
      BY <2>1, <2>4, <2>5, <2>6
    <2>8. stored = Cardinality(WithImage') + Cardinality(unswept')
      BY <2>0, <2>2, <2>7
    <2>. QED
      BY <1>1, <2>8 DEF StoredCharged
  <1>10. \A r \in Receipts : ReceiptImagesOK(r)'
    <2>. SUFFICES ASSUME NEW r \in Receipts PROVE ReceiptImagesOK(r)'
      OBVIOUS
    <2>1. ReceiptImagesOK(r)
      BY DEF RetentionInv, Ledger
    <2>2. r \in image => Exists(r)' \/ r \in unswept'
      BY <1>1, <1>8, <2>1 DEF ReceiptImagesOK, WithImage
    <2>3. r \in unswept' => ~Exists(r)'
      BY <1>1, <1>8, <2>1 DEF ReceiptImagesOK
    <2>. QED
      BY <1>1, <1>8, <2>1, <2>2, <2>3 DEF ReceiptImagesOK
  <1>11. Ledger'
    <2>1. RetentionTypes'
      BY <1>1, <1>2 DEF RetentionInv, Ledger, RetentionTypes
    <2>. QED
      BY <1>9, <1>10, <2>1 DEF Ledger
  <1>12. JobsOK'
    <2>1. JobOK(Resting)'
      BY DEF JobOK
    <2>. QED
      BY <1>1, <1>8, <2>1, JobUpdate DEF RetentionInv
  <1>13. ReviewMove
    <2>1. Arrivals' = Arrivals /\ Reviews' = Reviews
      BY <1>1 DEF Arrivals, Reviews
    <2>. QED
      BY <1>1, <2>1 DEF ReviewMove, ChainMove
  <1>. QED
    BY <1>5, <1>6, <1>7, <1>11, <1>12, <1>13 DEF RetentionInv

\* Every step of the retention job and of the uploads it follows.
LEMMA RetentionStep ==
    ASSUME RetentionInv, ReviewsBegun, NEW jobs \in SUBSET Jobs, NEW receipts \in SUBSET Receipts,
           RetentionNext(jobs, receipts)
    PROVE  RetentionInv' /\ ReviewMove
  <1>1. ASSUME NEW r \in receipts, BeginUpload(r) \/ ImageArrives(r) \/ Ages(r)
        PROVE  RetentionInv' /\ ReviewMove
    <2>1. clock \in Nat
      BY DEF ReviewsBegun
    <2>. QED
      BY <1>1, <2>1, BeginUploadStep, ImageArrivesStep, AgesStep
  <1>2. ASSUME NEW j \in jobs, NEW r \in receipts, MarkPending(j, r)
        PROVE  RetentionInv' /\ ReviewMove
    BY <1>2, DeletionStep
  <1>3. ASSUME NEW j \in jobs, DeleteObject(j) \/ DeleteFails(j) \/ MarkRetryable(j)
        PROVE  RetentionInv' /\ ReviewMove
    BY <1>3, DeletionStep
  <1>4. ASSUME NEW j \in jobs, StartRetention(j) \/ StartPurge(j) \/ RetentionDies(j)
        PROVE  RetentionInv' /\ ReviewMove
    BY <1>4, JobOnlyStep
  <1>5. ASSUME NEW j \in jobs, MarkCompleted(j) PROVE RetentionInv' /\ ReviewMove
    BY <1>5, MarkCompletedStep
  <1>6. ASSUME NEW j \in jobs, Purge(j) PROVE RetentionInv' /\ ReviewMove
    BY <1>6, PurgeStep
  <1>. QED
    BY <1>1, <1>2, <1>3, <1>4, <1>5, <1>6 DEF RetentionNext

\* The invariant holds at the start, when no transaction has begun.
LEMMA RetentionInitially ==
    ASSUME RetentionInit
    PROVE  RetentionInv /\ Arrivals = {} /\ Reviews = {}
  <1>1. /\ events = {[at |-> 1, previous |-> Null, receipt |-> NoReceipt]}
        /\ receipt = [r \in Receipts |-> [status |-> "NONE", version |-> 0]]
        /\ arriving = [r \in Receipts |-> Null] /\ verified = [r \in Receipts |-> 0]
        /\ copies = [w \in Reviewers |-> NoCopyLoaded] /\ told = [r \in Receipts |-> {}]
        /\ age = [r \in Receipts |-> "new"] /\ image = {} /\ imageDeleted = {} /\ stored = 0
        /\ tombstone = [r \in Receipts |-> "NONE"] /\ job = [j \in Jobs |-> Resting] /\ unswept = {}
    BY DEF RetentionInit, ReviewInit, AuditInit
  <1>2. ReviewTypes
    BY <1>1, ClockAssumption DEF ReviewTypes, CopyOK, Null
  <1>3. Audited
    <2>1. \A r \in Receipts : r # NoReceipt
      BY ReviewAssumption
    <2>2. \A r \in Receipts : ReceiptEvents(r) = {}
      BY <1>1, <2>1 DEF ReceiptEvents
    <2>. QED
      BY <1>1, <2>2, FS_EmptySet DEF Audited
  <1>4. NewestTold
    BY <1>1 DEF NewestTold
  <1>5. Ledger
    <2>1. \A r \in Receipts : ~Exists(r)
      BY <1>1 DEF Exists
    <2>2. WithImage = {} /\ \A r \in Receipts : ReceiptImagesOK(r)
      BY <1>1, <2>1 DEF WithImage, ReceiptImagesOK, Known
    <2>3. StoredCharged
      BY <1>1, <2>2, FS_EmptySet DEF StoredCharged
    <2>. QED
      BY <1>1, <2>2, <2>3 DEF Ledger, RetentionTypes
  <1>6. JobsOK
    BY <1>1 DEF JobsOK, JobOK
  <1>7. Arrivals = {} /\ Reviews = {}
    BY <1>1 DEF Arrivals, Reviews, NoCopyLoaded
  <1>. QED
    BY <1>2, <1>3, <1>4, <1>5, <1>6, <1>7 DEF RetentionInv

\* What the invariant says of the tables.
LEMMA RetentionSafe ==
    ASSUME RetentionInv
    PROVE  RetentionTypeOK /\ NewestVerificationCounted /\ EveryDecisionAudited /\ ImagesChargedOnce
  <1>1. RetentionTypeOK
    <2>1. \A w \in Reviewers : copies[w].step \in {"none", "loaded", "begun"}
      BY DEF RetentionInv, ReviewTypes, CopyOK, NoCopyLoaded
    <2>2. ReviewTypeOK
      BY <2>1 DEF RetentionInv, ReviewTypes, ReviewTypeOK
    <2>. QED
      BY <2>2 DEF RetentionInv, Ledger, RetentionTypes, RetentionTypeOK
  <1>2. NewestVerificationCounted
    <2>. SUFFICES ASSUME NEW r \in Receipts, told[r] # {} PROVE verified[r] = Max(told[r])
      BY DEF RetentionInv, NewestTold, NewestVerificationCounted
    <2>1. told[r] \subseteq Nat /\ verified[r] \in told[r] /\ \A v \in told[r] : v <= verified[r]
      BY DEF RetentionInv, ReviewTypes, NewestTold
    <2>. QED
      BY <2>1, MaxIs
  <1>3. EveryDecisionAudited
    BY DEF RetentionInv, Audited, EveryDecisionAudited
  <1>4. ImagesChargedOnce
    <2>1. image \subseteq Receipts /\ StoredCharged /\ \A r \in Receipts : ReceiptImagesOK(r)
      BY DEF RetentionInv, Ledger, RetentionTypes
    <2>. QED
      BY <2>1 DEF ImagesChargedOnce, StoredCharged, ReceiptImagesOK
  <1>. QED
    BY <1>1, <1>2, <1>3, <1>4
=============================================================================
