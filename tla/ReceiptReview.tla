---------------------------- MODULE ReceiptReview ----------------------------
(***************************************************************************)
(* Reviewing receipts (authoritative.py) and the rows that reconciliation  *)
(* counts (reconciliation.py).  A reviewer loads a receipt with its        *)
(* version, and decides on the version loaded.  A decision locks the       *)
(* receipt's row, so that what follows the start of its transaction is one *)
(* step.  verified_receipts has a second writer: the review events of the  *)
(* edge service, which may be repeated and arrive in any order.            *)
(***************************************************************************)
EXTENDS AuditChain

CONSTANTS
    Receipts,       \* receipts of the site
    Reviewers,      \* reviewers, each with one receipt open at a time
    MaxVersion      \* bound: the last version a review event of the edge names

ASSUME ReviewAssumption ==
    IsFiniteSet(Receipts) /\ NoReceipt \notin Receipts /\ MaxVersion \in Nat

VARIABLES
    receipt,        \* receipts: status ("NONE": no row) and version
    arriving,       \* the start of the completion of each upload, or Null
    verified,       \* verified_receipts.review_version, 0 when there is no row
    copies,         \* what each reviewer has on the screen or has submitted
    told            \* history: versions somebody has verified, by receipt

reviewRows == <<receipt, arriving, verified, copies, told>>
reviewVars == <<auditVars, reviewRows>>

NoCopyLoaded == [step |-> "none"]
ReceiptEvents(r) == {e \in events : e.receipt = r}

ReviewInit ==
    /\ AuditInit
    /\ receipt = [r \in Receipts |-> [status |-> "NONE", version |-> 0]]
    /\ arriving = [r \in Receipts |-> Null]
    /\ verified = [r \in Receipts |-> 0]
    /\ copies = [w \in Reviewers |-> NoCopyLoaded]
    /\ told = [r \in Receipts |-> {}]

\* The last transaction of complete_upload_session, as far as reviews go.
BeginArrival(r) ==
    /\ receipt[r].status = "NONE"
    /\ arriving[r] = Null
    /\ Starts
    /\ arriving' = [arriving EXCEPT ![r] = clock']
    /\ UNCHANGED <<events, receipt, verified, copies, told>>

ReceiptArrives(r) ==
    /\ arriving[r] # Null
    /\ receipt' = [receipt EXCEPT ![r] = [status |-> "RECEIVED", version |-> 1]]
    /\ events' = Append(events, arriving[r], r)
    /\ arriving' = [arriving EXCEPT ![r] = Null]
    /\ UNCHANGED <<clock, verified, copies, told>>

ArrivalFails(r) ==
    /\ arriving[r] # Null
    /\ arriving' = [arriving EXCEPT ![r] = Null]
    /\ UNCHANGED <<auditVars, receipt, verified, copies, told>>

\* project_enrichment_result leaves the version alone.
ShowResult(r) ==
    /\ receipt[r].status = "RECEIVED"
    /\ receipt' = [receipt EXCEPT ![r].status = "NEEDS_REVIEW"]
    /\ UNCHANGED <<auditVars, arriving, verified, copies, told>>

\* list_receipts, for any status.
Load(w, r) ==
    /\ copies[w].step \in {"none", "loaded"}
    /\ receipt[r].status # "NONE"
    /\ copies' = [copies EXCEPT ![w] =
          [step |-> "loaded", receipt |-> r, version |-> receipt[r].version]]
    /\ UNCHANGED <<auditVars, receipt, arriving, verified, told>>

\* review_receipt begins, and may wait for the receipt's row.
BeginReview(w) ==
    /\ copies[w].step = "loaded"
    /\ Starts
    /\ copies' = [copies EXCEPT ![w] =
          [step |-> "begun", receipt |-> @.receipt, version |-> @.version, at |-> clock']]
    /\ UNCHANGED <<events, receipt, arriving, verified, told>>

\* Wrong on purpose: the row that comes last stays.
UpsertLast(r, v) == [verified EXCEPT ![r] = v]

\* Two rows of one receipt: the greater version stays.
Upsert(r, v) == [verified EXCEPT ![r] = IF @ < v THEN v ELSE @]

\* The rest of review_receipt, under the lock of the row.
Decide(w, status) ==
    /\ copies[w].step = "begun"
    /\ LET r == copies[w].receipt
           v == receipt[r].version + 1 IN
          /\ receipt[r].status # "NONE"
          /\ receipt[r].version = copies[w].version
          /\ receipt' = [receipt EXCEPT ![r] = [status |-> status, version |-> v]]
          /\ \/ /\ status = "VERIFIED"
                /\ verified' = Upsert(r, v)
                /\ told' = [told EXCEPT ![r] = @ \cup {v}]
             \/ /\ status = "REJECTED"
                /\ UNCHANGED <<verified, told>>
          /\ events' = Append(events, copies[w].at, r)
    /\ copies' = [copies EXCEPT ![w] = NoCopyLoaded]
    /\ UNCHANGED <<clock, arriving>>

\* VERSION_CONFLICT, RECEIPT_NOT_FOUND, or the connection is lost.
ReviewFails(w) ==
    /\ copies[w].step = "begun"
    /\ copies' = [copies EXCEPT ![w] = NoCopyLoaded]
    /\ UNCHANGED <<auditVars, receipt, arriving, verified, told>>

\* record_verified_review: a review event of the edge, new or repeated.
EdgeReview(r, v) ==
    /\ verified' = Upsert(r, v)
    /\ told' = [told EXCEPT ![r] = @ \cup {v}]
    /\ UNCHANGED <<auditVars, receipt, arriving, copies>>

ReviewNext(reviewers, receipts) ==
    \/ \E r \in receipts : ShowResult(r) \/ ArrivalFails(r)
    \/ \E w \in reviewers :
          \/ \E r \in receipts : Load(w, r)
          \/ BeginReview(w)
          \/ \E status \in {"VERIFIED", "REJECTED"} : Decide(w, status)
          \/ ReviewFails(w)

ReviewTypeOK ==
    /\ receipt \in [Receipts -> [status : {"NONE", "RECEIVED", "NEEDS_REVIEW", "VERIFIED", "REJECTED"},
                                 version : Nat]]
    /\ arriving \in [Receipts -> 0 .. MaxClock]
    /\ verified \in [Receipts -> Nat]
    /\ told \in [Receipts -> SUBSET Nat]
    /\ \A w \in Reviewers : copies[w].step \in {"none", "loaded", "begun"}

-----------------------------------------------------------------------------
\* Two reviewers who decide on one receipt, and events of the edge that arrive
\* late or twice: the row that reconciliation counts is that of the newest
\* verification anybody has sent, and a receipt that stands as verified has a
\* row at least as new as that decision.
NewestVerificationCounted ==
    \A r \in Receipts :
        /\ told[r] # {} => verified[r] = Max(told[r])
        /\ receipt[r].status = "VERIFIED" => verified[r] >= receipt[r].version

\* The audit events of a receipt are complete: one for its arrival and one for
\* each decision that changed it, whatever reviewers raced with each other and
\* with the yearly deletion, which takes a receipt with all its events or, if a
\* decision came in between, not at all.
EveryDecisionAudited ==
    \A r \in Receipts : Cardinality(ReceiptEvents(r)) = receipt[r].version
=============================================================================
