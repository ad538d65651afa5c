----------------------------- MODULE ReceiptLog -----------------------------
(***************************************************************************)
(* What the upload path promises of its records: a receipt is recorded     *)
(* once and stays so; a device believes a receipt is synced only while it  *)
(* is recorded.  What becomes of its image is said by TimelyImageKept of   *)
(* UploadSessions.                                                         *)
(***************************************************************************)
CONSTANT Receipts

VARIABLES recorded, acknowledged

vars == <<recorded, acknowledged>>

Init == recorded = {} /\ acknowledged = {}

Record(r) ==
    /\ r \notin recorded
    /\ recorded' = recorded \cup {r}
    /\ UNCHANGED acknowledged

\* A device learns of receipts, or (when an older attempt of it fails late)
\* takes them for pending again.
Acknowledge ==
    /\ acknowledged' \in SUBSET recorded
    /\ UNCHANGED recorded

Next == Acknowledge \/ \E r \in Receipts : Record(r)

Spec == Init /\ [][Next]_vars
=============================================================================
