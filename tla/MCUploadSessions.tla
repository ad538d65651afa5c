-------------------------- MODULE MCUploadSessions --------------------------
(* The upload server with every fault: two receipts that race for quota.   *)
EXTENDS UploadSessions, TLC

CONSTANTS r1, r2, p1

Symmetry == Permutations({r1, r2})
=============================================================================
