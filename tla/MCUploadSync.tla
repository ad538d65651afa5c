---------------------------- MODULE MCUploadSync ----------------------------
EXTENDS UploadSync, TLC
CONSTANTS r1, p1, p2, w1, w2

\* Sound for the safety properties only.
SyncSymmetry == Permutations(Parts) \cup Permutations(Workers)
=============================================================================
