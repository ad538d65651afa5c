---------------------------- MODULE EnrichmentLog ----------------------------
(***************************************************************************)
(* What enrichment promises: the results of a receipt are published under  *)
(* increasing versions and none is withdrawn, a receipt shows only what    *)
(* was published, and a reviewer's decision stays.                         *)
(***************************************************************************)
EXTENDS Naturals

CONSTANT Receipts

VARIABLES published, shown, decided

Init ==
    /\ published = [r \in Receipts |-> {}]
    /\ shown = [r \in Receipts |-> 0]
    /\ decided = {}

Publish(r) ==
    /\ \E v \in published'[r] :
          /\ \A u \in published[r] : u < v
          /\ published' = [published EXCEPT ![r] = @ \cup {v}]
    /\ UNCHANGED <<shown, decided>>

Show(r) ==
    /\ \E v \in published[r] : shown' = [shown EXCEPT ![r] = v]
    /\ UNCHANGED <<published, decided>>

Decide(r) ==
    /\ decided' = decided \cup {r}
    /\ UNCHANGED <<published, shown>>

Next == \E r \in Receipts : Publish(r) \/ Show(r) \/ Decide(r)

vars == <<published, shown, decided>>

Spec == Init /\ [][Next]_vars
=============================================================================
