---------------------------- MODULE MCEnrichment ----------------------------
(* Two workers and one receipt: every receipt has rows of its own.         *)
EXTENDS EnrichmentWorkflow, TLC

CONSTANTS r1, w1, w2, m1, m2

Deployment(provider, gst, outlived, bound) ==
    [provider |-> provider, gst |-> gst, outlived |-> outlived, faults |-> bound]

\* One fault, or instead leases that a worker may outlive.
AllDeployments == {
    Deployment("sqs", FALSE, {}, 1),
    Deployment("sqs", FALSE, {"message"}, 0),
    Deployment("sqs", TRUE, {"message"}, 0),
    Deployment("postgres", TRUE, {}, 1),
    Deployment("postgres", FALSE, {"message"}, 0),
    Deployment("postgres", FALSE, {"message", "stage"}, 0),
    Deployment("postgres", FALSE, {"event"}, 0)}

LocalPilot == {Deployment("postgres", TRUE, {}, 1)}
Production == {Deployment("sqs", FALSE, {}, 0)}

Symmetry == {p @@ q : p \in Permutations(Workers), q \in Permutations(Slots)}
=============================================================================
