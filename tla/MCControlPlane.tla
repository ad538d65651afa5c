--------------------------- MODULE MCControlPlane ---------------------------
(* Groups of actors small enough for TLC, each around one kind of conflict. *)
EXTENDS ControlPlane

CONSTANTS u1, u2, d1, d2, c1, c2, a, b, r1, r2, j1, j2, n1, n2,
          h1, h2, h3, l1, l2, l3, o1, o2, edge, console

Group(actors, lastStart) == [actors |-> actors, lastStart |-> lastStart]

MCWorkloads ==
    {Group({u1, u2}, 5),                \* two administrators
     Group({u1, d1, d2, c1}, 5),        \* one, and devices with one code
     Group({u1, d1, d2, c1, c2}, 3),    \* ... with a code each
     Group({u1, a, b, r1}, 4),          \* an administrator and two reviewers
     Group({a, b, r1, edge}, 5),        \* reviewers and the edge service
     Group({a, j1, j2, r1}, 4),         \* a reviewer and two retention jobs
     Group({j1, j2, r1, r2}, 3),        \* two jobs over two receipts
     Group({n1, n2}, 1),                \* requests of one device
     Group({h1, h2, h3}, 1),            \* posts of one event
     Group({l1, l2, l3}, 1),            \* sign-ins of one reviewer
     Group({o1, o2}, 1),                \* commands of the pilot
     Group({o1, console}, 1)}           \* ... and test runs

\* One operator of the local pilot.
PilotWorkload == {Group({o1}, 1)}

\* One run of the retention job and one receipt.
RetentionWorkload == {Group({a, j1, r1}, 3)}

MCUsers == {u1, u2}
MCDevices == {d1, d2}
MCCodes == {c1, c2}
MCReviewers == {a, b}
MCReceipts == {r1, r2}
MCJobs == {j1, j2}
MCNonces == {n1, n2}
MCHandlers == {h1, h2, h3}
MCLogins == {l1, l2, l3}
MCOperators == {o1, o2}
MCDeviceLimits == {1, 2}
MCRequestIds == {"request 1", "request 2"}
MCRecoveryCodes == {1, 2}
=============================================================================
