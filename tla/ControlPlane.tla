---------------------------- MODULE ControlPlane ----------------------------
(***************************************************************************)
(* Administration, devices, reviews, retention, ingress, local sign-in,    *)
(* the local pilot and its test runs, side by side over one database.      *)
(* Administration, reviews and retention meet in the audit chain of the    *)
(* site, the pilot's commands and the test runs in the organizations.      *)
(*                                                                         *)
(* atWork never changes: it says which actors work in a behaviour, and how *)
(* many transactions on the chain they start, so that several small groups *)
(* of actors are checked, and not one large one.                           *)
(***************************************************************************)
EXTENDS DeviceAccess, DeviceRequests, Retention, ServiceIngress, LocalAuth, LocalTestRuns

CONSTANTS
    Edge,           \* the edge service, which sends review events
    TestConsole,    \* the local console with its worker
    Workloads       \* groups of actors, each with a bound on clock of its own

VARIABLE atWork

organizationVars == <<role, site, invitations, request, deviceRows, enrolling, bootstrap>>
chainVars == <<organizationVars, retentionVars>>
localVars == <<requestVars, ingressVars, authVars>>
planeVars == <<chainVars, localVars, testVars, atWork>>

PlaneInit ==
    /\ DeviceInit /\ RequestsInit /\ RetentionInit
    /\ IngressInit /\ AuthInit /\ TestInit
    /\ atWork \in Workloads

\* The actors that share the audit chain.
ChainNext ==
    \/ /\ DeviceNext(Users \cap atWork.actors, Devices \cap atWork.actors, Codes \cap atWork.actors)
       /\ UNCHANGED <<reviewRows, retentionRows, job>>
    \/ /\ ReviewNext(Reviewers \cap atWork.actors, Receipts \cap atWork.actors)
       /\ UNCHANGED <<retentionRows, job, organizationVars>>
    \/ /\ Edge \in atWork.actors
       /\ \E r \in Receipts \cap atWork.actors, v \in 1 .. MaxVersion : EdgeReview(r, v)
       /\ UNCHANGED <<retentionRows, job, organizationVars>>
    \/ /\ RetentionNext(Jobs \cap atWork.actors, Receipts \cap atWork.actors)
       /\ UNCHANGED organizationVars

PlaneNext ==
    /\ UNCHANGED atWork
    /\ \/ ChainNext /\ clock' <= atWork.lastStart /\ UNCHANGED <<localVars, testVars>>
       \/ RequestsNext(Nonces \cap atWork.actors) /\ UNCHANGED <<chainVars, ingressVars, authVars, testVars>>
       \/ IngressNext(Handlers \cap atWork.actors) /\ UNCHANGED <<chainVars, requestVars, authVars, testVars>>
       \/ AuthNext(Logins \cap atWork.actors) /\ UNCHANGED <<chainVars, requestVars, ingressVars, testVars>>
       \/ /\ PilotNext(Operators \cap atWork.actors)
          /\ UNCHANGED <<chainVars, localVars, run, worker, testRows>>
       \/ TestConsole \in atWork.actors /\ TestNext /\ UNCHANGED <<chainVars, localVars>>

PlaneSpec == PlaneInit /\ [][PlaneNext]_planeVars

PlaneTypeOK ==
    /\ AdminTypeOK /\ DeviceTypeOK /\ RetentionTypeOK
    /\ IngressTypeOK /\ AuthTypeOK /\ TestTypeOK
=============================================================================
