---------------------------- MODULE PilotControl ----------------------------
(***************************************************************************)
(* The life of the local pilot (pilot_control.py, and the commands of      *)
(* local_admin.py and local_seed.py that change its data): a demonstration *)
(* with synthetic data, the preparation of one client, activation, end and *)
(* purge.  Operators run these commands side by side; preparation takes    *)
(* four transactions, the others check in one and change in another, and a *)
(* command may be interrupted between any two.                             *)
(***************************************************************************)
EXTENDS Naturals, FiniteSets

CONSTANT Operators      \* commands in progress at a time

VARIABLES
    mode,           \* local_pilot_control.mode
    ended,          \* ended_at: "no", "retained", or "due" after retention_days
    configured,     \* client_configuration_sha256 is set
    organizations,  \* the rows of organizations
    users,          \* the client's reviewers with a row in users
    enrolled,       \* those with local_reviewer_credentials
    command,        \* what each operator's command does next
    purge,          \* history: what became of purge_ended_pilot
    overrun         \* history: a deletion of the users began before, and ended
                    \* after, an organization was bootstrapped

pilotRows == <<mode, ended, configured, organizations, users, enrolled>>
history == <<purge, overrun>>
pilotVars == <<pilotRows, command, history>>

Reviewer2 == {"controller", "reviewer"}     \* of the client

\* The migrations add an inactive organization, for rows older than tenancy.
PilotInit ==
    /\ mode = "synthetic-demo"
    /\ ended = "no"
    /\ configured = FALSE
    /\ organizations = {"legacy"}
    /\ users = {}
    /\ enrolled = {}
    /\ command = [o \in Operators |-> "none"]
    /\ purge = "none"
    /\ overrun = FALSE

\* Wrong on purpose: audit events do not hold their organization.
DeletableAlways == TRUE

\* DELETE FROM organizations.  bootstrap_tenant gives every organization an
\* audit event, and audit_events refers to it ON DELETE RESTRICT: once one
\* was bootstrapped, the statement and its transaction fail.
Deletable == organizations \subseteq {"legacy"}

Continues(o, from, to) ==
    /\ command[o] = from
    /\ command' = [command EXCEPT ![o] = to]

\* The next statements of such a transaction, and its commit: each statement
\* has a snapshot of its own, and users bootstrapped since the first one go.
DeleteUsers ==
    /\ organizations' = organizations \ {"legacy"}
    /\ users' = {}
    /\ enrolled' = {}
    /\ overrun' = (overrun \/ ~Deletable)
    /\ UNCHANGED <<mode, ended, configured, purge>>

\* prepare_client_configuration deletes under the lock of the control row.
HoldsControl == \E o \in Operators : command[o] = "prepare 1"

PrepareClear(o) ==
    /\ Continues(o, "none", "prepare 1")
    /\ ~HoldsControl
    /\ mode = "synthetic-demo"
    /\ Deletable
    /\ UNCHANGED <<pilotRows, history>>

PrepareCleared(o) == Continues(o, "prepare 1", "prepare 2") /\ DeleteUsers

PrepareBootstrap(o) ==
    /\ Continues(o, "prepare 2", "prepare 3")
    /\ organizations' = organizations \cup {"client"}
    /\ users' = users \cup {"controller"}
    /\ UNCHANGED <<mode, ended, configured, enrolled, history>>

PrepareReviewer(o) ==
    /\ Continues(o, "prepare 3", "prepare 4")
    /\ "client" \in organizations
    /\ "reviewer" \notin users
    /\ users' = users \cup {"reviewer"}
    /\ UNCHANGED <<mode, ended, configured, organizations, enrolled, history>>

PrepareDigest(o) ==
    /\ Continues(o, "prepare 4", "none")
    /\ ~HoldsControl
    /\ configured' = TRUE
    /\ UNCHANGED <<mode, ended, organizations, users, enrolled, history>>

\* Wrong on purpose: without looking for the user.
EnrollAnyone(r) ==
    /\ r \notin enrolled
    /\ enrolled' = enrolled \cup {r}
    /\ UNCHANGED <<mode, ended, configured, organizations, users, command, history>>

\* enroll_reviewer, for a user of the client.
EnrollClient(r) ==
    /\ r \in users \ enrolled
    /\ enrolled' = enrolled \cup {r}
    /\ UNCHANGED <<mode, ended, configured, organizations, users, command, history>>

\* activation_readiness; the backups are as fresh as it wants them.
Ready ==
    /\ Cardinality(organizations \ {"legacy"}) = 1
    /\ "synthetic" \notin organizations
    /\ Cardinality(enrolled) = 2
    /\ configured

CheckReadiness(o) ==
    /\ Continues(o, "none", "activate")
    /\ Ready
    /\ UNCHANGED <<pilotRows, history>>

Activate(o) ==
    /\ Continues(o, "activate", "none")
    /\ ~HoldsControl
    /\ mode = "synthetic-demo"
    /\ users # {}
    /\ mode' = "controlled-client-pilot"
    /\ UNCHANGED <<ended, configured, organizations, users, enrolled, history>>

EndPilot(o) ==
    /\ command[o] = "none"
    /\ mode = "controlled-client-pilot"
    /\ ended = "no"
    /\ users # {}
    /\ ended' = "retained"
    /\ UNCHANGED <<mode, configured, organizations, users, enrolled, command, history>>

RetentionPasses ==
    /\ ended = "retained"
    /\ ended' = "due"
    /\ UNCHANGED <<mode, configured, organizations, users, enrolled, command, history>>

\* purge_ended_pilot, in one transaction.
Purged ==
    /\ mode' = "synthetic-demo"
    /\ ended' = "no"
    /\ configured' = FALSE
    /\ organizations' = {}
    /\ purge' = "purged"

PurgeEndedPilot(o) ==
    /\ command[o] = "none"
    /\ mode = "controlled-client-pilot"
    /\ ended = "due"
    /\ IF Deletable THEN Purged
       ELSE purge' = "refused" /\ UNCHANGED <<mode, ended, configured, organizations>>
    /\ UNCHANGED <<users, enrolled, command, overrun>>

\* reset_synthetic_data checks the mode in a transaction of its own.
ResetChecked(o) ==
    /\ Continues(o, "none", "reset")
    /\ mode = "synthetic-demo"
    /\ UNCHANGED <<pilotRows, history>>

Reset(o) ==
    /\ Continues(o, "reset", "reset 2")
    /\ Deletable
    /\ UNCHANGED <<pilotRows, history>>

ResetUsers(o) == Continues(o, "reset 2", "none") /\ DeleteUsers

\* seed_local_pilot checks the mode, then the organizations, then bootstraps.
SeedChecksMode(o) ==
    /\ Continues(o, "none", "seed 2")
    /\ mode = "synthetic-demo"
    /\ UNCHANGED <<pilotRows, history>>

SeedChecksClient(o) ==
    /\ Continues(o, "seed 2", "seed 3")
    /\ organizations \subseteq {"legacy", "synthetic"}
    /\ UNCHANGED <<pilotRows, history>>

SeedBootstrap(o) ==
    /\ Continues(o, "seed 3", "none")
    /\ organizations' = organizations \cup {"synthetic"}
    /\ UNCHANGED <<mode, ended, configured, users, enrolled, history>>

\* A check or a statement fails, or the operator interrupts the command.
CommandStops(o) ==
    /\ command[o] # "none"
    /\ command' = [command EXCEPT ![o] = "none"]
    /\ UNCHANGED <<pilotRows, history>>

PilotNext(operators) ==
    \/ \E o \in operators :
          \/ PrepareClear(o) \/ PrepareCleared(o) \/ PrepareBootstrap(o) \/ PrepareReviewer(o) \/ PrepareDigest(o)
          \/ CheckReadiness(o) \/ Activate(o)
          \/ EndPilot(o) \/ PurgeEndedPilot(o)
          \/ ResetChecked(o) \/ Reset(o) \/ ResetUsers(o)
          \/ SeedChecksMode(o) \/ SeedChecksClient(o) \/ SeedBootstrap(o)
          \/ CommandStops(o)
    \/ /\ operators # {}
       /\ RetentionPasses \/ \E r \in Reviewer2 : EnrollClient(r)

PilotTypeOK ==
    /\ mode \in {"synthetic-demo", "controlled-client-pilot"}
    /\ ended \in {"no", "retained", "due"}
    /\ configured \in BOOLEAN
    /\ organizations \subseteq {"legacy", "synthetic", "client", "acceptance"}
    /\ enrolled \subseteq users /\ users \subseteq Reviewer2
    /\ purge \in {"none", "purged", "refused"}

-----------------------------------------------------------------------------
\* In the controlled mode the prepared client is there with both of its
\* reviewers, although readiness is read before the mode changes and resets,
\* seeds and other preparations may run, or stop, in between: nothing deletes
\* an organization once it was bootstrapped, and only a deletion of the users
\* that was already under way then can take the reviewers away.
ControlledPrepared ==
    mode = "controlled-client-pilot" =>
        /\ configured /\ "client" \in organizations
        /\ enrolled = Reviewer2 \/ overrun

\* docs/local-pilot.md promises that the ended pilot's data is removed by the
\* purge command after the retention period: it is not refused then.
DueDataPurged == purge # "refused"
=============================================================================
