--------------------------- MODULE Administration ---------------------------
(***************************************************************************)
(* The administrators of one organization with one site: memberships,      *)
(* invitations, the site and its vendors (authoritative.py).               *)
(*                                                                         *)
(* A request authenticates in a transaction of its own, which is where its *)
(* role is read; then it begins the transaction of its operation, reads    *)
(* and locks rows, and last appends its audit event and commits.  Another  *)
(* request may step in between, and a request may die before it commits.   *)
(***************************************************************************)
EXTENDS AuditChain

CONSTANTS
    Users,          \* reviewers with an identity, one request each at a time
    Founder         \* the administrator whom bootstrap_tenant adds

ASSUME UsersAssumption == IsFiniteSet(Users) /\ Founder \in Users

VARIABLES
    role,           \* role of the active organization membership, or "NONE"
    site,           \* sites: active, configuration_version; vendors: the
                    \* revision of the vendor list, for its content
    invitations,    \* open invitations (used_at IS NULL, not expired)
    request         \* the request each user's browser has in progress

adminVars == <<auditVars, role, site, invitations, request>>

Roles == {"ORG_ADMIN", "SITE_ADMIN"}    \* the other roles administer nothing
Idle == [step |-> "idle"]
Admins == {u \in Users : role[u] = "ORG_ADMIN"}

AdminInit ==
    /\ AuditInit
    /\ role = [u \in Users |-> IF u = Founder THEN "ORG_ADMIN" ELSE "NONE"]
    /\ site = [active |-> TRUE, version |-> 1, vendors |-> 1]
    /\ invitations = {}
    /\ request = [u \in Users |-> Idle]

\* authenticate_reviewer: a membership and an active site are needed.
Authenticate(u) ==
    /\ request[u] = Idle
    /\ role[u] # "NONE"
    /\ site.active
    /\ request' = [request EXCEPT ![u] = [step |-> "authenticated", role |-> role[u]]]
    /\ UNCHANGED <<auditVars, role, site, invitations>>

\* u's request, authenticated with one of `roles`, begins a transaction that
\* runs `op`.  `seen` is history: the administrators when it read its rows.
Begins(u, roles, op) ==
    /\ request[u].step = "authenticated"
    /\ request[u].role \in roles
    /\ Starts
    /\ request' = [request EXCEPT ![u] =
          [step |-> "begun", role |-> request[u].role, op |-> op, at |-> clock',
           seen |-> Admins]]

Running(u, name) == request[u].step = "begun" /\ request[u].op.name = name

\* A request locks the row of the membership it changes, or the row of the site.
HoldsMember(t) ==
    \/ \E u \in Users : Running(u, "membership") /\ request[u].op.target = t
    \/ Running(t, "accept")
HoldsSite == \E u \in Users : Running(u, "site")
Accepting(i) == Running(i.user, "accept") /\ request[i.user].op.invitation = i
HoldsInvitation(i) == \E u \in Users : Running(u, "invite") /\ i \in request[u].op.closes

Finishes(u) ==
    /\ events' = Append(events, request[u].at, NoReceipt)
    /\ request' = [request EXCEPT ![u] = Idle]
    /\ UNCHANGED clock

\* A check refuses the operation, or the connection is lost: a rollback.
RequestFails(u) ==
    /\ request[u].step # "idle"
    /\ request' = [request EXCEPT ![u] = Idle]
    /\ UNCHANGED <<auditVars, role, site, invitations>>

\* Wrong on purpose: the last administrator is not counted.
MayBecomeAnything(t, r) == TRUE

\* upsert_membership, up to its last check: the last administrator stays.  The
\* administrators are counted without a lock on the others' rows.
MayBecome(t, r) == role[t] = "ORG_ADMIN" /\ r # "ORG_ADMIN" => Cardinality(Admins) > 1

BeginMembership(u, t, r) ==
    /\ Begins(u, {"ORG_ADMIN"}, [name |-> "membership", target |-> t, role |-> r])
    /\ r = "SITE_ADMIN" => site.active
    /\ ~HoldsMember(t)
    /\ MayBecome(t, r)
    /\ UNCHANGED <<events, role, site, invitations>>

CommitMembership(u) ==
    /\ Running(u, "membership")
    /\ role' = [role EXCEPT ![request[u].op.target] = request[u].op.role]
    /\ Finishes(u)
    /\ UNCHANGED <<site, invitations>>

\* upsert_site: a site administrator cannot change whether the site is active.
BeginSite(u, active) ==
    /\ Begins(u, Roles, [name |-> "site", active |-> active])
    /\ request[u].role = "SITE_ADMIN" => active = site.active
    /\ ~HoldsSite
    /\ UNCHANGED <<events, role, site, invitations>>

CommitSite(u) ==
    /\ Running(u, "site")
    /\ site' = [site EXCEPT !.active = request[u].op.active, !.version = @ + 1]
    /\ Finishes(u)
    /\ UNCHANGED <<role, invitations>>

\* upsert_vendor waits for the site's row, and changes vendor list and version
\* in one transaction.
BeginVendor(u) ==
    /\ Begins(u, Roles, [name |-> "vendor"])
    /\ UNCHANGED <<events, role, site, invitations>>

\* Wrong on purpose: the version stays.
CommitVendorOnly(u) ==
    /\ Running(u, "vendor")
    /\ ~HoldsSite
    /\ site' = [site EXCEPT !.vendors = @ + 1]
    /\ Finishes(u)
    /\ UNCHANGED <<role, invitations>>

CommitVendor(u) ==
    /\ Running(u, "vendor")
    /\ ~HoldsSite
    /\ site' = [site EXCEPT !.version = @ + 1, !.vendors = @ + 1]
    /\ Finishes(u)
    /\ UNCHANGED <<role, invitations>>

\* create_membership_invitation closes the invitee's open invitations that it
\* sees, once nobody is accepting them, and adds one.
BeginInvite(u, t, r) ==
    /\ Begins(u, {"ORG_ADMIN"}, [name |-> "invite", target |-> t, role |-> r,
                                 closes |-> {i \in invitations : i.user = t}])
    /\ r = "SITE_ADMIN" => site.active
    /\ \A i \in invitations : i.user = t => ~Accepting(i) /\ ~HoldsInvitation(i)
    /\ UNCHANGED <<events, role, site, invitations>>

CommitInvite(u) ==
    /\ Running(u, "invite")
    /\ invitations' = (invitations \ request[u].op.closes) \cup
          {[id |-> request[u].at, user |-> request[u].op.target, role |-> request[u].op.role]}
    /\ Finishes(u)
    /\ UNCHANGED <<role, site>>

\* accept_membership_invitation locks the invitation and the user's identity,
\* and replaces whatever role the user had.
BeginAccept(u, i) ==
    /\ request[u] = Idle
    /\ i.user = u
    /\ ~HoldsMember(u)
    /\ ~HoldsInvitation(i)
    /\ Starts
    /\ request' = [request EXCEPT ![u] =
          [step |-> "begun", op |-> [name |-> "accept", invitation |-> i], at |-> clock']]
    /\ UNCHANGED <<events, role, site, invitations>>

CommitAccept(u) ==
    /\ Running(u, "accept")
    /\ role' = [role EXCEPT ![u] = request[u].op.invitation.role]
    /\ invitations' = invitations \ {request[u].op.invitation}
    /\ Finishes(u)
    /\ UNCHANGED site

InvitationExpires(i) ==
    /\ invitations' = invitations \ {i}
    /\ UNCHANGED <<auditVars, role, site, request>>

AdminNext(users) ==
    \/ \E u \in users :
          \/ Authenticate(u)
          \/ RequestFails(u)
          \/ \E t \in users, r \in Roles \cup {"NONE"} : BeginMembership(u, t, r)
          \/ CommitMembership(u)
          \/ \E active \in BOOLEAN : BeginSite(u, active)
          \/ CommitSite(u)
          \/ BeginVendor(u)
          \/ CommitVendor(u)
          \/ \E t \in users, r \in Roles : BeginInvite(u, t, r)
          \/ CommitInvite(u)
          \/ \E i \in invitations : BeginAccept(u, i)
          \/ CommitAccept(u)
    \/ \E i \in invitations : InvitationExpires(i)

AdminTypeOK ==
    /\ clock \in 1 .. MaxClock
    /\ \A e \in events : e.at \in 1 .. clock /\ e.previous \in 0 .. clock
    /\ role \in [Users -> Roles \cup {"NONE"}]
    /\ site.active \in BOOLEAN
    /\ site.version \in Nat \ {0}
    /\ site.vendors \in Nat \ {0}
    /\ invitations \subseteq [id : 1 .. clock, user : Users, role : Roles]
    /\ \A u \in Users : request[u].step \in {"idle", "authenticated", "begun"}

-----------------------------------------------------------------------------
Administered == site.active /\ Admins # {}

\* Someone can administer the organization, for good, unless an administrator
\* deactivates its only site, an administrator accepts an invitation to a lower
\* role, or two administrators remove each other at the same time: then one of
\* the two transactions commits after the other did, having counted before, when
\* the administrators were not those of now.
AdministratorKept ==
    [][Administered /\ ~Administered' =>
         \/ \E u \in Users : Running(u, "site") /\ ~request[u].op.active /\ request'[u] = Idle
         \/ \E u \in Users : /\ Running(u, "accept") /\ request'[u] = Idle
                             /\ request[u].op.invitation.role # "ORG_ADMIN"
         \/ \E u \in Users : /\ Running(u, "membership") /\ request'[u] = Idle
                             /\ Admins # request[u].seen]_adminVars
=============================================================================
