------------------------- MODULE DeviceAccessProofs -------------------------
(***************************************************************************)
(* Administration and DeviceAccess for any number of users, devices, codes *)
(* and transactions.                                                       *)
(*                                                                         *)
(* AdminInv says what the transactions under way have read and may write;  *)
(* DeviceInv adds that the lock of the organization is held by one         *)
(* enrollment or one quota at most, and that no device has a version that  *)
(* the site has not reached.  A step of any actor keeps both and moves the *)
(* audit chain as ChainMove allows.                                        *)
(***************************************************************************)
EXTENDS DeviceAccess, AuditChainProofs

-----------------------------------------------------------------------------
(* Administration                                                          *)

\* The row of the site.
Sites == [active : BOOLEAN, version : Nat \ {0}, vendors : Nat \ {0}]

\* The invitations that may exist: each has the time of its creation as its id.
Invitations == [id : 1 .. clock, user : Users, role : Roles]

\* What a request has checked when its transaction has begun.
BegunOK(q) ==
    /\ q.op.name = "membership" =>
          /\ q.op.target \in Users
          /\ q.op.role \in Roles \cup {"NONE"}
          /\ q.op.target \in q.seen /\ q.op.role # "ORG_ADMIN" => Cardinality(q.seen) > 1
    /\ q.op.name = "site" => q.op.active \in BOOLEAN
    /\ q.op.name = "invite" => q.op.target \in Users /\ q.op.role \in Roles
    /\ q.op.name = "accept" => q.op.invitation.role \in Roles
    /\ q.op.name = "quota" => q.op.limit \in DeviceLimits

\* A request at each of its steps.
RequestOK(q) ==
    \/ q = Idle
    \/ q.step = "authenticated" /\ q.role \in Roles
    \/ q.step = "begun" /\ BegunOK(q)

\* The rows and the requests of the administration.
AdminInv ==
    /\ role \in [Users -> Roles \cup {"NONE"}]
    /\ site \in Sites
    /\ invitations \subseteq Invitations
    /\ DOMAIN request = Users
    /\ \A u \in Users : RequestOK(request[u])

\* The transactions of the requests that have begun.
BegunRequests ==
    {[of |-> "request", by |-> u, at |-> request[u].at] : u \in {v \in Users : request[v].step = "begun"}}

\* What an administrative step does to the audit chain.
RequestMove ==
    ChainMove(BegunRequests, events, clock, BegunRequests', events', clock')

\* A request that begins has its place in the audit chain, and nothing else.
LEMMA BeginsFacts ==
    ASSUME AdminInv, NEW u \in Users, NEW roles, NEW op, Begins(u, roles, op), events' = events
    PROVE  /\ clock' = clock + 1
           /\ DOMAIN request' = Users
           /\ \A v \in Users \ {u} : request'[v] = request[v]
           /\ request'[u].step = "begun" /\ request'[u].op = op /\ request'[u].seen = Admins
           /\ RequestMove
  <1>1. /\ clock' = clock + 1
        /\ DOMAIN request' = Users
        /\ \A v \in Users \ {u} : request'[v] = request[v]
        /\ request'[u] = [step |-> "begun", role |-> request[u].role, op |-> op,
                          at |-> clock', seen |-> Admins]
    BY DEF Begins, Starts, AdminInv
  <1>. DEFINE p == [of |-> "request", by |-> u, at |-> clock']
  <1>2. p.at = clock'
    OBVIOUS
  <1>3. BegunRequests' \subseteq BegunRequests \cup {p}
    BY <1>1 DEF BegunRequests
  <1>4. RequestMove
    BY <1>1, <1>2, <1>3 DEF RequestMove, ChainMove
  <1>. QED
    BY <1>1, <1>4

\* A request that commits appends its event, once.
LEMMA FinishesFacts ==
    ASSUME AdminInv, NEW u \in Users, request[u].step = "begun", Finishes(u)
    PROVE  /\ clock' = clock
           /\ DOMAIN request' = Users
           /\ \A v \in Users \ {u} : request'[v] = request[v]
           /\ request'[u] = Idle
           /\ RequestMove
  <1>1. /\ clock' = clock
        /\ DOMAIN request' = Users
        /\ \A v \in Users \ {u} : request'[v] = request[v]
        /\ request'[u] = Idle
        /\ events' = Append(events, request[u].at, NoReceipt)
    BY DEF Finishes, AdminInv
  <1>. DEFINE p == [of |-> "request", by |-> u, at |-> request[u].at]
  <1>2. p \in BegunRequests /\ p.at = request[u].at
    BY DEF BegunRequests
  <1>3. BegunRequests' \subseteq BegunRequests \ {p}
    BY <1>1 DEF BegunRequests, Idle
  <1>4. RequestMove
    <2>. HIDE DEF p
    <2>. QED
      BY <1>1, <1>2, <1>3 DEF RequestMove, ChainMove
  <1>. QED
    BY <1>1, <1>4

\* Any other end or start of a request leaves the chain alone.
LEMMA OtherRequestFacts ==
    ASSUME AdminInv, NEW u \in Users, NEW q, q.step # "begun",
           request' = [request EXCEPT ![u] = q], UNCHANGED auditVars
    PROVE  /\ clock' = clock
           /\ DOMAIN request' = Users
           /\ \A v \in Users \ {u} : request'[v] = request[v]
           /\ request'[u] = q
           /\ RequestMove
  <1>1. /\ clock' = clock /\ events' = events
        /\ DOMAIN request' = Users
        /\ \A v \in Users \ {u} : request'[v] = request[v]
        /\ request'[u] = q
    BY DEF AdminInv, auditVars
  <1>2. BegunRequests' \subseteq BegunRequests
    BY <1>1 DEF BegunRequests
  <1>3. RequestMove
    BY <1>1, <1>2 DEF RequestMove, ChainMove
  <1>. QED
    BY <1>1, <1>3

\* The starts of the requests lie in the past.
RequestsBegun == clock \in Nat /\ \A u \in Users : request[u].step = "begun" => request[u].at \in 1 .. clock

\* A step that changes one request keeps the invariant of the others.
LEMMA RequestsKept ==
    ASSUME AdminInv, NEW u \in Users, DOMAIN request' = Users,
           \A v \in Users \ {u} : request'[v] = request[v], RequestOK(request'[u])
    PROVE  \A v \in Users : RequestOK(request'[v])
  BY DEF AdminInv

\* Time passes and the log grows: the rows keep their types.
LEMMA AdminRowsKept ==
    ASSUME AdminInv, RequestsBegun, clock' \in Nat, clock' >= clock, UNCHANGED <<role, site>>,
           invitations' \subseteq invitations,
           DOMAIN request' = Users, \A v \in Users : RequestOK(request'[v])
    PROVE  AdminInv'
  <1>1. invitations' \subseteq Invitations'
    BY DEF AdminInv, Invitations, RequestsBegun
  <1>. QED
    BY <1>1 DEF AdminInv

\* What DeviceAccess relies on: no new quota, and a version for every change.
KeepsQuota == \A u \in Users : Running(u, "quota")' => Running(u, "quota")
\* Whoever changes the site raises its version.
MovesVersion == site' = site \/ site'.version > site.version

\* Every transaction of a request that begins has read what BegunOK says.
LEMMA BeginningStep ==
    ASSUME AdminInv, RequestsBegun, NEW users \in SUBSET Users, NEW u \in users, NEW t \in users,
           \/ \E r \in Roles \cup {"NONE"} : BeginMembership(u, t, r)
           \/ \E active \in BOOLEAN : BeginSite(u, active)
           \/ BeginVendor(u)
           \/ \E r \in Roles : BeginInvite(u, t, r)
           \/ \E i \in invitations : BeginAccept(u, i)
    PROVE  AdminInv' /\ RequestMove /\ KeepsQuota /\ UNCHANGED <<role, site, invitations>>
  <1>1. CASE \E r \in Roles \cup {"NONE"} : BeginMembership(u, t, r)
    <2>1. PICK r \in Roles \cup {"NONE"} : BeginMembership(u, t, r)
      BY <1>1
    <2>. DEFINE op == [name |-> "membership", target |-> t, role |-> r]
    <2>2. Begins(u, {"ORG_ADMIN"}, op) /\ events' = events /\ UNCHANGED <<role, site, invitations>>
      BY <2>1 DEF BeginMembership
    <2>3. t \in Admins /\ r # "ORG_ADMIN" => Cardinality(Admins) > 1
      BY <2>1 DEF BeginMembership, MayBecome, Admins
    <2>4. /\ clock' = clock + 1 /\ DOMAIN request' = Users
          /\ \A v \in Users \ {u} : request'[v] = request[v]
          /\ request'[u].step = "begun" /\ request'[u].op = op /\ request'[u].seen = Admins
          /\ RequestMove
      <3>. HIDE DEF op
      <3>. QED
        BY <2>2, BeginsFacts
    <2>5. RequestOK(request'[u])
      BY <2>3, <2>4 DEF RequestOK, BegunOK
    <2>. QED
      BY <2>2, <2>4, <2>5, RequestsKept, AdminRowsKept DEF RequestsBegun, KeepsQuota, Running
  <1>2. CASE \E active \in BOOLEAN : BeginSite(u, active)
    <2>1. PICK active \in BOOLEAN : BeginSite(u, active)
      BY <1>2
    <2>. DEFINE op == [name |-> "site", active |-> active]
    <2>2. Begins(u, Roles, op) /\ events' = events /\ UNCHANGED <<role, site, invitations>>
      BY <2>1 DEF BeginSite
    <2>3. /\ clock' = clock + 1 /\ DOMAIN request' = Users
          /\ \A v \in Users \ {u} : request'[v] = request[v]
          /\ request'[u].step = "begun" /\ request'[u].op = op
          /\ RequestMove
      <3>. HIDE DEF op
      <3>. QED
        BY <2>2, BeginsFacts
    <2>4. RequestOK(request'[u])
      BY <2>3 DEF RequestOK, BegunOK
    <2>. QED
      BY <2>2, <2>3, <2>4, RequestsKept, AdminRowsKept DEF RequestsBegun, KeepsQuota, Running
  <1>3. CASE BeginVendor(u)
    <2>. DEFINE op == [name |-> "vendor"]
    <2>1. Begins(u, Roles, op) /\ events' = events /\ UNCHANGED <<role, site, invitations>>
      BY <1>3 DEF BeginVendor
    <2>2. /\ clock' = clock + 1 /\ DOMAIN request' = Users
          /\ \A v \in Users \ {u} : request'[v] = request[v]
          /\ request'[u].step = "begun" /\ request'[u].op = op
          /\ RequestMove
      <3>. HIDE DEF op
      <3>. QED
        BY <2>1, BeginsFacts
    <2>3. RequestOK(request'[u])
      BY <2>2 DEF RequestOK, BegunOK
    <2>. QED
      BY <2>1, <2>2, <2>3, RequestsKept, AdminRowsKept DEF RequestsBegun, KeepsQuota, Running
  <1>4. CASE \E r \in Roles : BeginInvite(u, t, r)
    <2>1. PICK r \in Roles : BeginInvite(u, t, r)
      BY <1>4
    <2>. DEFINE op == [name |-> "invite", target |-> t, role |-> r,
                       closes |-> {i \in invitations : i.user = t}]
    <2>2. Begins(u, {"ORG_ADMIN"}, op) /\ events' = events /\ UNCHANGED <<role, site, invitations>>
      BY <2>1 DEF BeginInvite
    <2>3. /\ clock' = clock + 1 /\ DOMAIN request' = Users
          /\ \A v \in Users \ {u} : request'[v] = request[v]
          /\ request'[u].step = "begun" /\ request'[u].op = op
          /\ RequestMove
      <3>. HIDE DEF op
      <3>. QED
        BY <2>2, BeginsFacts
    <2>4. RequestOK(request'[u])
      BY <2>3 DEF RequestOK, BegunOK
    <2>. QED
      BY <2>2, <2>3, <2>4, RequestsKept, AdminRowsKept DEF RequestsBegun, KeepsQuota, Running
  <1>5. CASE \E i \in invitations : BeginAccept(u, i)
    <2>1. PICK i \in invitations : BeginAccept(u, i)
      BY <1>5
    <2>2. /\ clock' = clock + 1 /\ DOMAIN request' = Users
          /\ \A v \in Users \ {u} : request'[v] = request[v]
          /\ request'[u] = [step |-> "begun", op |-> [name |-> "accept", invitation |-> i], at |-> clock']
          /\ events' = events /\ UNCHANGED <<role, site, invitations>>
      BY <2>1 DEF BeginAccept, Starts, AdminInv
    <2>3. RequestOK(request'[u])
      BY <2>2 DEF RequestOK, BegunOK, AdminInv, Invitations
    <2>. DEFINE p == [of |-> "request", by |-> u, at |-> clock']
    <2>4. p.at = clock' /\ BegunRequests' \subseteq BegunRequests \cup {p}
      BY <2>2 DEF BegunRequests
    <2>5. RequestMove
      <3>. HIDE DEF p
      <3>. QED
        BY <2>2, <2>4 DEF RequestMove, ChainMove
    <2>. QED
      BY <2>2, <2>3, <2>5, RequestsKept, AdminRowsKept DEF RequestsBegun, KeepsQuota, Running
  <1>. QED
    BY <1>1, <1>2, <1>3, <1>4, <1>5

\* What a commit writes to the row of the site.
LEMMA SiteUpdate ==
    ASSUME NEW A, NEW V, NEW W, NEW c \in [active : A, version : V, vendors : W],
           NEW a \in A, NEW v \in V, NEW w \in W
    PROVE  /\ LET d == [c EXCEPT !.active = a, !.version = v] IN
              /\ d \in [active : A, version : V, vendors : W]
              /\ d.active = a /\ d.version = v /\ d.vendors = c.vendors
           /\ LET d == [c EXCEPT !.version = v, !.vendors = w] IN
              /\ d \in [active : A, version : V, vendors : W]
              /\ d.active = c.active /\ d.version = v /\ d.vendors = w
  OBVIOUS

\* The numbers of the site, and their successors, have their types.
LEMMA SiteNumbers ==
    ASSUME AdminInv
    PROVE  /\ site \in [active : BOOLEAN, version : Nat \ {0}, vendors : Nat \ {0}]
           /\ site.active \in BOOLEAN
           /\ site.version \in Nat \ {0} /\ site.version + 1 \in Nat \ {0}
           /\ site.vendors \in Nat \ {0} /\ site.vendors + 1 \in Nat \ {0}
  BY DEF AdminInv, Sites

\* What AdministratorKept says of a step.
KeepsAdministrator ==
    Administered /\ ~Administered' =>
         \/ \E u \in Users : Running(u, "site") /\ ~request[u].op.active /\ request'[u] = Idle
         \/ \E u \in Users : /\ Running(u, "accept") /\ request'[u] = Idle
                             /\ request[u].op.invitation.role # "ORG_ADMIN"
         \/ \E u \in Users : /\ Running(u, "membership") /\ request'[u] = Idle
                             /\ Admins # request[u].seen

\* A membership that commits while the administrators are those that were
\* counted leaves one of them.
LEMMA CommitMembershipStep ==
    ASSUME AdminInv, RequestsBegun, NEW u \in Users, CommitMembership(u)
    PROVE  AdminInv' /\ RequestMove /\ KeepsAdministrator /\ KeepsQuota /\ MovesVersion
  <1>. DEFINE t == request[u].op.target
              r == request[u].op.role
  <1>1. /\ request[u].step = "begun" /\ request[u].op.name = "membership"
        /\ role' = [role EXCEPT ![t] = r] /\ Finishes(u) /\ UNCHANGED <<site, invitations>>
    BY DEF CommitMembership, Running
  <1>2. t \in Users /\ r \in Roles \cup {"NONE"}
        /\ (t \in request[u].seen /\ r # "ORG_ADMIN" => Cardinality(request[u].seen) > 1)
    BY <1>1 DEF AdminInv, RequestOK, BegunOK, Idle
  <1>3. /\ clock' = clock /\ DOMAIN request' = Users
        /\ \A v \in Users \ {u} : request'[v] = request[v]
        /\ request'[u] = Idle /\ RequestMove
    BY <1>1, FinishesFacts
  <1>4. \A v \in Users : RequestOK(request'[v])
    BY <1>3, RequestsKept DEF RequestOK
  <1>5. AdminInv'
    BY <1>1, <1>2, <1>3, <1>4 DEF AdminInv, Invitations
  <1>6. KeepsAdministrator
    <2>. SUFFICES ASSUME Administered, Admins = request[u].seen PROVE Administered'
      BY <1>1, <1>3 DEF KeepsAdministrator, Running
    <2>1. site'.active
      BY <1>1 DEF Administered
    <2>2. CASE t \in Admins /\ r # "ORG_ADMIN"
      <3>1. IsFiniteSet(Admins) /\ Cardinality(Admins) > 1
        BY <1>2, <2>2, UsersAssumption, FS_Subset DEF Admins
      <3>2. PICK a \in Admins : a # t
        <4>1. Cardinality({t}) = 1
          BY FS_Singleton
        <4>2. Admins # {t}
          BY <3>1, <4>1
        <4>. QED
          BY <2>2, <4>2
      <3>3. a \in Admins'
        BY <1>1, <1>2, <3>2 DEF Admins, AdminInv
      <3>. QED
        BY <2>1, <3>3 DEF Administered
    <2>3. CASE t \notin Admins \/ r = "ORG_ADMIN"
      <3>1. Admins \subseteq Admins'
        BY <1>1, <1>2, <2>3 DEF Admins, AdminInv
      <3>. QED
        BY <2>1, <3>1 DEF Administered
    <2>. QED
      BY <2>2, <2>3
  <1>7. KeepsQuota /\ MovesVersion
    BY <1>1, <1>3 DEF KeepsQuota, MovesVersion, Running, Idle
  <1>. QED
    BY <1>3, <1>5, <1>6, <1>7

\* Every other commit of a request.
LEMMA CommittingStep ==
    ASSUME AdminInv, RequestsBegun, NEW u \in Users,
           CommitSite(u) \/ CommitVendor(u) \/ CommitInvite(u) \/ CommitAccept(u)
    PROVE  AdminInv' /\ RequestMove /\ KeepsAdministrator /\ KeepsQuota /\ MovesVersion
  <1>1. request[u].step = "begun" /\ BegunOK(request[u]) /\ Finishes(u)
    BY DEF AdminInv, RequestOK, Idle, CommitSite, CommitVendor, CommitInvite, CommitAccept, Running
  <1>2. /\ clock' = clock /\ DOMAIN request' = Users
        /\ \A v \in Users \ {u} : request'[v] = request[v]
        /\ request'[u] = Idle /\ RequestMove
    BY <1>1, FinishesFacts
  <1>3. \A v \in Users : RequestOK(request'[v])
    BY <1>2, RequestsKept DEF RequestOK
  <1>4. KeepsQuota
    BY <1>2 DEF KeepsQuota, Running, Idle
  <1>5. CASE CommitSite(u)
    <2>1. /\ Running(u, "site") /\ request[u].op.active \in BOOLEAN
          /\ site' = [site EXCEPT !.active = request[u].op.active, !.version = @ + 1]
          /\ UNCHANGED <<role, invitations>>
      BY <1>1, <1>5 DEF CommitSite, BegunOK, Running
    <2>2. site' = [site EXCEPT !.active = request[u].op.active, !.version = site.version + 1]
      BY <2>1
    <2>3. site' \in Sites /\ site'.active = request[u].op.active /\ site'.version > site.version
      <3>. DEFINE a == request[u].op.active
      <3>1. a \in BOOLEAN /\ site' = [site EXCEPT !.active = a, !.version = site.version + 1]
        BY <2>1, <2>2
      <3>. HIDE DEF a
      <3>2. site' \in Sites /\ site'.active = a /\ site'.version = site.version + 1
        BY <3>1, SiteNumbers, SiteUpdate DEF Sites
      <3>. QED
        BY <3>2, SiteNumbers DEF a
    <2>4. AdminInv'
      BY <1>2, <1>3, <2>1, <2>3 DEF AdminInv, Invitations
    <2>5. KeepsAdministrator
      BY <1>2, <2>1, <2>3 DEF KeepsAdministrator, Administered, Admins
    <2>. QED
      BY <1>2, <1>4, <2>3, <2>4, <2>5, SiteNumbers DEF MovesVersion
  <1>6. CASE CommitVendor(u)
    <2>1. site' = [site EXCEPT !.version = @ + 1, !.vendors = @ + 1] /\ UNCHANGED <<role, invitations>>
      BY <1>6 DEF CommitVendor
    <2>2. site' = [site EXCEPT !.version = site.version + 1, !.vendors = site.vendors + 1]
      BY <2>1
    <2>3. site' \in Sites /\ site'.active = site.active /\ site'.version = site.version + 1
      BY <2>2, SiteNumbers, SiteUpdate DEF Sites
    <2>4. AdminInv'
      BY <1>2, <1>3, <2>1, <2>3 DEF AdminInv, Invitations
    <2>5. KeepsAdministrator
      BY <2>1, <2>3 DEF KeepsAdministrator, Administered, Admins
    <2>. QED
      BY <1>2, <1>4, <2>3, <2>4, <2>5, SiteNumbers DEF MovesVersion
  <1>7. CASE CommitInvite(u)
    <2>. DEFINE new == [id |-> request[u].at, user |-> request[u].op.target, role |-> request[u].op.role]
    <2>1. /\ invitations' = (invitations \ request[u].op.closes) \cup {new}
          /\ UNCHANGED <<role, site>>
      BY <1>7 DEF CommitInvite
    <2>2. request[u].op.name = "invite"
      BY <1>7 DEF CommitInvite, Running
    <2>3. new \in Invitations
      BY <1>1, <2>2 DEF RequestsBegun, BegunOK, Invitations
    <2>4. AdminInv'
      BY <1>2, <1>3, <2>1, <2>3 DEF AdminInv, Invitations
    <2>. QED
      BY <1>2, <1>4, <2>1, <2>4 DEF KeepsAdministrator, Administered, Admins, MovesVersion
  <1>8. CASE CommitAccept(u)
    <2>1. /\ Running(u, "accept") /\ request[u].op.invitation.role \in Roles
          /\ role' = [role EXCEPT ![u] = request[u].op.invitation.role]
          /\ invitations' = invitations \ {request[u].op.invitation} /\ UNCHANGED site
      BY <1>1, <1>8 DEF CommitAccept, BegunOK, Running
    <2>2. AdminInv'
      BY <1>2, <1>3, <2>1 DEF AdminInv, Invitations
    <2>3. KeepsAdministrator
      BY <1>2, <2>1 DEF KeepsAdministrator, Administered, Admins, AdminInv
    <2>. QED
      BY <1>2, <1>4, <2>1, <2>2, <2>3 DEF MovesVersion
  <1>. QED
    BY <1>5, <1>6, <1>7, <1>8

\* Every step of Administration.
LEMMA AdminStep ==
    ASSUME AdminInv, RequestsBegun, NEW users \in SUBSET Users, AdminNext(users)
    PROVE  AdminInv' /\ RequestMove /\ KeepsAdministrator /\ KeepsQuota /\ MovesVersion
  <1>1. ASSUME UNCHANGED <<role, site>> PROVE KeepsAdministrator /\ MovesVersion
    BY <1>1 DEF KeepsAdministrator, Administered, Admins, MovesVersion
  <1>2. ASSUME NEW u \in users, Authenticate(u) PROVE AdminInv' /\ RequestMove /\ KeepsQuota
    <2>. DEFINE q == [step |-> "authenticated", role |-> role[u]]
    <2>1. /\ q.step # "begun" /\ request' = [request EXCEPT ![u] = q]
          /\ UNCHANGED auditVars /\ UNCHANGED <<role, site, invitations>>
      BY <1>2 DEF Authenticate
    <2>2. RequestOK(q)
      BY <1>2 DEF RequestOK, AdminInv, Authenticate
    <2>. HIDE DEF q
    <2>3. /\ clock' = clock /\ DOMAIN request' = Users
          /\ \A v \in Users \ {u} : request'[v] = request[v]
          /\ request'[u] = q /\ RequestMove
      BY <2>1, OtherRequestFacts
    <2>. QED
      BY <2>1, <2>2, <2>3, RequestsKept, AdminRowsKept DEF RequestsBegun, KeepsQuota, Running
  <1>3. ASSUME NEW u \in users, RequestFails(u) PROVE AdminInv' /\ RequestMove /\ KeepsQuota
    <2>1. /\ Idle.step # "begun" /\ request' = [request EXCEPT ![u] = Idle]
          /\ UNCHANGED auditVars /\ UNCHANGED <<role, site, invitations>>
      BY <1>3 DEF RequestFails, Idle
    <2>2. RequestOK(Idle)
      BY DEF RequestOK
    <2>3. /\ clock' = clock /\ DOMAIN request' = Users
          /\ \A v \in Users \ {u} : request'[v] = request[v]
          /\ request'[u] = Idle /\ RequestMove
      BY <2>1, OtherRequestFacts
    <2>. QED
      BY <2>1, <2>2, <2>3, RequestsKept, AdminRowsKept DEF RequestsBegun, KeepsQuota, Running
  <1>4. ASSUME NEW i \in invitations, InvitationExpires(i) PROVE AdminInv' /\ RequestMove /\ KeepsQuota
    <2>1. /\ UNCHANGED <<clock, events, role, site, request>> /\ invitations' \subseteq invitations
      BY <1>4 DEF InvitationExpires, auditVars
    <2>2. RequestMove
      BY <2>1 DEF RequestMove, ChainMove, BegunRequests
    <2>3. AdminInv'
      BY <2>1 DEF AdminInv, Invitations
    <2>. QED
      BY <2>1, <2>2, <2>3 DEF KeepsQuota, Running
  <1>5. ASSUME NEW u \in users, NEW t \in users,
               \/ \E r \in Roles \cup {"NONE"} : BeginMembership(u, t, r)
               \/ \E active \in BOOLEAN : BeginSite(u, active)
               \/ BeginVendor(u)
               \/ \E r \in Roles : BeginInvite(u, t, r)
               \/ \E i \in invitations : BeginAccept(u, i)
        PROVE  AdminInv' /\ RequestMove /\ KeepsQuota /\ UNCHANGED <<role, site>>
    BY <1>5, BeginningStep
  <1>6. ASSUME NEW u \in users,
               \/ CommitMembership(u) \/ CommitSite(u) \/ CommitVendor(u)
               \/ CommitInvite(u) \/ CommitAccept(u)
        PROVE  AdminInv' /\ RequestMove /\ KeepsAdministrator /\ KeepsQuota /\ MovesVersion
    BY <1>6, CommitMembershipStep, CommittingStep
  <1>7. CASE \E u \in users : Authenticate(u) \/ RequestFails(u)
    BY <1>1, <1>2, <1>3, <1>7 DEF Authenticate, RequestFails
  <1>8. CASE \E i \in invitations : InvitationExpires(i)
    BY <1>1, <1>4, <1>8 DEF InvitationExpires
  <1>. QED
    BY <1>1, <1>5, <1>6, <1>7, <1>8 DEF AdminNext

\* The founder alone, and no transaction under way.
LEMMA AdminInitially ==
    ASSUME AdminInit
    PROVE  AdminInv /\ BegunRequests = {}
  <1>1. site \in Sites
    BY DEF AdminInit, Sites
  <1>2. \A u \in Users : request[u] = Idle
    BY DEF AdminInit
  <1>3. BegunRequests = {}
    BY <1>2 DEF BegunRequests, Idle
  <1>. QED
    BY <1>1, <1>2, <1>3, UsersAssumption DEF AdminInit, AdminInv, RequestOK, Roles

\* The invariant and a well-formed log imply the types.
LEMMA AdminSafe ==
    ASSUME AdminInv, LogOK(events, clock), clock \in 1 .. MaxClock
    PROVE  AdminTypeOK
  BY DEF AdminInv, LogOK, AdminTypeOK, Sites, Invitations, RequestOK, Idle

-----------------------------------------------------------------------------
(* DeviceAccess                                                            *)

\* The rows of the devices, with the copies that the devices hold.
DeviceTypes ==
    /\ DeviceTypeOK
    /\ bootstrap \in [Devices -> [version : Nat, vendors : Nat]]

\* A code that may still be used has not been used.
CodesUsedOnce ==
    \A c \in Codes :
        /\ code[c].status \in {"NONE", "OPEN"} => code[c].usedBy = {}
        /\ Cardinality(code[c].usedBy) <= 1

\* One transaction holds the row of the organization, and if it is an
\* enrollment the place that it has counted is still free.
OneHolder ==
    /\ \A e, f \in enrolling : e = f
    /\ \A u, v \in Users : Running(u, "quota") /\ Running(v, "quota") => u = v
    /\ \A u \in Users : Running(u, "quota") => enrolling = {}

\* The count that admitted an enrollment is still true.
PlaceFree == \A e \in enrolling : Cardinality(ActiveDevices) < deviceLimit

\* No device has a version that the site has not reached.
CopiesBehind ==
    \A d \in Devices :
        /\ bootstrap[d].version <= site.version
        /\ bootstrap[d].vendors # 0 /\ bootstrap[d].version = site.version
              => bootstrap[d].vendors = site.vendors

\* The invariant of Administration and DeviceAccess.
DeviceInv == AdminInv /\ DeviceTypes /\ CodesUsedOnce /\ OneHolder /\ PlaceFree /\ CopiesBehind

\* No device is enrolled and no code created.
LEMMA DeviceInitially ==
    ASSUME DeviceInit
    PROVE  DeviceInv /\ BegunRequests = {}
  <1>1. AdminInv /\ BegunRequests = {}
    BY AdminInitially DEF DeviceInit
  <1>2. Max(DeviceLimits) \in DeviceLimits
    <2>. DEFINE bound == 1000
    <2>1. /\ DeviceLimits \subseteq Nat /\ DeviceLimits # {}
          /\ bound \in Nat /\ \A n \in DeviceLimits : n <= bound
      BY DeviceAssumption
    <2>. HIDE DEF bound
    <2>. QED
      BY <2>1, MaxOfBounded
  <1>3. DeviceTypes
    BY <1>2 DEF DeviceInit, DeviceTypes, DeviceTypeOK, NoCopy
  <1>4. CodesUsedOnce
    BY FS_EmptySet DEF DeviceInit, CodesUsedOnce
  <1>5. OneHolder /\ PlaceFree
    BY DEF DeviceInit, AdminInit, OneHolder, PlaceFree, Running, Idle
  <1>6. CopiesBehind
    BY DEF DeviceInit, AdminInit, CopiesBehind, NoCopy
  <1>. QED
    BY <1>1, <1>3, <1>4, <1>5, <1>6 DEF DeviceInv

\* Fewer active devices leave the place free.
LEMMA FewerActive ==
    ASSUME PlaceFree, ActiveDevices' \subseteq ActiveDevices, deviceLimit' = deviceLimit,
           enrolling' \subseteq enrolling, deviceLimit \in Nat
    PROVE  PlaceFree'
  <1>1. IsFiniteSet(ActiveDevices) /\ IsFiniteSet(ActiveDevices')
    BY DeviceAssumption, FS_Subset DEF ActiveDevices
  <1>2. /\ Cardinality(ActiveDevices) \in Nat /\ Cardinality(ActiveDevices') \in Nat
        /\ Cardinality(ActiveDevices') <= Cardinality(ActiveDevices)
    BY <1>1, FS_CardinalityType, FS_Subset
  <1>. QED
    BY <1>2 DEF PlaceFree

\* The steps of Administration change neither devices nor codes.
LEMMA DevicesKept ==
    ASSUME DeviceInv, UNCHANGED <<deviceRows, enrolling, bootstrap>>, AdminInv',
           KeepsQuota, MovesVersion
    PROVE  DeviceInv'
  <1>1. DeviceTypes' /\ CodesUsedOnce'
    BY DEF DeviceInv, DeviceTypes, DeviceTypeOK, CodesUsedOnce, deviceRows
  <1>2. OneHolder'
    BY DEF DeviceInv, OneHolder, KeepsQuota
  <1>3. PlaceFree'
    BY DEF DeviceInv, PlaceFree, ActiveDevices, deviceRows
  <1>4. CopiesBehind'
    BY DEF DeviceInv, AdminInv, DeviceTypes, CopiesBehind, MovesVersion, Sites
  <1>. QED
    BY <1>1, <1>2, <1>3, <1>4 DEF DeviceInv

\* A request of an administrator about devices and codes, at once.
LEMMA CodeAndRevocationStep ==
    ASSUME DeviceInv, RequestsBegun, NEW u \in Users,
           (\E c \in Codes : CreateCode(u, c)) \/ (\E d \in Devices : RevokeDevice(u, d))
    PROVE  DeviceInv' /\ RequestMove
  <1>1. /\ Idle.step # "begun" /\ request' = [request EXCEPT ![u] = Idle]
        /\ UNCHANGED auditVars /\ UNCHANGED <<role, site, invitations>>
        /\ UNCHANGED <<deviceLimit, enrolling, bootstrap>>
    BY DEF CreateCode, RevokeDevice, Idle, orgRows
  <1>2. /\ clock' = clock /\ DOMAIN request' = Users
        /\ \A v \in Users \ {u} : request'[v] = request[v]
        /\ request'[u] = Idle /\ RequestMove
    BY <1>1, OtherRequestFacts DEF DeviceInv
  <1>3. RequestOK(Idle)
    BY DEF RequestOK
  <1>4. AdminInv' /\ KeepsQuota
    BY <1>1, <1>2, <1>3, RequestsKept, AdminRowsKept DEF DeviceInv, RequestsBegun, KeepsQuota, Running, Idle
  <1>5. OneHolder' /\ CopiesBehind'
    BY <1>1, <1>4 DEF DeviceInv, OneHolder, CopiesBehind, KeepsQuota
  <1>6. CASE \E c \in Codes : CreateCode(u, c)
    <2>1. PICK c \in Codes : CreateCode(u, c)
      BY <1>6
    <2>2. /\ code[c].status = "NONE" /\ code' = [code EXCEPT ![c].status = "OPEN"]
          /\ device' = device
      BY <2>1 DEF CreateCode
    <2>3. DeviceTypes' /\ CodesUsedOnce'
      BY <1>1, <2>2 DEF DeviceInv, DeviceTypes, DeviceTypeOK, CodesUsedOnce
    <2>4. PlaceFree'
      BY <1>1, <2>2 DEF DeviceInv, PlaceFree, ActiveDevices
    <2>. QED
      BY <1>2, <1>4, <1>5, <2>3, <2>4 DEF DeviceInv
  <1>7. CASE \E d \in Devices : RevokeDevice(u, d)
    <2>1. PICK d \in Devices : RevokeDevice(u, d)
      BY <1>7
    <2>2. device' = [device EXCEPT ![d] = "REVOKED"] /\ code' = code
      BY <2>1 DEF RevokeDevice
    <2>3. DeviceTypes' /\ CodesUsedOnce'
      BY <1>1, <2>2 DEF DeviceInv, DeviceTypes, DeviceTypeOK, CodesUsedOnce
    <2>4. ActiveDevices' \subseteq ActiveDevices
      BY <2>2 DEF DeviceInv, DeviceTypes, DeviceTypeOK, ActiveDevices
    <2>5. PlaceFree'
      BY <1>1, <2>4, FewerActive, DeviceAssumption DEF DeviceInv, DeviceTypes, DeviceTypeOK
    <2>. QED
      BY <1>2, <1>4, <1>5, <2>3, <2>5 DEF DeviceInv
  <1>. QED
    BY <1>6, <1>7

\* The transaction of a new quota.
LEMMA QuotaStep ==
    ASSUME DeviceInv, RequestsBegun, NEW u \in Users,
           (\E n \in DeviceLimits : BeginQuota(u, n)) \/ CommitQuota(u)
    PROVE  DeviceInv' /\ RequestMove
  <1>1. CASE \E n \in DeviceLimits : BeginQuota(u, n)
    <2>1. PICK n \in DeviceLimits : BeginQuota(u, n)
      BY <1>1
    <2>. DEFINE op == [name |-> "quota", limit |-> n]
    <2>2. /\ Begins(u, {"ORG_ADMIN"}, op) /\ events' = events
          /\ UNCHANGED <<role, site, invitations>>
          /\ UNCHANGED <<device, code, deviceLimit, enrolling, bootstrap>> /\ ~HoldsOrganization
      BY <2>1 DEF BeginQuota, orgRows, deviceRows
    <2>3. /\ clock' = clock + 1 /\ DOMAIN request' = Users
          /\ \A v \in Users \ {u} : request'[v] = request[v]
          /\ request'[u].step = "begun" /\ request'[u].op = op
          /\ RequestMove
      <3>. HIDE DEF op
      <3>. QED
        BY <2>2, BeginsFacts DEF DeviceInv
    <2>4. RequestOK(request'[u])
      BY <2>3 DEF RequestOK, BegunOK
    <2>5. AdminInv'
      BY <2>2, <2>3, <2>4, RequestsKept, AdminRowsKept DEF DeviceInv, RequestsBegun
    <2>6. OneHolder'
      BY <2>2, <2>3 DEF OneHolder, HoldsOrganization, Running
    <2>7. DeviceTypes' /\ CodesUsedOnce' /\ PlaceFree' /\ CopiesBehind'
      BY <2>2 DEF DeviceInv, DeviceTypes, DeviceTypeOK, CodesUsedOnce, PlaceFree, ActiveDevices, CopiesBehind
    <2>. QED
      BY <2>3, <2>5, <2>6, <2>7 DEF DeviceInv
  <1>2. CASE CommitQuota(u)
    <2>1. /\ request[u].step = "begun" /\ request[u].op.name = "quota" /\ Finishes(u)
          /\ deviceLimit' = request[u].op.limit
          /\ UNCHANGED <<role, site, invitations, device, code, enrolling, bootstrap>>
      BY <1>2 DEF CommitQuota, Running, orgRows
    <2>2. /\ clock' = clock /\ DOMAIN request' = Users
          /\ \A v \in Users \ {u} : request'[v] = request[v]
          /\ request'[u] = Idle /\ RequestMove
      BY <2>1, FinishesFacts DEF DeviceInv
    <2>3. RequestOK(Idle)
      BY DEF RequestOK
    <2>4. AdminInv'
      BY <2>1, <2>2, <2>3, RequestsKept, AdminRowsKept DEF DeviceInv, RequestsBegun
    <2>5. deviceLimit' \in DeviceLimits
      BY <2>1 DEF DeviceInv, AdminInv, RequestOK, BegunOK, Idle
    <2>6. enrolling' = {}
      BY <2>1 DEF DeviceInv, OneHolder, Running
    <2>7. OneHolder' /\ PlaceFree'
      BY <2>2, <2>6 DEF DeviceInv, OneHolder, PlaceFree, Running, Idle
    <2>8. DeviceTypes' /\ CodesUsedOnce' /\ CopiesBehind'
      BY <2>1, <2>5 DEF DeviceInv, DeviceTypes, DeviceTypeOK, CodesUsedOnce, CopiesBehind
    <2>. QED
      BY <2>2, <2>4, <2>7, <2>8 DEF DeviceInv
  <1>. QED
    BY <1>1, <1>2

\* The transaction that revokes all devices.
LEMMA RevokeAllStep ==
    ASSUME DeviceInv, RequestsBegun, NEW u \in Users, BeginRevokeAll(u) \/ CommitRevokeAll(u)
    PROVE  DeviceInv' /\ RequestMove
  <1>1. CASE BeginRevokeAll(u)
    <2>. DEFINE op == [name |-> "revoke all", devices |-> ActiveDevices]
    <2>1. /\ Begins(u, {"ORG_ADMIN"}, op) /\ events' = events
          /\ UNCHANGED <<role, site, invitations>> /\ UNCHANGED <<deviceRows, enrolling, bootstrap>>
      BY <1>1 DEF BeginRevokeAll, orgRows
    <2>2. /\ clock' = clock + 1 /\ DOMAIN request' = Users
          /\ \A v \in Users \ {u} : request'[v] = request[v]
          /\ request'[u].step = "begun" /\ request'[u].op = op
          /\ RequestMove
      <3>. HIDE DEF op
      <3>. QED
        BY <2>1, BeginsFacts DEF DeviceInv
    <2>3. RequestOK(request'[u])
      <3>1. op.name = "revoke all"
        OBVIOUS
      <3>. HIDE DEF op
      <3>. QED
        BY <2>2, <3>1 DEF RequestOK, BegunOK
    <2>4. AdminInv'
      <3>1. AdminInv /\ clock' \in Nat /\ clock' >= clock /\ invitations' \subseteq invitations
        <4>1. clock' = clock + 1 /\ invitations' = invitations
          BY <2>1, <2>2
        <4>. QED
          BY <4>1 DEF DeviceInv, RequestsBegun
      <3>2. \A v \in Users : RequestOK(request'[v])
        BY <2>2, <2>3, <3>1, RequestsKept
      <3>. QED
        BY <2>1, <2>2, <3>1, <3>2, AdminRowsKept
    <2>5. KeepsQuota /\ MovesVersion
      <3>1. op.name = "revoke all"
        OBVIOUS
      <3>. HIDE DEF op
      <3>. QED
        BY <2>1, <2>2, <3>1 DEF KeepsQuota, MovesVersion, Running
    <2>. QED
      BY <2>1, <2>2, <2>4, <2>5, DevicesKept
  <1>2. CASE CommitRevokeAll(u)
    <2>1. /\ request[u].step = "begun" /\ Finishes(u)
          /\ device' = [d \in Devices |-> IF d \in request[u].op.devices THEN "REVOKED" ELSE device[d]]
          /\ UNCHANGED <<role, site, invitations, code, deviceLimit, enrolling, bootstrap>>
      BY <1>2 DEF CommitRevokeAll, Running, orgRows
    <2>2. /\ clock' = clock /\ DOMAIN request' = Users
          /\ \A v \in Users \ {u} : request'[v] = request[v]
          /\ request'[u] = Idle /\ RequestMove
      BY <2>1, FinishesFacts DEF DeviceInv
    <2>3. RequestOK(Idle)
      BY DEF RequestOK
    <2>4. AdminInv'
      BY <2>1, <2>2, <2>3, RequestsKept, AdminRowsKept DEF DeviceInv, RequestsBegun
    <2>5. DeviceTypes' /\ CodesUsedOnce' /\ CopiesBehind'
      BY <2>1 DEF DeviceInv, DeviceTypes, DeviceTypeOK, CodesUsedOnce, CopiesBehind
    <2>6. OneHolder'
      BY <2>1, <2>2 DEF DeviceInv, OneHolder, Running, Idle
    <2>7. ActiveDevices' \subseteq ActiveDevices
      BY <2>1 DEF ActiveDevices
    <2>8. PlaceFree'
      <3>1. deviceLimit \in Nat
        BY DeviceAssumption DEF DeviceInv, DeviceTypes, DeviceTypeOK
      <3>. QED
        BY <2>1, <2>7, <3>1, FewerActive DEF DeviceInv
    <2>. QED
      BY <2>2, <2>4, <2>5, <2>6, <2>8 DEF DeviceInv
  <1>. QED
    BY <1>1, <1>2

\* An enrollment, the end of a code, and a download of the configuration.
LEMMA DeviceOwnStep ==
    ASSUME DeviceInv, NEW devices \in SUBSET Devices, NEW codes \in SUBSET Codes,
           \/ \E c \in codes, d \in devices : BeginEnrollment(c, d)
           \/ \E c \in codes : CodeExpires(c)
           \/ \E e \in enrolling : CommitEnrollment(e) \/ EnrollmentFails(e)
           \/ \E d \in devices : BootstrapSite(d) \/ BootstrapVendors(d)
    PROVE  DeviceInv' /\ UNCHANGED adminVars
  <1>. USE DEF DeviceInv
  <1>1. UNCHANGED adminVars
    BY DEF BeginEnrollment, CodeExpires, CommitEnrollment, EnrollmentFails, BootstrapSite, BootstrapVendors
  <1>2. UNCHANGED <<clock, events, role, site, invitations, request>>
    BY <1>1 DEF adminVars, auditVars
  <1>3. AdminInv'
    BY <1>2 DEF AdminInv, Invitations
  <1>4. \A u \in Users : Running(u, "quota")' <=> Running(u, "quota")
    BY <1>2 DEF Running
  <1>5. ASSUME NEW c \in codes, NEW d \in devices, BeginEnrollment(c, d) PROVE DeviceInv'
    <2>1. /\ enrolling = {} /\ \A u \in Users : ~Running(u, "quota")
          /\ enrolling' = {[code |-> c, device |-> d]}
          /\ UNCHANGED <<device, code, deviceLimit, bootstrap>>
          /\ Cardinality(ActiveDevices) < deviceLimit
      BY <1>5 DEF BeginEnrollment, HoldsOrganization, deviceRows
    <2>2. DeviceTypes' /\ CodesUsedOnce' /\ CopiesBehind'
      BY <1>2, <2>1 DEF DeviceTypes, DeviceTypeOK, CodesUsedOnce, CopiesBehind
    <2>3. OneHolder' /\ PlaceFree'
      BY <1>4, <2>1 DEF OneHolder, PlaceFree, ActiveDevices
    <2>. QED
      BY <1>3, <2>2, <2>3
  <1>6. ASSUME NEW c \in codes, CodeExpires(c) PROVE DeviceInv'
    <2>1. /\ code[c].status = "OPEN" /\ code' = [code EXCEPT ![c].status = "EXPIRED"]
          /\ UNCHANGED <<device, deviceLimit, enrolling, bootstrap>>
      BY <1>6 DEF CodeExpires
    <2>2. DeviceTypes' /\ CodesUsedOnce'
      BY <2>1 DEF DeviceTypes, DeviceTypeOK, CodesUsedOnce
    <2>3. OneHolder' /\ PlaceFree' /\ CopiesBehind'
      BY <1>2, <1>4, <2>1 DEF OneHolder, PlaceFree, ActiveDevices, CopiesBehind
    <2>. QED
      BY <1>3, <2>2, <2>3
  <1>7. ASSUME NEW e \in enrolling, CommitEnrollment(e) PROVE DeviceInv'
    <2>1. e.code \in Codes /\ e.device \in Devices
      BY DEF DeviceTypes, DeviceTypeOK
    <2>2. /\ enrolling' = {} /\ code[e.code].status = "OPEN" /\ code[e.code].usedBy = {}
          /\ device' = [device EXCEPT ![e.device] = "ACTIVE"]
          /\ UNCHANGED <<deviceLimit, bootstrap>>
      BY <1>7, <2>1 DEF CommitEnrollment, OneHolder, CodesUsedOnce
    <2>3. code' = [code EXCEPT ![e.code] = [status |-> "USED", usedBy |-> {e.device}]]
      BY <1>7, <2>2 DEF CommitEnrollment
    <2>4. DeviceTypes'
      BY <2>1, <2>2, <2>3 DEF DeviceTypes, DeviceTypeOK
    <2>5. Cardinality({e.device}) = 1
      BY FS_Singleton
    <2>6. CodesUsedOnce'
      BY <2>1, <2>3, <2>5 DEF DeviceTypes, DeviceTypeOK, CodesUsedOnce
    <2>7. OneHolder' /\ PlaceFree' /\ CopiesBehind'
      BY <1>2, <1>4, <2>2 DEF OneHolder, PlaceFree, CopiesBehind
    <2>. QED
      BY <1>3, <2>4, <2>6, <2>7
  <1>8. ASSUME NEW e \in enrolling, EnrollmentFails(e) PROVE DeviceInv'
    <2>1. enrolling' = enrolling \ {e} /\ UNCHANGED <<device, code, deviceLimit, bootstrap>>
      BY <1>8 DEF EnrollmentFails, deviceRows
    <2>2. DeviceTypes' /\ CodesUsedOnce' /\ CopiesBehind'
      BY <1>2, <2>1 DEF DeviceTypes, DeviceTypeOK, CodesUsedOnce, CopiesBehind
    <2>3. OneHolder' /\ PlaceFree'
      BY <1>4, <2>1 DEF OneHolder, PlaceFree, ActiveDevices
    <2>. QED
      BY <1>3, <2>2, <2>3
  <1>9. ASSUME NEW d \in devices, BootstrapSite(d) \/ BootstrapVendors(d) PROVE DeviceInv'
    <2>1. UNCHANGED <<device, code, deviceLimit, enrolling>>
      BY <1>9 DEF BootstrapSite, BootstrapVendors, deviceRows
    <2>2. site.version \in Nat /\ site.vendors \in Nat
      BY DEF AdminInv, Sites
    <2>3. bootstrap' \in [Devices -> [version : Nat, vendors : Nat]] /\ CopiesBehind'
      <3>1. CASE bootstrap' = [bootstrap EXCEPT ![d] = [version |-> site.version, vendors |-> 0]]
        BY <1>2, <2>2, <3>1 DEF DeviceTypes, CopiesBehind
      <3>2. CASE bootstrap' = [bootstrap EXCEPT ![d].vendors = site.vendors]
        BY <1>2, <2>2, <3>2 DEF DeviceTypes, CopiesBehind
      <3>. QED
        BY <1>9, <3>1, <3>2 DEF BootstrapSite, BootstrapVendors
    <2>4. DeviceTypes' /\ CodesUsedOnce' /\ OneHolder' /\ PlaceFree'
      BY <1>4, <2>1, <2>3 DEF DeviceTypes, DeviceTypeOK, CodesUsedOnce, OneHolder, PlaceFree, ActiveDevices
    <2>. QED
      BY <1>3, <2>3, <2>4
  <1>. QED
    BY <1>1, <1>5, <1>6, <1>7, <1>8, <1>9

\* Every step of DeviceAccess.
LEMMA DeviceStep ==
    ASSUME DeviceInv, RequestsBegun, NEW users \in SUBSET Users, NEW devices \in SUBSET Devices,
           NEW codes \in SUBSET Codes, DeviceNext(users, devices, codes)
    PROVE  DeviceInv' /\ RequestMove /\ KeepsAdministrator
  <1>1. CASE AdminNext(users) /\ UNCHANGED <<deviceRows, enrolling, bootstrap>>
    BY <1>1, AdminStep, DevicesKept DEF DeviceInv
  <1>2. ASSUME NEW u \in users,
               \/ \E c \in codes : CreateCode(u, c)
               \/ \E d \in devices : RevokeDevice(u, d)
               \/ \E n \in DeviceLimits : BeginQuota(u, n)
               \/ CommitQuota(u) \/ BeginRevokeAll(u) \/ CommitRevokeAll(u)
        PROVE  DeviceInv' /\ RequestMove /\ KeepsAdministrator
    <2>1. UNCHANGED <<role, site>>
      BY <1>2 DEF CreateCode, RevokeDevice, BeginQuota, CommitQuota, BeginRevokeAll, CommitRevokeAll, orgRows
    <2>2. KeepsAdministrator
      BY <2>1 DEF KeepsAdministrator, Administered, Admins
    <2>3. u \in Users /\ codes \subseteq Codes /\ devices \subseteq Devices
      OBVIOUS
    <2>. QED
      BY <1>2, <2>2, <2>3, CodeAndRevocationStep, QuotaStep, RevokeAllStep
  <1>3. CASE \/ \E c \in codes, d \in devices : BeginEnrollment(c, d)
             \/ \E c \in codes : CodeExpires(c)
             \/ \E e \in enrolling : CommitEnrollment(e) \/ EnrollmentFails(e)
             \/ \E d \in devices : BootstrapSite(d) \/ BootstrapVendors(d)
    <2>1. DeviceInv' /\ UNCHANGED <<clock, events, role, site, request>>
      BY <1>3, DeviceOwnStep DEF adminVars, auditVars
    <2>2. KeepsAdministrator
      BY <2>1 DEF KeepsAdministrator, Administered, Admins
    <2>3. RequestMove
      BY <2>1 DEF RequestMove, ChainMove, BegunRequests
    <2>. QED
      BY <2>1, <2>2, <2>3
  <1>. QED
    BY <1>1, <1>2, <1>3 DEF DeviceNext

\* The invariant implies the properties.
LEMMA DeviceSafe ==
    ASSUME DeviceInv
    PROVE  DeviceTypeOK /\ EnrollmentsWithinLimit /\ VendorsAsNewAsVersion
  BY DEF DeviceInv, DeviceTypes, CodesUsedOnce, PlaceFree, CopiesBehind, EnrollmentsWithinLimit,
         VendorsAsNewAsVersion
=============================================================================
