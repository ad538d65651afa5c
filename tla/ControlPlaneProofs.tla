------------------------- MODULE ControlPlaneProofs -------------------------
(***************************************************************************)
(* The theorems of ControlPlane: for any number of users, devices, codes,  *)
(* reviewers, receipts, jobs, requests, handlers, logins and operators,    *)
(* every limit and every workload, the composed system keeps each of its   *)
(* invariants and takes no step that its two action properties forbid.     *)
(*                                                                         *)
(* The components that append to the audit chain meet here.  Each showed   *)
(* what it does to the chain and to its own transactions (ChainMove); the  *)
(* transactions of the others are still under way with starts of their     *)
(* own, so that every start stays unique (Chain), and a step of one        *)
(* component leaves the rows of the others alone.                          *)
(***************************************************************************)
EXTENDS ControlPlane, ServiceProofs, DeviceAccessProofs, RetentionProofs

\* The transactions on the chain that have begun.
Open == BegunRequests \cup Arrivals \cup Reviews

\* The inductive invariant of the part of the system that shares the chain.
ChainInv ==
    /\ DeviceInv /\ RetentionInv
    /\ Chain(Open, events, clock)
    /\ clock \in 1 .. MaxClock

\* ... and of all of it.
PlaneInv ==
    /\ ChainInv
    /\ RequestsInv /\ IngressInv /\ AuthInv
    /\ PilotInv /\ TestInv

-----------------------------------------------------------------------------
(* The chain and the transactions of its writers.                          *)

\* A log of one event, that of the bootstrap.
LEMMA ChainInitially ==
    ASSUME AuditInit
    PROVE  Chain({}, events, clock) /\ clock \in 1 .. MaxClock
  <1>. PICK e : e = [at |-> 1, previous |-> Null, receipt |-> NoReceipt]
    OBVIOUS
  <1>1. events = {e} /\ e.at = 1 /\ e.previous = 0 /\ clock = 1
    BY DEF AuditInit, Null
  <1>2. IsFiniteSet(events)
    BY <1>1, FS_Singleton
  <1>. QED
    BY <1>1, <1>2, ClockAssumption DEF Chain, LogOK, LogOrdered, StartsUnique

\* Whatever a component that shares the chain does, time starts one more
\* transaction at most, within the bound.
LEMMA ClockMoves ==
    ASSUME ChainNext, clock \in 1 .. MaxClock
    PROVE  clock' \in 1 .. MaxClock /\ clock' >= clock
  <1>0. clock \in Nat /\ MaxClock \in Nat
    BY ClockAssumption
  <1>1. ASSUME clock' = clock \/ Starts PROVE clock' \in 1 .. MaxClock /\ clock' >= clock
    BY <1>0, <1>1 DEF Starts
  <1>2. ASSUME NEW people, NEW devices, NEW codes, DeviceNext(people, devices, codes)
        PROVE  clock' = clock \/ Starts
    <2>1. CASE AdminNext(people)
      BY <2>1 DEF AdminNext, Authenticate, RequestFails, BeginMembership, CommitMembership, BeginSite,
                  CommitSite, BeginVendor, CommitVendor, BeginInvite, CommitInvite, BeginAccept,
                  CommitAccept, InvitationExpires, Begins, Finishes, auditVars
    <2>2. CASE ~AdminNext(people)
      BY <1>2, <2>2 DEF DeviceNext, CreateCode, RevokeDevice, BeginQuota, CommitQuota, BeginRevokeAll,
                        CommitRevokeAll, BeginEnrollment, CodeExpires, CommitEnrollment, EnrollmentFails,
                        BootstrapSite, BootstrapVendors, Begins, Finishes, auditVars, adminVars
    <2>. QED
      BY <2>1, <2>2
  <1>3. ASSUME NEW reviewers, NEW receipts, ReviewNext(reviewers, receipts)
        PROVE  clock' = clock \/ Starts
    BY <1>3 DEF ReviewNext, ShowResult, ArrivalFails, Load, BeginReview, Decide, ReviewFails, auditVars
  <1>4. ASSUME NEW r, NEW v, EdgeReview(r, v) PROVE clock' = clock \/ Starts
    BY <1>4 DEF EdgeReview, auditVars
  <1>5. ASSUME NEW jobs, NEW receipts, RetentionNext(jobs, receipts) PROVE clock' = clock \/ Starts
    BY <1>5 DEF RetentionNext, BeginUpload, ImageArrives, Ages, StartRetention, MarkPending, DeleteObject,
                DeleteFails, MarkRetryable, MarkCompleted, StartPurge, Purge, RetentionDies,
                BeginArrival, ReceiptArrives, reviewVars, auditVars
  <1>6. clock' = clock \/ Starts
    BY <1>2, <1>3, <1>4, <1>5, Zenon DEF ChainNext
  <1>. QED
    BY <1>1, <1>6

\* The kinds of transactions are told apart by name.
LEMMA WritersDisjoint ==
    BegunRequests \cap (Arrivals \cup Reviews) = {} /\ (Arrivals \cup Reviews) \cap BegunRequests = {}
  <1>1. \A p \in BegunRequests : p.of = "request"
    BY DEF BegunRequests
  <1>2. \A p \in Arrivals \cup Reviews : p.of # "request"
    BY DEF Arrivals, Reviews
  <1>. QED
    BY <1>1, <1>2

\* What the unique starts mean for each component.
LEMMA StartsOfOthers ==
    ASSUME Chain(Open, events, clock)
    PROVE  RequestsBegun /\ ReviewsBegun
  <1>1. /\ clock \in Nat /\ IsFiniteSet(events)
        /\ \A p \in Open : p.at \in 1 .. clock /\ \A e \in events : e.at # p.at
    BY DEF Chain, LogOK, StartsUnique
  <1>2. \A u \in Users : request[u].step = "begun" => request[u].at \in 1 .. clock
    <2>. SUFFICES ASSUME NEW u \in Users, request[u].step = "begun" PROVE request[u].at \in 1 .. clock
      OBVIOUS
    <2>1. [of |-> "request", by |-> u, at |-> request[u].at] \in Open
      BY DEF Open, BegunRequests
    <2>. QED
      BY <1>1, <2>1
  <1>3. \A r \in Receipts : arriving[r] # Null => \A e \in events : e.at # arriving[r]
    <2>. SUFFICES ASSUME NEW r \in Receipts, arriving[r] # Null
                  PROVE  \A e \in events : e.at # arriving[r]
      OBVIOUS
    <2>1. [of |-> "arrival", by |-> r, at |-> arriving[r]] \in Open
      BY DEF Open, Arrivals
    <2>. QED
      BY <1>1, <2>1
  <1>4. \A w \in Reviewers : copies[w].step = "begun" => \A e \in events : e.at # copies[w].at
    <2>. SUFFICES ASSUME NEW w \in Reviewers, copies[w].step = "begun"
                  PROVE  \A e \in events : e.at # copies[w].at
      OBVIOUS
    <2>1. [of |-> "review", by |-> w, at |-> copies[w].at] \in Open
      BY DEF Open, Reviews
    <2>. QED
      BY <1>1, <2>1
  <1>. QED
    BY <1>1, <1>2, <1>3, <1>4 DEF RequestsBegun, ReviewsBegun

\* A step of administrators or devices.
LEMMA OrganizationStep ==
    ASSUME ChainInv, NEW people \in SUBSET Users, NEW devices \in SUBSET Devices,
           NEW codes \in SUBSET Codes, DeviceNext(people, devices, codes),
           UNCHANGED <<reviewRows, retentionRows, job>>
    PROVE  DeviceInv' /\ RetentionInv' /\ Chain(Open, events, clock)' /\ KeepsAdministrator
  <1>1. RequestsBegun /\ IsFiniteSet(events)
    BY StartsOfOthers DEF ChainInv, Chain, LogOK
  <1>2. DeviceInv' /\ RequestMove /\ KeepsAdministrator
    BY <1>1, DeviceStep DEF ChainInv
  <1>. DEFINE others == Arrivals \cup Reviews
  <1>3. Arrivals' = Arrivals /\ Reviews' = Reviews
    BY DEF Arrivals, Reviews, reviewRows
  <1>4. Open = BegunRequests \cup others /\ Open' = BegunRequests' \cup others
    BY <1>3 DEF Open
  <1>5. BegunRequests \cap others = {}
    BY WritersDisjoint
  <1>6. ChainMove(Open, events, clock, Open', events', clock')
    <2>. HIDE DEF others
    <2>. QED
      BY <1>2, <1>4, <1>5, ChainMoveAmongOthers DEF RequestMove
  <1>7. Chain(Open', events', clock')
    BY <1>6, ChainStep DEF ChainInv
  <1>8. \/ events' = events
        \/ \E at : events' = Append(events, at, NoReceipt) /\ \A e \in events : e.at # at
    <2>1. \A u \in Users : request[u].step = "begun" => \A e \in events : e.at # request[u].at
      <3>. SUFFICES ASSUME NEW u \in Users, request[u].step = "begun"
                    PROVE  \A e \in events : e.at # request[u].at
        OBVIOUS
      <3>1. [of |-> "request", by |-> u, at |-> request[u].at] \in Open
        BY DEF Open, BegunRequests
      <3>. QED
        BY <3>1 DEF ChainInv, Chain, StartsUnique
    <2>2. events' = events \/ \E u \in Users : request[u].step = "begun" /\ events' = Append(events, request[u].at, NoReceipt)
      <3>1. CASE AdminNext(people)
        BY <3>1 DEF AdminNext, Authenticate, RequestFails, BeginMembership, CommitMembership, BeginSite,
                    CommitSite, BeginVendor, CommitVendor, BeginInvite, CommitInvite, BeginAccept,
                    CommitAccept, InvitationExpires, Finishes, Running, auditVars
      <3>2. CASE ~AdminNext(people)
        BY <3>2 DEF DeviceNext, CreateCode, RevokeDevice, BeginQuota, CommitQuota, BeginRevokeAll,
                    CommitRevokeAll, BeginEnrollment, CodeExpires, CommitEnrollment, EnrollmentFails,
                    BootstrapSite, BootstrapVendors, Finishes, Running, auditVars, adminVars
      <3>. QED
        BY <3>1, <3>2
    <2>. QED
      BY <2>1, <2>2
  <1>9. RetentionInv'
    BY <1>1, <1>8, RetentionKept DEF ChainInv
  <1>. QED
    BY <1>2, <1>7, <1>9

\* A step of reviewers, uploads or retention jobs.
LEMMA ReceiptStep ==
    ASSUME ChainInv, UNCHANGED organizationVars, clock' \in 1 .. MaxClock, clock' >= clock,
           RetentionInv', ReviewMove
    PROVE  DeviceInv' /\ RetentionInv' /\ Chain(Open, events, clock)' /\ KeepsAdministrator
  <1>1. /\ UNCHANGED <<role, site, invitations, request>>
        /\ UNCHANGED <<deviceRows, enrolling, bootstrap>>
    BY DEF organizationVars
  <1>2. AdminInv'
    <2>1. /\ RequestsBegun /\ AdminInv /\ clock' \in Nat
      BY StartsOfOthers DEF ChainInv, DeviceInv
    <2>2. DOMAIN request' = Users /\ \A v \in Users : RequestOK(request'[v])
      BY <1>1, <2>1 DEF AdminInv
    <2>. QED
      BY <1>1, <2>1, <2>2, AdminRowsKept
  <1>3. KeepsQuota /\ MovesVersion /\ KeepsAdministrator
    BY <1>1 DEF KeepsQuota, MovesVersion, KeepsAdministrator, Running, Administered, Admins
  <1>4. DeviceInv'
    BY <1>1, <1>2, <1>3, DevicesKept DEF ChainInv
  <1>. DEFINE open == Arrivals \cup Reviews
  <1>5. BegunRequests' = BegunRequests
    BY <1>1 DEF BegunRequests
  <1>6. Open = open \cup BegunRequests /\ Open' = open' \cup BegunRequests
    BY <1>5 DEF Open
  <1>7. open \cap BegunRequests = {}
    BY WritersDisjoint
  <1>8. ChainMove(open, events, clock, open', events', clock')
    BY DEF ReviewMove
  <1>9. ChainMove(Open, events, clock, Open', events', clock')
    <2>. HIDE DEF open
    <2>. QED
      BY <1>6, <1>7, <1>8, ChainMoveAmongOthers
  <1>10. Chain(Open', events', clock')
    BY <1>9, ChainStep DEF ChainInv
  <1>. QED
    BY <1>3, <1>4, <1>10

\* Every step of the components that share the chain.
LEMMA ChainNextStep ==
    ASSUME ChainInv, ChainNext
    PROVE  ChainInv' /\ KeepsAdministrator
  <1>1. clock' \in 1 .. MaxClock /\ clock' >= clock
    BY ClockMoves DEF ChainInv
  <1>2. ReviewsBegun /\ RetentionInv
    BY StartsOfOthers DEF ChainInv
  <1>3. CASE /\ DeviceNext(Users \cap atWork.actors, Devices \cap atWork.actors, Codes \cap atWork.actors)
             /\ UNCHANGED <<reviewRows, retentionRows, job>>
    BY <1>1, <1>3, OrganizationStep DEF ChainInv
  <1>4. CASE /\ ReviewNext(Reviewers \cap atWork.actors, Receipts \cap atWork.actors)
             /\ UNCHANGED <<retentionRows, job, organizationVars>>
    <2>1. RetentionInv' /\ ReviewMove
      BY <1>2, <1>4, ReviewStep
    <2>. QED
      BY <1>1, <1>4, <2>1, ReceiptStep DEF ChainInv
  <1>5. CASE /\ \E r \in Receipts \cap atWork.actors, v \in 1 .. MaxVersion : EdgeReview(r, v)
             /\ UNCHANGED <<retentionRows, job, organizationVars>>
    <2>1. RetentionInv' /\ ReviewMove
      BY <1>2, <1>5, ReviewStep
    <2>. QED
      BY <1>1, <1>5, <2>1, ReceiptStep DEF ChainInv
  <1>6. CASE /\ RetentionNext(Jobs \cap atWork.actors, Receipts \cap atWork.actors)
             /\ UNCHANGED organizationVars
    <2>1. RetentionInv' /\ ReviewMove
      BY <1>2, <1>6, RetentionStep
    <2>. QED
      BY <1>1, <1>6, <2>1, ReceiptStep DEF ChainInv
  <1>. QED
    BY <1>3, <1>4, <1>5, <1>6 DEF ChainNext

-----------------------------------------------------------------------------
(* The whole system.                                                       *)

\* The system starts with the bootstrap's event and nothing under way.
LEMMA PlaneInitially == PlaneInit => PlaneInv
  <1>. SUFFICES ASSUME PlaneInit PROVE PlaneInv
    OBVIOUS
  <1>1. DeviceInv /\ BegunRequests = {}
    BY DeviceInitially DEF PlaneInit
  <1>2. RetentionInv /\ Arrivals = {} /\ Reviews = {}
    BY RetentionInitially DEF PlaneInit
  <1>3. Chain({}, events, clock) /\ clock \in 1 .. MaxClock
    BY ChainInitially DEF PlaneInit, RetentionInit, ReviewInit
  <1>4. Open = {}
    BY <1>1, <1>2 DEF Open
  <1>5. ChainInv
    BY <1>1, <1>2, <1>3, <1>4 DEF ChainInv
  <1>. QED
    BY <1>5, RequestsInitially, IngressInitially, AuthInitially, TestInitially DEF PlaneInit, PlaneInv

\* The invariant says nothing of what the other components do.
LEMMA ChainRests ==
    ASSUME ChainInv, UNCHANGED chainVars
    PROVE  ChainInv' /\ KeepsAdministrator
  <1>1. /\ UNCHANGED organizationVars /\ UNCHANGED <<reviewRows, retentionRows, job>>
        /\ UNCHANGED <<clock, events>>
    BY DEF chainVars, retentionVars, reviewVars, auditVars
  <1>2. RetentionInv'
    BY <1>1, RetentionKept DEF ChainInv, Chain, LogOK
  <1>3. ReviewMove
    BY <1>1 DEF ReviewMove, ChainMove, Arrivals, Reviews, reviewRows
  <1>4. clock' \in 1 .. MaxClock /\ clock' >= clock
    BY <1>1 DEF ChainInv
  <1>5. DeviceInv' /\ Chain(Open, events, clock)' /\ KeepsAdministrator
    BY <1>1, <1>2, <1>3, <1>4, ReceiptStep
  <1>. QED
    BY <1>2, <1>4, <1>5 DEF ChainInv

\* Components outside the chain rest while another one steps.
LEMMA ServicesRest ==
    ASSUME PlaneInv
    PROVE  /\ UNCHANGED requestVars => RequestsInv'
           /\ UNCHANGED ingressVars => IngressInv'
           /\ UNCHANGED authVars => AuthInv'
           /\ UNCHANGED testVars => PilotInv' /\ TestInv' /\ EndsCleanly
  <1>1. ASSUME UNCHANGED requestVars PROVE RequestsInv'
    BY <1>1 DEF PlaneInv, RequestsInv, RequestsTypeOK, NonceOutlivesWindow, requestVars
  <1>2. ASSUME UNCHANGED ingressVars PROVE IngressInv'
    BY <1>2 DEF PlaneInv, IngressInv, ingressVars
  <1>3. ASSUME UNCHANGED authVars PROVE AuthInv'
    BY <1>3 DEF PlaneInv, AuthInv, AuthTypeOK, LockoutFollowsFailures, authVars
  <1>4. ASSUME UNCHANGED testVars PROVE PilotInv' /\ TestInv' /\ EndsCleanly
    <2>1. /\ UNCHANGED <<mode, ended, configured, organizations, users, enrolled, command, purge, overrun>>
          /\ UNCHANGED <<run, worker, testRows>>
      BY <1>4 DEF testVars, pilotVars, pilotRows, history
    <2>2. PilotInv'
      BY <2>1, PilotKept DEF PlaneInv
    <2>3. TestInv'
      BY <2>1, TestKept DEF PlaneInv
    <2>4. EndsCleanly
      BY <2>1 DEF EndsCleanly, Active
    <2>. QED
      BY <2>2, <2>3, <2>4
  <1>. QED
    BY <1>1, <1>2, <1>3, <1>4

\* A step of any component keeps the invariant of every one.
LEMMA PlaneStep ==
    ASSUME PlaneInv, [PlaneNext]_planeVars
    PROVE  PlaneInv' /\ KeepsAdministrator /\ EndsCleanly
  <1>1. CASE ChainNext /\ UNCHANGED <<localVars, testVars>>
    BY <1>1, ChainNextStep, ServicesRest DEF PlaneInv, localVars
  <1>2. CASE RequestsNext(Nonces \cap atWork.actors) /\ UNCHANGED <<chainVars, ingressVars, authVars, testVars>>
    BY <1>2, RequestsStep, ChainRests, ServicesRest DEF PlaneInv
  <1>3. CASE IngressNext(Handlers \cap atWork.actors) /\ UNCHANGED <<chainVars, requestVars, authVars, testVars>>
    BY <1>3, IngressStep, ChainRests, ServicesRest DEF PlaneInv
  <1>4. CASE AuthNext(Logins \cap atWork.actors) /\ UNCHANGED <<chainVars, requestVars, ingressVars, testVars>>
    BY <1>4, AuthStep, ChainRests, ServicesRest DEF PlaneInv
  <1>5. CASE /\ PilotNext(Operators \cap atWork.actors)
             /\ UNCHANGED <<chainVars, localVars, run, worker, testRows>>
    <2>1. PilotInv' /\ TestInv'
      BY <1>5, PilotStep, TestKept DEF PlaneInv
    <2>2. EndsCleanly
      BY <1>5 DEF EndsCleanly, Active
    <2>. QED
      BY <1>5, <2>1, <2>2, ChainRests, ServicesRest DEF PlaneInv, localVars
  <1>6. CASE TestNext /\ UNCHANGED <<chainVars, localVars>>
    BY <1>6, TestStep, ChainRests, ServicesRest DEF PlaneInv, localVars
  <1>7. CASE UNCHANGED planeVars
    BY <1>7, ChainRests, ServicesRest DEF PlaneInv, planeVars, localVars
  <1>. QED
    BY <1>1, <1>2, <1>3, <1>4, <1>5, <1>6, <1>7 DEF PlaneNext

\* The invariant holds in every state of every behaviour.
THEOREM PlaneInvariant == PlaneSpec => []PlaneInv
  <1>1. PlaneInit => PlaneInv
    BY PlaneInitially
  <1>2. PlaneInv /\ [PlaneNext]_planeVars => PlaneInv'
    BY PlaneStep
  <1>. QED
    BY <1>1, <1>2, PTL DEF PlaneSpec

\* Every variable of the control plane keeps its type.
THEOREM PlaneTypeCorrect == PlaneSpec => []PlaneTypeOK
  <1>1. PlaneInv => PlaneTypeOK
    <2>1. PlaneInv => AdminTypeOK /\ DeviceTypeOK /\ RetentionTypeOK
      BY AdminSafe, DeviceSafe, RetentionSafe DEF PlaneInv, ChainInv, Chain, DeviceInv
    <2>. QED
      BY <2>1, IngressSafe, AuthSafe, TestTyped DEF PlaneInv, PlaneTypeOK
  <1>. QED
    BY <1>1, PlaneInvariant, PTL

\* The audit chain of a site that nobody tampered with fails its verification
\* only if an event was appended after one whose transaction began later, or
\* retention deleted an event that another names.
THEOREM ChainBreaksOnlySo == PlaneSpec => []ChainBrokenOnlyByOverlapOrDeletion
  <1>1. PlaneInv => ChainBrokenOnlyByOverlapOrDeletion
    BY ChainVerifies DEF PlaneInv, ChainInv
  <1>. QED
    BY <1>1, PlaneInvariant, PTL

\* Enrollments that race for the last place or for one code: the limit in force
\* holds when a device is added, and a code enrolls one device at most.
THEOREM EnrollmentsLimited == PlaneSpec => []EnrollmentsWithinLimit
  <1>1. PlaneInv => EnrollmentsWithinLimit
    BY DeviceSafe DEF PlaneInv, ChainInv
  <1>. QED
    BY <1>1, PlaneInvariant, PTL

\* A device with the site's configuration version has the site's vendors,
\* although it reads the two in two snapshots.
THEOREM VendorsFollowVersion == PlaneSpec => []VendorsAsNewAsVersion
  <1>1. PlaneInv => VendorsAsNewAsVersion
    BY DeviceSafe DEF PlaneInv, ChainInv
  <1>. QED
    BY <1>1, PlaneInvariant, PTL

\* A device's request, delivered any number of times, runs once.
THEOREM RequestsRunOnce == PlaneSpec => []RequestRunsOnce
  <1>1. PlaneInv => RequestRunsOnce
    BY RequestsSafe DEF PlaneInv
  <1>. QED
    BY <1>1, PlaneInvariant, PTL

\* Reconciliation counts the newest verification of a receipt, in whatever order
\* reviewers and the edge service told of them.
THEOREM NewestCounted == PlaneSpec => []NewestVerificationCounted
  <1>1. PlaneInv => NewestVerificationCounted
    BY RetentionSafe DEF PlaneInv, ChainInv
  <1>. QED
    BY <1>1, PlaneInvariant, PTL

\* A receipt has an audit event for its arrival and one for each decision,
\* whatever reviewers and the yearly deletion race for.
THEOREM DecisionsAudited == PlaneSpec => []EveryDecisionAudited
  <1>1. PlaneInv => EveryDecisionAudited
    BY RetentionSafe DEF PlaneInv, ChainInv
  <1>. QED
    BY <1>1, PlaneInvariant, PTL

\* Overlapping, failing and dying retention jobs take an image's bytes off the
\* organization's charge once, and only when its deletion is on record: an image
\* that a purged receipt left behind is charged for ever.
THEOREM ImageLedgerKept == PlaneSpec => []ImagesChargedOnce
  <1>1. PlaneInv => ImagesChargedOnce
    BY RetentionSafe DEF PlaneInv, ChainInv
  <1>. QED
    BY <1>1, PlaneInvariant, PTL

\* The ingress answers QUEUED only for an event that the queue has taken.
THEOREM AnsweredEventsQueued == PlaneSpec => []AnsweredMeansQueued
  <1>1. PlaneInv => AnsweredMeansQueued
    BY IngressSafe DEF PlaneInv
  <1>. QED
    BY <1>1, PlaneInvariant, PTL

\* A session of a local reviewer is of the credential that is in force.
THEOREM SessionsCurrent == PlaneSpec => []SessionsFollowCredentials
  <1>1. PlaneInv => SessionsFollowCredentials
    BY AuthSafe DEF PlaneInv
  <1>. QED
    BY <1>1, PlaneInvariant, PTL

\* Sign-ins side by side have no more guesses in a period than the lockout grants.
THEOREM GuessesBounded == PlaneSpec => []GuessesLimited
  <1>1. PlaneInv => GuessesLimited
    BY AuthSafe DEF PlaneInv
  <1>. QED
    BY <1>1, PlaneInvariant, PTL

\* In the controlled mode the prepared client is there with both reviewers, unless
\* a deletion of users was already under way, although readiness was read before
\* the mode changed.
THEOREM ControlledPilotPrepared == PlaneSpec => []ControlledPrepared
  <1>1. PlaneInv => ControlledPrepared
    BY PilotSafe DEF PlaneInv
  <1>. QED
    BY <1>1, PlaneInvariant, PTL

\* No step takes the last administrator away, but for the three that may.
THEOREM AdministratorStays == PlaneSpec => AdministratorKept
  <1>1. PlaneInv /\ [PlaneNext]_planeVars => [KeepsAdministrator]_adminVars
    BY PlaneStep
  <1>. QED
    BY <1>1, PlaneInvariant, PTL DEF PlaneSpec, AdministratorKept, KeepsAdministrator

\* A run of the acceptance test ends with its organization and objects gone, or
\* with the error that says they may not be.
THEOREM RunsEndClean == PlaneSpec => EndsClean
  <1>1. PlaneInv /\ [PlaneNext]_planeVars =>
          [run.status \in {"RUNNING", "CANCEL_REQUESTED"} /\ run'.status \notin Active =>
             run'.dirty \/ ("acceptance" \notin organizations' /\ (objects' => late'))]_testVars
    BY PlaneStep DEF EndsCleanly, AcceptanceGone
  <1>. QED
    BY <1>1, PlaneInvariant, PTL DEF PlaneSpec, EndsClean
=============================================================================
