--------------------------- MODULE ServiceProofs ---------------------------
(***************************************************************************)
(* What DeviceRequests, ServiceIngress, LocalAuth, PilotControl and        *)
(* LocalTestRuns guarantee for any number of requests, handlers, logins,   *)
(* recovery codes and operators and for every limit.  They share no state, *)
(* but for the test runs, which run beside the pilot's commands.  Each     *)
(* part gives an inductive invariant, and shows that it holds initially,   *)
(* that every step keeps it and that it implies the property;              *)
(* ControlPlaneProofs concludes.                                           *)
(***************************************************************************)
EXTENDS DeviceRequests, ServiceIngress, LocalAuth, LocalTestRuns, FiniteSetTheorems, TLAPS

-----------------------------------------------------------------------------
(* DeviceRequests                                                          *)

\* The clock, the requests of the device and the rows that count them.
RequestsTypeOK ==
    /\ minute \in Nat
    /\ enabled \in BOOLEAN
    /\ sent \in [Nonces -> Int]
    /\ arrived \subseteq Nonces
    /\ accepted \in [Nonces -> Nat]
    /\ nonces \in [Nonces -> Int]
    /\ counted \in Nat

\* The row of an accepted nonce stays as long as the timestamp is in the
\* window; afterwards no delivery passes the window any more.
NonceOutlivesWindow(n) ==
    accepted[n] # 0 =>
        /\ sent[n] # -1
        /\ nonces[n] > sent[n] + Window \/ minute > sent[n] + Window

\* The invariant of DeviceRequests.
RequestsInv ==
    /\ RequestsTypeOK
    /\ \A n \in arrived : sent[n] # -1
    /\ \A n \in Nonces : accepted[n] <= 1 /\ NonceOutlivesWindow(n)

\* The invariant holds before the first request.
LEMMA RequestsInitially == RequestsInit => RequestsInv
  BY DEF RequestsInit, RequestsInv, RequestsTypeOK, NonceOutlivesWindow

\* A delivery that is accepted was not accepted before: its row would be there.
LEMMA AcceptedIsNew ==
    ASSUME RequestsInv, NEW n \in Nonces, ConsumeNonce(n)
    PROVE  accepted[n] = 0
  BY DEF ConsumeNonce, RequestsInv, RequestsTypeOK, NonceOutlivesWindow, Live, InWindow, Window

\* Every step of a delivery, of the device or of time keeps the invariant.
LEMMA RequestsStep ==
    ASSUME RequestsInv, NEW requests \in SUBSET Nonces, RequestsNext(requests)
    PROVE  RequestsInv'
  <1>. USE DEF RequestsInv, RequestsTypeOK, NonceOutlivesWindow
  <1>1. ASSUME NEW n \in requests, Send(n) PROVE RequestsInv'
    BY <1>1, RequestsAssumption DEF Send
  <1>2. ASSUME NEW n \in requests, AuthenticateDevice(n) PROVE RequestsInv'
    BY <1>2 DEF AuthenticateDevice
  <1>3. ASSUME NEW n \in requests, ConsumeNonce(n) PROVE RequestsInv'
    <2>1. accepted[n] = 0
      BY <1>3, AcceptedIsNew
    <2>2. Live \in [Nonces -> Int] /\ nonces' = [Live EXCEPT ![n] = minute + NonceLife]
      BY <1>3 DEF ConsumeNonce, Live
    <2>3. \A m \in Nonces \ {n} : nonces'[m] = nonces[m] \/ nonces[m] < minute
      BY <2>2 DEF Live
    <2>4. RequestsTypeOK' /\ \A m \in arrived' : sent'[m] # -1
      BY <1>3, <2>2 DEF ConsumeNonce, NonceLife
    <2>5. ASSUME NEW m \in Nonces PROVE (accepted[m] <= 1 /\ NonceOutlivesWindow(m))'
      <3>1. CASE m = n
        BY <1>3, <2>1, <2>2, <3>1 DEF ConsumeNonce, InWindow, Window, NonceLife
      <3>2. CASE m # n
        BY <1>3, <2>3, <3>2 DEF ConsumeNonce, Window
      <3>. QED
        BY <3>1, <3>2
    <2>. QED
      BY <2>4, <2>5
  <1>4. ASSUME NEW n \in requests, RejectRequest(n) PROVE RequestsInv'
    BY <1>4 DEF RejectRequest
  <1>5. CASE Disable
    BY <1>5 DEF Disable
  <1>6. CASE MinutePasses
    BY <1>6 DEF MinutePasses, Window
  <1>. QED
    BY <1>1, <1>2, <1>3, <1>4, <1>5, <1>6 DEF RequestsNext

\* The invariant implies the property.
LEMMA RequestsSafe == RequestsInv => RequestRunsOnce
  BY DEF RequestsInv, RequestRunsOnce

-----------------------------------------------------------------------------
(* ServiceIngress                                                          *)

\* The row of the reservation of a receipt.
Rows == [id : RequestIds \cup {"none"}, status : {"NONE", "RESERVED", "QUEUED"}]

\* A handler that has reserved its row.
Steps == [step : {"enqueue", "mark", "release"}, id : RequestIds]

\* A handler that is about to mark has queued, and so had the one that marked.
IngressInv ==
    /\ reservation \in Rows
    /\ queued \in BOOLEAN /\ answered \in BOOLEAN
    /\ handler \in [Handlers -> {Waiting} \cup Steps]
    /\ \A h \in Handlers : handler[h].step = "mark" => queued
    /\ answered \/ reservation.status = "QUEUED" => queued
    /\ reservation = NoRow \/ (reservation.status # "NONE" /\ reservation.id \in RequestIds)

\* The invariant holds before the first post.
LEMMA IngressInitially == IngressInit => IngressInv
  <1>. SUFFICES ASSUME IngressInit PROVE IngressInv
    OBVIOUS
  <1>1. handler \in [Handlers -> {Waiting} \cup Steps] /\ \A h \in Handlers : handler[h].step = "waiting"
    BY DEF IngressInit, Waiting
  <1>2. reservation \in Rows /\ reservation = NoRow /\ reservation.status = "NONE"
    BY DEF IngressInit, NoRow, Rows
  <1>. QED
    <2>1. queued \in BOOLEAN /\ answered \in BOOLEAN
      BY DEF IngressInit
    <2>2. ~ (answered \/ reservation.status = "QUEUED")
      BY <1>2 DEF IngressInit
    <2>3. \A h \in Handlers : handler[h].step # "mark"
      BY <1>1
    <2>. QED
      BY <1>1, <1>2, <2>1, <2>2, <2>3 DEF IngressInv

\* Every transaction of a handler and its death keep the invariant.
LEMMA IngressStep ==
    ASSUME IngressInv, NEW handlers \in SUBSET Handlers, IngressNext(handlers)
    PROVE  IngressInv'
  <1>. USE DEF IngressInv, Rows
  <1>1. PICK h \in handlers :
          \/ \E id \in RequestIds : Reserve(h, id)
          \/ Enqueues(h) \/ EnqueueFails(h) \/ Release(h) \/ MarkQueued(h) \/ HandlerDies(h)
    BY DEF IngressNext
  <1>2. h \in Handlers /\ handler[h] \in {Waiting} \cup Steps
    OBVIOUS
  <1>3. ASSUME NEW id \in RequestIds, Reserve(h, id) PROVE IngressInv'
    <2>1. CASE handler' = handler
      <3>1. /\ reservation.status = "QUEUED" /\ answered' = TRUE
            /\ UNCHANGED <<reservation, handler, queued>>
        BY <1>2, <1>3, <2>1 DEF Reserve, IsDuplicate, Waiting
      <3>. QED
        BY <3>1
    <2>2. CASE \E i \in RequestIds : handler' = [handler EXCEPT ![h] = [step |-> "enqueue", id |-> i]]
      <3>1. PICK i \in RequestIds : handler' = [handler EXCEPT ![h] = [step |-> "enqueue", id |-> i]]
        BY <2>2
      <3>2. handler' \in [Handlers -> {Waiting} \cup Steps]
        BY <3>1 DEF Steps
      <3>3. \A g \in Handlers : handler'[g].step \in {"enqueue", handler[g].step}
        BY <3>1
      <3>. QED
        BY <1>3, <3>1, <3>2, <3>3 DEF Reserve, IsDuplicate, NoRow, Steps, Waiting
    <2>. QED
      <3>1. reservation.status = "RESERVED" => reservation.id \in RequestIds
        BY DEF NoRow
      <3>. QED
        BY <1>3, <2>1, <2>2, <3>1 DEF Reserve
  <1>4. CASE Enqueues(h)
    BY <1>2, <1>4 DEF Enqueues, Steps, Waiting
  <1>5. CASE EnqueueFails(h)
    <2>1. handler[h] \in Steps
      BY <1>2, <1>5 DEF EnqueueFails, Waiting
    <2>2. handler' = [handler EXCEPT ![h].step = "release"] /\ UNCHANGED <<reservation, answered>>
      BY <1>5 DEF EnqueueFails
    <2>3. handler' \in [Handlers -> {Waiting} \cup Steps]
      BY <2>1, <2>2 DEF Steps
    <2>4. \A g \in Handlers : handler'[g].step = "mark" => handler[g].step = "mark"
      BY <1>2, <2>1, <2>2 DEF Steps
    <2>5. queued' \in BOOLEAN /\ (queued => queued')
      BY <1>5 DEF EnqueueFails
    <2>. QED
      BY <2>2, <2>3, <2>4, <2>5
  <1>6. CASE Release(h)
    BY <1>2, <1>6 DEF Release, Steps, Waiting, NoRow
  <1>7. CASE MarkQueued(h)
    BY <1>2, <1>7 DEF MarkQueued, Steps, Waiting, NoRow
  <1>8. CASE HandlerDies(h)
    BY <1>2, <1>8 DEF HandlerDies, Steps, Waiting
  <1>. QED
    BY <1>1, <1>3, <1>4, <1>5, <1>6, <1>7, <1>8

\* The invariant implies the property.
LEMMA IngressSafe == IngressInv => AnsweredMeansQueued /\ IngressTypeOK
  BY DEF IngressInv, IngressTypeOK, AnsweredMeansQueued, Rows, Steps, Waiting

-----------------------------------------------------------------------------
(* LocalAuth                                                               *)

\* After MaxFailed failures each further one is judged after the lockout of the
\* one before, and moves the end of the lockout by a period at least.
LockoutFollowsFailures ==
    credential.failed >= MaxFailed => credential.failed < MaxFailed + credential.lockedUntil

\* The invariant of LocalAuth: an open session is of the present credential, a
\* recovery code signs in once.
AuthInv ==
    /\ AuthTypeOK
    /\ signIns \in [RecoveryCodes -> Nat]
    /\ credential.lockedUntil <= period + 1
    /\ \A l \in Logins : login[l] <= period
    /\ LockoutFollowsFailures
    /\ session \in {NoSession, credential.generation}
    /\ \A c \in RecoveryCodes : signIns[c] <= 1
    /\ \A c \in credential.codes : signIns[c] = 0

\* The invariant holds before the reviewer is enrolled.
LEMMA AuthInitially == AuthInit => AuthInv
  BY AuthAssumption DEF AuthInit, AuthInv, AuthTypeOK, LockoutFollowsFailures, NoLogin, NoSession

\* The row of the credential.
Credentials == [generation : 0 .. MaxRotations, failed : Nat,
                lockedUntil : 0 .. MaxPeriod + 1, codes : SUBSET RecoveryCodes]

\* What a login writes to the row of the credential.
LEMMA CredentialUpdate ==
    ASSUME NEW G, NEW F, NEW L, NEW C,
           NEW c \in [generation : G, failed : F, lockedUntil : L, codes : C],
           NEW f \in F, NEW u \in L, NEW k \in C
    PROVE  LET d == [c EXCEPT !.failed = f, !.lockedUntil = u, !.codes = k] IN
           /\ d \in [generation : G, failed : F, lockedUntil : L, codes : C]
           /\ d.generation = c.generation /\ d.failed = f /\ d.lockedUntil = u /\ d.codes = k
  OBVIOUS

\* Every login, enrollment, end of a session and period keeps the invariant.
LEMMA AuthStep ==
    ASSUME AuthInv, NEW logins \in SUBSET Logins, AuthNext(logins)
    PROVE  AuthInv'
  <1>. USE AuthAssumption DEF AuthInv, AuthTypeOK, LockoutFollowsFailures, NoLogin, NoSession, Credentials
  <1>1. CASE EnrollReviewer
    BY <1>1 DEF EnrollReviewer
  <1>2. CASE SessionEnds
    BY <1>2 DEF SessionEnds
  <1>3. CASE PeriodPasses
    BY <1>3 DEF PeriodPasses
  <1>4. ASSUME NEW l \in logins, BeginLogin(l) PROVE AuthInv'
    BY <1>4 DEF BeginLogin
  <1>5. ASSUME NEW l \in logins, LoginRefused(l) PROVE AuthInv'
    BY <1>5 DEF LoginRefused
  <1>6. ASSUME NEW l \in logins, LoginFails(l) PROVE AuthInv'
    <2>. DEFINE failures == credential.failed + 1
                until == IF LocksAt(failures) THEN login[l] + 1 ELSE 0
    <2>1. /\ login[l] \in 0 .. period /\ credential.lockedUntil <= login[l]
          /\ login' = [login EXCEPT ![l] = NoLogin]
          /\ UNCHANGED <<period, session, signIns>>
          /\ credential' = [credential EXCEPT !.failed = failures, !.lockedUntil = until]
      BY <1>6 DEF LoginFails, Refused
    <2>2. /\ failures \in Nat /\ until \in 0 .. period + 1
          /\ failures >= MaxFailed => failures < MaxFailed + until
      BY <2>1 DEF LocksAt
    <2>3. /\ credential'.failed = failures /\ credential'.lockedUntil = until
          /\ credential'.generation = credential.generation /\ credential'.codes = credential.codes
      BY <2>1
    <2>4. credential' \in Credentials
      <3>1. failures \in Nat /\ until \in 0 .. MaxPeriod + 1 /\ credential.codes \in SUBSET RecoveryCodes
        BY <2>2
      <3>2. credential' = [credential EXCEPT !.failed = failures, !.lockedUntil = until,
                                             !.codes = credential.codes]
        BY <2>1
      <3>. HIDE DEF failures, until
      <3>. QED
        BY <3>1, <3>2, CredentialUpdate
    <2>. QED
      BY <2>1, <2>2, <2>3, <2>4
  <1>7. ASSUME NEW l \in logins, NEW used \in {{}} \cup {{c} : c \in RecoveryCodes},
               LoginSucceeds(l, used)
        PROVE  AuthInv'
    <2>1. /\ credential' = [credential EXCEPT !.failed = 0, !.lockedUntil = 0,
                                             !.codes = credential.codes \ used]
          /\ used \subseteq credential.codes /\ session' = credential.generation
          /\ signIns' = [c \in RecoveryCodes |-> IF c \in used THEN signIns[c] + 1 ELSE signIns[c]]
          /\ login' = [login EXCEPT ![l] = NoLogin] /\ period' = period
      BY <1>7 DEF LoginSucceeds, CodesAfter
    <2>2. /\ credential'.failed = 0 /\ credential'.lockedUntil = 0
          /\ credential'.generation = credential.generation
          /\ credential'.codes = credential.codes \ used
          /\ credential' \in Credentials
      <3>1. credential.codes \ used \in SUBSET RecoveryCodes /\ 0 \in Nat /\ 0 \in 0 .. MaxPeriod + 1
        OBVIOUS
      <3>. QED
        BY <2>1, <3>1, CredentialUpdate
    <2>3. /\ signIns' \in [RecoveryCodes -> Nat]
          /\ \A c \in RecoveryCodes : signIns'[c] <= 1
          /\ \A c \in credential.codes \ used : signIns'[c] = 0
      BY <2>1
    <2>. QED
      BY <2>1, <2>2, <2>3
  <1>. QED
    BY <1>1, <1>2, <1>3, <1>4, <1>5, <1>6, <1>7 DEF AuthNext

\* The invariant implies the properties.
LEMMA AuthSafe == AuthInv => AuthTypeOK /\ SessionsFollowCredentials /\ GuessesLimited
  BY AuthAssumption DEF AuthInv, AuthTypeOK, LockoutFollowsFailures, SessionsFollowCredentials, GuessesLimited

-----------------------------------------------------------------------------
(* PilotControl                                                            *)

\* The client as activation leaves it.
Prepared ==
    /\ configured /\ "client" \in organizations
    /\ enrolled = Reviewer2 \/ overrun

\* Readiness holds from the moment it was read, whatever happens in between.
PilotInv ==
    /\ PilotTypeOK
    /\ overrun \in BOOLEAN
    /\ DOMAIN command = Operators
    /\ users # {} => "client" \in organizations
    /\ mode = "controlled-client-pilot" => Prepared
    /\ \A o \in Operators : command[o] = "activate" => Prepared

\* There is no client before the first preparation.
LEMMA PilotInitially == PilotInit => PilotInv
  BY DEF PilotInit, PilotInv, PilotTypeOK

\* Both reviewers have a credential if there are two credentials.
LEMMA BothEnrolled ==
    ASSUME enrolled \subseteq Reviewer2, Cardinality(enrolled) = 2
    PROVE  enrolled = Reviewer2
  <1>1. IsFiniteSet({"controller"}) /\ Cardinality({"controller"}) = 1
    BY FS_Singleton
  <1>2. "reviewer" \notin {"controller"} /\ {"controller"} \cup {"reviewer"} = Reviewer2
    BY DEF Reviewer2
  <1>3. IsFiniteSet(Reviewer2) /\ Cardinality(Reviewer2) = 2
    BY <1>1, <1>2, FS_AddElement
  <1>. QED
    BY <1>3, FS_Subset

\* A deletion of the users that runs into a bootstrapped organization is the
\* overrun; it leaves the organization and the configuration alone.
LEMMA DeleteUsersKeeps ==
    ASSUME PilotInv, DeleteUsers
    PROVE  /\ PilotTypeOK' /\ overrun' \in BOOLEAN
           /\ users' = {} /\ UNCHANGED mode
           /\ Prepared => Prepared'
  <1>1. /\ organizations' = organizations \ {"legacy"} /\ users' = {} /\ enrolled' = {}
        /\ overrun' = (overrun \/ ~Deletable)
        /\ UNCHANGED <<mode, ended, configured, purge>>
    BY DEF DeleteUsers
  <1>2. Prepared => ~Deletable
    BY DEF Prepared, Deletable
  <1>. QED
    BY <1>1, <1>2 DEF PilotInv, PilotTypeOK, Prepared, Deletable

\* Every step of the pilot's commands.
LEMMA PilotStep ==
    ASSUME PilotInv, NEW operators \in SUBSET Operators, PilotNext(operators)
    PROVE  PilotInv' /\ (organizations' \ {"client", "synthetic"} \subseteq organizations)
  <1>. USE DEF PilotInv
  <1>1. ASSUME NEW o \in operators, PrepareClear(o) PROVE PilotInv' /\ UNCHANGED organizations
    BY <1>1 DEF PrepareClear, Continues, pilotRows, history, PilotTypeOK, Prepared
  <1>2. ASSUME NEW o \in operators, PrepareCleared(o) \/ ResetUsers(o)
        PROVE  PilotInv' /\ organizations' \subseteq organizations
    <2>1. /\ PilotTypeOK' /\ overrun' \in BOOLEAN /\ users' = {} /\ UNCHANGED mode
          /\ Prepared => Prepared'
      BY <1>2, DeleteUsersKeeps DEF PrepareCleared, ResetUsers
    <2>2. DOMAIN command' = Operators
          /\ \A p \in Operators : command'[p] = "activate" => command[p] = "activate"
      BY <1>2 DEF PrepareCleared, ResetUsers, Continues
    <2>3. organizations' \subseteq organizations
      BY <1>2 DEF PrepareCleared, ResetUsers, DeleteUsers
    <2>. HIDE DEF PilotInv
    <2>4. PilotInv'
      BY <2>1, <2>2 DEF PilotInv
    <2>. QED
      BY <2>3, <2>4
  <1>3. ASSUME NEW o \in operators, PrepareBootstrap(o)
        PROVE  PilotInv' /\ organizations' \subseteq organizations \cup {"client"}
    BY <1>3 DEF PrepareBootstrap, Continues, history, PilotTypeOK, Prepared, Reviewer2
  <1>4. ASSUME NEW o \in operators, PrepareReviewer(o) PROVE PilotInv' /\ UNCHANGED organizations
    BY <1>4 DEF PrepareReviewer, Continues, history, PilotTypeOK, Prepared, Reviewer2
  <1>5. ASSUME NEW o \in operators, PrepareDigest(o) PROVE PilotInv' /\ UNCHANGED organizations
    BY <1>5 DEF PrepareDigest, Continues, history, PilotTypeOK, Prepared
  <1>6. ASSUME NEW o \in operators, CheckReadiness(o) PROVE PilotInv' /\ UNCHANGED organizations
    <2>1. /\ UNCHANGED <<mode, ended, configured, organizations, users, enrolled, purge, overrun>>
          /\ command' = [command EXCEPT ![o] = "activate"]
      BY <1>6 DEF CheckReadiness, Continues, pilotRows, history
    <2>2. enrolled \subseteq Reviewer2 /\ Cardinality(enrolled) = 2
      BY <1>6 DEF CheckReadiness, Ready, PilotTypeOK
    <2>3. enrolled = Reviewer2
      BY <2>2, BothEnrolled
    <2>4. configured /\ "client" \in organizations
      BY <1>6, <2>3 DEF CheckReadiness, Ready, PilotTypeOK, Reviewer2
    <2>5. Prepared /\ Prepared'
      BY <2>1, <2>3, <2>4 DEF Prepared
    <2>. QED
      BY <2>1, <2>5 DEF PilotTypeOK
  <1>7. ASSUME NEW o \in operators, Activate(o) PROVE PilotInv' /\ UNCHANGED organizations
    BY <1>7 DEF Activate, Continues, history, PilotTypeOK, Prepared
  <1>8. ASSUME NEW o \in operators, EndPilot(o) PROVE PilotInv' /\ UNCHANGED organizations
    BY <1>8 DEF EndPilot, history, PilotTypeOK, Prepared
  <1>9. ASSUME NEW o \in operators, PurgeEndedPilot(o) PROVE PilotInv' /\ UNCHANGED organizations
    <2>1. ~Deletable
      BY <1>9 DEF PurgeEndedPilot, Prepared, Deletable
    <2>. QED
      BY <1>9, <2>1 DEF PurgeEndedPilot, PilotTypeOK, Prepared
  <1>10. ASSUME NEW o \in operators,
                ResetChecked(o) \/ Reset(o) \/ SeedChecksMode(o) \/ SeedChecksClient(o) \/ CommandStops(o)
         PROVE  PilotInv' /\ UNCHANGED organizations
    <2>1. /\ UNCHANGED <<mode, ended, configured, organizations, users, enrolled, purge, overrun>>
          /\ \E s \in {"reset", "reset 2", "seed 2", "seed 3", "none"} : command' = [command EXCEPT ![o] = s]
      BY <1>10 DEF ResetChecked, Reset, SeedChecksMode, SeedChecksClient, CommandStops, Continues,
                   pilotRows, history
    <2>. QED
      BY <2>1 DEF PilotTypeOK, Prepared
  <1>11. ASSUME NEW o \in operators, SeedBootstrap(o)
         PROVE  PilotInv' /\ organizations' \subseteq organizations \cup {"synthetic"}
    BY <1>11 DEF SeedBootstrap, Continues, history, PilotTypeOK, Prepared
  <1>12. ASSUME RetentionPasses \/ \E r \in Reviewer2 : EnrollClient(r)
         PROVE  PilotInv' /\ UNCHANGED organizations
    <2>1. CASE RetentionPasses
      BY <2>1 DEF RetentionPasses, history, PilotTypeOK, Prepared
    <2>2. ASSUME NEW r \in Reviewer2, EnrollClient(r) PROVE PilotInv' /\ UNCHANGED organizations
      BY <2>2 DEF EnrollClient, history, PilotTypeOK, Prepared
    <2>. QED
      BY <1>12, <2>1, <2>2
  <1>. HIDE DEF PilotInv
  <1>. QED
    BY <1>1, <1>2, <1>3, <1>4, <1>5, <1>6, <1>7, <1>8, <1>9, <1>10, <1>11, <1>12 DEF PilotNext

\* In the controlled mode the client is as readiness found it.
LEMMA PilotSafe == PilotInv => ControlledPrepared
  BY DEF PilotInv, Prepared, ControlledPrepared

-----------------------------------------------------------------------------
(* LocalTestRuns                                                           *)

\* The row of the test run.
RunType == run \in [status : Active \cup {"NONE", "CANCELLED", "PASSED", "FAILED"}, dirty : BOOLEAN]

\* The thread that runs it.
WorkerType ==
    worker \in [step : Working \cup {"down", "idle", "cleanup", "rows", "verify", "failed", "recovered"},
                after : {"", "bootstrap", "evidence", "failed", "recovered"},
                cancelled : BOOLEAN, dirty : BOOLEAN, own : BOOLEAN]

\* The object store, as far as the run uses it.
UploadTypes == objects \in BOOLEAN /\ upload \in {"none", "sent", "put"} /\ late \in BOOLEAN

\* The types together.
TestTypes == RunType /\ WorkerType /\ UploadTypes

\* Where the cleanup in progress returns to.
CleanupReturns ==
    /\ worker.step \in {"cleanup", "rows", "verify"} => worker.after # ""
    /\ worker.step = "verify" => worker.after # "bootstrap"

\* The organization is gone, and its objects but for those of a late upload.
AcceptanceGone == "acceptance" \notin organizations /\ (objects => late)

\* The last steps of a thread are reached only through a verified cleanup, or
\* with the error that says it failed.
EndsVerified ==
    /\ worker.step \in {"evidence", "pass"} => AcceptanceGone
    /\ worker.step \in {"failed", "recovered"} => worker.dirty \/ AcceptanceGone

\* An upload in flight that the thread is not waiting for has outlived it.
UploadOutlives == upload # "none" => late \/ worker.step = "sent"

\* The invariant of LocalTestRuns.
TestInv == TestTypes /\ CleanupReturns /\ EndsVerified /\ UploadOutlives

\* Nothing runs at first.
LEMMA TestInitially == TestInit => PilotInv /\ TestInv
  <1>. SUFFICES ASSUME TestInit PROVE PilotInv /\ TestInv
    OBVIOUS
  <1>1. /\ run = [status |-> "NONE", dirty |-> FALSE] /\ objects = FALSE /\ upload = "none" /\ late = FALSE
        /\ worker = [step |-> "down", after |-> "", cancelled |-> FALSE, dirty |-> FALSE, own |-> TRUE]
    BY DEF TestInit, IdleWorker
  <1>2. TestTypes
    BY <1>1 DEF TestTypes, RunType, WorkerType, UploadTypes
  <1>3. CleanupReturns /\ EndsVerified /\ UploadOutlives
    BY <1>1 DEF CleanupReturns, EndsVerified, UploadOutlives
  <1>. QED
    BY <1>2, <1>3, PilotInitially DEF TestInit, TestInv

\* The pilot's commands neither bootstrap nor use the acceptance organization.
LEMMA TestKept ==
    ASSUME TestInv, UNCHANGED <<run, worker, testRows>>,
           organizations' \ {"client", "synthetic"} \subseteq organizations
    PROVE  TestInv'
  <1>1. UNCHANGED <<run, worker, objects, upload, late>>
    BY DEF testRows
  <1>2. "acceptance" \notin organizations => "acceptance" \notin organizations'
    OBVIOUS
  <1>3. TestTypes'
    BY <1>1 DEF TestInv, TestTypes, RunType, WorkerType, UploadTypes
  <1>4. CleanupReturns' /\ EndsVerified' /\ UploadOutlives'
    BY <1>1, <1>2 DEF TestInv, CleanupReturns, EndsVerified, UploadOutlives, AcceptanceGone
  <1>. QED
    BY <1>3, <1>4 DEF TestInv

\* The test runs change of the pilot's tables at most the acceptance organization.
LEMMA PilotKept ==
    ASSUME PilotInv, UNCHANGED <<mode, ended, configured, users, enrolled, command, purge, overrun>>,
           \/ organizations' = organizations
           \/ organizations' = organizations \cup {"acceptance"}
           \/ organizations' = organizations \ {"acceptance"}
    PROVE  PilotInv'
  BY DEF PilotInv, PilotTypeOK, Prepared

\* What a step of the console may not do.
EndsCleanly ==
    run.status \in {"RUNNING", "CANCEL_REQUESTED"} /\ run'.status \notin Active =>
        run'.dirty \/ AcceptanceGone'

\* The API and the uploads.
LEMMA ConsoleStep ==
    ASSUME PilotInv, TestInv, CreateRun \/ RequestCancellation \/ UploadPuts \/ UploadEnds
    PROVE  PilotInv' /\ TestInv' /\ EndsCleanly
  <1>1. UNCHANGED <<mode, ended, configured, organizations, users, enrolled, command, purge, overrun>>
    BY DEF CreateRun, RequestCancellation, UploadPuts, UploadEnds, pilotVars, pilotRows, history
  <1>2. PilotInv'
    BY <1>1, PilotKept
  <1>3. CASE CreateRun
    <2>1. /\ run' = [status |-> "QUEUED", dirty |-> FALSE] /\ run.status \notin Active
          /\ worker' = [worker EXCEPT !.own = worker.step \in {"idle", "down"}]
          /\ UNCHANGED <<objects, upload, late>>
      BY <1>3 DEF CreateRun, testRows
    <2>2. TestTypes' /\ worker'.step = worker.step /\ worker'.after = worker.after
          /\ worker'.dirty = worker.dirty
      <3>. PICK b : b = (worker.step \in {"idle", "down"})
        OBVIOUS
      <3>1. b \in BOOLEAN /\ worker' = [worker EXCEPT !.own = b]
        BY <2>1
      <3>2. RunType'
        BY <2>1 DEF RunType, Active
      <3>3. /\ WorkerType' /\ worker'.step = worker.step /\ worker'.after = worker.after
            /\ worker'.dirty = worker.dirty
        BY <3>1 DEF TestInv, TestTypes, WorkerType
      <3>4. UploadTypes'
        BY <2>1 DEF TestInv, TestTypes, UploadTypes
      <3>. QED
        BY <3>2, <3>3, <3>4 DEF TestTypes
    <2>4. CleanupReturns' /\ EndsVerified' /\ UploadOutlives'
      BY <1>1, <2>1, <2>2 DEF TestInv, CleanupReturns, EndsVerified, UploadOutlives, AcceptanceGone
    <2>3. TestInv'
      BY <2>2, <2>4 DEF TestInv
    <2>. QED
      BY <1>2, <2>1, <2>3 DEF EndsCleanly, Active
  <1>4. CASE RequestCancellation
    <2>1. /\ UNCHANGED <<worker, objects, upload, late>>
          /\ \/ run.status = "QUEUED" /\ run' = [run EXCEPT !.status = "CANCELLED"]
             \/ run.status = "RUNNING" /\ run' = [run EXCEPT !.status = "CANCEL_REQUESTED"]
      BY <1>4 DEF RequestCancellation, testRows
    <2>4. TestTypes'
      <3>1. RunType'
        BY <2>1 DEF TestInv, TestTypes, RunType, Active
      <3>2. WorkerType' /\ UploadTypes'
        BY <2>1 DEF TestInv, TestTypes, WorkerType, UploadTypes
      <3>. QED
        BY <3>1, <3>2 DEF TestTypes
    <2>3. CleanupReturns' /\ EndsVerified' /\ UploadOutlives'
      BY <1>1, <2>1 DEF TestInv, CleanupReturns, EndsVerified, UploadOutlives, AcceptanceGone
    <2>2. TestInv'
      BY <2>3, <2>4 DEF TestInv
    <2>. QED
      BY <1>2, <2>1, <2>2 DEF EndsCleanly, Active, TestInv, TestTypes, RunType
  <1>5. CASE UploadPuts
    <2>1. /\ UNCHANGED <<run, worker, late>> /\ upload = "sent"
          /\ \/ upload' = "put" /\ objects' = TRUE
             \/ upload' = "none" /\ objects' = objects
      BY <1>5 DEF UploadPuts
    <2>4. TestTypes'
      <3>1. RunType' /\ WorkerType'
        BY <2>1 DEF TestInv, TestTypes, RunType, WorkerType
      <3>2. UploadTypes'
        BY <2>1 DEF TestInv, TestTypes, UploadTypes
      <3>. QED
        BY <3>1, <3>2 DEF TestTypes
    <2>3. CleanupReturns' /\ EndsVerified' /\ UploadOutlives'
      BY <1>1, <2>1 DEF TestInv, TestTypes, UploadTypes, CleanupReturns, EndsVerified, UploadOutlives,
                        AcceptanceGone
    <2>2. TestInv'
      BY <2>3, <2>4 DEF TestInv
    <2>. QED
      BY <1>2, <2>1, <2>2 DEF EndsCleanly, Active
  <1>6. CASE UploadEnds
    <2>1. UNCHANGED <<run, worker, late>> /\ upload = "put" /\ upload' = "none" /\ objects' \in {objects, FALSE}
      BY <1>6 DEF UploadEnds
    <2>4. TestTypes'
      <3>1. RunType' /\ WorkerType'
        BY <2>1 DEF TestInv, TestTypes, RunType, WorkerType
      <3>2. UploadTypes'
        BY <2>1 DEF TestInv, TestTypes, UploadTypes
      <3>. QED
        BY <3>1, <3>2 DEF TestTypes
    <2>3. CleanupReturns' /\ EndsVerified' /\ UploadOutlives'
      BY <1>1, <2>1 DEF TestInv, TestTypes, UploadTypes, CleanupReturns, EndsVerified, UploadOutlives,
                        AcceptanceGone
    <2>2. TestInv'
      BY <2>3, <2>4 DEF TestInv
    <2>. QED
      BY <1>2, <2>1, <2>2 DEF EndsCleanly, Active
  <1>. QED
    BY <1>3, <1>4, <1>5, <1>6

\* The thread moves to a step from which the run cannot end yet.
LEMMA ThreadMoves ==
    ASSUME TestInv, WorkerType', CleanupReturns', UploadTypes', UploadOutlives',
           worker'.step \notin {"evidence", "pass", "failed", "recovered"},
           run' = run \/ run' = [run EXCEPT !.status = "RUNNING"]
    PROVE  TestInv' /\ EndsCleanly
  <1>1. RunType'
    BY DEF TestInv, TestTypes, RunType, Active
  <1>2. EndsVerified'
    BY DEF EndsVerified
  <1>3. EndsCleanly
    BY DEF EndsCleanly, Active, TestInv, TestTypes, RunType
  <1>. QED
    BY <1>1, <1>2, <1>3 DEF TestInv, TestTypes

\* It goes on to another step of its work.
LEMMA GoesOn ==
    ASSUME TestInv, NEW to \in Working, to \notin {"evidence", "pass"}, Goes(to),
           UNCHANGED <<objects, upload, late>>, worker.step # "sent" \/ upload = "none",
           run' = run \/ run' = [run EXCEPT !.status = "RUNNING"]
    PROVE  TestInv' /\ EndsCleanly
  <1>1. WorkerType' /\ worker'.step = to
    BY DEF Goes, TestInv, TestTypes, WorkerType
  <1>2. worker'.step \notin {"evidence", "pass", "failed", "recovered", "cleanup", "rows", "verify"}
    BY <1>1 DEF Working
  <1>3. CleanupReturns'
    BY <1>2 DEF CleanupReturns
  <1>4. UploadTypes' /\ UploadOutlives'
    BY DEF TestInv, TestTypes, UploadTypes, UploadOutlives
  <1>. QED
    BY <1>1, <1>2, <1>3, <1>4, ThreadMoves

\* It begins to clean up, and knows where to return to.
LEMMA CleansUp ==
    ASSUME TestInv, NEW a \in {"bootstrap", "evidence", "failed", "recovered"}, NEW c \in BOOLEAN,
           \/ worker' = [worker EXCEPT !.step = "cleanup", !.after = a]
           \/ worker' = [worker EXCEPT !.step = "cleanup", !.after = a, !.cancelled = c]
           \/ worker' = [IdleWorker EXCEPT !.step = "cleanup", !.after = a, !.cancelled = c],
           UNCHANGED <<run, objects, upload>>, late' \in BOOLEAN,
           upload # "none" => late'
    PROVE  TestInv' /\ EndsCleanly
  <1>1. WorkerType' /\ worker'.step = "cleanup" /\ worker'.after = a
    BY DEF IdleWorker, TestInv, TestTypes, WorkerType
  <1>2. CleanupReturns'
    BY <1>1 DEF CleanupReturns
  <1>3. UploadTypes' /\ UploadOutlives'
    BY DEF TestInv, TestTypes, UploadTypes, UploadOutlives
  <1>. QED
    BY <1>1, <1>2, <1>3, ThreadMoves

\* It stops, or is idle.
LEMMA ComesToRest ==
    ASSUME TestInv, worker' = IdleWorker \/ worker' = [IdleWorker EXCEPT !.step = "down"],
           UNCHANGED <<objects, upload>>, late' \in BOOLEAN, upload # "none" => late'
    PROVE  /\ WorkerType' /\ CleanupReturns' /\ EndsVerified' /\ UploadTypes' /\ UploadOutlives'
           /\ worker'.step \in {"idle", "down"}
  <1>1. WorkerType' /\ worker'.step \in {"idle", "down"}
    <2>1. PICK s \in {"idle", "down"} :
             worker' = [step |-> s, after |-> "", cancelled |-> FALSE, dirty |-> FALSE, own |-> TRUE]
      BY DEF IdleWorker
    <2>. QED
      BY <2>1 DEF WorkerType
  <1>. QED
    BY <1>1 DEF CleanupReturns, EndsVerified, TestInv, TestTypes, UploadTypes, UploadOutlives

\* Starts, stops and failures of the thread.
LEMMA ThreadStep ==
    ASSUME PilotInv, TestInv, WorkerStarts \/ WorkerStops \/ ClaimRun \/ StepFails
    PROVE  PilotInv' /\ TestInv' /\ EndsCleanly
  <1>1. /\ UNCHANGED <<mode, ended, configured, organizations, users, enrolled, command, purge, overrun>>
        /\ UNCHANGED <<objects, upload>>
    BY DEF WorkerStarts, WorkerStops, ClaimRun, StepFails, pilotVars, pilotRows, history, testRows
  <1>2. PilotInv'
    BY <1>1, PilotKept
  <1>3. CASE WorkerStarts
    <2>1. late' = late /\ UNCHANGED run /\ late' \in BOOLEAN /\ (upload # "none" => late')
      BY <1>3 DEF WorkerStarts, testRows, At, TestInv, TestTypes, UploadTypes, UploadOutlives
    <2>2. CASE run.status \in {"RUNNING", "CANCEL_REQUESTED"}
      <3>. PICK c : c = (run.status = "CANCEL_REQUESTED")
        OBVIOUS
      <3>1. /\ c \in BOOLEAN
            /\ worker' = [IdleWorker EXCEPT !.step = "cleanup", !.after = "recovered", !.cancelled = c]
        BY <1>3, <2>2 DEF WorkerStarts
      <3>. QED
        BY <1>1, <1>2, <2>1, <3>1, CleansUp
    <2>3. CASE run.status \notin {"RUNNING", "CANCEL_REQUESTED"}
      <3>1. worker' = IdleWorker
        BY <1>3, <2>3 DEF WorkerStarts
      <3>2. /\ WorkerType' /\ CleanupReturns' /\ UploadTypes' /\ UploadOutlives'
            /\ worker'.step \in {"idle", "down"}
        BY <1>1, <2>1, <3>1, ComesToRest
      <3>. QED
        BY <1>2, <2>1, <3>2, ThreadMoves
    <2>. QED
      BY <2>2, <2>3
  <1>4. CASE WorkerStops
    <2>1. /\ worker' = [IdleWorker EXCEPT !.step = "down"] /\ UNCHANGED run
          /\ late' \in BOOLEAN /\ (upload # "none" => late')
      BY <1>4 DEF WorkerStops, Outlives
    <2>2. /\ WorkerType' /\ CleanupReturns' /\ UploadTypes' /\ UploadOutlives'
          /\ worker'.step \in {"idle", "down"}
      BY <1>1, <2>1, ComesToRest
    <2>. QED
      BY <1>2, <2>1, <2>2, ThreadMoves
  <1>5. CASE ClaimRun
    <2>1. /\ worker' = [IdleWorker EXCEPT !.step = "prewarm"] /\ run' = [run EXCEPT !.status = "RUNNING"]
          /\ late' \in BOOLEAN /\ (upload # "none" => late')
      BY <1>5 DEF ClaimRun
    <2>2. WorkerType' /\ worker'.step = "prewarm"
      BY <2>1 DEF IdleWorker, WorkerType, Working
    <2>3. CleanupReturns' /\ UploadTypes' /\ UploadOutlives'
      BY <1>1, <2>1, <2>2 DEF CleanupReturns, TestInv, TestTypes, UploadTypes, UploadOutlives
    <2>. QED
      BY <1>2, <2>1, <2>2, <2>3, ThreadMoves
  <1>6. CASE StepFails
    <2>1. /\ worker' = [worker EXCEPT !.step = "cleanup", !.after = "failed", !.cancelled = FALSE]
          /\ UNCHANGED run /\ late' \in BOOLEAN /\ (upload # "none" => late')
      BY <1>6 DEF StepFails, OnError, Outlives
    <2>. QED
      BY <1>1, <1>2, <2>1, CleansUp
  <1>. QED
    BY <1>3, <1>4, <1>5, <1>6

\* A stage of the run up to its cleanup.
LEMMA StageStep ==
    ASSUME PilotInv, TestInv, NEW from \in Working \ {"sent"}, NEW to \in Working \ {"evidence", "pass"},
           SetStage(from, to) \/ CheckCancelled(from, to)
    PROVE  PilotInv' /\ TestInv' /\ EndsCleanly
  <1>1. /\ UNCHANGED <<mode, ended, configured, organizations, users, enrolled, command, purge, overrun>>
        /\ UNCHANGED <<objects, upload, late>> /\ worker.step = from
    BY DEF SetStage, CheckCancelled, pilotVars, pilotRows, history, testRows, At
  <1>2. PilotInv'
    BY <1>1, PilotKept
  <1>3. CASE Goes(to) /\ (run' = run \/ run' = [run EXCEPT !.status = "RUNNING"])
    BY <1>1, <1>2, <1>3, GoesOn
  <1>4. CASE OnError(TRUE) /\ run' = run
    <2>1. worker' = [worker EXCEPT !.step = "cleanup", !.after = "failed", !.cancelled = TRUE]
      BY <1>4 DEF OnError
    <2>2. late' \in BOOLEAN /\ (upload # "none" => late')
      BY <1>1 DEF TestInv, TestTypes, UploadTypes, UploadOutlives
    <2>. QED
      BY <1>1, <1>2, <1>4, <2>1, <2>2, CleansUp
  <1>. QED
    BY <1>3, <1>4 DEF SetStage, CheckCancelled

\* The organization, its uploads, and the two cleanups of a run.
LEMMA WorkStep ==
    ASSUME PilotInv, TestInv,
           Prepare \/ Bootstrap \/ SendUpload \/ UploadAnswered \/ Finish \/ CleanObjects \/ CleanRows
    PROVE  PilotInv' /\ TestInv' /\ EndsCleanly
  <1>1. /\ UNCHANGED <<mode, ended, configured, users, enrolled, command, purge, overrun, run, late>>
        /\ \/ organizations' = organizations
           \/ organizations' = organizations \cup {"acceptance"}
           \/ organizations' = organizations \ {"acceptance"}
    BY DEF Prepare, Bootstrap, SendUpload, UploadAnswered, Finish, CleanObjects, CleanRows,
           pilotVars, pilotRows, history, testRows
  <1>2. PilotInv'
    BY <1>1, PilotKept
  <1>3. late \in BOOLEAN /\ (upload # "none" => late \/ worker.step = "sent")
    BY DEF TestInv, TestTypes, UploadTypes, UploadOutlives
  <1>4. CASE Prepare \/ Finish
    <2>1. PICK a \in {"bootstrap", "evidence"} : worker' = [worker EXCEPT !.step = "cleanup", !.after = a]
      BY <1>4 DEF Prepare, Finish, Cleans
    <2>2. worker.step # "sent" /\ UNCHANGED <<objects, upload>>
      BY <1>4 DEF Prepare, Finish, At, testRows
    <2>. QED
      BY <1>1, <1>2, <1>3, <2>1, <2>2, CleansUp
  <1>5. CASE Bootstrap \/ UploadAnswered
    <2>1. PICK to \in {"upload", "uploaded"} : Goes(to)
      BY <1>5 DEF Bootstrap, UploadAnswered
    <2>2. (worker.step # "sent" \/ upload = "none") /\ UNCHANGED <<objects, upload>>
      BY <1>5 DEF Bootstrap, UploadAnswered, At, testRows
    <2>3. to \in Working /\ to \notin {"evidence", "pass"}
      BY DEF Working
    <2>. QED
      BY <1>1, <1>2, <2>1, <2>2, <2>3, GoesOn
  <1>6. CASE SendUpload
    <2>1. worker' = [worker EXCEPT !.step = "sent"] /\ upload' = "sent" /\ objects' = objects
      BY <1>6 DEF SendUpload, Goes
    <2>2. WorkerType' /\ worker'.step = "sent"
      BY <2>1 DEF TestInv, TestTypes, WorkerType, Working
    <2>3. CleanupReturns' /\ UploadTypes' /\ UploadOutlives'
      BY <1>1, <2>1, <2>2 DEF CleanupReturns, TestInv, TestTypes, UploadTypes, UploadOutlives
    <2>. QED
      BY <1>1, <1>2, <2>2, <2>3, ThreadMoves
  <1>7. CASE CleanObjects \/ CleanRows
    <2>1. PICK s \in {"rows", "bootstrap", "verify"} :
             /\ worker' = [worker EXCEPT !.step = s]
             /\ s = "verify" => worker.after # "bootstrap"
      BY <1>7 DEF CleanObjects, CleanRows, Goes
    <2>2. WorkerType' /\ worker'.step = s /\ worker'.after = worker.after
      BY <2>1 DEF TestInv, TestTypes, WorkerType, Working
    <2>3. worker.step \in {"cleanup", "rows"} /\ objects' \in {objects, FALSE} /\ upload' = upload
      BY <1>7 DEF CleanObjects, CleanRows, At, testRows
    <2>4. CleanupReturns'
      BY <2>1, <2>2, <2>3 DEF CleanupReturns, TestInv
    <2>5. UploadTypes' /\ UploadOutlives'
      BY <1>1, <1>3, <2>3 DEF TestInv, TestTypes, UploadTypes, UploadOutlives
    <2>. QED
      BY <1>1, <1>2, <2>2, <2>4, <2>5, ThreadMoves
  <1>. QED
    BY <1>4, <1>5, <1>6, <1>7

\* The verification that a run's end rests on, and a cleanup that fails.
LEMMA VerifyStep ==
    ASSUME PilotInv, TestInv, VerifyClean \/ CleanupFails \/ SetStage("evidence", "pass")
    PROVE  PilotInv' /\ TestInv' /\ EndsCleanly
  <1>1. UNCHANGED <<mode, ended, configured, organizations, users, enrolled, command, purge, overrun,
                    objects, upload, late>>
    BY DEF VerifyClean, CleanupFails, SetStage, pilotVars, pilotRows, history, testRows
  <1>2. PilotInv'
    BY <1>1, PilotKept
  <1>3. /\ late \in BOOLEAN /\ (upload # "none" => late \/ worker.step = "sent")
        /\ worker.step # "sent"
    BY DEF TestInv, TestTypes, UploadTypes, UploadOutlives, VerifyClean, CleanupFails, SetStage, At
  <1>4. UploadTypes' /\ UploadOutlives'
    BY <1>1, <1>3 DEF TestInv, TestTypes, UploadTypes, UploadOutlives
  <1>5. CASE VerifyClean
    <2>. PICK a : a = worker.after
      OBVIOUS
    <2>1. /\ worker' = [worker EXCEPT !.step = a] /\ UNCHANGED run
          /\ "acceptance" \notin organizations /\ ~objects
      BY <1>5 DEF VerifyClean, Goes
    <2>2. a \in {"evidence", "failed", "recovered"}
      BY <1>5 DEF VerifyClean, At, TestInv, TestTypes, WorkerType, CleanupReturns
    <2>3. WorkerType' /\ worker'.step = a
      BY <2>1, <2>2 DEF TestInv, TestTypes, WorkerType, Working
    <2>4. CleanupReturns' /\ EndsVerified'
      BY <1>1, <2>1, <2>2, <2>3 DEF CleanupReturns, EndsVerified, AcceptanceGone
    <2>5. RunType' /\ EndsCleanly
      BY <2>1 DEF TestInv, TestTypes, RunType, EndsCleanly, Active
    <2>. QED
      BY <1>2, <1>4, <2>3, <2>4, <2>5 DEF TestInv, TestTypes
  <1>6. CASE CleanupFails
    <2>1. CASE worker.after \in {"failed", "recovered"}
      <3>. PICK a : a = worker.after
        OBVIOUS
      <3>1. worker' = [worker EXCEPT !.step = a, !.dirty = TRUE] /\ UNCHANGED run /\ a \in {"failed", "recovered"}
        BY <1>6, <2>1 DEF CleanupFails
      <3>2. WorkerType' /\ worker'.step = a /\ worker'.dirty = TRUE
        BY <3>1 DEF TestInv, TestTypes, WorkerType
      <3>3. CleanupReturns' /\ EndsVerified'
        BY <3>1, <3>2 DEF CleanupReturns, EndsVerified
      <3>4. RunType' /\ EndsCleanly
        BY <3>1 DEF TestInv, TestTypes, RunType, EndsCleanly, Active
      <3>. QED
        BY <1>2, <1>4, <3>2, <3>3, <3>4 DEF TestInv, TestTypes
    <2>2. CASE worker.after \notin {"failed", "recovered"}
      <3>1. /\ worker' = [worker EXCEPT !.step = "cleanup", !.after = "failed", !.cancelled = FALSE]
            /\ UNCHANGED run
        BY <1>6, <2>2 DEF CleanupFails, OnError
      <3>. QED
        BY <1>1, <1>2, <1>3, <3>1, CleansUp
    <2>. QED
      BY <2>1, <2>2
  <1>7. CASE SetStage("evidence", "pass")
    <2>1. /\ worker' = [worker EXCEPT !.step = "pass"] /\ worker.step = "evidence"
          /\ run' = [run EXCEPT !.status = "RUNNING"]
      BY <1>7 DEF SetStage, At, Goes
    <2>2. WorkerType' /\ worker'.step = "pass"
      BY <2>1 DEF TestInv, TestTypes, WorkerType, Working
    <2>3. CleanupReturns' /\ EndsVerified'
      BY <1>1, <2>1, <2>2 DEF CleanupReturns, EndsVerified, AcceptanceGone, TestInv
    <2>4. RunType' /\ EndsCleanly
      BY <2>1 DEF TestInv, TestTypes, RunType, EndsCleanly, Active
    <2>. QED
      BY <1>2, <1>4, <2>2, <2>3, <2>4 DEF TestInv, TestTypes
  <1>. QED
    BY <1>5, <1>6, <1>7

\* The last update of a run: the cleanup before it was verified, or it says
\* that it was not.
LEMMA EndStep ==
    ASSUME PilotInv, TestInv, Pass \/ AuditPass \/ Report \/ Recover
    PROVE  PilotInv' /\ TestInv' /\ EndsCleanly
  <1>1. UNCHANGED <<mode, ended, configured, organizations, users, enrolled, command, purge, overrun,
                    objects, upload, late>>
    BY DEF Pass, AuditPass, Report, Recover, pilotVars, pilotRows, history, testRows
  <1>2. PilotInv'
    BY <1>1, PilotKept
  <1>3. /\ late \in BOOLEAN /\ (upload # "none" => late \/ worker.step = "sent")
        /\ worker.step # "sent" /\ worker.dirty \in BOOLEAN
    BY DEF TestInv, TestTypes, UploadTypes, WorkerType, UploadOutlives, Pass, AuditPass, Report, Recover, At
  <1>4. /\ WorkerType' /\ CleanupReturns' /\ EndsVerified' /\ UploadTypes' /\ UploadOutlives'
    <2>1. CASE Pass
      <3>1. worker' = [worker EXCEPT !.step = "audit"]
        BY <2>1 DEF Pass, Goes
      <3>2. WorkerType' /\ worker'.step = "audit"
        BY <3>1 DEF TestInv, TestTypes, WorkerType, Working
      <3>. QED
        BY <1>1, <1>3, <3>2 DEF CleanupReturns, EndsVerified, TestInv, TestTypes, UploadTypes, UploadOutlives
    <2>2. CASE AuditPass \/ Report \/ Recover
      <3>1. worker' = IdleWorker
        BY <2>2 DEF AuditPass, Report, Recover
      <3>. QED
        BY <1>1, <1>3, <3>1, ComesToRest
    <2>. QED
      BY <2>1, <2>2
  <1>5. \/ run' = run
        \/ run.status = "RUNNING" /\ run' = [run EXCEPT !.status = "QUEUED"]
        \/ \E status \in {"PASSED", "CANCELLED", "FAILED"} :
              /\ run' = [status |-> status, dirty |-> worker.dirty]
              /\ worker.dirty \/ AcceptanceGone
    <2>1. CASE Pass
      <3>1. AcceptanceGone
        BY <2>1 DEF Pass, At, TestInv, EndsVerified
      <3>. QED
        BY <2>1, <3>1 DEF Pass, Ends
    <2>2. CASE AuditPass
      BY <2>2 DEF AuditPass
    <2>3. CASE Report
      <3>1. worker.dirty \/ AcceptanceGone
        BY <2>3 DEF Report, At, TestInv, EndsVerified
      <3>. QED
        BY <2>3, <3>1 DEF Report, Ends
    <2>4. CASE Recover
      <3>1. worker.dirty \/ AcceptanceGone
        BY <2>4 DEF Recover, At, TestInv, EndsVerified
      <3>. QED
        BY <2>4, <3>1 DEF Recover, Ends
    <2>. QED
      BY <2>1, <2>2, <2>3, <2>4
  <1>6. RunType' /\ EndsCleanly
    <2>1. CASE run' = run \/ (run.status = "RUNNING" /\ run' = [run EXCEPT !.status = "QUEUED"])
      BY <2>1 DEF TestInv, TestTypes, RunType, EndsCleanly, Active
    <2>2. CASE \E status \in {"PASSED", "CANCELLED", "FAILED"} :
                  /\ run' = [status |-> status, dirty |-> worker.dirty]
                  /\ worker.dirty \/ AcceptanceGone
      <3>1. PICK status \in {"PASSED", "CANCELLED", "FAILED"} :
                  /\ run' = [status |-> status, dirty |-> worker.dirty]
                  /\ worker.dirty \/ AcceptanceGone
        BY <2>2
      <3>2. RunType' /\ run'.dirty = worker.dirty
        BY <1>3, <3>1 DEF RunType, Active
      <3>3. AcceptanceGone => AcceptanceGone'
        BY <1>1 DEF AcceptanceGone
      <3>. QED
        BY <3>1, <3>2, <3>3 DEF EndsCleanly
    <2>. QED
      BY <1>5, <2>1, <2>2
  <1>. QED
    BY <1>2, <1>4, <1>6 DEF TestInv, TestTypes

\* Every step of the console.
LEMMA TestStep ==
    ASSUME PilotInv, TestInv, TestNext
    PROVE  PilotInv' /\ TestInv' /\ EndsCleanly
  <1>1. CASE \/ SetStage("prewarm", "prewarmed") \/ CheckCancelled("prewarmed", "fixtures")
             \/ SetStage("fixtures", "prepare") \/ CheckCancelled("upload", "send")
             \/ SetStage("uploaded", "upload") \/ SetStage("uploaded", "drain")
             \/ CheckCancelled("drain", "drained") \/ SetStage("drained", "finish")
    <2>1. PICK from \in Working \ {"sent"} : \E to \in Working \ {"evidence", "pass"} :
             SetStage(from, to) \/ CheckCancelled(from, to)
      BY <1>1, Zenon DEF Working
    <2>. QED
      BY <2>1, StageStep
  <1>2. CASE WorkerStarts \/ WorkerStops \/ ClaimRun \/ StepFails
    BY <1>2, ThreadStep
  <1>3. CASE Prepare \/ Bootstrap \/ SendUpload \/ UploadAnswered \/ Finish \/ CleanObjects \/ CleanRows
    BY <1>3, WorkStep
  <1>4. CASE VerifyClean \/ CleanupFails \/ SetStage("evidence", "pass")
    BY <1>4, VerifyStep
  <1>5. CASE Pass \/ AuditPass \/ Report \/ Recover
    BY <1>5, EndStep
  <1>6. CASE CreateRun \/ RequestCancellation \/ UploadPuts \/ UploadEnds
    BY <1>6, ConsoleStep
  <1>. QED
    BY <1>1, <1>2, <1>3, <1>4, <1>5, <1>6 DEF TestNext, WorkerNext

\* The types that the run checks.
LEMMA TestTyped == PilotInv /\ TestInv => TestTypeOK
  BY DEF PilotInv, TestInv, TestTypes, RunType, WorkerType, UploadTypes, TestTypeOK
=============================================================================
