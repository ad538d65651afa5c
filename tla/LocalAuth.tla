------------------------------ MODULE LocalAuth ------------------------------
(***************************************************************************)
(* The sign-in of a reviewer of the local pilot (local_auth.py): password  *)
(* with TOTP or a recovery code, the lockout after failed attempts, and    *)
(* the session.  A login takes its time from its start, waits for the row  *)
(* of the credential (FOR UPDATE) and does the rest under its lock.  Time  *)
(* passes in periods of the lockout, 15 minutes.                           *)
(***************************************************************************)
EXTENDS Integers, FiniteSets

CONSTANTS
    Logins,         \* logins in progress at a time
    RecoveryCodes,  \* positions of the recovery codes of a credential
    MaxFailed,      \* MAX_FAILED_ATTEMPTS
    MaxPeriod,      \* bound: the last period of the model
    MaxRotations    \* bound: how often the reviewer is enrolled

ASSUME AuthAssumption ==
    MaxFailed \in Nat \ {0} /\ MaxPeriod \in Nat /\ MaxRotations \in Nat

VARIABLES
    period,         \* the time
    credential,     \* local_reviewer_credentials of the reviewer
    session,        \* the credential that the reviewer's session is from
    login,          \* each login in progress, with its start
    signIns         \* history: sign-ins by recovery code, this credential

authVars == <<period, credential, session, login, signIns>>

NoLogin == -1
NoSession == 0

\* generation counts the enrollments; 0 before the first.
AuthInit ==
    /\ period = 0
    /\ credential = [generation |-> 0, failed |-> 0, lockedUntil |-> 0, codes |-> {}]
    /\ session = NoSession
    /\ login = [l \in Logins |-> NoLogin]
    /\ signIns = [c \in RecoveryCodes |-> 0]

\* enroll_reviewer, for the first time or again: one transaction.
EnrollReviewer ==
    /\ credential.generation < MaxRotations
    /\ credential' = [generation |-> credential.generation + 1, failed |-> 0,
                      lockedUntil |-> 0, codes |-> RecoveryCodes]
    /\ session' = NoSession
    /\ signIns' = [c \in RecoveryCodes |-> 0]
    /\ UNCHANGED <<period, login>>

BeginLogin(l) ==
    /\ login[l] = NoLogin
    /\ login' = [login EXCEPT ![l] = period]
    /\ UNCHANGED <<period, credential, session, signIns>>

\* Wrong on purpose: one failure too many.
LocksAfter(failures) == failures > MaxFailed

LocksAt(failures) == failures >= MaxFailed

\* Under the lock of the row: account_locked, or no credential yet.
Refused(l) == credential.generation = 0 \/ credential.lockedUntil > login[l]

LoginRefused(l) ==
    /\ login[l] # NoLogin
    /\ Refused(l)
    /\ login' = [login EXCEPT ![l] = NoLogin]
    /\ UNCHANGED <<period, credential, session, signIns>>

\* A wrong password or second factor.  failed_attempts outlives the lockout:
\* after it, one more failure locks again.
LoginFails(l) ==
    /\ login[l] # NoLogin
    /\ ~Refused(l)
    /\ LET failures == credential.failed + 1 IN
       credential' = [credential EXCEPT !.failed = failures,
                         !.lockedUntil = IF LocksAt(failures) THEN login[l] + 1 ELSE 0]
    /\ login' = [login EXCEPT ![l] = NoLogin]
    /\ UNCHANGED <<period, session, signIns>>

\* Wrong on purpose: a recovery code stays valid.
CodesKept(used) == credential.codes

\* A valid password with a TOTP (used = {}) or with a remaining recovery code.
CodesAfter(used) == credential.codes \ used

LoginSucceeds(l, used) ==
    /\ login[l] # NoLogin
    /\ ~Refused(l)
    /\ used \subseteq credential.codes
    /\ credential' = [credential EXCEPT !.failed = 0, !.lockedUntil = 0, !.codes = CodesAfter(used)]
    /\ session' = credential.generation
    /\ signIns' = [c \in RecoveryCodes |-> IF c \in used THEN signIns[c] + 1 ELSE signIns[c]]
    /\ login' = [login EXCEPT ![l] = NoLogin]
    /\ UNCHANGED period

\* logout, or expires_at passes.
SessionEnds ==
    /\ session # NoSession
    /\ session' = NoSession
    /\ UNCHANGED <<period, credential, login, signIns>>

PeriodPasses ==
    /\ period < MaxPeriod
    /\ period' = period + 1
    /\ UNCHANGED <<credential, session, login, signIns>>

AuthNext(logins) ==
    \/ /\ logins # {}
       /\ EnrollReviewer \/ SessionEnds \/ PeriodPasses
    \/ \E l \in logins :
          \/ BeginLogin(l)
          \/ LoginRefused(l)
          \/ LoginFails(l)
          \/ \E used \in {{}} \cup {{c} : c \in RecoveryCodes} : LoginSucceeds(l, used)

AuthTypeOK ==
    /\ period \in 0 .. MaxPeriod
    /\ credential \in [generation : 0 .. MaxRotations, failed : Nat,
                       lockedUntil : 0 .. MaxPeriod + 1, codes : SUBSET RecoveryCodes]
    /\ session \in 0 .. MaxRotations
    /\ login \in [Logins -> NoLogin .. MaxPeriod]

-----------------------------------------------------------------------------
\* Whatever logins race with each other and with an enrollment: the session
\* belongs to the credential in force, and a recovery code signs in once.
SessionsFollowCredentials ==
    /\ session \in {NoSession, credential.generation}
    /\ \A c \in RecoveryCodes : signIns[c] <= 1

\* However many logins are sent in parallel, and although each judges the lock
\* by the time it began, wrong guesses in a row are limited to MAX_FAILED_ATTEMPTS
\* and one more for each lockout period that has passed.
GuessesLimited == credential.failed <= MaxFailed + period
=============================================================================
