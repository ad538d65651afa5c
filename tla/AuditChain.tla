----------------------------- MODULE AuditChain -----------------------------
(***************************************************************************)
(* The audit chain of one site: the audit_events rows that the handlers of *)
(* authoritative.py append under the advisory lock of the chain, and the   *)
(* verification of audit_chain.py.                                         *)
(*                                                                         *)
(* An event takes created_at from the start of its transaction (NOW()) and *)
(* its place in the chain from the moment it is appended.  The lock is     *)
(* held until the commit, so that reading the newest event, inserting the  *)
(* new one and committing are one step; the start is an earlier one.       *)
(* An event is named by its created_at (no two transactions start in the   *)
(* same microsecond) and a hash by the event it is of (bodies differ).     *)
(***************************************************************************)
EXTENDS Naturals, FiniteSetsExt

CONSTANT
    MaxClock        \* bound: the start of the last transaction of the model

ASSUME ClockAssumption == MaxClock \in Nat \ {0}

VARIABLES
    clock,          \* the latest transaction start
    events          \* the site's rows of audit_events

auditVars == <<clock, events>>

NoReceipt == "no receipt"
Null == 0           \* previous_hash IS NULL

\* The newest event by created_at, or Null when there is none.
Newest(log) == Max({e.at : e \in log} \cup {Null})

\* The site is bootstrapped with its first event.
AuditInit ==
    /\ clock = 1
    /\ events = {[at |-> 1, previous |-> Null, receipt |-> NoReceipt]}

\* A transaction begins: clock' is its NOW().
Starts ==
    /\ clock < MaxClock
    /\ clock' = clock + 1

\* Wrong on purpose: the newest of the events that began before this one.
AppendByStart(log, at, receipt) ==
    log \cup {[at |-> at, previous |-> Newest({e \in log : e.at < at}), receipt |-> receipt]}

\* The log once a transaction that began at `at` has appended and committed.
Append(log, at, receipt) ==
    log \cup {[at |-> at, previous |-> Newest(log), receipt |-> receipt]}

\* verify_audit_chains: each event, in the order of created_at, must name the
\* one before it.
Verifies(log) ==
    \A e \in log : e.previous = Newest({h \in log : h.at < e.at})

-----------------------------------------------------------------------------
\* An event appended after one whose transaction began later.
Overtaken(log) == \E e \in log : e.previous > e.at

\* An event whose predecessor retention has deleted.
Dangling(log) ==
    \E e \in log : e.previous # Null /\ \A h \in log : h.at # e.previous

\* The chain of a site that nobody tampered with fails its verification only
\* for one of two reasons, both made by the code: a transaction appended its
\* event after one that had begun later, or the yearly retention deleted an
\* event that another one names.  In every other history, whatever the handlers
\* and their interleaving, verify_audit_chains accepts the chain.
ChainBrokenOnlyByOverlapOrDeletion ==
    Verifies(events) \/ Overtaken(events) \/ Dangling(events)
=============================================================================
