-------------------------- MODULE AuditChainProofs --------------------------
(***************************************************************************)
(* The audit chain for any number of transactions, of whatever component.  *)
(*                                                                         *)
(* A transaction that has begun and not yet ended is a record with its     *)
(* component, its actor and its start.  Chain says of the transactions     *)
(* under way, the log and the clock what every handler keeps: starts are   *)
(* unique, and of two events in the log the one appended later names an    *)
(* event at least as new as the other.  ChainMove is what one step of a    *)
(* component may do to them.                                               *)
(***************************************************************************)
EXTENDS AuditChain, FiniteSetTheorems, WellFoundedInduction, TLAPS

-----------------------------------------------------------------------------
(* Max                                                                     *)

\* An element of a set of integers that none exceeds is its Max.
LEMMA MaxIs ==
    ASSUME NEW S, S \subseteq Int, NEW m \in S, \A y \in S : m >= y
    PROVE  Max(S) = m
  <1>1. \E x \in S : \A y \in S : x >= y
    OBVIOUS
  <1>2. Max(S) \in S /\ \A y \in S : Max(S) >= y
    BY <1>1 DEF Max
  <1>3. Max(S) \in Int /\ m \in Int /\ Max(S) >= m /\ m >= Max(S)
    BY <1>2
  <1>. QED
    BY <1>3

\* A nonempty set of naturals that has a bound has a Max.
LEMMA MaxOfBounded ==
    ASSUME NEW S, S \subseteq Nat, S # {}, NEW c \in Nat, \A y \in S : y <= c
    PROVE  Max(S) \in S /\ \A y \in S : Max(S) >= y
  <1>. DEFINE Gaps == {c - y : y \in S}
  <1>1. Gaps \subseteq Nat /\ Gaps # {}
    <2>1. \A y \in S : c - y \in Nat
      OBVIOUS
    <2>. QED
      BY <2>1
  <1>2. PICK g \in Gaps : \A h \in Gaps : ~ (<<h, g>> \in OpToRel(<, Nat))
    <2>. HIDE DEF Gaps
    <2>. QED
      BY <1>1, NatLessThanWellFounded, WFMin
  <1>3. PICK m \in S : g = c - m
    OBVIOUS
  <1>4. \A h \in Gaps : ~ (h < g)
    <2>1. ASSUME NEW h \in Gaps PROVE h \in Nat /\ g \in Nat /\ <<h, g>> \notin OpToRel(<, Nat)
      BY <1>1, <1>2
    <2>. QED
      BY <2>1 DEF OpToRel
  <1>5. \A y \in S : c - y \in Gaps
    OBVIOUS
  <1>6. \A y \in S : m >= y
    <2>1. ASSUME NEW y \in S PROVE m >= y
      <3>1. ~ (c - y < g)
        BY <1>4, <1>5
      <3>2. y \in Nat /\ m \in Nat
        OBVIOUS
      <3>. QED
        BY <3>1, <3>2, <1>3
    <2>. QED
      BY <2>1
  <1>7. S \subseteq Int
    OBVIOUS
  <1>8. Max(S) = m
    BY <1>6, <1>7, MaxIs
  <1>. QED
    BY <1>6, <1>8

-----------------------------------------------------------------------------
(* The log and the transactions under way.                                 *)

\* Well-formed events, in the microseconds that have passed.
LogOK(log, now) ==
    /\ now \in Nat
    /\ IsFiniteSet(log)
    /\ \A e \in log : /\ e.at \in 1 .. now
                      /\ e.previous \in 0 .. now
                      /\ e.previous # e.at

\* Whichever of two events was appended later names one no older than the other.
LogOrdered(log) ==
    \A e, h \in log : e # h => e.at # h.at /\ (h.previous >= e.at \/ e.previous >= h.at)

\* Every start is unique, and no event of the log has the start of a
\* transaction that is still under way.
StartsUnique(open, log, now) ==
    /\ \A p \in open : p.at \in 1 .. now /\ \A e \in log : e.at # p.at
    /\ \A p, q \in open : p.at = q.at => p = q

\* The parts together.
Chain(open, log, now) == LogOK(log, now) /\ LogOrdered(log) /\ StartsUnique(open, log, now)

\* One step of a component: a transaction begins, or appends its event and
\* ends; or some end without, and events may be deleted.
ChainMove(open, log, now, openNext, logNext, nowNext) ==
    \/ /\ nowNext = now + 1
       /\ logNext = log
       /\ \E p : p.at = nowNext /\ openNext \subseteq open \cup {p}
    \/ /\ nowNext = now
       /\ \E p \in open : \E rec : /\ logNext = Append(log, p.at, rec)
                                   /\ openNext \subseteq open \ {p}
    \/ /\ nowNext = now
       /\ logNext \subseteq log
       /\ openNext \subseteq open

\* The newest event of a log, and the bound it is for the others.
LEMMA NewestFacts ==
    ASSUME NEW log, NEW now, LogOK(log, now)
    PROVE  /\ Newest(log) \in 0 .. now
           /\ Newest(log) = Null \/ \E e \in log : e.at = Newest(log)
           /\ \A e \in log : e.at <= Newest(log)
  <1>. DEFINE S == {e.at : e \in log} \cup {Null}
  <1>1. S \subseteq Nat /\ S # {} /\ \A y \in S : y <= now
    BY DEF LogOK, Null
  <1>2. Max(S) \in S /\ \A y \in S : Max(S) >= y
    <2>1. now \in Nat
      BY DEF LogOK
    <2>. HIDE DEF S
    <2>. QED
      BY <1>1, <2>1, MaxOfBounded
  <1>3. Newest(log) = Max(S)
    BY DEF Newest
  <1>4. \A e \in log : e.at \in S /\ e.at \in 1 .. now
    BY DEF LogOK
  <1>5. Newest(log) \in S /\ Newest(log) \in Nat /\ Newest(log) <= now
    BY <1>1, <1>2, <1>3
  <1>6. \A e \in log : e.at <= Newest(log)
    BY <1>2, <1>3, <1>4, <1>5
  <1>. QED
    BY <1>5, <1>6 DEF LogOK

\* What a step of any component does, Chain allows for.
LEMMA ChainStep ==
    ASSUME NEW open, NEW log, NEW now, NEW openNext, NEW logNext, NEW nowNext,
           Chain(open, log, now), ChainMove(open, log, now, openNext, logNext, nowNext)
    PROVE  Chain(openNext, logNext, nowNext)
  <1>. USE DEF Chain
  <1>1. CASE /\ nowNext = now + 1
             /\ logNext = log
             /\ \E p : p.at = nowNext /\ openNext \subseteq open \cup {p}
    <2>1. PICK p : p.at = nowNext /\ openNext \subseteq open \cup {p}
      BY <1>1
    <2>2. \A e \in log : e.at < nowNext
      BY <1>1 DEF LogOK
    <2>3. \A q \in open : q.at \in Nat /\ q.at < nowNext
      BY <1>1 DEF LogOK, StartsUnique
    <2>4. LogOK(logNext, nowNext)
      BY <1>1 DEF LogOK
    <2>5. StartsUnique(openNext, logNext, nowNext)
      BY <1>1, <2>1, <2>2, <2>3 DEF StartsUnique, LogOK
    <2>. QED
      BY <1>1, <2>4, <2>5
  <1>2. CASE /\ nowNext = now
             /\ \E p \in open : \E rec : /\ logNext = Append(log, p.at, rec)
                                         /\ openNext \subseteq open \ {p}
    <2>0. PICK p \in open : \E rec : logNext = Append(log, p.at, rec) /\ openNext \subseteq open \ {p}
      BY <1>2
    <2>1. PICK rec : logNext = Append(log, p.at, rec) /\ openNext \subseteq open \ {p}
      BY <2>0
    <2>. DEFINE new == [at |-> p.at, previous |-> Newest(log), receipt |-> rec]
    <2>2. logNext = log \cup {new} /\ new.at = p.at /\ new.previous = Newest(log)
      BY <2>1 DEF Append
    <2>3. /\ Newest(log) \in 0 .. now
          /\ Newest(log) = Null \/ \E e \in log : e.at = Newest(log)
          /\ \A e \in log : e.at <= Newest(log)
      BY NewestFacts
    <2>4. p.at \in 1 .. now /\ \A e \in log : e.at # p.at
      BY DEF StartsUnique
    <2>5. new.previous # new.at
      BY <2>2, <2>3, <2>4 DEF Null
    <2>6. IsFiniteSet(logNext)
      BY <2>2, FS_AddElement DEF LogOK
    <2>. HIDE DEF new
    <2>7. LogOK(logNext, nowNext)
      BY <1>2, <2>2, <2>3, <2>4, <2>5, <2>6 DEF LogOK
    <2>8. LogOrdered(logNext)
      BY <2>2, <2>3, <2>4 DEF LogOrdered
    <2>9. StartsUnique(openNext, logNext, nowNext)
      BY <1>2, <2>1, <2>2, <2>4 DEF StartsUnique
    <2>. QED
      BY <2>7, <2>8, <2>9
  <1>3. CASE nowNext = now /\ logNext \subseteq log /\ openNext \subseteq open
    <2>1. IsFiniteSet(logNext)
      BY <1>3, FS_Subset DEF LogOK
    <2>. QED
      BY <1>3, <2>1 DEF LogOK, LogOrdered, StartsUnique
  <1>. QED
    BY <1>1, <1>2, <1>3 DEF ChainMove

\* A step of one component moves the whole: nothing else is under way by it.
LEMMA ChainMoveAmongOthers ==
    ASSUME NEW open, NEW log, NEW now, NEW openNext, NEW logNext, NEW nowNext,
           NEW others, open \cap others = {},
           ChainMove(open, log, now, openNext, logNext, nowNext)
    PROVE  ChainMove(open \cup others, log, now, openNext \cup others, logNext, nowNext)
  BY DEF ChainMove

\* A chain that Chain describes verifies, unless events overtook or are missing.
LEMMA ChainVerifies ==
    ASSUME NEW open, Chain(open, events, clock)
    PROVE  ChainBrokenOnlyByOverlapOrDeletion
  <1>. SUFFICES ASSUME ~Overtaken(events), ~Dangling(events), NEW e \in events
                PROVE  e.previous = Newest({h \in events : h.at < e.at})
    BY DEF ChainBrokenOnlyByOverlapOrDeletion, Verifies
  <1>. DEFINE S == {g.at : g \in {h \in events : h.at < e.at}} \cup {Null}
  <1>1. \A h \in events : /\ h.at \in Nat /\ h.previous \in Nat /\ h.previous < h.at
    BY DEF Chain, LogOK, Overtaken
  <1>2. e.previous \in S
    BY <1>1 DEF Dangling
  <1>3. S \subseteq Int
    BY <1>1 DEF Null
  <1>4. ASSUME NEW y \in S PROVE e.previous >= y
    <2>1. CASE y = Null
      BY <1>1, <2>1 DEF Null
    <2>2. CASE y # Null
      <3>1. PICK h \in events : h.at < e.at /\ y = h.at
        BY <2>2
      <3>2. e # h /\ (h.previous >= e.at \/ e.previous >= h.at)
        BY <1>1, <3>1 DEF Chain, LogOrdered
      <3>. QED
        BY <1>1, <3>1, <3>2
    <2>. QED
      BY <2>1, <2>2
  <1>5. Max(S) = e.previous
    <2>. HIDE DEF S
    <2>. QED
      BY <1>2, <1>3, <1>4, MaxIs
  <1>. QED
    BY <1>5 DEF Newest
=============================================================================
