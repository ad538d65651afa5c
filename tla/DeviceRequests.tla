--------------------------- MODULE DeviceRequests ---------------------------
(***************************************************************************)
(* The requests of one enrolled device (authoritative.py): authentication  *)
(* by its token, the timestamp window, the nonce that makes a request      *)
(* count once, and the rate limit.  The network may deliver a request any  *)
(* number of times and at any time.  Time passes in minutes, the unit of   *)
(* the timestamp window and of the rate windows.                           *)
(***************************************************************************)
EXTENDS Integers, FiniteSets

CONSTANTS
    Nonces,         \* nonces the device draws, one per request
    RequestLimit,   \* organizations.device_request_limit_per_minute
    MaxMinute       \* bound: the last minute of the model

ASSUME RequestsAssumption ==
    RequestLimit \in Nat \ {0} /\ MaxMinute \in Nat

VARIABLES
    minute,
    enabled,        \* the device, its site and its organization are active
    sent,           \* the device's timestamp of each request; -1 before it
    arrived,        \* deliveries that are authenticated, not yet accepted
    accepted,       \* history: how often the handler of a request ran
    nonces,         \* device_request_nonces: expiry by nonce; -1 for no row
    counted         \* device_rate_limit_windows: the count of this minute

requestVars == <<minute, enabled, sent, arrived, accepted, nonces, counted>>

Window == 1         \* +-60 seconds
NonceLifeOneMinute == 1     \* wrong on purpose: shorter than the window
NonceLife == 10     \* 10 minutes

RequestsInit ==
    /\ minute = 0
    /\ enabled = TRUE
    /\ sent = [n \in Nonces |-> -1]
    /\ arrived = {}
    /\ accepted = [n \in Nonces |-> 0]
    /\ nonces = [n \in Nonces |-> -1]
    /\ counted = 0

\* The device's clock may be off by a window, and so may the delivery be late.
Send(n) ==
    /\ sent[n] = -1
    /\ \E ts \in 0 .. MaxMinute :
          /\ ts - minute \in -Window .. Window
          /\ sent' = [sent EXCEPT ![n] = ts]
    /\ UNCHANGED <<minute, enabled, arrived, accepted, nonces, counted>>

\* authenticate_device, in a transaction of its own.
AuthenticateDevice(n) ==
    /\ sent[n] # -1
    /\ enabled
    /\ arrived' = arrived \cup {n}
    /\ UNCHANGED <<minute, enabled, sent, accepted, nonces, counted>>

Disable ==
    /\ enabled
    /\ enabled' = FALSE
    /\ UNCHANGED <<minute, sent, arrived, accepted, nonces, counted>>

InWindow(ts) == minute - ts \in -Window .. Window

\* The rows of device_request_nonces after the deletion of the expired ones.
Live == [n \in Nonces |-> IF nonces[n] < minute THEN -1 ELSE nonces[n]]

\* consume_device_nonce accepts: one transaction, and the nonce's unique index
\* makes a concurrent delivery wait for it.
ConsumeNonce(n) ==
    /\ n \in arrived
    /\ InWindow(sent[n])
    /\ Live[n] = -1
    /\ enabled
    /\ counted < RequestLimit
    /\ nonces' = [Live EXCEPT ![n] = minute + NonceLife]
    /\ counted' = counted + 1
    /\ accepted' = [accepted EXCEPT ![n] = @ + 1]
    /\ arrived' = arrived \ {n}
    /\ UNCHANGED <<minute, enabled, sent>>

\* Outside the window, replayed, disabled or over the limit: a rollback.
RejectRequest(n) ==
    /\ n \in arrived
    /\ ~InWindow(sent[n]) \/ Live[n] # -1 \/ ~enabled \/ counted >= RequestLimit
    /\ arrived' = arrived \ {n}
    /\ UNCHANGED <<minute, enabled, sent, accepted, nonces, counted>>

MinutePasses ==
    /\ minute < MaxMinute
    /\ minute' = minute + 1
    /\ counted' = 0
    /\ UNCHANGED <<enabled, sent, arrived, accepted, nonces>>

RequestsNext(requests) ==
    \/ \E n \in requests : Send(n) \/ AuthenticateDevice(n) \/ ConsumeNonce(n) \/ RejectRequest(n)
    \/ requests # {} /\ (Disable \/ MinutePasses)

-----------------------------------------------------------------------------
\* A request runs once, however often and however late the network delivers it:
\* the nonce's row outlives every moment at which the timestamp is in the window,
\* and a refusal (the rate limit) does not use the nonce up.
RequestRunsOnce == \A n \in Nonces : accepted[n] <= 1
=============================================================================
