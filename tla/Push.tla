-------------------------------- MODULE Push --------------------------------
(***************************************************************************)
(* The push providers of the Notification service: notify.Router, and the  *)
(* APNs and FCM clients with the provider token each of them caches.  The  *)
(* sweeps of Outbox call Push; what an outcome does to a row is modelled   *)
(* there.                                                                  *)
(*                                                                         *)
(* Time is relative: the cache and every push under way carry the ticks    *)
(* their token has left.  APNs accepts a token for Life ticks after it was *)
(* signed, Google says in its answer how long a token lives.               *)
(***************************************************************************)
EXTENDS Naturals

CONSTANTS
    Pushers,    \* calls of Router.Push that may overlap
    Life,       \* ticks a provider token lives
    Margin,     \* ticks before its end at which the client replaces it
    Timeout     \* http.Client.Timeout, in ticks

ASSUME PushConstants ==
    /\ Life \in Nat /\ Margin \in Nat /\ Timeout \in Nat
    /\ Timeout <= Margin /\ Margin + Timeout < Life

Platforms == {"ios", "android"}

VARIABLES
    configured, \* platforms with a provider in the router
    left,       \* ticks left of each platform's cached token, 0 without one
    minting,    \* the pusher that holds mu during the token request, or "free"
    at,         \* where each pusher is
    platform,   \* the platform of its device
    carried,    \* ticks left of the token its request carries
    waited,     \* ticks its current HTTP request has taken
    outcome     \* what Push returned last

pushVars == <<configured, left, minting, at, platform, carried, waited, outcome>>

\* buildRouter: each provider is opt-in.
BuildRouter == configured \in SUBSET Platforms

PushInit ==
    /\ BuildRouter
    /\ left = [p \in Platforms |-> 0]
    /\ minting = [p \in Platforms |-> "free"]
    /\ at = [c \in Pushers |-> "idle"]
    /\ platform \in [Pushers -> Platforms]
    /\ carried = [c \in Pushers |-> 0]
    /\ waited = [c \in Pushers |-> 0]
    /\ outcome = [c \in Pushers |-> "none"]

PushReturns(c, result) ==
    /\ at' = [at EXCEPT ![c] = "idle"]
    /\ carried' = [carried EXCEPT ![c] = 0]
    /\ waited' = [waited EXCEPT ![c] = 0]
    /\ outcome' = [outcome EXCEPT ![c] = result]

\* Router.Push: without a provider for the platform the error is a plain one,
\* which the dispatcher retries.
Route(c) ==
    /\ at[c] = "idle"
    /\ IF platform[c] \in configured
       THEN /\ at' = [at EXCEPT ![c] = "token"]
            /\ outcome' = [outcome EXCEPT ![c] = "none"]
            /\ UNCHANGED <<carried, waited>>
       ELSE PushReturns(c, "transient")
    /\ UNCHANGED <<configured, left, minting, platform>>

\* Mutant: a cached token is used to its last tick.
UsableToTheEnd(p) == left[p] > 0

\* The cached token is used unless it is near its end (APNs: older than 50 of its
\* 60 minutes; FCM: less than a minute left).
Usable(p) == left[p] > Margin

\* token() and Token(ctx) with a usable token in the cache.
TokenCached(c) ==
    /\ at[c] = "token"
    /\ minting[platform[c]] = "free"
    /\ Usable(platform[c])
    /\ at' = [at EXCEPT ![c] = "sent"]
    /\ carried' = [carried EXCEPT ![c] = left[platform[c]]]
    /\ UNCHANGED <<configured, left, minting, platform, waited, outcome>>

\* APNs token(): signed in the process, under the lock.
SignToken(c) ==
    /\ at[c] = "token"
    /\ platform[c] = "ios"
    /\ ~Usable("ios")
    /\ left' = [left EXCEPT !["ios"] = Life]
    /\ at' = [at EXCEPT ![c] = "sent"]
    /\ carried' = [carried EXCEPT ![c] = Life]
    /\ UNCHANGED <<configured, minting, platform, waited, outcome>>

\* FCM Token(ctx): requested from Google with the lock held.
RequestToken(c) ==
    /\ at[c] = "token"
    /\ platform[c] = "android"
    /\ minting["android"] = "free"
    /\ ~Usable("android")
    /\ minting' = [minting EXCEPT !["android"] = c]
    /\ at' = [at EXCEPT ![c] = "minting"]
    /\ UNCHANGED <<configured, left, platform, carried, waited, outcome>>

\* The answer: exp counts from the time before the request.
TokenGranted(c) ==
    /\ at[c] = "minting"
    /\ minting' = [minting EXCEPT !["android"] = "free"]
    /\ left' = [left EXCEPT !["android"] = Life - waited[c]]
    /\ at' = [at EXCEPT ![c] = "sent"]
    /\ carried' = [carried EXCEPT ![c] = Life - waited[c]]
    /\ waited' = [waited EXCEPT ![c] = 0]
    /\ UNCHANGED <<configured, platform, outcome>>

\* Mutant: the error path returns without the deferred unlock.
TokenRefusedLocked(c) ==
    /\ at[c] = "minting"
    /\ PushReturns(c, "transient")
    /\ UNCHANGED <<configured, left, minting, platform>>

\* A status other than 200, an unreadable body or a timeout: the lock is released,
\* the cache keeps what it had.
TokenRefused(c) ==
    /\ at[c] = "minting"
    /\ minting' = [minting EXCEPT !["android"] = "free"]
    /\ PushReturns(c, "transient")
    /\ UNCHANGED <<configured, left, platform>>

\* What a provider can answer, for each platform.
Answers(p) ==
    {"200", "429", "403", "5xx", "lost"} \cup
    IF p = "ios" THEN {"410", "400 BadDeviceToken", "400 Unregistered", "400 other"}
    ELSE {"404", "400 UNREGISTERED", "400 NOT_FOUND", "400 other"}

\* The switch of APNs.Push and FCM.Push over the status and the error body.
Classify(a) ==
    CASE a = "200" -> "delivered"
      [] a \in {"410", "404", "400 BadDeviceToken", "400 Unregistered",
                "400 UNREGISTERED", "400 NOT_FOUND"} -> "invalidToken"
      [] OTHER -> "transient"

Answered(c) ==
    /\ at[c] = "sent"
    /\ \E a \in Answers(platform[c]) : PushReturns(c, Classify(a))
    /\ UNCHANGED <<configured, left, minting, platform>>

Less(n) == IF n = 0 THEN 0 ELSE n - 1

\* Time passes; an HTTP request is given up after Timeout.
PushTick ==
    /\ \A c \in Pushers : at[c] \in {"sent", "minting"} => waited[c] < Timeout
    /\ left' = [p \in Platforms |-> Less(left[p])]
    /\ carried' = [c \in Pushers |-> Less(carried[c])]
    /\ waited' = [c \in Pushers |->
                     IF at[c] \in {"sent", "minting"} THEN waited[c] + 1 ELSE 0]
    /\ UNCHANGED <<configured, minting, at, platform, outcome>>

PushStep(c) ==
    \/ TokenCached(c) \/ SignToken(c) \/ RequestToken(c)
    \/ TokenGranted(c) \/ TokenRefused(c) \/ Answered(c)

PushNext == PushTick \/ \E c \in Pushers : Route(c) \/ PushStep(c)

\* The HTTP client's timeout ends every request, and sync.Mutex starves nobody.
PushSpec ==
    /\ PushInit
    /\ [][PushNext]_pushVars
    /\ \A c \in Pushers : SF_pushVars(PushStep(c))

-----------------------------------------------------------------------------
(* Properties *)

PushTypeOK ==
    /\ configured \subseteq Platforms
    /\ left \in [Platforms -> 0..Life]
    /\ minting \in [Platforms -> Pushers \cup {"free"}]
    /\ at \in [Pushers -> {"idle", "token", "minting", "sent"}]
    /\ carried \in [Pushers -> 0..Life]
    /\ waited \in [Pushers -> 0..Timeout]
    /\ outcome \in [Pushers -> {"none", "delivered", "invalidToken", "transient"}]

\* No push carries a provider token that has run out when its answer comes,
\* however long the token request and the push itself take: the margin covers the
\* client's timeout and the expiry is counted from before the request.
CarriesLiveToken == \A c \in Pushers : at[c] = "sent" => carried[c] > 0

\* The providers are in one of their states and no push carries a dead token.
PushSafe == PushTypeOK /\ CarriesLiveToken

\* Every Push returns: a pusher that waits for another one's token request is not
\* held for ever, although mu is held over that request.
EveryPushReturns == \A c \in Pushers : at[c] # "idle" ~> at[c] = "idle"
=============================================================================
