------------------------------- MODULE Tokens -------------------------------
(***************************************************************************)
(* Access tokens: Identity's signing keys (token.Manager), which live in   *)
(* its memory, and the JWKS verifiers of the gateway and of Poll, which    *)
(* cache the published keys.  A request is verified by the gateway and     *)
(* then, with the same header, by Poll (the owner's RPCs) or by Identity   *)
(* (GetMe).                                                                *)
(*                                                                         *)
(* A verifier holds its mutex over the fetch of the keys.  Time is         *)
(* relative and in ticks: the age of a cache, the time a token has left    *)
(* and the time since a key was last published.  The tokens are the ones   *)
(* Identity issued.                                                        *)
(***************************************************************************)
EXTENDS Naturals, FiniteSets, FiniteSetsExt

CONSTANTS
    Bearers,        \* requests, each with a token of its own
    LowerCase,      \* the ones whose header spells the scheme "bearer"
    RefreshTTL,     \* ticks a fetched key set is trusted
    FetchTimeout,   \* http.Client.Timeout of a fetch, in ticks
    TokenLife,      \* ticks from the issue of a token to its exp
    MaxKeys,        \* bound: keys Identity ever makes
    None            \* no key, no request

ASSUME TokensConstants ==
    /\ RefreshTTL \in Nat \ {0} /\ FetchTimeout \in Nat /\ TokenLife \in Nat \ {0}
    /\ MaxKeys \in Nat \ {0}
    /\ LowerCase \subseteq Bearers
    /\ None \notin Bearers \cup Nat

Verifiers == {"gateway", "poll"}

\* After this many ticks the time since a key was published is not told apart.
GoneCap == RefreshTTL + FetchTimeout + 1

VARIABLES
    current,    \* Manager.current
    previous,   \* Manager.previous, None after a start
    gone,       \* history: ticks since a key was last published
    cached,     \* each verifier's keys; haveKeys when there are any
    age,        \* ticks since its fetchedAt, up to RefreshTTL
    mu,         \* the request that holds its mutex during a fetch
    served,     \* the keys in the answer on its way, {} before there is one
    fetching,   \* ticks its fetch has taken
    token,      \* each request's token: its key, and the ticks before its exp
    hop,        \* where each request is being verified
    pc,         \* where it is there
    verdict,    \* what each hop said of it
    faulty      \* history: requests that met a failed fetch

tokensVars == <<current, previous, gone, cached, age, mu, served, fetching,
                token, hop, pc, verdict, faulty>>

Hops == Verifiers \cup {"identity"}

NoVerdict == [h \in Hops |-> "none"]

-----------------------------------------------------------------------------
(* Identity *)

\* JWKS: the current key and the previous one.
Published == {current, previous} \ {None}

\* NewManager: a key of its own for every process.
NewManager ==
    /\ current = 1
    /\ previous = None

\* Rotate: the previous key is retired.
Rotate ==
    /\ current < MaxKeys
    /\ current' = current + 1
    /\ previous' = current
    /\ UNCHANGED <<gone, cached, age, mu, served, fetching, token, hop, pc, verdict, faulty>>

\* Identity starts again: with a new key and without the old ones.
Restart ==
    /\ current < MaxKeys
    /\ current' = current + 1
    /\ previous' = None
    /\ UNCHANGED <<gone, cached, age, mu, served, fetching, token, hop, pc, verdict, faulty>>

\* Issue: a token signed with the current key.
Issue(r) ==
    /\ pc[r] = "new"
    /\ token' = [token EXCEPT ![r] = [key |-> current, left |-> TokenLife]]
    /\ pc' = [pc EXCEPT ![r] = "idle"]
    /\ UNCHANGED <<current, previous, gone, cached, age, mu, served, fetching, hop, verdict, faulty>>

\* validateClaims, and the options of jwt.ParseWithClaims: of the claims that
\* Identity sets, only exp can fail.
Unexpired(r) == token[r].left > 0

\* Manager.Verify with publicKeyByKid.
IdentityVerdict(r) ==
    IF token[r].key \notin Published THEN "unknownKey"
    ELSE IF Unexpired(r) THEN "ok" ELSE "expired"

-----------------------------------------------------------------------------
(* A request *)

\* A request with the token, through the gateway.
Present(r) ==
    /\ pc[r] = "idle"
    /\ hop' = [hop EXCEPT ![r] = "gateway"]
    /\ pc' = [pc EXCEPT ![r] = "keyFor"]
    /\ verdict' = [verdict EXCEPT ![r] = NoVerdict]
    /\ faulty' = faulty \ {r}
    /\ UNCHANGED <<current, previous, gone, cached, age, mu, served, fetching, token>>

\* The hop is done: a refused request ends, an accepted one is forwarded by the
\* gateway with its header, to Poll, to Identity or to a service that does not
\* verify it.  bearerFromMetadata of Poll knows one spelling of the scheme, what
\* it makes of another one is no token.
Decide(r, v) ==
    LET next == IF hop[r] = "gateway" /\ v = "ok" THEN {"poll", "identity", "other"} ELSE {"other"} IN
    \E h \in next :
        CASE h = "other" ->
                 /\ verdict' = [verdict EXCEPT ![r][hop[r]] = v]
                 /\ pc' = [pc EXCEPT ![r] = "idle"]
                 /\ UNCHANGED hop
          [] h = "identity" ->
                 /\ verdict' = [verdict EXCEPT ![r][hop[r]] = v, ![r]["identity"] = IdentityVerdict(r)]
                 /\ pc' = [pc EXCEPT ![r] = "idle"]
                 /\ UNCHANGED hop
          [] h = "poll" /\ r \notin LowerCase ->
                 /\ verdict' = [verdict EXCEPT ![r][hop[r]] = v]
                 /\ pc' = [pc EXCEPT ![r] = "keyFor"]
                 /\ hop' = [hop EXCEPT ![r] = "poll"]
          [] h = "poll" /\ r \in LowerCase ->
                 /\ verdict' = [verdict EXCEPT ![r][hop[r]] = v, ![r]["poll"] = "malformed"]
                 /\ pc' = [pc EXCEPT ![r] = "idle"]
                 /\ UNCHANGED hop

\* keyFor's lookup, the signature and the claims.
LookupVerdict(r, keys) ==
    IF keys = {} THEN "noKeys"
    ELSE IF token[r].key \notin keys THEN "unknownKey"
    ELSE IF Unexpired(r) THEN "ok" ELSE "expired"

-----------------------------------------------------------------------------
(* A verifier *)

\* Mutant: an unknown kid is refused without a fetch.
NeedsRefreshStaleOnly(v, k) == cached[v] = {} \/ age[v] >= RefreshTTL

\* keyFor: the cache is stale, or the kid is unknown.
NeedsRefresh(v, k) == cached[v] = {} \/ age[v] >= RefreshTTL \/ k \notin cached[v]

\* keyFor answers from the cache.
KeyForCached(r) ==
    /\ pc[r] = "keyFor"
    /\ mu[hop[r]] = None
    /\ ~NeedsRefresh(hop[r], token[r].key)
    /\ Decide(r, LookupVerdict(r, cached[hop[r]]))
    /\ UNCHANGED <<current, previous, gone, cached, age, mu, served, fetching, token, faulty>>

\* refreshLocked begins.
KeyForFetch(r) ==
    /\ pc[r] = "keyFor"
    /\ mu[hop[r]] = None
    /\ NeedsRefresh(hop[r], token[r].key)
    /\ mu' = [mu EXCEPT ![hop[r]] = r]
    /\ pc' = [pc EXCEPT ![r] = "fetch"]
    /\ UNCHANGED <<current, previous, gone, cached, age, served, fetching, token, hop, verdict, faulty>>

\* GetJWKS answers the fetch.
GetJWKS(v) ==
    /\ mu[v] # None
    /\ served[v] = {}
    /\ served' = [served EXCEPT ![v] = Published]
    /\ UNCHANGED <<current, previous, gone, cached, age, mu, fetching, token, hop, pc, verdict, faulty>>

FetchEnds(v) ==
    /\ mu' = [mu EXCEPT ![v] = None]
    /\ served' = [served EXCEPT ![v] = {}]
    /\ fetching' = [fetching EXCEPT ![v] = 0]

\* refreshLocked replaces the keys, and the lookup goes on with them.
FetchSucceeds(r) ==
    /\ pc[r] = "fetch"
    /\ LET v == hop[r] IN
       /\ served[v] # {}
       /\ cached' = [cached EXCEPT ![v] = served[v]]
       /\ age' = [age EXCEPT ![v] = 0]
       /\ FetchEnds(v)
       /\ Decide(r, LookupVerdict(r, served[v]))
    /\ UNCHANGED <<current, previous, gone, token, faulty>>

\* Mutant: the error path returns with the mutex held.
FetchFailsLocked(r) ==
    /\ pc[r] = "fetch"
    /\ Decide(r, LookupVerdict(r, cached[hop[r]]))
    /\ faulty' = faulty \cup {r}
    /\ UNCHANGED <<current, previous, gone, cached, age, mu, served, fetching, token>>

\* Mutant: a failed refresh counts as one, as if fetchedAt were set before it.
FetchFailsRenews(r) ==
    /\ pc[r] = "fetch"
    /\ FetchEnds(hop[r])
    /\ age' = [age EXCEPT ![hop[r]] = 0]
    /\ Decide(r, LookupVerdict(r, cached[hop[r]]))
    /\ faulty' = faulty \cup {r}
    /\ UNCHANGED <<current, previous, gone, cached, token>>

\* The fetch fails (an error, a status, a body that is no key set, the timeout,
\* the client gone): the last keys are used, if there are any.
FetchFails(r) ==
    /\ pc[r] = "fetch"
    /\ FetchEnds(hop[r])
    /\ Decide(r, LookupVerdict(r, cached[hop[r]]))
    /\ faulty' = faulty \cup {r}
    /\ UNCHANGED <<current, previous, gone, cached, age, token>>

-----------------------------------------------------------------------------
(* Time *)

TokensTick ==
    /\ \A v \in Verifiers : mu[v] # None => fetching[v] < FetchTimeout
    /\ fetching' = [v \in Verifiers |-> IF mu[v] # None THEN fetching[v] + 1 ELSE 0]
    /\ age' = [v \in Verifiers |-> Min({age[v] + 1, RefreshTTL})]
    /\ gone' = [k \in 1..MaxKeys |->
                   IF k >= current \/ k \in Published THEN 0 ELSE Min({gone[k] + 1, GoneCap})]
    /\ token' = [r \in Bearers |-> [token[r] EXCEPT !.left = IF @ = 0 THEN 0 ELSE @ - 1]]
    /\ UNCHANGED <<current, previous, cached, mu, served, hop, pc, verdict, faulty>>

-----------------------------------------------------------------------------
(* Specification *)

TokensInit ==
    /\ NewManager
    /\ gone = [k \in 1..MaxKeys |-> 0]
    /\ cached = [v \in Verifiers |-> {}]
    /\ age = [v \in Verifiers |-> 0]
    /\ mu = [v \in Verifiers |-> None]
    /\ served = [v \in Verifiers |-> {}]
    /\ fetching = [v \in Verifiers |-> 0]
    /\ token = [r \in Bearers |-> [key |-> 1, left |-> 0]]
    /\ hop = [r \in Bearers |-> "gateway"]
    /\ pc = [r \in Bearers |-> "new"]
    /\ verdict = [r \in Bearers |-> NoVerdict]
    /\ faulty = {}

VerifyStep(r) == KeyForCached(r) \/ KeyForFetch(r) \/ FetchSucceeds(r) \/ FetchFails(r)

TokensNext ==
    \/ Rotate \/ Restart \/ TokensTick
    \/ \E v \in Verifiers : GetJWKS(v)
    \/ \E r \in Bearers : Issue(r) \/ Present(r) \/ VerifyStep(r)

\* The client's timeout ends every fetch, and sync.Mutex starves nobody.
TokensSpec ==
    /\ TokensInit
    /\ [][TokensNext]_tokensVars
    /\ \A r \in Bearers : SF_tokensVars(VerifyStep(r))

-----------------------------------------------------------------------------
(* Properties *)

TokensTypeOK ==
    /\ current \in 1..MaxKeys
    /\ previous \in 1..MaxKeys \cup {None}
    /\ gone \in [1..MaxKeys -> 0..GoneCap]
    /\ cached \in [Verifiers -> SUBSET (1..MaxKeys)]
    /\ age \in [Verifiers -> 0..RefreshTTL]
    /\ mu \in [Verifiers -> Bearers \cup {None}]
    /\ served \in [Verifiers -> SUBSET (1..MaxKeys)]
    /\ fetching \in [Verifiers -> 0..FetchTimeout]
    /\ token \in [Bearers -> [key : 1..MaxKeys, left : 0..TokenLife]]
    /\ pc \in [Bearers -> {"new", "idle", "keyFor", "fetch"}]
    /\ \A v \in Verifiers : mu[v] # None => pc[mu[v]] = "fetch" /\ hop[mu[v]] = v

\* No hop refuses a token without a reason: it has expired, Identity no longer
\* publishes its key, a fetch failed, or Poll was sent the scheme in small letters.
\* A cache that has not seen the key yet, however fresh, is none.
RefusedForReason ==
    \A r \in Bearers, h \in Hops :
        verdict[r][h] \notin {"none", "ok"} =>
            \/ token[r].left = 0
            \/ token[r].key \notin Published
            \/ r \in faulty
            \/ h = "poll" /\ r \in LowerCase

\* The verifiers are in one of their states, the mutex with the request that
\* fetches, and no hop refuses a token without a reason.
VerdictsSafe == TokensTypeOK /\ RefusedForReason

\* A key that Identity has stopped publishing is accepted for at most the trust in
\* a key set and the time of a fetch; beyond that only by a request whose own
\* fetch failed.
RetiredKeyLapses ==
    [][\A r \in Bearers, v \in Verifiers :
           verdict'[r][v] = "ok" /\ verdict[r][v] # "ok" =>
               gone[token[r].key] < RefreshTTL + FetchTimeout \/ r \in faulty']_tokensVars

\* Every Verify returns, although all requests of a verifier wait for the one
\* that fetches, with Identity down or not.
EveryVerifyReturns == \A r \in Bearers : pc[r] \in {"keyFor", "fetch"} ~> pc[r] = "idle"
=============================================================================
