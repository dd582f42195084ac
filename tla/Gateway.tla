------------------------------ MODULE Gateway ------------------------------
(***************************************************************************)
(* The public edge: the middleware chain of the API gateway (global, per   *)
(* IP, per user and refresh budgets in fixed windows, the JWT check), its  *)
(* handlers, each a call of a domain service or two, and the mapping of    *)
(* their errors.  What the JWT check does is modelled in Tokens; here it   *)
(* accepts or refuses.                                                     *)
(*                                                                         *)
(* GET /v1/generations/{id} asks Surprise twice, for the status and for    *)
(* the ideas, while the generation and its refinements go on.              *)
(***************************************************************************)
EXTENDS Naturals, FiniteSets

CONSTANTS
    Requests,       \* HTTP requests under way
    Clients,        \* client addresses; a client signs in as itself
    Budgets,        \* calls allowed in a window, for each kind of limiter; 0 is off
    Window,         \* length of a window, in ticks
    MaxRankings     \* bound: rankings of the generation that is asked for

Limiters == {"global", "ip", "user", "refresh"}

ASSUME GatewayConstants ==
    /\ Budgets \in [Limiters -> Nat]
    /\ Clients # {}
    /\ Window \in Nat /\ MaxRankings \in Nat

\* The keys of the limiters' buckets.
BucketKeys == {<<"global", "all">>} \cup ({"ip", "user", "refresh"} \X Clients)

\* The routes, by what guards them: handleSignIn, the token routes and /healthz;
\* handleRefresh; the ones behind requireJWT; and of these the one that aggregates.
Routes == {"open", "refresh", "jwt", "generation"}

VARIABLES
    bucket,     \* each key's count, and the ticks to the end of its window
    stage,      \* where each request is
    route,      \* its route
    client,     \* its client
    reply,      \* the answer it got
    passed,     \* history: for each client, the requests that passed the per-IP
                \* limiter, as <<how many ticks ago, number within that tick>>
    genStatus,  \* status of the generation in Surprise
    ranking     \* the ideas GetIdeas returns, 0 for none, by their ranking

limiterVars == <<bucket, passed>>
genVars == <<genStatus, ranking>>
gatewayVars == <<limiterVars, stage, route, client, reply, genVars>>

NoAnswer == [code |-> 0, status |-> "none", ideas |-> 0]
Answer(c) == [NoAnswer EXCEPT !.code = c]

-----------------------------------------------------------------------------
(* Limiter *)

Key(kind, r) == IF kind = "global" THEN <<"global", "all">> ELSE <<kind, client[r]>>

\* Mutant: now.Before(windowEnds), or no bucket yet.
WindowOverInverted(k) == bucket[k].left >= 0

\* now.After(windowEnds), or no bucket yet.
WindowOver(k) == bucket[k].left = 0

\* Window.Allow, and Noop when the budget is 0.
Allows(kind, r) ==
    LET k == Key(kind, r) IN
    Budgets[kind] = 0 \/ WindowOver(k) \/ bucket[k].count < Budgets[kind]

\* The bucket after a call that was allowed; the window includes its last instant.
Charge(kind, r) ==
    LET k == Key(kind, r) IN
    bucket' = IF Budgets[kind] = 0 THEN bucket
              ELSE IF WindowOver(k) THEN [bucket EXCEPT ![k] = [count |-> 1, left |-> Window + 1]]
              ELSE [bucket EXCEPT ![k].count = @ + 1]

Reply(r, a) ==
    /\ stage' = [stage EXCEPT ![r] = "answered"]
    /\ reply' = [reply EXCEPT ![r] = a]

\* The history after one more request of c passed the per-IP limiter.
NotePass(c) ==
    [passed EXCEPT ![c] = @ \cup {<<0, Cardinality({p \in @ : p[1] = 0}) + 1>>}]

\* A middleware that asks a limiter and goes on, or answers 429.
AskLimiter(r, kind, next) ==
    /\ \/ /\ Allows(kind, r)
          /\ Charge(kind, r)
          /\ passed' = IF kind = "ip" THEN NotePass(client[r]) ELSE passed
          /\ stage' = [stage EXCEPT ![r] = next]
          /\ UNCHANGED reply
       \/ /\ ~Allows(kind, r)
          /\ Reply(r, Answer(429))
          /\ UNCHANGED limiterVars
    /\ UNCHANGED <<route, client, genVars>>

-----------------------------------------------------------------------------
(* Middleware *)

\* A request comes in; clientIP names its client.
Arrive(r, p, c) ==
    /\ stage[r] = "new"
    /\ stage' = [stage EXCEPT ![r] = "global"]
    /\ route' = [route EXCEPT ![r] = p]
    /\ client' = [client EXCEPT ![r] = c]
    /\ UNCHANGED <<limiterVars, reply, genVars>>

\* globalLimitMW: the global budget, then the client's.
GlobalLimit(r) == stage[r] = "global" /\ AskLimiter(r, "global", "ip")
PerIPLimit(r) == stage[r] = "ip" /\ AskLimiter(r, "ip", "route")

\* Handler and routeRoot: to the route's own guards.
Dispatch(r) ==
    /\ stage[r] = "route"
    /\ stage' = [stage EXCEPT ![r] = CASE route[r] = "open" -> "call"
                                       [] route[r] = "refresh" -> "refresh"
                                       [] OTHER -> "jwt"]
    /\ UNCHANGED <<limiterVars, route, client, reply, genVars>>

\* limitRefresh.
LimitRefresh(r) == stage[r] = "refresh" /\ AskLimiter(r, "refresh", "call")

\* requireJWT: a header without a token or a token that is refused is a 401.
RequireJWT(r) ==
    /\ stage[r] = "jwt"
    /\ \/ stage' = [stage EXCEPT ![r] = "user"] /\ UNCHANGED reply
       \/ Reply(r, Answer(401))
    /\ UNCHANGED <<limiterVars, route, client, genVars>>

\* The second half of requireJWT: the user's budget.
PerUserLimit(r) ==
    /\ stage[r] = "user"
    /\ AskLimiter(r, "user", IF route[r] = "generation" THEN "status" ELSE "call")

-----------------------------------------------------------------------------
(* Handlers *)

\* mapGRPCCode.
MapGRPCCode(c) ==
    CASE c = "OK" -> 200
      [] c \in {"InvalidArgument", "OutOfRange"} -> 400
      [] c = "Unauthenticated" -> 401
      [] c = "PermissionDenied" -> 403
      [] c = "NotFound" -> 404
      [] c \in {"AlreadyExists", "Aborted"} -> 409
      [] c = "FailedPrecondition" -> 422
      [] c = "ResourceExhausted" -> 429
      [] c = "Canceled" -> 499
      [] c = "Unavailable" -> 502
      [] c = "DeadlineExceeded" -> 504
      [] c = "Unimplemented" -> 501
      [] OTHER -> 500

\* A call fails with an error of the service, or because the service is gone or
\* the 15 seconds of reqCtx are over.
CallErrors == {"InvalidArgument", "DeadlineExceeded"}

\* decodeJSON refuses a body that is no JSON, is too long or has unknown fields.
BadBody == 400

\* A handler that makes one call: the answer is one of its own, or the call's error.
Handled(r, routes, codes) ==
    /\ stage[r] = "call"
    /\ route[r] \in routes
    /\ \E a \in codes \cup {MapGRPCCode(c) : c \in CallErrors} : Reply(r, Answer(a))
    /\ UNCHANGED <<limiterVars, route, client, genVars>>

\* handleSignIn, handleRefresh, handleRevoke, handleGetMe.
IdentityHandlers(r) == Handled(r, {"open", "refresh", "jwt"}, {200, BadBody})

\* The owner's and the partner's poll routes; a poll is created with 201.
PollHandlers(r) == Handled(r, {"open", "jwt"}, {200, 201, BadBody})

\* handleRequestGeneration, handleRefine and handleSaveIdea; the first two are
\* answered before the work is done.
SurpriseHandlers(r) == Handled(r, {"jwt"}, {200, 202, BadBody})

\* handleListHolidays and handleGetCategories: no body.
CatalogHandlers(r) == Handled(r, {"jwt"}, {200})

\* handleRegisterDevice.
DeviceHandlers(r) == Handled(r, {"jwt"}, {201, BadBody})

HandleCall(r) ==
    \/ IdentityHandlers(r) \/ PollHandlers(r) \/ SurpriseHandlers(r)
    \/ CatalogHandlers(r) \/ DeviceHandlers(r)

\* handleGetGeneration: the status, and if it is ready the ideas are asked for.
GetGenerationStatus(r) ==
    /\ stage[r] = "status"
    /\ \/ /\ genStatus = "ready"
          /\ stage' = [stage EXCEPT ![r] = "ideas"]
          /\ UNCHANGED reply
       \/ /\ genStatus # "ready"
          /\ Reply(r, [Answer(200) EXCEPT !.status = genStatus])
       \/ \E c \in CallErrors : Reply(r, Answer(MapGRPCCode(c)))
    /\ UNCHANGED <<limiterVars, route, client, genVars>>

GetIdeas(r) ==
    /\ stage[r] = "ideas"
    /\ \/ Reply(r, [code |-> 200, status |-> "ready", ideas |-> ranking])
       \/ \E c \in CallErrors : Reply(r, Answer(MapGRPCCode(c)))
    /\ UNCHANGED <<limiterVars, route, client, genVars>>

\* The client has its answer, the next request of the slot may come.
Done(r) ==
    /\ stage[r] = "answered"
    /\ stage' = [stage EXCEPT ![r] = "new"]
    /\ route' = [route EXCEPT ![r] = "open"]
    /\ reply' = [reply EXCEPT ![r] = NoAnswer]
    /\ UNCHANGED <<limiterVars, client, genVars>>

-----------------------------------------------------------------------------
(* Surprise, as these calls see it (modelled in full in Generation) *)

Generate(from, to) ==
    /\ genStatus = from
    /\ genStatus' = to
    /\ UNCHANGED <<limiterVars, stage, route, client, reply>>

GenerationRuns == Generate("queued", "running") /\ UNCHANGED ranking
GenerationFails == Generate("running", "failed") /\ UNCHANGED ranking

\* Mutant: the new ideas are saved after the status says ready.
SaveIdeasLate ==
    \/ Generate("running", "saved") /\ UNCHANGED ranking
    \/ Generate("ready", "ready") /\ ranking < MaxRankings /\ ranking' = ranking + 1

\* SaveIdeas, before the status: one transaction replaces the ideas.
SaveIdeas ==
    /\ ranking < MaxRankings
    /\ Generate("running", "saved")
    /\ ranking' = ranking + 1

SetReady == Generate("saved", "ready") /\ UNCHANGED ranking

\* Refine: the ideas stay until the new ones replace them.
Refine == (Generate("ready", "queued") \/ Generate("failed", "queued")) /\ UNCHANGED ranking

-----------------------------------------------------------------------------
(* Specification *)

GatewayTick ==
    /\ bucket' = [k \in BucketKeys |-> IF bucket[k].left <= 1 THEN [count |-> 0, left |-> 0]
                                       ELSE [bucket[k] EXCEPT !.left = @ - 1]]
    /\ passed' = [c \in Clients |->
                     {<<p[1] + 1, p[2]>> : p \in {q \in passed[c] : q[1] < Window}}]
    /\ UNCHANGED <<stage, route, client, reply, genVars>>

GatewayInit ==
    /\ bucket = [k \in BucketKeys |-> [count |-> 0, left |-> 0]]
    /\ passed = [c \in Clients |-> {}]
    /\ stage = [r \in Requests |-> "new"]
    /\ route = [r \in Requests |-> "open"]
    /\ client \in [Requests -> {CHOOSE c \in Clients : TRUE}]
    /\ reply = [r \in Requests |-> NoAnswer]
    /\ genStatus = "queued"
    /\ ranking = 0

GatewayNext ==
    \/ GatewayTick
    \/ \E r \in Requests :
         \/ \E p \in Routes, c \in Clients : Arrive(r, p, c)
         \/ GlobalLimit(r) \/ PerIPLimit(r) \/ Dispatch(r) \/ LimitRefresh(r)
         \/ RequireJWT(r) \/ PerUserLimit(r)
         \/ HandleCall(r) \/ GetGenerationStatus(r) \/ GetIdeas(r) \/ Done(r)
    \/ GenerationRuns \/ GenerationFails \/ SaveIdeas \/ SetReady \/ Refine

GatewaySpec == GatewayInit /\ [][GatewayNext]_gatewayVars

-----------------------------------------------------------------------------
(* Properties *)

GatewayTypeOK ==
    /\ bucket \in [BucketKeys -> [count : Nat, left : 0..(Window + 1)]]
    /\ \A k \in BucketKeys : bucket[k].count <= Budgets[k[1]]
    /\ route \in [Requests -> Routes] /\ client \in [Requests -> Clients]
    /\ genStatus \in {"queued", "running", "saved", "ready", "failed"}

\* What the per-IP budget promises: in any interval as long as a window, wherever
\* it begins, no more than two budgets of a client's requests pass.
PerIPBudgetHolds ==
    Budgets["ip"] # 0 =>
        \A c \in Clients : Cardinality(passed[c]) <= 2 * Budgets["ip"]

\* The answer that says ready has ideas in it, although the status and the ideas
\* are asked for one after the other and a refinement may run in between.
ReadyAnswerHasIdeas ==
    \A r \in Requests : reply[r].status = "ready" => reply[r].ideas > 0

\* The gateway is in one of its states and no window lets too many through.
GatewaySafe == GatewayTypeOK /\ PerIPBudgetHolds
=============================================================================
