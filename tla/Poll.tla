-------------------------------- MODULE Poll --------------------------------
(***************************************************************************)
(* The Poll service: anonymous calls that fetch a poll or submit the one   *)
(* response it takes, behind fixed-window rate limits counted in Valkey    *)
(* (INCR, then EXPIRE by whoever counted 1), and the PollCompleted event   *)
(* published after the response is committed.                              *)
(*                                                                         *)
(* Every Valkey command, database round trip and publish is a step of the  *)
(* call.  A command may fail, applied or not; a call may die with its      *)
(* process between any two steps.                                          *)
(*                                                                         *)
(* Link and poll get the same ExpiresAt and no code revokes a link, so the *)
(* checks of fetchable come down to the status and one expiry.             *)
(***************************************************************************)
EXTENDS Naturals, FiniteSets

CONSTANTS
    Polls,              \* polls, each with the token of its link
    IPs,                \* client addresses
    Calls,              \* GetPollByToken and SubmitResponse RPCs
    PerTokenBudget,     \* submissions of a token in a window
    PerIPBudget         \* submissions, and fetches, of an address in a window

\* NewServer replaces a budget that is not positive by its default.
ASSUME PollConstants ==
    /\ PerTokenBudget \in Nat \ {0}
    /\ PerIPBudget \in Nat \ {0}

\* The counters: rl:submit:token, rl:submit:ip and rl:fetch:ip.
Keys == ({"token"} \X Polls) \cup ({"ip", "fetch"} \X IPs)

VARIABLES
    status,     \* polls.status, "none" before the poll is created
    expired,    \* polls whose ExpiresAt has passed
    responses,  \* the rows of poll_responses, by the call that wrote them
    events,     \* the PollCompleted events stored by JetStream, likewise
    count,      \* the value of each counter, 0 if there is no key
    ttl,        \* the counters that have a TTL
    pc,         \* where each call is
    limit,      \* the limit a call is at, later the last one it passed
    poll,       \* the poll whose token a call carries
    ip,         \* where a call comes from
    passed,     \* history: calls a counter let through in the current window
    faulted     \* history: counters whose EXPIRE was never executed

stored == <<status, expired, responses, events>>
limits == <<count, ttl, passed, faulted>>
vars == <<stored, limits, pc, limit, poll, ip>>

\* How a call ends for its client.
Final == {"ok", "fetched", "notFound", "invalid", "limited", "error"}

TypeOK ==
    /\ status \in [Polls -> {"none", "active", "completed"}]
    /\ expired \subseteq Polls
    /\ responses \in [Polls -> SUBSET Calls]
    /\ events \in [Polls -> SUBSET Calls]
    /\ count \in [Keys -> Nat]
    /\ ttl \subseteq Keys
    /\ pc \in [Calls -> {"new", "incr", "expire", "lookup", "complete", "publish"} \cup Final]
    /\ limit \in [Calls -> {"none", "token", "ip", "fetch"}]
    /\ poll \in [Calls -> Polls]
    /\ ip \in [Calls -> IPs]
    /\ passed \in [Keys -> Nat]
    /\ faulted \subseteq Keys
    /\ \A c \in Calls : pc[c] \in Final \cup {"new"} <=> limit[c] = "none"

\* The counter of a limit, for the token of poll p and for the address i.
Counter(l, p, i) == IF l = "token" THEN <<l, p>> ELSE <<l, i>>

\* The counter a call is at.
Key(c) == Counter(limit[c], poll[c], ip[c])

Goto(c, l) == pc' = [pc EXCEPT ![c] = l] /\ UNCHANGED limit

\* Go on to a limit.
GotoLimit(c, m) == pc' = [pc EXCEPT ![c] = "incr"] /\ limit' = [limit EXCEPT ![c] = m]

\* The call returns.
Finish(c, l) == pc' = [pc EXCEPT ![c] = l] /\ limit' = [limit EXCEPT ![c] = "none"]

Budget(k) == IF k[1] = "token" THEN PerTokenBudget ELSE PerIPBudget

\* Mutant: the call that reaches the budget is refused one call too late.
WithinLate(n, k) == n <= Budget(k) + 1

\* Allow: n is still within budget.
Within(n, k) == n <= Budget(k)

-----------------------------------------------------------------------------
(* Polls *)

\* CreatePoll: the poll and its link, in one transaction.
CreatePoll(p) ==
    /\ status[p] = "none"
    /\ status' = [status EXCEPT ![p] = "active"]
    /\ UNCHANGED <<expired, responses, events, limits, pc, limit, poll, ip>>

\* ExpiresAt passes.
Expires(p) ==
    /\ status[p] # "none"
    /\ p \notin expired
    /\ expired' = expired \cup {p}
    /\ UNCHANGED <<status, responses, events, limits, pc, limit, poll, ip>>

\* fetchable
Fetchable(p) == status[p] = "active" /\ p \notin expired

-----------------------------------------------------------------------------
(* The rate limits *)

\* SubmitResponse begins with the limit of the token.
BeginSubmit(c) ==
    /\ pc[c] = "new"
    /\ GotoLimit(c, "token")
    /\ UNCHANGED <<stored, limits, poll, ip>>

\* GetPollByToken begins with the limit of the address.
BeginFetch(c) ==
    /\ pc[c] = "new"
    /\ GotoLimit(c, "fetch")
    /\ UNCHANGED <<stored, limits, poll, ip>>

\* Allow returns with count n: the limit of the token is followed by that of the
\* address, and this one, like the limit on fetches, by the lookup.
Decide(c, n) ==
    \/ /\ ~ Within(n, Key(c))
       /\ Finish(c, "limited")
       /\ UNCHANGED passed
    \/ /\ Within(n, Key(c))
       /\ passed' = [passed EXCEPT ![Key(c)] = @ + 1]
       /\ IF limit[c] = "token"
          THEN GotoLimit(c, "ip")
          ELSE Goto(c, "lookup")

\* Mutant: the first increment is taken to return 0.
FirstInWindowZero(n) == n = 0

\* The increment that creates the counter sets its TTL.
FirstInWindow(n) == n = 1

\* INCR, and the decision unless the TTL is still to be set.
Incr(c) ==
    LET n == count[Key(c)] + 1
    IN  /\ pc[c] = "incr"
        /\ count' = [count EXCEPT ![Key(c)] = n]
        /\ IF FirstInWindow(n)
           THEN Goto(c, "expire") /\ UNCHANGED passed
           ELSE Decide(c, n)
        /\ UNCHANGED <<stored, ttl, faulted, poll, ip>>

\* The INCR fails without effect.
IncrFails(c) ==
    /\ pc[c] = "incr"
    /\ Finish(c, "error")
    /\ UNCHANGED <<stored, limits, poll, ip>>

\* The INCR is applied and its answer lost; if it was the first of the window,
\* no call will set the TTL.
IncrAnswerLost(c) ==
    /\ pc[c] = "incr"
    /\ Finish(c, "error")
    /\ count' = [count EXCEPT ![Key(c)] = @ + 1]
    /\ faulted' = IF count[Key(c)] = 0 THEN faulted \cup {Key(c)} ELSE faulted
    /\ UNCHANGED <<stored, ttl, passed, poll, ip>>

\* EXPIRE, and the decision on the count of 1.
ExpireKey(c) ==
    /\ pc[c] = "expire"
    /\ ttl' = ttl \cup {Key(c)}
    /\ Decide(c, 1)
    /\ UNCHANGED <<stored, count, faulted, poll, ip>>

\* The EXPIRE fails, and the call is refused whether it was applied or not.
ExpireKeyFails(c) ==
    /\ pc[c] = "expire"
    /\ Finish(c, "error")
    /\ \/ faulted' = faulted \cup {Key(c)} /\ UNCHANGED ttl
       \/ ttl' = ttl \cup {Key(c)} /\ UNCHANGED faulted
    /\ UNCHANGED <<stored, count, passed, poll, ip>>

\* The TTL of a counter ends, and with it the window.
WindowElapses(k) ==
    /\ k \in ttl
    /\ ttl' = ttl \ {k}
    /\ count' = [count EXCEPT ![k] = 0]
    /\ passed' = [passed EXCEPT ![k] = 0]
    /\ UNCHANGED <<stored, faulted, pc, limit, poll, ip>>

-----------------------------------------------------------------------------
(* Past the limits *)

\* ValidateAnswers: the answers fit the poll's questions or they do not.  It looks
\* at the call's own input and at questions that never change.
ValidateAnswers(c) == Goto(c, "complete") \/ Finish(c, "invalid")

\* GetByTokenHash and fetchable: a fetch is answered, a submission goes on to its
\* answers.  An unknown, completed or expired poll is not found.
Lookup(c) ==
    /\ pc[c] = "lookup"
    /\ \/ ~ Fetchable(poll[c]) /\ Finish(c, "notFound")
       \/ Fetchable(poll[c]) /\ limit[c] = "fetch" /\ Finish(c, "fetched")
       \/ Fetchable(poll[c]) /\ limit[c] = "ip" /\ ValidateAnswers(c)
    /\ UNCHANGED <<stored, limits, poll, ip>>

\* The query fails.
LookupFails(c) ==
    /\ pc[c] = "lookup"
    /\ Finish(c, "error")
    /\ UNCHANGED <<stored, limits, poll, ip>>

\* Mutant: the UPDATE has no condition on the status.
RecordUnguarded(c, p) ==
    /\ status' = [status EXCEPT ![p] = "completed"]
    /\ responses' = [responses EXCEPT ![p] = @ \cup {c}]

\* The committed transaction of CompleteWithResponse.
Record(c, p) ==
    /\ status[p] = "active"
    /\ status' = [status EXCEPT ![p] = "completed"]
    /\ responses' = [responses EXCEPT ![p] = @ \cup {c}]

\* CompleteWithResponse: of the calls that found the poll active one completes
\* it.  Whether it has expired in between is not looked at again.
CompleteWithResponse(c) ==
    /\ pc[c] = "complete"
    /\ Record(c, poll[c])
    /\ Goto(c, "publish")
    /\ UNCHANGED <<expired, events, limits, poll, ip>>

\* Mutant: a second response is taken for a retry of the first and answered Ok.
AlreadyCompletedOk(c) ==
    /\ pc[c] = "complete"
    /\ status[poll[c]] # "active"
    /\ Finish(c, "ok")
    /\ UNCHANGED <<stored, limits, poll, ip>>

\* The UPDATE finds no active row.
AlreadyCompleted(c) ==
    /\ pc[c] = "complete"
    /\ status[poll[c]] # "active"
    /\ Finish(c, "notFound")
    /\ UNCHANGED <<stored, limits, poll, ip>>

\* The transaction fails and is rolled back.
CompleteFails(c) ==
    /\ pc[c] = "complete"
    /\ Finish(c, "error")
    /\ UNCHANGED <<stored, limits, poll, ip>>

\* The transaction is committed and the answer to the COMMIT lost.
CommitAnswerLost(c) ==
    /\ pc[c] = "complete"
    /\ Record(c, poll[c])
    /\ Finish(c, "error")
    /\ UNCHANGED <<expired, events, limits, poll, ip>>

\* PublishPollCompleted.  Its failure is logged and the call answered all the
\* same, whether the event was stored or not.
PublishPollCompleted(c) ==
    /\ pc[c] = "publish"
    /\ events' = [events EXCEPT ![poll[c]] = @ \cup {c}]
    /\ Finish(c, "ok")
    /\ UNCHANGED <<status, expired, responses, limits, poll, ip>>

PublishFails(c) ==
    /\ pc[c] = "publish"
    /\ Finish(c, "ok")
    /\ UNCHANGED <<stored, limits, poll, ip>>

\* The process dies in the middle of a call, which is an error to the client.
Crash(c) ==
    /\ pc[c] \notin Final \cup {"new"}
    /\ Finish(c, "error")
    /\ faulted' = IF pc[c] = "expire" THEN faulted \cup {Key(c)} ELSE faulted
    /\ UNCHANGED <<stored, count, ttl, passed, poll, ip>>

-----------------------------------------------------------------------------
(* Specification *)

Init ==
    /\ status = [p \in Polls |-> "none"]
    /\ expired = {}
    /\ responses = [p \in Polls |-> {}]
    /\ events = [p \in Polls |-> {}]
    /\ count = [k \in Keys |-> 0]
    /\ ttl = {}
    /\ pc = [c \in Calls |-> "new"]
    /\ poll \in [Calls -> Polls]
    /\ ip \in [Calls -> IPs]
    /\ limit = [c \in Calls |-> "none"]
    /\ passed = [k \in Keys |-> 0]
    /\ faulted = {}

Step(c) ==
    \/ Incr(c) \/ IncrFails(c) \/ IncrAnswerLost(c)
    \/ ExpireKey(c) \/ ExpireKeyFails(c)
    \/ Lookup(c) \/ LookupFails(c)
    \/ CompleteWithResponse(c) \/ AlreadyCompleted(c)
    \/ CompleteFails(c) \/ CommitAnswerLost(c)
    \/ PublishPollCompleted(c) \/ PublishFails(c)

Next ==
    \/ \E p \in Polls : CreatePoll(p) \/ Expires(p)
    \/ \E c \in Calls : BeginSubmit(c) \/ BeginFetch(c) \/ Step(c) \/ Crash(c)
    \/ \E k \in Keys : WindowElapses(k)

\* A call under way goes on, since its commands have deadlines, and TTLs end.
Fairness ==
    /\ \A c \in Calls : WF_vars(Step(c))
    /\ \A k \in Keys : WF_vars(WindowElapses(k))

Spec == Init /\ [][Next]_vars /\ Fairness

-----------------------------------------------------------------------------
(* Properties *)

\* "One-response guard": however many submissions of a link race, past the same
\* active poll and through failed commits, at most one response is stored, and a
\* call told that its response was recorded is the one whose response is there.
OneResponse ==
    \A p \in Polls :
        /\ \A c, d \in responses[p] : c = d
        /\ \A c \in Calls : pc[c] = "ok" /\ poll[c] = p => c \in responses[p]

\* "The DB write is the source of truth": PollCompleted is only published by the
\* call whose response was committed, so a poll is announced at most once.
EventHasResponse == \A p \in Polls : events[p] \subseteq responses[p]

\* The calls and the table agree: the service is in one of its states, no poll
\* has two responses or a false Ok, and no event is without its response.
PollConsistent == TypeOK /\ OneResponse /\ EventHasResponse

\* Seen from outside, with its limits, lookups, failed commits and crashes hidden,
\* the service is the write-once poll of PollPromise.
Promise ==
    INSTANCE PollPromise
    WITH state <- status,
         taken <- responses,
         told <- {c \in Calls : pc[c] = "ok"},
         announced <- events

ImplementsPromise == Promise!PromiseSpec

\* In one window a counter lets no more calls through than its budget, with the
\* TTL set by a command of its own and with counts taken for calls that failed.
BudgetHolds == \A k \in Keys : passed[k] <= Budget(k)

\* "The first increment in a window sets the TTL, so the window slides forward
\* once it elapses": a counter goes back to zero, unless the one EXPIRE that
\* would have done it was lost.
WindowsEnd == \A k \in Keys : count[k] > 0 ~> count[k] = 0 \/ k \in faulted
=============================================================================
