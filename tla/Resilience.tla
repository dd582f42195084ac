----------------------------- MODULE Resilience -----------------------------
(***************************************************************************)
(* The circuit breaker and the retry loop that wrap every paid Claude call *)
(* of the Surprise service: surprise/internal/resilience (Breaker, Retry)  *)
(* as they are composed by llm.Resilient, Retry outside and Breaker.Do     *)
(* inside.                                                                 *)
(*                                                                         *)
(* Each caller runs one Retry loop at a time.  Breaker.Do takes its mutex  *)
(* twice, before and after the wrapped call, so it is two atomic steps     *)
(* with every other caller's steps between them.                           *)
(*                                                                         *)
(* Two integers of the code are only ever compared with a threshold and    *)
(* saturate here at that threshold, which loses nothing: "failures" at     *)
(* MaxFailures, and the time since openedAt at OpenDuration.               *)
(***************************************************************************)
EXTENDS Naturals

CONSTANTS
    Callers,        \* goroutines that share one Breaker
    MaxFailures,    \* NewBreaker's maxFailures, already raised to at least 1
    OpenDuration,   \* NewBreaker's openDuration, in clock ticks
    MaxAttempts     \* RetryConfig.MaxAttempts, already raised to at least 1

ASSUME ThresholdsPositive ==
    /\ MaxFailures \in Nat \ {0}
    /\ OpenDuration \in Nat
    /\ MaxAttempts \in Nat \ {0}

VARIABLES
    state,      \* Breaker.state
    failures,   \* Breaker.failures, saturated at MaxFailures
    age,        \* now - Breaker.openedAt while open, saturated at OpenDuration
    pc,         \* where each caller is in Retry(Do(fn))
    try,        \* the loop variable i of each caller's Retry
    healthy     \* the provider: once healthy it answers every call

vars == <<state, failures, age, pc, try, healthy>>

BreakerStates == {"closed", "open", "halfOpen"}

TypeOK ==
    /\ state \in BreakerStates
    /\ failures \in 0..MaxFailures
    /\ age \in 0..OpenDuration
    /\ pc \in [Callers -> {"idle", "attempt", "inFlight", "backoff"}]
    /\ try \in [Callers -> 0..(MaxAttempts - 1)]
    /\ healthy \in BOOLEAN

-----------------------------------------------------------------------------
(* Breaker *)

NewBreaker ==
    /\ state = "closed"
    /\ failures = 0
    /\ age = 0

\* Mutant: refresh compares the wrong way and the window never elapses.
RefreshedNever == state

\* refresh(): an open circuit whose window has elapsed becomes half-open.
Refreshed ==
    IF state = "open" /\ age >= OpenDuration THEN "halfOpen" ELSE state

\* Mutant: the circuit opens one failure late.
RecordFailureOffByOne ==
    /\ failures' = IF failures < MaxFailures THEN failures + 1 ELSE failures
    /\ IF failures >= MaxFailures \/ state = "halfOpen"
       THEN state' = "open" /\ age' = 0
       ELSE UNCHANGED <<state, age>>

\* The error branch of Do, under the second lock.
RecordFailure ==
    LET n == IF failures < MaxFailures THEN failures + 1 ELSE failures IN
    /\ failures' = n
    /\ IF n >= MaxFailures \/ state = "halfOpen"
       THEN state' = "open" /\ age' = 0
       ELSE UNCHANGED <<state, age>>

\* The success branch of Do, under the second lock.
RecordSuccess ==
    /\ failures' = 0
    /\ state' = "closed"
    /\ UNCHANGED age

\* The clock.  openedAt is read only by refresh, so only while open.
Tick ==
    /\ state = "open"
    /\ age < OpenDuration
    /\ age' = age + 1
    /\ UNCHANGED <<state, failures, pc, try, healthy>>

-----------------------------------------------------------------------------
(* Retry around Breaker.Do, one loop per caller *)

\* Retry returns to its caller, with or without an error.
Return(c) ==
    /\ pc' = [pc EXCEPT ![c] = "idle"]
    /\ try' = [try EXCEPT ![c] = 0]

\* fn returned a retryable error: give up after the last attempt, else back off.
AfterFailure(c) ==
    IF try[c] = MaxAttempts - 1
    THEN Return(c)
    ELSE pc' = [pc EXCEPT ![c] = "backoff"] /\ UNCHANGED try

\* Resilient.GenerateIdeas or Moderate is called.
Call(c) ==
    /\ pc[c] = "idle"
    /\ pc' = [pc EXCEPT ![c] = "attempt"]
    /\ try' = [try EXCEPT ![c] = 0]
    /\ UNCHANGED <<state, failures, age, healthy>>

\* Do runs fn unless the refreshed circuit is open.
DoAdmits == Refreshed # "open"

\* Do up to the call of fn: lock, refresh, unlock, run fn.
DoBegin(c) ==
    /\ pc[c] = "attempt"
    /\ DoAdmits
    /\ state' = Refreshed
    /\ pc' = [pc EXCEPT ![c] = "inFlight"]
    /\ UNCHANGED <<failures, age, try, healthy>>

\* Do returns ErrOpen without calling fn; to Retry it is one more failed attempt.
DoRejected(c) ==
    /\ pc[c] = "attempt"
    /\ ~DoAdmits
    /\ AfterFailure(c)
    /\ UNCHANGED <<state, failures, age, healthy>>

\* fn returned nil.
DoSucceeds(c) ==
    /\ pc[c] = "inFlight"
    /\ RecordSuccess
    /\ Return(c)
    /\ UNCHANGED healthy

\* fn returned an error that Retry retries (a timeout, a 5xx, a 429).
DoFails(c) ==
    /\ pc[c] = "inFlight"
    /\ ~healthy
    /\ RecordFailure
    /\ AfterFailure(c)
    /\ UNCHANGED healthy

\* fn returned an error wrapped by Permanent: the breaker counts it all the same.
DoFailsPermanently(c) ==
    /\ pc[c] = "inFlight"
    /\ ~healthy
    /\ RecordFailure
    /\ Return(c)
    /\ UNCHANGED healthy

\* The backoff timer fires and the loop goes round.
BackoffElapses(c) ==
    /\ pc[c] = "backoff"
    /\ pc' = [pc EXCEPT ![c] = "attempt"]
    /\ try' = [try EXCEPT ![c] = @ + 1]
    /\ UNCHANGED <<state, failures, age, healthy>>

\* ctx is cancelled before an attempt or during the backoff.
Cancelled(c) ==
    /\ pc[c] \in {"attempt", "backoff"}
    /\ Return(c)
    /\ UNCHANGED <<state, failures, age, healthy>>

\* ctx is cancelled during the call: fn fails whatever the provider does, the
\* breaker counts it, and Retry returns before another attempt.
CancelledInFlight(c) ==
    /\ pc[c] = "inFlight"
    /\ RecordFailure
    /\ Return(c)
    /\ UNCHANGED healthy

\* Breaker.State(), called by an observer.
State ==
    /\ state' = Refreshed
    /\ UNCHANGED <<failures, age, pc, try, healthy>>

\* The provider's outage ends.
Heal ==
    /\ ~healthy
    /\ healthy' = TRUE
    /\ UNCHANGED <<state, failures, age, pc, try>>

-----------------------------------------------------------------------------
(* Specification *)

Init ==
    /\ NewBreaker
    /\ pc = [c \in Callers |-> "idle"]
    /\ try = [c \in Callers |-> 0]
    /\ healthy = FALSE

RetryStep(c) ==
    \/ DoBegin(c)
    \/ DoRejected(c)
    \/ DoSucceeds(c)
    \/ DoFails(c)
    \/ DoFailsPermanently(c)
    \/ BackoffElapses(c)

Next ==
    \/ Tick
    \/ State
    \/ Heal
    \/ \E c \in Callers : Call(c) \/ RetryStep(c) \/ Cancelled(c) \/ CancelledInFlight(c)

\* A started Retry keeps running (the wrapped call has a timeout, the backoff a
\* timer) and time passes; nobody has to make a call, cancel one or look.
Fairness ==
    /\ WF_vars(Tick)
    /\ \A c \in Callers : WF_vars(RetryStep(c))

Spec == Init /\ [][Next]_vars /\ Fairness

-----------------------------------------------------------------------------
(* Properties *)

\* The circuit is closed exactly while fewer than maxFailures failures have
\* accumulated since the last success, whatever the order in which the calls of
\* concurrent callers come back to the second lock of Do.
CircuitMatchesCount == (state = "closed") <=> (failures < MaxFailures)

\* The breaker is consistent: its fields stay in their ranges, no Retry goes past
\* its last attempt, and the circuit agrees with the count.
BreakerConsistent == TypeOK /\ CircuitMatchesCount

\* A Retry that was started returns: the attempts are bounded, and ErrOpen
\* consumes them like any other error, so an open circuit cannot hold a worker.
EveryCallReturns == \A c \in Callers : (pc[c] # "idle") ~> (pc[c] = "idle")

\* Once the provider is healthy for good, no more calls are cancelled under way
\* and some caller keeps calling, the circuit ends up closed and stays so: no
\* interleaving of rejected calls, late results and half-open trials leaves it
\* open for ever.
Recovers ==
    /\ <>healthy
    /\ <>[][\A c \in Callers : ~CancelledInFlight(c)]_vars
    /\ \E c \in Callers : []<><<DoBegin(c) \/ DoRejected(c)>>_vars
    => <>[](state = "closed")

\* Neither a call nor the circuit hangs: every Retry returns, and the circuit
\* closes again after an outage.
BreakerLive == EveryCallReturns /\ Recovers
=============================================================================
