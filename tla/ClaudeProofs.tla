---------------------------- MODULE ClaudeProofs ----------------------------
(***************************************************************************)
(* Proofs about the breaker and the retry loop (Resilience), and about the *)
(* Claude calls that go through them, for any number of callers and any    *)
(* thresholds.                                                             *)
(***************************************************************************)
EXTENDS Claude, FiniteSetTheorems, TLAPS


\* What refresh may return: it leaves the circuit alone unless it was open.
LEMMA RefreshedType ==
    ASSUME state \in BreakerStates
    PROVE  /\ Refreshed \in BreakerStates
           /\ Refreshed = "closed" <=> state = "closed"
BY DEF Refreshed, BreakerStates

-----------------------------------------------------------------------------
(* Type correctness *)

\* The branches of Do and of Retry keep the breaker and the loop variables in
\* their types; the index of the last attempt is never exceeded.
LEMMA BranchTypes ==
    ASSUME TypeOK, NEW c \in Callers
    PROVE  /\ RecordFailure => /\ state' \in BreakerStates
                               /\ failures' \in 0..MaxFailures
                               /\ age' \in 0..OpenDuration
           /\ AfterFailure(c) => /\ pc' \in [Callers -> {"idle", "attempt", "inFlight", "backoff"}]
                                 /\ try' \in [Callers -> 0..(MaxAttempts - 1)]
           /\ Return(c) => /\ pc' \in [Callers -> {"idle", "attempt", "inFlight", "backoff"}]
                           /\ try' \in [Callers -> 0..(MaxAttempts - 1)]
<1>. USE ThresholdsPositive
<1>1. RecordFailure => /\ state' \in BreakerStates
                       /\ failures' \in 0..MaxFailures
                       /\ age' \in 0..OpenDuration
  BY DEF TypeOK, RecordFailure, BreakerStates
<1>2. Return(c) => /\ pc' \in [Callers -> {"idle", "attempt", "inFlight", "backoff"}]
                   /\ try' \in [Callers -> 0..(MaxAttempts - 1)]
  BY DEF TypeOK, Return
<1>3. AfterFailure(c) => /\ pc' \in [Callers -> {"idle", "attempt", "inFlight", "backoff"}]
                         /\ try' \in [Callers -> 0..(MaxAttempts - 1)]
  BY <1>2 DEF TypeOK, AfterFailure
<1>. QED BY <1>1, <1>2, <1>3

\* TypeOK is not inductive by itself: a caller in its backoff must not be at its
\* last attempt, or the loop variable would run over.
BackoffHasNext == \A c \in Callers : pc[c] = "backoff" => try[c] < MaxAttempts - 1

\* Every step of breaker and retry loops keeps the types.
LEMMA TypeStep ==
    ASSUME TypeOK, BackoffHasNext, [Next]_vars
    PROVE  TypeOK' /\ BackoffHasNext'
<1>. USE ThresholdsPositive
<1>1. CASE Tick
  BY <1>1 DEF TypeOK, BackoffHasNext, Tick
<1>2. CASE State
  BY <1>2, RefreshedType DEF TypeOK, BackoffHasNext, State
<1>3. CASE Heal
  BY <1>3 DEF TypeOK, BackoffHasNext, Heal
<1>4. ASSUME NEW c \in Callers, Call(c)
      PROVE  TypeOK' /\ BackoffHasNext'
  BY <1>4 DEF TypeOK, BackoffHasNext, Call
<1>5. ASSUME NEW c \in Callers, RetryStep(c)
      PROVE  TypeOK' /\ BackoffHasNext'
  <2>1. CASE DoBegin(c)
    BY <2>1, RefreshedType DEF TypeOK, BackoffHasNext, DoBegin
  <2>2. CASE DoRejected(c)
    BY <2>2, BranchTypes DEF TypeOK, BackoffHasNext, DoRejected, AfterFailure, Return
  <2>3. CASE DoSucceeds(c)
    BY <2>3, BranchTypes DEF TypeOK, BackoffHasNext, DoSucceeds, RecordSuccess, Return, BreakerStates
  <2>4. CASE DoFails(c)
    <3>1. TypeOK'
      BY <2>4, BranchTypes DEF TypeOK, DoFails
    <3>2. BackoffHasNext'
      BY <2>4 DEF TypeOK, BackoffHasNext, DoFails, AfterFailure, Return
    <3>. QED BY <3>1, <3>2
  <2>5. CASE DoFailsPermanently(c)
    <3>1. TypeOK'
      BY <2>5, BranchTypes DEF TypeOK, DoFailsPermanently
    <3>2. BackoffHasNext'
      BY <2>5 DEF TypeOK, BackoffHasNext, DoFailsPermanently, Return
    <3>. QED BY <3>1, <3>2
  <2>6. CASE BackoffElapses(c)
    BY <2>6 DEF TypeOK, BackoffHasNext, BackoffElapses
  <2>. QED BY <1>5, <2>1, <2>2, <2>3, <2>4, <2>5, <2>6 DEF RetryStep
<1>6. ASSUME NEW c \in Callers, Cancelled(c)
      PROVE  TypeOK' /\ BackoffHasNext'
  BY <1>6 DEF TypeOK, BackoffHasNext, Cancelled, Return
<1>7. ASSUME NEW c \in Callers, CancelledInFlight(c)
      PROVE  TypeOK' /\ BackoffHasNext'
  <2>1. TypeOK'
    BY <1>7, BranchTypes DEF TypeOK, CancelledInFlight
  <2>2. BackoffHasNext'
    BY <1>7 DEF TypeOK, BackoffHasNext, CancelledInFlight, Return
  <2>. QED BY <2>1, <2>2
<1>8. CASE UNCHANGED vars
  BY <1>8 DEF TypeOK, BackoffHasNext, vars
<1>. QED BY <1>1, <1>2, <1>3, <1>4, <1>5, <1>6, <1>7, <1>8 DEF Next

\* The initial state has the types.
LEMMA TypeInit == Init => TypeOK /\ BackoffHasNext
<1>. SUFFICES ASSUME Init PROVE TypeOK /\ BackoffHasNext
  OBVIOUS
<1>1. /\ state \in BreakerStates
      /\ failures \in 0..MaxFailures
      /\ age \in 0..OpenDuration
  BY ThresholdsPositive DEF Init, NewBreaker, BreakerStates
<1>2. /\ pc \in [Callers -> {"idle", "attempt", "inFlight", "backoff"}]
      /\ try \in [Callers -> 0..(MaxAttempts - 1)]
  BY ThresholdsPositive DEF Init, BreakerStates
<1>3. healthy \in BOOLEAN
  BY DEF Init
<1>4. BackoffHasNext
  BY DEF Init, BackoffHasNext
<1>. QED BY <1>1, <1>2, <1>3, <1>4 DEF TypeOK

\* The breaker's fields stay in range and no Retry runs past its last attempt,
\* for any number of goroutines sharing the breaker.
THEOREM TypeCorrect == Spec => [](TypeOK /\ BackoffHasNext)
<1>1. Init => TypeOK /\ BackoffHasNext
  BY TypeInit
<1>2. TypeOK /\ BackoffHasNext /\ [Next]_vars => (TypeOK /\ BackoffHasNext)'
  BY TypeStep
<1>. QED BY <1>1, <1>2, PTL DEF Spec

-----------------------------------------------------------------------------
(* The circuit and its failure count *)

\* The two branches of Do that move the circuit, and refresh, keep it in step
\* with the count: a late failure on an open circuit and a success that overtakes
\* it included.
LEMMA CircuitStep ==
    ASSUME TypeOK, CircuitMatchesCount, [Next]_vars
    PROVE  CircuitMatchesCount'
<1>. USE ThresholdsPositive
<1>1. RecordFailure => CircuitMatchesCount'
  BY DEF RecordFailure, CircuitMatchesCount, TypeOK, BreakerStates
<1>2. RecordSuccess => CircuitMatchesCount'
  BY DEF RecordSuccess, CircuitMatchesCount
<1>3. state' = Refreshed /\ UNCHANGED failures => CircuitMatchesCount'
  BY RefreshedType DEF CircuitMatchesCount, TypeOK
<1>4. UNCHANGED <<state, failures>> => CircuitMatchesCount'
  BY DEF CircuitMatchesCount
<1>5. \/ RecordFailure
      \/ RecordSuccess
      \/ state' = Refreshed /\ UNCHANGED failures
      \/ UNCHANGED <<state, failures>>
  BY DEF Next, RetryStep, Tick, State, Heal, Call, DoBegin, DoRejected, DoSucceeds, DoFails,
         DoFailsPermanently, BackoffElapses, Cancelled, CancelledInFlight, vars
<1>. QED BY <1>1, <1>2, <1>3, <1>4, <1>5

\* Breaker: the circuit is closed exactly while fewer than maxFailures failures
\* have accumulated, whatever the interleaving of the callers' two critical
\* sections in Do.
THEOREM CircuitConsistent == Spec => []CircuitMatchesCount
<1>1. Init => CircuitMatchesCount
  BY ThresholdsPositive DEF Init, NewBreaker, CircuitMatchesCount
<1>2. TypeOK /\ CircuitMatchesCount /\ [Next]_vars => CircuitMatchesCount'
  BY CircuitStep
<1>. QED BY <1>1, <1>2, TypeCorrect, PTL DEF Spec

\* The breaker is consistent in every behaviour: in range, and its circuit agrees
\* with its count.
THEOREM BreakerStaysConsistent == Spec => []BreakerConsistent
BY TypeCorrect, CircuitConsistent, PTL DEF BreakerConsistent

-----------------------------------------------------------------------------
(* The client implements the breaker and the retry loop *)

\* Every step of a client is a step of Resilience or leaves it alone.
LEMMA ClaudeSteps == [ClaudeNext]_allVars => [Next]_vars
<1> SUFFICES ASSUME [ClaudeNext]_allVars PROVE [Next]_vars
  OBVIOUS
<1>1. CASE UNCHANGED allVars
  BY <1>1 DEF allVars
<1>2. CASE (Tick \/ State \/ Heal) /\ UNCHANGED claudeVars
  BY <1>2 DEF Next
<1>3. ASSUME NEW c \in Callers, CallMethod(c) \/ Attempt(c) \/ Cancel(c) PROVE Next
  <2>1. CASE Receive(c)
    BY <2>1 DEF Receive, Next, RetryStep
  <2>2. CASE CallMethod(c) \/ Cancel(c)
    BY <2>2 DEF CallMethod, Cancel, Next
  <2>3. CASE Send(c) \/ Reject(c) \/ BackOff(c)
    BY <2>3 DEF Send, Reject, BackOff, Next, RetryStep
  <2> QED BY <1>3, <2>1, <2>2, <2>3 DEF Attempt
<1> QED BY <1>1, <1>2, <1>3 DEF ClaudeNext

\* The Claude calls implement Resilience, whatever the API answers: the safety part
\* of RefinesResilience, whose fairness is model-checked.
THEOREM ClaudeImplementsResilience == ClaudeSpec => Init /\ [][Next]_vars
<1>1. ClaudeInit => Init
  BY DEF ClaudeInit
<1> QED BY <1>1, ClaudeSteps, PTL DEF ClaudeSpec

\* The types and the circuit of the breaker, in every behaviour of the client.
LEMMA ClaudeBreakerInv == ClaudeSpec => [](TypeOK /\ BackoffHasNext /\ CircuitMatchesCount)
<1>1. Init => TypeOK /\ BackoffHasNext /\ CircuitMatchesCount
  BY TypeInit, ThresholdsPositive DEF Init, NewBreaker, CircuitMatchesCount
<1>2. TypeOK /\ BackoffHasNext /\ CircuitMatchesCount /\ [Next]_vars
        => (TypeOK /\ BackoffHasNext /\ CircuitMatchesCount)'
  BY TypeStep, CircuitStep
<1> QED BY <1>1, <1>2, ClaudeImplementsResilience, PTL

\* The breaker that the Claude calls share is consistent.
THEOREM ClaudeBreakerConsistent == ClaudeSpec => []BreakerConsistent
BY ClaudeBreakerInv, PTL DEF BreakerConsistent

-----------------------------------------------------------------------------
(* What is paid *)

InFlight == {c \in Callers : pc[c] = "inFlight"}

\* A call that counts is under way, or it failed and its failure is counted; only
\* the ones under way count when the circuit is not closed.
CallsCounted ==
    /\ sent \in Nat
    /\ sent <= Cardinality(InFlight) + (IF state = "closed" THEN failures ELSE 0)

\* The calls under way are finitely many, and one that begins or ends is one more
\* or one less.
LEMMA InFlightCount ==
  ASSUME TypeOK, NEW c \in Callers, NEW s, pc' = [pc EXCEPT ![c] = s]
  PROVE  /\ Cardinality(InFlight) \in Nat /\ Cardinality(InFlight') \in Nat
         /\ Cardinality(InFlight) <= Cardinality(Callers)
         /\ pc[c] # "inFlight" /\ s = "inFlight" =>
              Cardinality(InFlight') = Cardinality(InFlight) + 1
         /\ pc[c] = "inFlight" /\ s # "inFlight" =>
              Cardinality(InFlight') = Cardinality(InFlight) - 1
         /\ pc[c] # "inFlight" /\ s # "inFlight" => InFlight' = InFlight
<1>1. IsFiniteSet(InFlight) /\ IsFiniteSet(InFlight') /\ Cardinality(InFlight) <= Cardinality(Callers)
  BY ClaudeConstants, FS_Subset DEF InFlight
<1>2. pc[c] # "inFlight" /\ s = "inFlight" => c \notin InFlight /\ InFlight' = InFlight \cup {c}
  BY DEF InFlight, TypeOK
<1>3. pc[c] = "inFlight" /\ s # "inFlight" => c \in InFlight /\ InFlight' = InFlight \ {c}
  BY DEF InFlight, TypeOK
<1>4. pc[c] # "inFlight" /\ s # "inFlight" => InFlight' = InFlight
  BY DEF InFlight, TypeOK
<1> QED BY <1>1, <1>2, <1>3, <1>4, FS_CardinalityType, FS_AddElement, FS_RemoveElement

\* Where a caller goes after Return and AfterFailure: never under way.
LEMMA Leaves ==
  ASSUME NEW c \in Callers, Return(c) \/ AfterFailure(c)
  PROVE  \E s \in {"idle", "backoff"} : pc' = [pc EXCEPT ![c] = s]
  BY DEF Return, AfterFailure

\* A failed call that leaves the circuit closed is counted, any other one starts
\* the count again.
LEMMA FailureRecounts ==
  ASSUME TypeOK, CircuitMatchesCount, CallsCounted, NEW c \in Callers,
         pc[c] = "inFlight", RecordFailure, Return(c) \/ AfterFailure(c), Recount
  PROVE  CallsCounted'
<1>1. PICK s \in {"idle", "backoff"} : pc' = [pc EXCEPT ![c] = s]
  BY Leaves
<1>2. /\ Cardinality(InFlight') = Cardinality(InFlight) - 1
      /\ Cardinality(InFlight) \in Nat /\ Cardinality(InFlight') \in Nat
  BY <1>1, InFlightCount
<1>3. failures \in Nat /\ failures' \in Nat
  BY ThresholdsPositive DEF TypeOK, RecordFailure
<1>4. CASE state' = "closed" /\ failures' > 0
  <2>1. state = "closed" /\ failures' = failures + 1
    BY <1>4, ThresholdsPositive DEF RecordFailure, TypeOK, CircuitMatchesCount, BreakerStates
  <2> QED BY <1>2, <1>3, <1>4, <2>1 DEF CallsCounted, Recount
<1>5. CASE ~(state' = "closed" /\ failures' > 0)
  BY <1>2, <1>3, <1>5 DEF CallsCounted, Recount
<1> QED BY <1>4, <1>5

\* Every step of the client keeps the count.
LEMMA CountStep ==
  ASSUME TypeOK, CircuitMatchesCount, CallsCounted, [ClaudeNext]_allVars
  PROVE  CallsCounted'
<1>1. state \in BreakerStates /\ failures \in Nat
  BY ThresholdsPositive DEF TypeOK
<1>2. ASSUME UNCHANGED <<pc, sent, failures>>, (state' = "closed") <=> (state = "closed")
      PROVE  CallsCounted'
  BY <1>2 DEF CallsCounted, InFlight
<1>3. CASE (Tick \/ State \/ Heal) /\ UNCHANGED claudeVars
  <2>1. UNCHANGED <<pc, sent, failures>> /\ state' \in {state, Refreshed}
    BY <1>3 DEF Tick, State, Heal, claudeVars
  <2> QED BY <1>1, <1>2, <2>1, RefreshedType
<1>4. CASE UNCHANGED allVars
  BY <1>2, <1>4 DEF allVars, vars, claudeVars
<1>5. ASSUME NEW c \in Callers, NEW s \in {"idle", "attempt", "backoff"}, pc[c] # "inFlight",
             pc' = [pc EXCEPT ![c] = s], UNCHANGED <<state, failures, sent>>
      PROVE  CallsCounted'
  BY <1>5, InFlightCount DEF CallsCounted
<1>6. ASSUME NEW c \in Callers, CallMethod(c) PROVE CallsCounted'
  BY <1>5, <1>6 DEF CallMethod, Call
<1>7. ASSUME NEW c \in Callers, Send(c) PROVE CallsCounted'
  <2>1. /\ pc[c] # "inFlight" /\ pc' = [pc EXCEPT ![c] = "inFlight"] /\ sent' = sent + 1
        /\ failures' = failures /\ (state' = "closed" <=> state = "closed")
    BY <1>1, <1>7, RefreshedType DEF Send, DoBegin
  <2>2. /\ Cardinality(InFlight') = Cardinality(InFlight) + 1
        /\ Cardinality(InFlight) \in Nat /\ Cardinality(InFlight') \in Nat
    BY <2>1, InFlightCount
  <2> QED BY <1>1, <2>1, <2>2 DEF CallsCounted
<1>8. ASSUME NEW c \in Callers, Reject(c) PROVE CallsCounted'
  <2>1. pc[c] # "inFlight" /\ AfterFailure(c) /\ UNCHANGED <<state, failures, sent>>
    BY <1>8 DEF Reject, DoRejected
  <2> QED BY <1>5, <2>1, Leaves
<1>9. ASSUME NEW c \in Callers, Receive(c) PROVE CallsCounted'
  <2>1. (DoFails(c) \/ DoSucceeds(c)) /\ Recount
    BY <1>9 DEF Receive
  <2>2. CASE DoFails(c)
    BY <2>1, <2>2, FailureRecounts DEF DoFails
  <2>3. CASE DoSucceeds(c)
    <3>1. failures' = 0 /\ sent' = 0 /\ Return(c)
      BY <2>1, <2>3 DEF DoSucceeds, RecordSuccess, Recount
    <3>2. Cardinality(InFlight') \in Nat
      BY <3>1, Leaves, InFlightCount
    <3> QED BY <3>1, <3>2 DEF CallsCounted
  <2> QED BY <2>1, <2>2, <2>3
<1>10. ASSUME NEW c \in Callers, BackOff(c) PROVE CallsCounted'
  BY <1>5, <1>10 DEF BackOff, BackoffElapses, claudeVars
<1>11. ASSUME NEW c \in Callers, Cancel(c) PROVE CallsCounted'
  <2>1. CASE Cancelled(c) /\ UNCHANGED sent
    <3>1. pc[c] # "inFlight" /\ Return(c) /\ UNCHANGED <<state, failures, sent>>
      BY <2>1 DEF Cancelled
    <3> QED BY <1>5, <3>1, Leaves
  <2>2. CASE CancelledInFlight(c) /\ Recount
    BY <2>2, FailureRecounts DEF CancelledInFlight
  <2> QED BY <1>11, <2>1, <2>2 DEF Cancel
<1> QED
  BY <1>3, <1>4, <1>6, <1>7, <1>8, <1>9, <1>10, <1>11 DEF ClaudeNext, Attempt

\* An outage costs at most MaxFailures - 1 failed calls and one call per worker before
\* the circuit opens, for every number of workers.
THEOREM PaidCallsStayBounded == ClaudeSpec => []PaidCallsBounded
<1>1. ClaudeInit => CallsCounted
  <2> SUFFICES ASSUME ClaudeInit PROVE CallsCounted
    OBVIOUS
  <2>1. InFlight = {} /\ sent = 0 /\ failures = 0
    BY DEF ClaudeInit, Init, NewBreaker, InFlight
  <2> QED BY <2>1, FS_EmptySet DEF CallsCounted
<1>2. TypeOK /\ BackoffHasNext /\ CircuitMatchesCount /\ CallsCounted /\ [ClaudeNext]_allVars
        => CallsCounted'
  BY CountStep
<1>3. TypeOK /\ BackoffHasNext /\ CircuitMatchesCount /\ CallsCounted => PaidCallsBounded
  <2> SUFFICES ASSUME TypeOK, CircuitMatchesCount, CallsCounted PROVE PaidCallsBounded
    OBVIOUS
  <2>1. /\ Cardinality(InFlight) \in Nat /\ Cardinality(Callers) \in Nat
        /\ Cardinality(InFlight) <= Cardinality(Callers)
    BY ClaudeConstants, FS_Subset, FS_CardinalityType DEF InFlight
  <2>2. MaxFailures \in Nat \ {0} /\ failures \in Nat /\ (state = "closed" => failures <= MaxFailures - 1)
    BY ThresholdsPositive DEF TypeOK, CircuitMatchesCount
  <2> QED BY <2>1, <2>2 DEF CallsCounted, PaidCallsBounded
<1> QED BY <1>1, <1>2, <1>3, ClaudeBreakerInv, PTL DEF ClaudeSpec

-----------------------------------------------------------------------------
(* What the caller is told *)

\* What may be told, given what the last reply said.
Fits(result, said) ==
    /\ result = "error" => said \in {"nothing", "unclear"}
    /\ result \notin {"pending", "error"} => said \in {result, "unclear"}

\* A caller whose Retry runs has not been told anything.
AnswersFollow ==
    /\ answer = [c \in Callers |-> answer[c]]
    /\ seen = [c \in Callers |-> seen[c]]
    /\ \A c \in Callers : Fits(answer[c], seen[c]) /\ (pc[c] # "idle" => answer[c] = "pending")

\* The equation of the recursion of decodeIdeasFieldDepth.
Decodes(p, f) ==
    f = [depth \in 0..p.layers |->
            IF depth < p.layers
            THEN IF depth < MaxDepth THEN f[depth + 1] ELSE "error"
            ELSE CASE p.base = "array" -> "ideas"
                   [] p.base = "null" -> "noIdeas"
                   [] p.base = "idea" /\ depth < MaxDepth -> "ideas"
                   [] OTHER -> "error"]

\* The decoder takes every documented shape for ideas: the recursion has a solution,
\* and every solution says so at depth 0.
LEMMA DocumentedDecode ==
  ASSUME NEW p \in DocumentedShapes PROVE DecodeIdeasField(p) = "ideas"
<1> DEFINE g == [depth \in 0..p.layers |-> "ideas"]
           f == CHOOSE h : Decodes(p, h)
           Base(depth) == CASE p.base = "array" -> "ideas"
                            [] p.base = "null" -> "noIdeas"
                            [] p.base = "idea" /\ depth < MaxDepth -> "ideas"
                            [] OTHER -> "error"
<1>1. /\ p.layers \in 0..2 /\ p.layers <= MaxDepth
      /\ p.base = "array" \/ (p.base = "idea" /\ p.layers = 0)
  BY ClaudeConstants DEF DocumentedShapes
<1>2. Base(p.layers) = "ideas"
  <2>1. CASE p.base = "array"
    BY <2>1
  <2>2. CASE p.base = "idea" /\ p.layers = 0
    <3>1. 0 < MaxDepth
      BY ClaudeConstants
    <3> QED BY <2>2, <3>1
  <2> QED BY <1>1, <2>1, <2>2
<1>3. ASSUME NEW h
      PROVE  Decodes(p, h) <=>
               h = [depth \in 0..p.layers |->
                      IF depth < p.layers
                      THEN IF depth < MaxDepth THEN h[depth + 1] ELSE "error"
                      ELSE Base(depth)]
  BY DEF Decodes
<1> HIDE DEF Base
<1>4. Decodes(p, g)
  <2>1. ASSUME NEW depth \in 0..p.layers
        PROVE  (IF depth < p.layers THEN IF depth < MaxDepth THEN g[depth + 1] ELSE "error"
                ELSE Base(depth)) = "ideas"
    BY <1>1, <1>2, <2>1, ClaudeConstants
  <2> DEFINE e == [depth \in 0..p.layers |->
                      IF depth < p.layers
                      THEN IF depth < MaxDepth THEN g[depth + 1] ELSE "error"
                      ELSE Base(depth)]
  <2>2. g = e
    <3> HIDE DEF Base
    <3> QED BY <2>1, Zenon
  <2>3. Decodes(p, g) <=> g = e
    <3> HIDE DEF g
    <3> QED BY <1>3
  <2> HIDE DEF e, g
  <2> QED BY <2>2, <2>3
<1>5. Decodes(p, f)
  BY <1>4
<1> HIDE DEF f
<1>6. \A depth \in 0..p.layers : f[depth] = IF depth < p.layers THEN f[depth + 1] ELSE Base(depth)
  BY <1>1, <1>3, <1>5, ClaudeConstants
<1>7. f[0] = "ideas"
  BY <1>1, <1>2, <1>6
<1>8. DecodeIdeasField(p) = f[0]
  BY DEF DecodeIdeasField, Decodes, f
<1> QED BY <1>7, <1>8

\* What the client makes of a reply fits what the reply said.
LEMMA OutcomeFits ==
  ASSUME NEW o, NEW r \in Replies(o) PROVE Fits(Outcome(o, r), Said(r))
<1>1. CASE r \in Failures
  <2>1. r.kind \in {"transport", "status", "garbled", "noBlock"}
    BY <1>1 DEF Failures
  <2>2. Said(r) = "nothing"
    BY <2>1 DEF Said
  <2>3. Outcome(o, r) = "error"
    BY <2>1 DEF Outcome, GenerateIdeas, Moderate
  <2> QED BY <2>2, <2>3 DEF Fits
<1>2. CASE o = "ideas" /\ r \in ToolCalls
  <2>1. r.kind = "tool"
    BY <1>2 DEF ToolCalls
  <2>2. Said(r) = IF r.payload \in DocumentedShapes THEN "ideas" ELSE "unclear"
    BY <2>1 DEF Said
  <2>3. Outcome(o, r) = DecodeIdeasField(r.payload)
    BY <1>2, <2>1 DEF Outcome, GenerateIdeas
  <2> QED BY <2>2, <2>3, DocumentedDecode DEF Fits
<1>3. CASE o # "ideas" /\ r \in Verdicts
  <2>1. r.kind \in {"SAFE", "UNSAFE", "hedged"}
    BY <1>3 DEF Verdicts
  <2>2. Outcome(o, r) = Moderate(r)
    BY <1>3 DEF Outcome
  <2>3. CASE r.kind = "SAFE"
    <3>1. Said(r) = "approved" /\ Moderate(r) = "approved"
      BY <2>3 DEF Said, Moderate
    <3> QED BY <2>2, <3>1 DEF Fits
  <2>4. CASE r.kind = "UNSAFE"
    <3>1. Said(r) = "rejected" /\ Moderate(r) = "rejected"
      BY <2>4 DEF Said, Moderate
    <3> QED BY <2>2, <3>1 DEF Fits
  <2>5. CASE r.kind = "hedged"
    <3>1. Said(r) = "unclear" /\ Moderate(r) = "approved"
      BY <2>5 DEF Said, Moderate
    <3> QED BY <2>2, <3>1 DEF Fits
  <2> QED BY <2>1, <2>3, <2>4, <2>5
<1> QED BY <1>1, <1>2, <1>3 DEF Replies

\* The caller of a step is told something that fits, or nothing.
LEMMA Told ==
  ASSUME TypeOK, AnswersFollow, NEW c \in Callers, NEW s, NEW result, NEW said,
         pc' = [pc EXCEPT ![c] = s], Fits(result, said),
         seen' = [seen EXCEPT ![c] = said],
         answer' = [answer EXCEPT ![c] = IF pc'[c] = "idle" THEN result ELSE "pending"]
  PROVE  AnswersFollow'
<1>1. /\ pc'[c] = s /\ \A d \in Callers \ {c} : pc'[d] = pc[d]
      /\ answer'[c] = (IF s = "idle" THEN result ELSE "pending") /\ seen'[c] = said
      /\ \A d \in Callers \ {c} : answer'[d] = answer[d] /\ seen'[d] = seen[d]
      /\ answer' = [d \in Callers |-> answer'[d]] /\ seen' = [d \in Callers |-> seen'[d]]
  BY DEF TypeOK, AnswersFollow
<1> QED BY <1>1 DEF AnswersFollow, Fits

\* Every step of the client tells its caller what fits.
LEMMA ToldStep ==
  ASSUME TypeOK, AnswersFollow, [ClaudeNext]_allVars
  PROVE  AnswersFollow'
<1>1. CASE (Tick \/ State \/ Heal) /\ UNCHANGED claudeVars
  BY <1>1 DEF Tick, State, Heal, claudeVars, AnswersFollow
<1>2. CASE UNCHANGED allVars
  BY <1>2 DEF allVars, vars, claudeVars, AnswersFollow
<1>3. ASSUME NEW c \in Callers, CallMethod(c) PROVE AnswersFollow'
  <2>1. /\ pc' = [pc EXCEPT ![c] = "attempt"] /\ pc'[c] = "attempt"
        /\ answer' = [answer EXCEPT ![c] = "pending"] /\ seen' = [seen EXCEPT ![c] = "nothing"]
    BY <1>3 DEF CallMethod, Call, TypeOK
  <2> QED BY <2>1, Told DEF Fits
<1>4. ASSUME NEW c \in Callers, Send(c) PROVE AnswersFollow'
  <2>1. /\ pc[c] # "idle" /\ pc' = [pc EXCEPT ![c] = "inFlight"] /\ pc'[c] = "inFlight"
        /\ answer' = answer /\ seen' = [seen EXCEPT ![c] = "nothing"]
    BY <1>4 DEF Send, DoBegin, TypeOK
  <2>2. answer' = [answer EXCEPT ![c] = "pending"]
    BY <2>1 DEF AnswersFollow
  <2> QED BY <2>1, <2>2, Told DEF Fits
<1>5. ASSUME NEW c \in Callers, Reject(c) PROVE AnswersFollow'
  BY <1>5, Leaves, Told DEF Reject, DoRejected, ReturnFrom, Fits
<1>6. ASSUME NEW c \in Callers, Receive(c) PROVE AnswersFollow'
  <2>1. PICK r \in Replies(op[c]) :
          /\ DoFails(c) \/ DoSucceeds(c)
          /\ seen' = [seen EXCEPT ![c] = Said(r)]
          /\ ReturnFrom(c, Outcome(op[c], r))
    BY <1>6 DEF Receive
  <2>2. Return(c) \/ AfterFailure(c)
    BY <2>1 DEF DoFails, DoSucceeds
  <2> QED BY <2>1, <2>2, Leaves, OutcomeFits, Told DEF ReturnFrom
<1>7. ASSUME NEW c \in Callers, BackOff(c) PROVE AnswersFollow'
  BY <1>7 DEF BackOff, BackoffElapses, claudeVars, AnswersFollow, TypeOK
<1>8. ASSUME NEW c \in Callers, Cancel(c) PROVE AnswersFollow'
  <2>1. /\ Return(c) /\ seen' = [seen EXCEPT ![c] = "nothing"] /\ ReturnFrom(c, "error")
    BY <1>8 DEF Cancel, Cancelled, CancelledInFlight
  <2> QED BY <2>1, Leaves, Told DEF ReturnFrom, Fits
<1> QED
  BY <1>1, <1>2, <1>3, <1>4, <1>5, <1>6, <1>7, <1>8 DEF ClaudeNext, Attempt

\* A caller is told what the last reply to its own call said, for every number of
\* callers and attempts and every reply.
THEOREM AnswersAreFromLastReply == ClaudeSpec => []AnswerIsFromLastReply
<1>1. ClaudeInit => AnswersFollow
  BY DEF ClaudeInit, Init, AnswersFollow, Fits
<1>2. TypeOK /\ BackoffHasNext /\ CircuitMatchesCount /\ AnswersFollow /\ [ClaudeNext]_allVars
        => AnswersFollow'
  BY ToldStep
<1>3. AnswersFollow => AnswerIsFromLastReply
  <2> SUFFICES ASSUME AnswersFollow, NEW c \in Callers
               PROVE  CASE answer[c] = "pending" -> TRUE
                        [] answer[c] = "error" -> seen[c] \in {"nothing", "unclear"}
                        [] OTHER -> seen[c] \in {answer[c], "unclear"}
    BY DEF AnswerIsFromLastReply
  <2>1. Fits(answer[c], seen[c])
    BY DEF AnswersFollow
  <2> QED BY <2>1 DEF Fits
<1> QED BY <1>1, <1>2, <1>3, ClaudeBreakerInv, PTL DEF ClaudeSpec
=============================================================================
