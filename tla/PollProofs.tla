----------------------------- MODULE PollProofs -----------------------------
(***************************************************************************)
(* Theorems about Poll: for any number of polls, addresses and calls, a    *)
(* poll takes one response and is announced only by the call that wrote    *)
(* it, which is to say that Poll implements PollPromise, and a rate limit  *)
(* never lets more calls through than its budget.                          *)
(***************************************************************************)
EXTENDS Poll, TLAPS

\* A call that is at a limit is at one of the counters.
LEMMA KeyInKeys ==
    ASSUME TypeOK, NEW c \in Calls, limit[c] # "none"
    PROVE  Key(c) \in Keys
BY DEF TypeOK, Key, Counter, Keys

\* The counter a call is at after a step.
NewKey(c) == Counter(limit'[c], poll'[c], ip'[c])

LEMMA BudgetPositive ==
    ASSUME NEW k PROVE Budget(k) \in Nat /\ Budget(k) >= 1
BY PollConstants DEF Budget

-----------------------------------------------------------------------------
(* Types *)

LEMMA InitTypes == Init => TypeOK
BY DEF Init, TypeOK, Final

\* The steps of a call that decides on a limit keep the types of what it sets.
LEMMA DecideTypes ==
    ASSUME TypeOK, NEW c \in Calls, NEW n, pc[c] \in {"incr", "expire"}, Decide(c, n)
    PROVE  /\ pc' \in [Calls -> {"new", "incr", "expire", "lookup", "complete", "publish"} \cup Final]
           /\ limit' \in [Calls -> {"none", "token", "ip", "fetch"}]
           /\ passed' \in [Keys -> Nat]
           /\ \A d \in Calls : pc'[d] \in Final \cup {"new"} <=> limit'[d] = "none"
<1>1. limit[c] # "none" /\ Key(c) \in Keys
  BY KeyInKeys DEF TypeOK, Final
<1> QED
  BY <1>1 DEF TypeOK, Decide, Goto, GotoLimit, Finish, Final

LEMMA NextTypes == TypeOK /\ [Next]_vars => TypeOK'
<1> SUFFICES ASSUME TypeOK, [Next]_vars PROVE TypeOK'
  OBVIOUS
<1>1. ASSUME NEW p \in Polls, CreatePoll(p) \/ Expires(p) PROVE TypeOK'
  BY <1>1 DEF TypeOK, CreatePoll, Expires, limits
<1>2. ASSUME NEW c \in Calls, BeginSubmit(c) \/ BeginFetch(c) PROVE TypeOK'
  BY <1>2 DEF TypeOK, BeginSubmit, BeginFetch, GotoLimit, stored, limits, Final
<1>3. ASSUME NEW c \in Calls, Incr(c) PROVE TypeOK'
  <2>1. Key(c) \in Keys /\ limit[c] # "none"
    BY <1>3, KeyInKeys DEF TypeOK, Incr, Final
  <2>2. CASE FirstInWindow(count[Key(c)] + 1)
    BY <1>3, <2>1, <2>2 DEF TypeOK, Incr, Goto, stored, Final
  <2>3. CASE ~ FirstInWindow(count[Key(c)] + 1)
    <3>1. Decide(c, count[Key(c)] + 1) /\ pc[c] \in {"incr", "expire"}
      BY <1>3, <2>3 DEF Incr
    <3> QED
      BY <1>3, <2>1, <3>1, DecideTypes DEF TypeOK, Incr, stored
  <2> QED
    BY <2>2, <2>3
<1>4. ASSUME NEW c \in Calls, IncrFails(c) \/ LookupFails(c) \/ CompleteFails(c)
                              \/ AlreadyCompleted(c) \/ PublishFails(c)
      PROVE  TypeOK'
  BY <1>4 DEF TypeOK, IncrFails, LookupFails, CompleteFails, AlreadyCompleted,
              PublishFails, Finish, stored, limits, Final
<1>5. ASSUME NEW c \in Calls, IncrAnswerLost(c) PROVE TypeOK'
  <2>1. Key(c) \in Keys
    BY <1>5, KeyInKeys DEF TypeOK, IncrAnswerLost, Final
  <2> QED
    BY <1>5, <2>1 DEF TypeOK, IncrAnswerLost, Finish, stored, Final
<1>6. ASSUME NEW c \in Calls, ExpireKey(c) PROVE TypeOK'
  <2>1. Key(c) \in Keys
    BY <1>6, KeyInKeys DEF TypeOK, ExpireKey, Final
  <2> QED
    BY <1>6, <2>1, DecideTypes DEF TypeOK, ExpireKey, stored
<1>7. ASSUME NEW c \in Calls, ExpireKeyFails(c) PROVE TypeOK'
  <2>1. Key(c) \in Keys
    BY <1>7, KeyInKeys DEF TypeOK, ExpireKeyFails, Final
  <2> QED
    BY <1>7, <2>1 DEF TypeOK, ExpireKeyFails, Finish, stored, Final
<1>8. ASSUME NEW c \in Calls, Lookup(c) PROVE TypeOK'
  BY <1>8 DEF TypeOK, Lookup, ValidateAnswers, Goto, Finish, stored, limits, Final
<1>9. ASSUME NEW c \in Calls, CompleteWithResponse(c) \/ CommitAnswerLost(c) PROVE TypeOK'
  BY <1>9 DEF TypeOK, CompleteWithResponse, CommitAnswerLost, Record, Goto, Finish, limits, Final
<1>10. ASSUME NEW c \in Calls, PublishPollCompleted(c) PROVE TypeOK'
  BY <1>10 DEF TypeOK, PublishPollCompleted, Finish, limits, Final
<1>11. ASSUME NEW c \in Calls, Crash(c) PROVE TypeOK'
  <2>1. Key(c) \in Keys
    BY <1>11, KeyInKeys DEF TypeOK, Crash, Final
  <2> QED
    BY <1>11, <2>1 DEF TypeOK, Crash, Finish, stored, Final
<1>12. ASSUME NEW k \in Keys, WindowElapses(k) PROVE TypeOK'
  BY <1>12 DEF TypeOK, WindowElapses, stored
<1>13. ASSUME UNCHANGED vars PROVE TypeOK'
  BY <1>13 DEF TypeOK, vars, stored, limits
<1> QED
  BY <1>1, <1>2, <1>3, <1>4, <1>5, <1>6, <1>7, <1>8, <1>9, <1>10, <1>11, <1>12, <1>13
  DEF Next, Step

\* The variables of Poll keep their types in every behaviour, and a call is at a
\* limit exactly while it is under way.
THEOREM PollTypes == Spec => []TypeOK
BY InitTypes, NextTypes, PTL DEF Spec
-----------------------------------------------------------------------------
(* Responses and events *)

\* A poll that is not completed has no response, and a call past the transaction
\* is in the table.
Recorded ==
    /\ \A p \in Polls : status[p] # "completed" => responses[p] = {}
    /\ \A c \in Calls : pc[c] \in {"publish", "ok"} => c \in responses[poll[c]]

\* The inductive invariant of the responses.
ResponseInv == Recorded /\ OneResponse /\ EventHasResponse

LEMMA InitResponses == Init => ResponseInv
BY DEF Init, ResponseInv, Recorded, OneResponse, EventHasResponse

\* A step that stores nothing and moves no call past the transaction.
LEMMA QuietStep ==
    ASSUME TypeOK, ResponseInv, UNCHANGED <<responses, events, poll>>,
           \A p \in Polls : status'[p] # "completed" => status[p] # "completed",
           \A c \in Calls : pc'[c] \in {"publish", "ok"} => pc[c] \in {"publish", "ok"}
    PROVE  ResponseInv'
BY DEF TypeOK, ResponseInv, Recorded, OneResponse, EventHasResponse

LEMMA NextResponses == TypeOK /\ ResponseInv /\ [Next]_vars => ResponseInv'
<1> SUFFICES ASSUME TypeOK, ResponseInv, [Next]_vars PROVE ResponseInv'
  OBVIOUS
<1>1. ASSUME NEW p \in Polls, CreatePoll(p) \/ Expires(p) PROVE ResponseInv'
  BY <1>1, QuietStep DEF TypeOK, CreatePoll, Expires
<1>2. ASSUME NEW c \in Calls, BeginSubmit(c) \/ BeginFetch(c) PROVE ResponseInv'
  BY <1>2, QuietStep DEF TypeOK, BeginSubmit, BeginFetch, GotoLimit, stored
<1>3. ASSUME NEW c \in Calls, Incr(c) \/ ExpireKey(c) PROVE ResponseInv'
  <2>1. \A d \in Calls : pc'[d] \in {"publish", "ok"} => pc[d] \in {"publish", "ok"}
    BY <1>3 DEF TypeOK, Incr, ExpireKey, Decide, Goto, GotoLimit, Finish
  <2> QED
    BY <1>3, <2>1, QuietStep DEF Incr, ExpireKey, stored
<1>4. ASSUME NEW c \in Calls, IncrFails(c) \/ IncrAnswerLost(c) \/ ExpireKeyFails(c)
                              \/ LookupFails(c) \/ CompleteFails(c) \/ AlreadyCompleted(c)
      PROVE  ResponseInv'
  BY <1>4, QuietStep DEF TypeOK, IncrFails, IncrAnswerLost, ExpireKeyFails, LookupFails,
                         CompleteFails, AlreadyCompleted, Finish, stored
<1>5. ASSUME NEW c \in Calls, Lookup(c) PROVE ResponseInv'
  BY <1>5, QuietStep DEF TypeOK, Lookup, ValidateAnswers, Goto, Finish, stored
<1>6. ASSUME NEW c \in Calls, CompleteWithResponse(c) \/ CommitAnswerLost(c) PROVE ResponseInv'
  <2>1. poll[c] \in Polls /\ status[poll[c]] = "active" /\ responses[poll[c]] = {}
    BY <1>6 DEF TypeOK, ResponseInv, Recorded, CompleteWithResponse, CommitAnswerLost, Record
  <2>2. /\ status' = [status EXCEPT ![poll[c]] = "completed"]
        /\ responses' = [responses EXCEPT ![poll[c]] = {c}]
        /\ UNCHANGED <<events, poll>>
        /\ \A d \in Calls \ {c} : pc'[d] = pc[d]
        /\ pc[c] = "complete" /\ pc'[c] \in {"publish", "error"}
    BY <1>6, <2>1 DEF TypeOK, CompleteWithResponse, CommitAnswerLost, Record, Goto, Finish
  <2>3. Recorded'
    BY <2>1, <2>2 DEF TypeOK, ResponseInv, Recorded
  <2>4. OneResponse'
    BY <2>1, <2>2 DEF TypeOK, ResponseInv, Recorded, OneResponse
  <2>5. EventHasResponse'
    BY <2>1, <2>2 DEF TypeOK, ResponseInv, EventHasResponse
  <2> QED
    BY <2>3, <2>4, <2>5 DEF ResponseInv
<1>7. ASSUME NEW c \in Calls, PublishPollCompleted(c) \/ PublishFails(c) PROVE ResponseInv'
  BY <1>7 DEF TypeOK, ResponseInv, Recorded, OneResponse, EventHasResponse,
              PublishPollCompleted, PublishFails, Finish, stored
<1>8. ASSUME NEW c \in Calls, Crash(c) PROVE ResponseInv'
  BY <1>8, QuietStep DEF TypeOK, Crash, Finish, stored
<1>9. ASSUME NEW k \in Keys, WindowElapses(k) PROVE ResponseInv'
  BY <1>9, QuietStep DEF WindowElapses, stored
<1>10. ASSUME UNCHANGED vars PROVE ResponseInv'
  BY <1>10, QuietStep DEF vars, stored
<1> QED
  BY <1>1, <1>2, <1>3, <1>4, <1>5, <1>6, <1>7, <1>8, <1>9, <1>10 DEF Next, Step

LEMMA ResponsesAlways == Spec => []ResponseInv
BY InitTypes, NextTypes, InitResponses, NextResponses, PTL DEF Spec

\* SubmitResponse is one-shot: whatever races, failed commits and crashes there
\* are, a poll has at most one response and only its writer is told Ok.
THEOREM PollTakesOneResponse == Spec => []OneResponse
BY ResponsesAlways, PTL DEF ResponseInv

\* PollCompleted is published only by the call whose response is in the table.
THEOREM AnnouncedWasRecorded == Spec => []EventHasResponse
BY ResponsesAlways, PTL DEF ResponseInv

\* The calls and the table of Poll agree in every behaviour.
THEOREM PollStaysConsistent == Spec => []PollConsistent
BY PollTypes, PollTakesOneResponse, AnnouncedWasRecorded, PTL DEF PollConsistent

-----------------------------------------------------------------------------
(* The promise *)

\* The calls that have been told Ok.
ToldOk == {c \in Calls : pc[c] = "ok"}

LEMMA InitPromise == Init => Promise!PromiseInit
BY DEF Init, Promise!PromiseInit

\* A step that stores nothing and ends no call with Ok is hidden by the mapping.
LEMMA HiddenStep ==
    ASSUME UNCHANGED <<status, responses, events>>,
           \A c \in Calls : pc'[c] = "ok" <=> pc[c] = "ok"
    PROVE  UNCHANGED Promise!promiseVars
BY DEF Promise!promiseVars

\* A step of one call that leaves it short of Ok tells nobody anything.
LEMMA NotTold ==
    ASSUME TypeOK, NEW c \in Calls, pc[c] # "ok",
           NEW l, l # "ok", pc' = [pc EXCEPT ![c] = l]
    PROVE  \A d \in Calls : pc'[d] = "ok" <=> pc[d] = "ok"
BY DEF TypeOK

LEMMA StepPromise ==
    TypeOK /\ ResponseInv /\ [Next]_vars => [Promise!PromiseNext]_(Promise!promiseVars)
<1> SUFFICES ASSUME TypeOK, ResponseInv, [Next]_vars
             PROVE  Promise!PromiseNext \/ UNCHANGED Promise!promiseVars
  OBVIOUS
<1>1. ASSUME NEW p \in Polls, CreatePoll(p) PROVE Promise!PromiseNext
  BY <1>1 DEF CreatePoll, limits, Promise!PromiseNext, Promise!Open
<1>2. ASSUME NEW p \in Polls, Expires(p) PROVE UNCHANGED Promise!promiseVars
  BY <1>2, HiddenStep DEF Expires
<1>3. ASSUME NEW c \in Calls, BeginSubmit(c) \/ BeginFetch(c) PROVE UNCHANGED Promise!promiseVars
  <2>1. \A d \in Calls : pc'[d] = "ok" <=> pc[d] = "ok"
    BY <1>3, NotTold DEF BeginSubmit, BeginFetch, GotoLimit
  <2> QED
    BY <1>3, <2>1, HiddenStep DEF BeginSubmit, BeginFetch, stored
<1>4. ASSUME NEW c \in Calls, Incr(c) \/ ExpireKey(c) PROVE UNCHANGED Promise!promiseVars
  <2>1. \A d \in Calls : pc'[d] = "ok" <=> pc[d] = "ok"
    BY <1>4, NotTold DEF Incr, ExpireKey, Decide, Goto, GotoLimit, Finish
  <2> QED
    BY <1>4, <2>1, HiddenStep DEF Incr, ExpireKey, stored
<1>5. ASSUME NEW c \in Calls, IncrFails(c) \/ IncrAnswerLost(c) \/ ExpireKeyFails(c)
                              \/ LookupFails(c) \/ CompleteFails(c) \/ AlreadyCompleted(c)
      PROVE  UNCHANGED Promise!promiseVars
  <2>1. \A d \in Calls : pc'[d] = "ok" <=> pc[d] = "ok"
    BY <1>5, NotTold DEF IncrFails, IncrAnswerLost, ExpireKeyFails, LookupFails,
                         CompleteFails, AlreadyCompleted, Finish
  <2> QED
    BY <1>5, <2>1, HiddenStep DEF IncrFails, IncrAnswerLost, ExpireKeyFails, LookupFails,
                                  CompleteFails, AlreadyCompleted, stored
<1>6. ASSUME NEW c \in Calls, Lookup(c) PROVE UNCHANGED Promise!promiseVars
  <2>1. \A d \in Calls : pc'[d] = "ok" <=> pc[d] = "ok"
    BY <1>6, NotTold DEF Lookup, ValidateAnswers, Goto, Finish
  <2> QED
    BY <1>6, <2>1, HiddenStep DEF Lookup, stored
<1>7. ASSUME NEW c \in Calls, Crash(c) PROVE UNCHANGED Promise!promiseVars
  <2>1. \A d \in Calls : pc'[d] = "ok" <=> pc[d] = "ok"
    BY <1>7, NotTold DEF Crash, Final, Finish
  <2> QED
    BY <1>7, <2>1, HiddenStep DEF Crash, stored
<1>8. ASSUME NEW c \in Calls, CompleteWithResponse(c) \/ CommitAnswerLost(c)
      PROVE  Promise!PromiseNext
  <2>1. poll[c] \in Polls /\ status[poll[c]] = "active" /\ responses[poll[c]] = {}
    BY <1>8 DEF TypeOK, ResponseInv, Recorded, CompleteWithResponse, CommitAnswerLost, Record
  <2>2. /\ status' = [status EXCEPT ![poll[c]] = "completed"]
        /\ responses' = [responses EXCEPT ![poll[c]] = {c}]
        /\ UNCHANGED events
    BY <1>8, <2>1 DEF TypeOK, CompleteWithResponse, CommitAnswerLost, Record
  <2>3. \A d \in Calls : pc'[d] = "ok" <=> pc[d] = "ok"
    BY <1>8, NotTold DEF CompleteWithResponse, CommitAnswerLost, Goto, Finish
  <2>4. Promise!TakeResponse(poll[c], c)
    BY <2>1, <2>2, <2>3 DEF Promise!TakeResponse
  <2> QED
    BY <2>1, <2>4 DEF Promise!PromiseNext
<1>9. ASSUME NEW c \in Calls, PublishPollCompleted(c) \/ PublishFails(c)
      PROVE  Promise!PromiseNext
  <2>1. poll[c] \in Polls /\ c \in responses[poll[c]]
    BY <1>9 DEF TypeOK, ResponseInv, Recorded, PublishPollCompleted, PublishFails
  <2>2. ToldOk' = ToldOk \cup {c}
    BY <1>9 DEF TypeOK, ToldOk, PublishPollCompleted, PublishFails, Finish
  <2>3. /\ events' \in {events, [events EXCEPT ![poll[c]] = @ \cup {c}]}
        /\ UNCHANGED <<status, responses>>
    BY <1>9 DEF PublishPollCompleted, PublishFails, stored
  <2>4. Promise!Reply(poll[c], c)
    BY <2>1, <2>2, <2>3 DEF Promise!Reply, ToldOk
  <2> QED
    BY <2>1, <2>4 DEF Promise!PromiseNext
<1>10. ASSUME NEW k \in Keys, WindowElapses(k) PROVE UNCHANGED Promise!promiseVars
  BY <1>10, HiddenStep DEF WindowElapses, stored
<1>11. ASSUME UNCHANGED vars PROVE UNCHANGED Promise!promiseVars
  BY <1>11, HiddenStep DEF vars, stored
<1> QED
  BY <1>1, <1>2, <1>3, <1>4, <1>5, <1>6, <1>7, <1>8, <1>9, <1>10, <1>11 DEF Next, Step

\* Poll implements its promise: under the mapping that keeps the status, the
\* responses, the events and who was told Ok, every step is a step of the
\* write-once poll or changes nothing.
THEOREM PollKeepsItsPromise == Spec => ImplementsPromise
<1>1. Init => Promise!PromiseInit
  BY InitPromise
<1>2. TypeOK /\ ResponseInv /\ [Next]_vars => [Promise!PromiseNext]_(Promise!promiseVars)
  BY StepPromise
<1> QED
  BY <1>1, <1>2, PollTypes, ResponsesAlways, PTL DEF Spec, ImplementsPromise, Promise!PromiseSpec

-----------------------------------------------------------------------------
(* Rate limits *)

\* The calls let through are among those counted and within the budget, and a
\* call that counted 1 and has still to set the TTL has its place kept: nobody
\* else counted 1, and the window cannot end before.
BudgetInv ==
    /\ \A k \in Keys : passed[k] <= count[k] /\ passed[k] <= Budget(k)
    /\ \A k \in ttl : count[k] >= 1
    /\ \A c \in Calls : pc[c] = "expire" =>
          /\ Key(c) \notin ttl
          /\ passed[Key(c)] + 1 <= count[Key(c)]
          /\ passed[Key(c)] + 1 <= Budget(Key(c))
    /\ \A c, d \in Calls : pc[c] = "expire" /\ pc[d] = "expire" /\ Key(c) = Key(d) => c = d

LEMMA InitBudget == Init => BudgetInv
<1> SUFFICES ASSUME Init PROVE BudgetInv
  OBVIOUS
<1> QED
  BY BudgetPositive DEF Init, BudgetInv

\* A step that leaves the counters alone and brings no call to an EXPIRE.
LEMMA UncountedStep ==
    ASSUME TypeOK, BudgetInv, UNCHANGED <<count, ttl, passed, poll, ip>>,
           \A c \in Calls : pc'[c] = "expire" => pc[c] = "expire" /\ limit'[c] = limit[c]
    PROVE  BudgetInv'
BY DEF TypeOK, BudgetInv, Key

\* What the steps at a counter k have in common: only k, and only the call c,
\* change, and c is not left before an EXPIRE.  It is let through on a count that
\* is within the budget and that no other call was let through on.
LEMMA CountedStep ==
    ASSUME TypeOK, BudgetInv, TypeOK', NEW c \in Calls, UNCHANGED <<poll, ip>>,
           NEW k \in Keys, k = Key(c), pc'[c] # "expire",
           \A d \in Calls \ {c} : pc'[d] = pc[d] /\ limit'[d] = limit[d],
           \A j \in Keys \ {k} : passed'[j] = passed[j] /\ count'[j] = count[j],
           \A j \in Keys \ {k} : j \in ttl' <=> j \in ttl,
           k \in ttl' => count'[k] >= 1,
           passed'[k] <= count'[k] /\ passed'[k] <= Budget(k),
           \A d \in Calls \ {c} : pc[d] = "expire" /\ Key(d) = k =>
               /\ k \notin ttl'
               /\ passed'[k] + 1 <= count'[k]
               /\ passed'[k] + 1 <= Budget(k)
    PROVE  BudgetInv'
<1>1. \A d \in Calls \ {c} : NewKey(d) = Key(d)
  BY DEF Key, NewKey
<1>2. \A d \in Calls : pc[d] = "expire" => Key(d) \in Keys
  BY KeyInKeys DEF TypeOK, Final
<1>4. ttl' \subseteq Keys
  BY DEF TypeOK
<1>5. \A j \in Keys : passed'[j] <= count'[j] /\ passed'[j] <= Budget(j)
  BY DEF BudgetInv
<1>6. \A j \in ttl' : count'[j] >= 1
  BY <1>4 DEF BudgetInv
<1>7. ASSUME NEW d \in Calls, pc'[d] = "expire"
      PROVE  /\ NewKey(d) \notin ttl'
             /\ passed'[NewKey(d)] + 1 <= count'[NewKey(d)]
             /\ passed'[NewKey(d)] + 1 <= Budget(NewKey(d))
  <2>1. d # c /\ pc[d] = "expire" /\ NewKey(d) = Key(d) /\ Key(d) \in Keys
    BY <1>1, <1>2, <1>7
  <2> QED
    BY <2>1 DEF BudgetInv
<1>8. ASSUME NEW d \in Calls, NEW e \in Calls, pc'[d] = "expire", pc'[e] = "expire", NewKey(d) = NewKey(e)
      PROVE  d = e
  BY <1>1, <1>8 DEF BudgetInv
<1> QED
  BY <1>5, <1>6, <1>7, <1>8 DEF BudgetInv, Key, NewKey

\* What Allow's decision on the count n does to the counters.
LEMMA DecideEffect ==
    ASSUME TypeOK, NEW c \in Calls, NEW n \in Nat, Key(c) \in Keys, Decide(c, n)
    PROVE  /\ pc'[c] # "expire"
           /\ \A d \in Calls \ {c} : pc'[d] = pc[d] /\ limit'[d] = limit[d]
           /\ \A j \in Keys \ {Key(c)} : passed'[j] = passed[j]
           /\ \/ passed'[Key(c)] = passed[Key(c)]
              \/ passed'[Key(c)] = passed[Key(c)] + 1 /\ n <= Budget(Key(c))
BY DEF TypeOK, Decide, Within, Goto, GotoLimit, Finish

LEMMA NextBudget == TypeOK /\ TypeOK' /\ BudgetInv /\ [Next]_vars => BudgetInv'
<1> SUFFICES ASSUME TypeOK, TypeOK', BudgetInv, [Next]_vars PROVE BudgetInv'
  OBVIOUS
<1>0. \A k \in Keys : /\ passed[k] \in Nat /\ count[k] \in Nat
                      /\ Budget(k) \in Nat /\ Budget(k) >= 1
  BY BudgetPositive DEF TypeOK
<1>1. ASSUME NEW p \in Polls, CreatePoll(p) \/ Expires(p) PROVE BudgetInv'
  BY <1>1, UncountedStep DEF CreatePoll, Expires, limits
<1>2. ASSUME NEW c \in Calls, BeginSubmit(c) \/ BeginFetch(c) PROVE BudgetInv'
  BY <1>2, UncountedStep DEF TypeOK, BeginSubmit, BeginFetch, GotoLimit, limits
<1>3. ASSUME NEW c \in Calls, Incr(c) PROVE BudgetInv'
  <2> DEFINE k == Key(c)
  <2>1. k \in Keys
    BY <1>3, KeyInKeys DEF TypeOK, Incr, Final
  <2>2. /\ count'[k] = count[k] + 1
        /\ \A j \in Keys \ {k} : count'[j] = count[j]
        /\ UNCHANGED <<ttl, poll, ip>>
        /\ pc[c] = "incr"
    BY <1>3, <2>1 DEF TypeOK, Incr
  <2>3. CASE count[k] = 0
    <3>1. /\ pc'[c] = "expire" /\ UNCHANGED <<passed, limit>>
          /\ \A d \in Calls \ {c} : pc'[d] = pc[d]
      BY <1>3, <2>3 DEF TypeOK, Incr, FirstInWindow, Goto
    <3>2. passed[k] = 0 /\ k \notin ttl /\ \A d \in Calls : pc[d] = "expire" => Key(d) # k
      BY <1>0, <2>1, <2>3 DEF BudgetInv
    <3>3. \A d \in Calls : NewKey(d) = Key(d)
      BY <2>2, <3>1 DEF Key, NewKey
    <3>4. \A d \in Calls : pc[d] = "expire" => Key(d) \in Keys
      BY KeyInKeys DEF TypeOK, Final
    <3>6. \A j \in Keys : passed'[j] <= count'[j] /\ passed'[j] <= Budget(j)
      BY <1>0, <2>1, <2>2, <3>1 DEF BudgetInv
    <3>7. \A j \in ttl' : count'[j] >= 1
      BY <2>2, <3>2 DEF BudgetInv, TypeOK
    <3>8. ASSUME NEW d \in Calls, pc'[d] = "expire"
          PROVE  /\ NewKey(d) \notin ttl'
                 /\ passed'[NewKey(d)] + 1 <= count'[NewKey(d)]
                 /\ passed'[NewKey(d)] + 1 <= Budget(NewKey(d))
      <4>1. CASE d = c
        BY <1>0, <2>1, <2>2, <2>3, <3>1, <3>2, <3>3, <4>1
      <4>2. CASE d # c
        <5>1. pc[d] = "expire" /\ Key(d) # k /\ Key(d) \in Keys
          BY <3>1, <3>2, <3>4, <3>8, <4>2
        <5> QED
          BY <2>2, <3>1, <3>3, <5>1 DEF BudgetInv
      <4> QED
        BY <4>1, <4>2
    <3>9. ASSUME NEW d \in Calls, NEW e \in Calls, pc'[d] = "expire", pc'[e] = "expire", NewKey(d) = NewKey(e)
          PROVE  d = e
      BY <3>1, <3>2, <3>3, <3>9 DEF BudgetInv
    <3> QED
      BY <3>6, <3>7, <3>8, <3>9 DEF BudgetInv, Key, NewKey
  <2>4. CASE count[k] # 0
    <3>1. Decide(c, count[k] + 1) /\ count[k] + 1 \in Nat
      BY <1>0, <1>3, <2>1, <2>4 DEF Incr, FirstInWindow
    <3>2. /\ pc'[c] # "expire"
          /\ \A d \in Calls \ {c} : pc'[d] = pc[d] /\ limit'[d] = limit[d]
          /\ \A j \in Keys \ {k} : passed'[j] = passed[j]
          /\ \/ passed'[k] = passed[k]
             \/ passed'[k] = passed[k] + 1 /\ count[k] + 1 <= Budget(k)
      BY <2>1, <3>1, DecideEffect
    <3>3. passed'[k] <= count'[k] /\ passed'[k] <= Budget(k)
      BY <1>0, <2>1, <2>2, <3>2 DEF BudgetInv
    <3>4. ASSUME NEW d \in Calls \ {c}, pc[d] = "expire", Key(d) = k
          PROVE  /\ k \notin ttl'
                 /\ passed'[k] + 1 <= count'[k]
                 /\ passed'[k] + 1 <= Budget(k)
      BY <1>0, <2>1, <2>2, <3>2, <3>4 DEF BudgetInv
    <3>5. k \in ttl' => count'[k] >= 1
      BY <1>0, <2>1, <2>2
    <3> QED
      BY <2>1, <2>2, <3>2, <3>3, <3>4, <3>5, CountedStep
  <2> QED
    BY <2>3, <2>4
<1>4. ASSUME NEW c \in Calls, IncrFails(c) \/ LookupFails(c) \/ CompleteFails(c)
                              \/ AlreadyCompleted(c) \/ PublishFails(c) \/ PublishPollCompleted(c)
                              \/ CompleteWithResponse(c) \/ CommitAnswerLost(c) \/ Lookup(c) \/ Crash(c)
      PROVE  BudgetInv'
  <2>1. UNCHANGED <<count, ttl, passed, poll, ip>>
    BY <1>4 DEF IncrFails, LookupFails, CompleteFails, AlreadyCompleted, PublishFails,
                PublishPollCompleted, CompleteWithResponse, CommitAnswerLost, Lookup, ValidateAnswers, Crash, limits
  <2>2. \A d \in Calls : pc'[d] = "expire" => pc[d] = "expire" /\ limit'[d] = limit[d]
    BY <1>4 DEF TypeOK, IncrFails, LookupFails, CompleteFails, AlreadyCompleted, PublishFails,
                PublishPollCompleted, CompleteWithResponse, CommitAnswerLost, Lookup, ValidateAnswers, Crash,
                Goto, Finish
  <2> QED
    BY <2>1, <2>2, UncountedStep
<1>5. ASSUME NEW c \in Calls, IncrAnswerLost(c) PROVE BudgetInv'
  <2> DEFINE k == Key(c)
  <2>1. k \in Keys
    BY <1>5, KeyInKeys DEF TypeOK, IncrAnswerLost, Final
  <2>2. /\ count'[k] = count[k] + 1
        /\ \A j \in Keys \ {k} : count'[j] = count[j]
        /\ UNCHANGED <<ttl, passed, poll, ip>>
        /\ pc'[c] # "expire"
        /\ \A d \in Calls \ {c} : pc'[d] = pc[d] /\ limit'[d] = limit[d]
    BY <1>5, <2>1 DEF TypeOK, IncrAnswerLost, Finish
  <2>3. passed'[k] <= count'[k] /\ passed'[k] <= Budget(k) /\ count'[k] >= 1
    BY <1>0, <2>1, <2>2 DEF BudgetInv
  <2>4. ASSUME NEW d \in Calls \ {c}, pc[d] = "expire", Key(d) = k
        PROVE  /\ k \notin ttl'
               /\ passed'[k] + 1 <= count'[k]
               /\ passed'[k] + 1 <= Budget(k)
    BY <1>0, <2>1, <2>2, <2>4 DEF BudgetInv
  <2> QED
    BY <2>1, <2>2, <2>3, <2>4, CountedStep
<1>6. ASSUME NEW c \in Calls, ExpireKey(c) PROVE BudgetInv'
  <2> DEFINE k == Key(c)
  <2>1. k \in Keys /\ pc[c] = "expire"
    BY <1>6, KeyInKeys DEF TypeOK, ExpireKey, Final
  <2>2. /\ pc'[c] # "expire"
        /\ \A d \in Calls \ {c} : pc'[d] = pc[d] /\ limit'[d] = limit[d]
        /\ \A j \in Keys \ {k} : passed'[j] = passed[j]
        /\ passed'[k] = passed[k] \/ passed'[k] = passed[k] + 1
    BY <1>6, <2>1, DecideEffect DEF ExpireKey
  <2>3. UNCHANGED <<count, poll, ip>> /\ ttl' = ttl \cup {k}
    BY <1>6 DEF ExpireKey
  <2>4. passed[k] + 1 <= count[k] /\ passed[k] + 1 <= Budget(k)
    BY <2>1 DEF BudgetInv
  <2>5. passed'[k] <= count'[k] /\ passed'[k] <= Budget(k) /\ count'[k] >= 1
    BY <1>0, <2>1, <2>2, <2>3, <2>4
  <2>6. \A d \in Calls \ {c} : ~ (pc[d] = "expire" /\ Key(d) = k)
    BY <2>1 DEF BudgetInv
  <2> QED
    BY <2>1, <2>2, <2>3, <2>5, <2>6, CountedStep
<1>7. ASSUME NEW c \in Calls, ExpireKeyFails(c) PROVE BudgetInv'
  <2> DEFINE k == Key(c)
  <2>1. k \in Keys /\ pc[c] = "expire"
    BY <1>7, KeyInKeys DEF TypeOK, ExpireKeyFails, Final
  <2>2. /\ pc'[c] # "expire"
        /\ \A d \in Calls \ {c} : pc'[d] = pc[d] /\ limit'[d] = limit[d]
        /\ UNCHANGED <<count, passed, poll, ip>> /\ ttl' \in {ttl, ttl \cup {k}}
    BY <1>7 DEF TypeOK, ExpireKeyFails, Finish
  <2>3. passed'[k] <= count'[k] /\ passed'[k] <= Budget(k) /\ count'[k] >= 1
    BY <1>0, <2>1, <2>2 DEF BudgetInv
  <2>4. \A d \in Calls \ {c} : ~ (pc[d] = "expire" /\ Key(d) = k)
    BY <2>1 DEF BudgetInv
  <2> QED
    BY <2>1, <2>2, <2>3, <2>4, CountedStep
<1>8. ASSUME NEW k \in Keys, WindowElapses(k) PROVE BudgetInv'
  <2>1. \A d \in Calls : NewKey(d) = Key(d) /\ (pc[d] = "expire" => Key(d) \in Keys)
    BY <1>8, KeyInKeys DEF TypeOK, WindowElapses, Key, NewKey, Final
  <2>2. \A d \in Calls : pc[d] = "expire" => Key(d) # k
    BY <1>8 DEF WindowElapses, BudgetInv
  <2> QED
    BY <1>0, <1>8, <2>1, <2>2 DEF TypeOK, WindowElapses, BudgetInv, Key, NewKey
<1>9. ASSUME UNCHANGED vars PROVE BudgetInv'
  BY <1>9, UncountedStep DEF vars, limits
<1> QED
  BY <1>1, <1>2, <1>3, <1>4, <1>5, <1>6, <1>7, <1>8, <1>9 DEF Next, Step

\* Allow never lets more calls of a token or an address through in one window
\* than the budget: the place of the call that has counted 1 and is still to set
\* the TTL is kept for it, whatever counts and failures come in between.
THEOREM LimitsHold == Spec => []BudgetHolds
<1>1. BudgetInv => BudgetHolds
  BY DEF BudgetInv, BudgetHolds
<1> QED
  BY InitTypes, NextTypes, InitBudget, NextBudget, <1>1, PTL DEF Spec
=============================================================================
