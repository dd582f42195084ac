---------------------------- MODULE PlatformProofs ----------------------------
(***************************************************************************)
(* The safety of the parts that every service stands on, for every value   *)
(* of their constants: the life of a process, the push providers, the      *)
(* accounts of Identity and the verifiers of its tokens.                   *)
(*                                                                         *)
(* Each part is proved on its own, in the same way: an inductive invariant *)
(* as a conjunction of named parts, that it holds at the start, one lemma  *)
(* for each step or group of steps that keeps it, and the theorem.         *)
(***************************************************************************)
EXTENDS Lifecycle, Push, Accounts, Tokens, TLAPS

-----------------------------------------------------------------------------
(* The life of a service process *)

\* What the plans of the seven services have in common: logkit, if a service has it,
\* comes first and is followed by telemetry, and the tasks of Notification come last.
LEMMA PlanFacts ==
  ASSUME NEW s \in DOMAIN Plan
  PROVE  /\ Len(Plan[s]) \in Nat /\ DOMAIN Plan[s] = 1..Len(Plan[s])
         /\ \A i \in 1..Len(Plan[s]) : Plan[s][i] = "logkit" =>
              i = 1 /\ 2 \in 1..Len(Plan[s]) /\ Plan[s][2] = "telemetry"
         /\ Grouped(s) =>
              /\ HasGRPC(s)
              /\ \A i \in 1..Len(Plan[s]) : Plan[s][i] \in Background =>
                    i = Len(Plan[s]) /\ Plan[s][i] \in Infallible
<1>1. DOMAIN Plan = {"identity", "poll", "surprise", "catalog", "notification", "gateway", "logServer"}
  BY DEF Plan
<1> USE DEF Plan, Grouped, HasGRPC, Background, Infallible
<1>2. CASE s = "identity"
  BY <1>2 DEF IdentityRun
<1>3. CASE s = "poll"
  BY <1>3 DEF PollRun
<1>4. CASE s = "surprise"
  BY <1>4 DEF SurpriseRun
<1>5. CASE s = "catalog"
  BY <1>5 DEF CatalogRun
<1>6. CASE s = "notification"
  BY <1>6 DEF NotificationRun
<1>7. CASE s = "gateway"
  BY <1>7 DEF GatewayRun
<1>8. CASE s = "logServer"
  BY <1>8 DEF LogServerRun
<1> QED BY <1>1, <1>2, <1>3, <1>4, <1>5, <1>6, <1>7, <1>8

Goroutine == {"start", "serving", "sending", "ended"}

\* The control has its type, and the cause says how far Run has come.
ProcessTyped ==
    /\ LifecycleTypeOK
    /\ grpc \in Goroutine /\ http \in Goroutine
    /\ deferred \in Seq(Closable)
    /\ cause \in {"none", "setup", "signal", "group", "error", "timeout"}
    /\ phase = "setup" =>
         /\ cause = "none" /\ errCh = 0 /\ grpc = "start" /\ http = "start"
         /\ \A r \in Requests : stage[r] = "idle"
    /\ phase = "serving" => cause = "none"
    /\ phase \in {"serving", "draining", "shutdown"} => step = Len(Plan[svc]) + 1
    /\ phase \in {"draining", "shutdown"} => cause \in {"signal", "group"}
    /\ cause = "setup" => \A r \in Requests : stage[r] = "idle"

\* Until Run returns it holds what it acquired, and each thing it holds has a
\* deferred call that closes it, except logkit until telemetry is set up.
HeldIsDeferred ==
    /\ phase \notin {"closing", "exited"} =>
         \A i \in 1..(step - 1) : Plan[svc][i] \in Closable => Plan[svc][i] \in held
    /\ phase = "exited" => deferred = <<>>
    /\ \A x \in held :
         \/ x = "logkit" /\ step = 2 /\ Plan[svc][1] = "logkit"
         \/ \E i \in DOMAIN deferred : x \in Closes(deferred[i])

\* The errgroup gets at most one value from each of its three goroutines, and Run
\* does not get past it while the task runs.
GroupCounted ==
    Grouped(svc) =>
        /\ errCh + (IF grpc = "ended" THEN 0 ELSE 1) + (IF http = "ended" THEN 0 ELSE 1)
                 + (IF task = "running" THEN 1 ELSE 0) <= 3
        /\ phase = "setup" /\ step <= Len(Plan[svc]) => task = "none"
        /\ phase \in {"closing", "exited"} => task # "running"

\* A request is under way only where its server still serves, or where Run has
\* returned without waiting for it.
RequestsFit ==
    /\ grpc = "serving" \/ http = "serving" => phase \notin {"setup", "exited"} /\ cause # "setup"
    /\ \A r \in Requests : stage[r] \in {"rpc", "restRpc"} =>
         phase \in {"serving", "draining"} \/ (phase = "closing" /\ cause = "error")
    /\ \A r \in Requests : stage[r] \in {"rest", "restRpc"} =>
         \/ phase \in {"serving", "draining", "shutdown"}
         \/ phase = "closing" /\ cause \in {"error", "timeout"}

LifecycleInv ==
    /\ ProcessTyped /\ HeldIsDeferred /\ GroupCounted /\ RequestsFit
    /\ GracefulDrains /\ TasksOutlived

\* The service of a process is one with a plan.
LEMMA ServicePlanned == ASSUME LifecycleInv PROVE svc \in DOMAIN Plan
  BY DEF LifecycleInv, ProcessTyped, LifecycleTypeOK

\* While Run has not begun to return, the stores are open.
LEMMA OpenWhileServing ==
  ASSUME LifecycleInv, phase \in {"serving", "draining", "shutdown"}
  PROVE  StoresOpen
<1>1. Stores \subseteq Closable
  BY DEF Stores, Closable
<1>2. step = Len(Plan[svc]) + 1 /\ Len(Plan[svc]) \in Nat /\ DOMAIN Plan[svc] = 1..Len(Plan[svc])
  BY ServicePlanned, PlanFacts DEF LifecycleInv, ProcessTyped
<1>3. \A i \in 1..Len(Plan[svc]) : Plan[svc][i] \in Closable => Plan[svc][i] \in held
  BY <1>2 DEF LifecycleInv, HeldIsDeferred
<1> QED BY <1>1, <1>2, <1>3 DEF StoresOpen

\* The invariant holds when a process starts.
LEMMA LifecycleStarts == LifecycleInit => LifecycleInv
<1> SUFFICES ASSUME LifecycleInit PROVE LifecycleInv
  OBVIOUS
<1>1. svc \in DOMAIN Plan /\ Len(Plan[svc]) \in Nat
  BY LifecycleConstants, PlanFacts DEF LifecycleInit
<1>2. ErrChSize(svc) \in Nat
  BY DEF ErrChSize
<1>3. ProcessTyped
  BY <1>1, <1>2 DEF LifecycleInit, ProcessTyped, LifecycleTypeOK, Goroutine
<1> QED
  BY <1>1, <1>3
  DEF LifecycleInit, LifecycleInv, HeldIsDeferred, GroupCounted, RequestsFit, GracefulDrains,
      TasksOutlived

\* Run acquires the next dependency.
LEMMA AcquireKeeps ==
  ASSUME LifecycleInv, Acquire
  PROVE  LifecycleInv'
<1> DEFINE x == Plan[svc][step]
           n == Len(Plan[svc])
<1>1. /\ phase = "setup" /\ step <= n /\ step' = step + 1
      /\ held' = Acquired(x)
      /\ deferred' = IF x \in Closable THEN <<x>> \o deferred ELSE deferred
      /\ task' = IF x \in Background THEN "running" ELSE task
      /\ UNCHANGED <<svc, phase, grpc, http, errCh, signalled, cause, stage>>
  BY DEF Acquire
<1>2. /\ svc \in DOMAIN Plan /\ n \in Nat /\ step \in 1..n /\ deferred \in Seq(Closable)
      /\ held \subseteq Closable \cup {"logkit"}
      /\ Grouped(svc) /\ x \in Background => step = n
      /\ x = "logkit" => step = 1 /\ Plan[svc][1] = "logkit"
      /\ step = 2 /\ Plan[svc][1] = "logkit" => x = "telemetry"
  BY <1>1, ServicePlanned, PlanFacts DEF LifecycleInv, ProcessTyped, LifecycleTypeOK
<1>3. /\ held \subseteq held' /\ held' \subseteq held \cup {x} /\ (x \in Closable => x \in held')
      /\ x \in held' \ held => x \in Closable \/ x = "logkit"
  BY <1>1 DEF Acquired
<1>4. /\ deferred' \in Seq(Closable)
      /\ \A i \in DOMAIN deferred : \E j \in DOMAIN deferred' : deferred'[j] = deferred[i]
      /\ x \in Closable => 1 \in DOMAIN deferred' /\ deferred'[1] = x
  <2>1. CASE x \in Closable
    <3>1. deferred' = <<x>> \o deferred /\ <<x>> \in Seq(Closable) /\ Len(<<x>>) = 1
      BY <1>1, <2>1
    <3>2. /\ deferred' \in Seq(Closable) /\ Len(deferred') = 1 + Len(deferred)
          /\ deferred'[1] = x /\ \A i \in 1..Len(deferred) : deferred'[i + 1] = deferred[i]
      BY <1>2, <3>1
    <3>3. DOMAIN deferred = 1..Len(deferred) /\ DOMAIN deferred' = 1..Len(deferred')
          /\ Len(deferred) \in Nat
      BY <1>2, <3>2
    <3>4. \A i \in DOMAIN deferred : i + 1 \in DOMAIN deferred' /\ deferred'[i + 1] = deferred[i]
      BY <3>2, <3>3
    <3>5. 1 \in DOMAIN deferred'
      BY <3>2, <3>3
    <3> QED BY <3>2, <3>4, <3>5
  <2>2. CASE x \notin Closable
    BY <1>1, <1>2, <2>2
  <2> QED BY <2>1, <2>2
<1>5. ProcessTyped'
  BY <1>1, <1>2, <1>3, <1>4 DEF LifecycleInv, ProcessTyped, LifecycleTypeOK
<1>6. HeldIsDeferred'
  <2>1. \A i \in 1..(step' - 1) : Plan[svc][i] \in Closable => Plan[svc][i] \in held'
    BY <1>1, <1>2, <1>3 DEF LifecycleInv, HeldIsDeferred
  <2>2. ASSUME NEW y \in held'
        PROVE  \/ y = "logkit" /\ step' = 2 /\ Plan[svc][1] = "logkit"
               \/ \E i \in DOMAIN deferred' : y \in Closes(deferred'[i])
    <3>1. CASE y = x /\ x \in Closable
      BY <1>4, <3>1 DEF Closes
    <3>2. CASE y = x /\ x = "logkit"
      BY <1>1, <1>2, <3>2
    <3>3. CASE y \in held
      <4>1. CASE \E i \in DOMAIN deferred : y \in Closes(deferred[i])
        BY <1>4, <4>1
      <4>2. CASE y = "logkit" /\ step = 2 /\ Plan[svc][1] = "logkit"
        <5>1. x = "telemetry" /\ x \in Closable
          BY <1>2, <4>2 DEF Closable
        <5> QED BY <1>4, <4>2, <5>1 DEF Closes
      <4> QED BY <3>3, <4>1, <4>2 DEF LifecycleInv, HeldIsDeferred
    <3> QED BY <1>3, <2>2, <3>1, <3>2, <3>3
  <2> QED BY <1>1, <2>1, <2>2 DEF HeldIsDeferred
<1>7. GroupCounted'
  BY <1>1, <1>2 DEF LifecycleInv, ProcessTyped, GroupCounted
<1>8. RequestsFit' /\ GracefulDrains'
  BY <1>1 DEF LifecycleInv, RequestsFit, GracefulDrains
<1>9. TasksOutlived'
  BY <1>1 DEF LifecycleInv, TasksOutlived
<1> QED BY <1>5, <1>6, <1>7, <1>8, <1>9 DEF LifecycleInv

\* Setup fails, or ends and the goroutines start.
LEMMA SetupEndsKeeps ==
  ASSUME LifecycleInv, SetupFails \/ StartServing
  PROVE  LifecycleInv'
<1>1. CASE SetupFails
  <2>1. /\ phase = "setup" /\ phase' = "closing" /\ cause' = "setup" /\ step <= Len(Plan[svc])
        /\ UNCHANGED <<svc, step, deferred, held, grpc, http, errCh, signalled, task, stage>>
    BY <1>1 DEF SetupFails
  <2>2. ProcessTyped' /\ HeldIsDeferred'
    BY <2>1 DEF LifecycleInv, ProcessTyped, LifecycleTypeOK, HeldIsDeferred
  <2>3. GroupCounted' /\ RequestsFit'
    BY <2>1 DEF LifecycleInv, ProcessTyped, GroupCounted, RequestsFit
  <2>4. GracefulDrains' /\ TasksOutlived'
    BY <2>1 DEF LifecycleInv, ProcessTyped, GracefulDrains, TasksOutlived
  <2> QED BY <2>2, <2>3, <2>4 DEF LifecycleInv
<1>2. CASE StartServing
  <2>1. /\ phase = "setup" /\ phase' = "serving" /\ step > Len(Plan[svc])
        /\ grpc' = IF HasGRPC(svc) THEN "start" ELSE "ended"
        /\ UNCHANGED <<svc, step, deferred, held, http, errCh, signalled, cause, task, stage>>
    BY <1>2 DEF StartServing
  <2>2. step \in 1..(Len(Plan[svc]) + 1) /\ Len(Plan[svc]) \in Nat
        /\ (Grouped(svc) => HasGRPC(svc))
    BY ServicePlanned, PlanFacts DEF LifecycleInv, ProcessTyped, LifecycleTypeOK
  <2>3. ProcessTyped' /\ HeldIsDeferred'
    BY <2>1, <2>2 DEF LifecycleInv, ProcessTyped, LifecycleTypeOK, HeldIsDeferred, Goroutine
  <2>4. GroupCounted' /\ RequestsFit'
    BY <2>1, <2>2 DEF LifecycleInv, ProcessTyped, GroupCounted, RequestsFit
  <2>5. GracefulDrains' /\ TasksOutlived'
    BY <2>1 DEF LifecycleInv, ProcessTyped, GracefulDrains, TasksOutlived
  <2> QED BY <2>3, <2>4, <2>5 DEF LifecycleInv
<1> QED BY <1>1, <1>2

\* The serving goroutines.
LEMMA GoroutinesKeep ==
  ASSUME LifecycleInv, GRPCServes \/ HTTPServes \/ SendsErr
  PROVE  LifecycleInv'
<1>1. UNCHANGED <<svc, phase, step, deferred, held, signalled, cause, task, stage>>
  BY DEF GRPCServes, HTTPServes, SendsErr
<1>2. /\ phase # "setup"
      /\ grpc' = "serving" \/ http' = "serving" => phase \notin {"setup", "exited"} /\ cause # "setup"
      /\ grpc' \in Goroutine /\ http' \in Goroutine
  BY DEF GRPCServes, HTTPServes, SendsErr, Started, LifecycleInv, ProcessTyped, RequestsFit, Goroutine
<1>3. /\ errCh' \in 0..ErrChSize(svc)
      /\ GroupCounted'
  <2>1. errCh \in 0..ErrChSize(svc) /\ ErrChSize(svc) \in Nat
    BY DEF LifecycleInv, ProcessTyped, LifecycleTypeOK, ErrChSize
  <2>2. CASE GRPCServes \/ HTTPServes
    BY <1>1, <2>1, <2>2 DEF GRPCServes, HTTPServes, LifecycleInv, GroupCounted, GRPCStopped, HTTPStopped
  <2>3. CASE SendsErr
    BY <1>1, <2>1, <2>3 DEF SendsErr, LifecycleInv, GroupCounted
  <2> QED BY <2>2, <2>3
<1>4. ProcessTyped' /\ HeldIsDeferred'
  BY <1>1, <1>2, <1>3 DEF LifecycleInv, ProcessTyped, LifecycleTypeOK, HeldIsDeferred
<1>5. RequestsFit' /\ GracefulDrains' /\ TasksOutlived'
  BY <1>1, <1>2 DEF LifecycleInv, RequestsFit, GracefulDrains, TasksOutlived
<1> QED BY <1>3, <1>4, <1>5 DEF LifecycleInv

\* The select: a signal or an error, and the drain that follows.
LEMMA StopKeeps ==
  ASSUME LifecycleInv, StopOnSignal \/ StopOnError \/ Drain
  PROVE  LifecycleInv'
<1>1. UNCHANGED <<svc, step, deferred, held, grpc, http, signalled, task, stage>>
  BY DEF StopOnSignal, StopOnError, Drain
<1>2. ErrChSize(svc) \in Nat /\ errCh \in 0..ErrChSize(svc)
  BY DEF LifecycleInv, ProcessTyped, LifecycleTypeOK, ErrChSize
<1>3. CASE StopOnSignal
  <2>1. phase = "serving" /\ phase' = "draining" /\ cause = "none" /\ cause' = "signal" /\ errCh' = errCh
    BY <1>3 DEF StopOnSignal, LifecycleInv, ProcessTyped
  <2>2. ProcessTyped' /\ HeldIsDeferred' /\ GroupCounted'
    BY <1>1, <2>1 DEF LifecycleInv, ProcessTyped, LifecycleTypeOK, HeldIsDeferred, GroupCounted
  <2> QED BY <1>1, <2>1, <2>2 DEF LifecycleInv, RequestsFit, GracefulDrains, TasksOutlived
<1>4. CASE StopOnError
  <2>1. /\ phase = "serving" /\ cause = "none" /\ errCh > 0 /\ errCh' = errCh - 1
        /\ phase' = IF Grouped(svc) THEN "draining" ELSE "closing"
        /\ cause' = IF Grouped(svc) THEN "group" ELSE "error"
    BY <1>4 DEF StopOnError, LifecycleInv, ProcessTyped
  <2>2. ProcessTyped' /\ HeldIsDeferred'
    BY <1>1, <1>2, <2>1 DEF LifecycleInv, ProcessTyped, LifecycleTypeOK, HeldIsDeferred
  <2>3. GroupCounted'
    BY <1>1, <1>2, <2>1 DEF LifecycleInv, GroupCounted
  <2> QED BY <1>1, <2>1, <2>2, <2>3 DEF LifecycleInv, RequestsFit, GracefulDrains, TasksOutlived
<1>5. CASE Drain
  <2>1. /\ phase = "draining" /\ phase' = "shutdown" /\ UNCHANGED <<cause, errCh>>
        /\ \A r \in Requests : stage[r] \notin {"rpc", "restRpc"}
    BY <1>5 DEF Drain, GracefulStopReturns, InRPC
  <2>2. ProcessTyped' /\ HeldIsDeferred' /\ GroupCounted'
    BY <1>1, <2>1 DEF LifecycleInv, ProcessTyped, LifecycleTypeOK, HeldIsDeferred, GroupCounted
  <2> QED BY <1>1, <2>1, <2>2 DEF LifecycleInv, RequestsFit, GracefulDrains, TasksOutlived
<1> QED BY <1>3, <1>4, <1>5

\* Shutdown returns, in time or not.
LEMMA ShutdownKeeps ==
  ASSUME LifecycleInv, ShutdownReturns
  PROVE  LifecycleInv'
<1>1. /\ phase = "shutdown" /\ phase' = "closing" /\ cause \in {"signal", "group"}
      /\ \/ (\A r \in Requests : stage[r] \notin {"rest", "restRpc"}) /\ cause' = cause
         \/ cause' = "timeout"
      /\ Grouped(svc) => task # "running"
      /\ UNCHANGED <<svc, step, deferred, held, grpc, http, errCh, signalled, task, stage>>
  BY DEF ShutdownReturns, InREST, LifecycleInv, ProcessTyped
<1>2. ProcessTyped' /\ HeldIsDeferred' /\ GroupCounted'
  BY <1>1 DEF LifecycleInv, ProcessTyped, LifecycleTypeOK, HeldIsDeferred, GroupCounted
<1> QED BY <1>1, <1>2 DEF LifecycleInv, RequestsFit, GracefulDrains, TasksOutlived

\* A deferred call closes what it was deferred for.
LEMMA CloseNextKeeps ==
  ASSUME LifecycleInv, CloseNext
  PROVE  LifecycleInv'
<1>1. /\ phase = "closing" /\ deferred # <<>>
      /\ held' = held \ Closes(Head(deferred)) /\ deferred' = Tail(deferred)
      /\ UNCHANGED <<svc, phase, step, grpc, http, errCh, signalled, cause, task, stage>>
  BY DEF CloseNext
<1>2. /\ deferred \in Seq(Closable) /\ deferred' \in Seq(Closable)
      /\ \A i \in DOMAIN deferred :
           deferred[i] = Head(deferred) \/ \E j \in DOMAIN deferred' : deferred'[j] = deferred[i]
  <2>1. deferred \in Seq(Closable)
    BY DEF LifecycleInv, ProcessTyped
  <2>2. /\ deferred' \in Seq(Closable) /\ Len(deferred') = Len(deferred) - 1
        /\ Head(deferred) = deferred[1] /\ Len(deferred) \in Nat \ {0}
        /\ \A j \in 1..(Len(deferred) - 1) : deferred'[j] = deferred[j + 1]
    BY <1>1, <2>1
  <2>3. ASSUME NEW i \in DOMAIN deferred, i # 1
        PROVE  i - 1 \in DOMAIN deferred' /\ deferred'[i - 1] = deferred[i]
    BY <2>1, <2>2, <2>3
  <2> QED BY <2>1, <2>2, <2>3
<1>3. ProcessTyped' /\ HeldIsDeferred'
  BY <1>1, <1>2 DEF LifecycleInv, ProcessTyped, LifecycleTypeOK, HeldIsDeferred
<1>4. GroupCounted'
  BY <1>1 DEF LifecycleInv, GroupCounted
<1> QED BY <1>1, <1>3, <1>4 DEF LifecycleInv, RequestsFit, GracefulDrains, TasksOutlived

\* The process ends.
LEMMA ExitKeeps ==
  ASSUME LifecycleInv, Exit
  PROVE  LifecycleInv'
<1>1. /\ phase = "closing" /\ phase' = "exited" /\ grpc' = "ended" /\ http' = "ended"
      /\ task' = IF task = "running" THEN "cut" ELSE task
      /\ stage' = [r \in Requests |-> IF r \in InRPC THEN "cut"
                                      ELSE IF r \in InREST THEN "dropped" ELSE stage[r]]
      /\ deferred = <<>>
      /\ UNCHANGED <<svc, step, deferred, held, errCh, signalled, cause>>
  BY DEF Exit
<1>2. /\ stage' \in [Requests -> {"idle", "rpc", "rest", "restRpc", "done", "refused",
                                  "broken", "cut", "dropped"}]
      /\ \A r \in Requests : /\ stage'[r] \notin {"rpc", "rest", "restRpc"}
                             /\ stage[r] = "idle" => stage'[r] = "idle"
                             /\ stage'[r] \in {"broken", "cut"} =>
                                  stage[r] \in {"broken", "cut", "rpc", "restRpc"}
  BY <1>1 DEF InRPC, InREST, LifecycleInv, ProcessTyped, LifecycleTypeOK
<1>3. ProcessTyped' /\ HeldIsDeferred'
  BY <1>1, <1>2 DEF LifecycleInv, ProcessTyped, LifecycleTypeOK, HeldIsDeferred, Goroutine
<1>4. GroupCounted'
  <2>1. errCh \in Nat
    BY DEF LifecycleInv, ProcessTyped, LifecycleTypeOK, ErrChSize
  <2> QED BY <1>1, <2>1 DEF LifecycleInv, GroupCounted
<1>5. GracefulDrains'
  BY <1>1, <1>2 DEF LifecycleInv, RequestsFit, GracefulDrains
<1>6. RequestsFit' /\ TasksOutlived'
  BY <1>1, <1>2 DEF LifecycleInv, RequestsFit, GroupCounted, TasksOutlived
<1> QED BY <1>3, <1>4, <1>5, <1>6 DEF LifecycleInv

\* A request arrives, is forwarded or is handled.
LEMMA RequestsKeep ==
  ASSUME LifecycleInv, NEW r \in Requests, Arrive(r) \/ Forward(r) \/ Handle(r)
  PROVE  LifecycleInv'
<1> DEFINE Stages == {"idle", "rpc", "rest", "restRpc", "done", "refused", "broken", "cut", "dropped"}
<1>1. UNCHANGED <<svc, phase, step, deferred, held, grpc, http, errCh, signalled, cause, task>>
  BY DEF Arrive, Forward, Handle
<1>2. stage \in [Requests -> Stages]
  BY DEF LifecycleInv, ProcessTyped, LifecycleTypeOK
<1>3. PICK t \in Stages : stage' = [stage EXCEPT ![r] = t]
  BY DEF Arrive, Forward, Handle
<1>4. stage' \in [Requests -> Stages] /\ stage'[r] = t /\ \A q \in Requests \ {r} : stage'[q] = stage[q]
  BY <1>2, <1>3
<1>5. /\ phase # "setup" /\ cause # "setup"
      /\ t \in {"rpc", "restRpc"} =>
           phase \in {"serving", "draining"} \/ (phase = "closing" /\ cause = "error")
      /\ t \in {"rest", "restRpc"} =>
           \/ phase \in {"serving", "draining", "shutdown"}
           \/ phase = "closing" /\ cause \in {"error", "timeout"}
      /\ t \in {"broken", "cut"} => cause = "error" \/ (cause = "timeout" /\ ~HasGRPC(svc))
  <2>1. phase \in {"setup", "serving", "draining", "shutdown", "closing", "exited"}
    BY DEF LifecycleInv, ProcessTyped, LifecycleTypeOK
  <2>2. CASE Arrive(r)
    <3>1. \/ grpc = "serving" /\ ~GRPCStopped /\ t = "rpc"
          \/ http = "serving" /\ ~HTTPStopped /\ t = "rest"
      BY <1>2, <1>4, <2>2 DEF Arrive
    <3> QED BY <2>1, <3>1 DEF GRPCStopped, HTTPStopped, LifecycleInv, ProcessTyped, RequestsFit
  <2>3. CASE Forward(r)
    <3>1. /\ stage[r] = "rest"
          /\ t = IF ~HasGRPC(svc) THEN IF StoresOpen THEN "done" ELSE "broken"
                 ELSE IF grpc = "serving" /\ ~GRPCStopped THEN "restRpc" ELSE "refused"
      BY <1>2, <1>4, <2>3 DEF Forward
    <3>2. StoresOpen \/ phase \notin {"serving", "draining", "shutdown"}
      BY OpenWhileServing
    <3> QED BY <2>1, <3>1, <3>2 DEF GRPCStopped, LifecycleInv, ProcessTyped, RequestsFit
  <2>4. CASE Handle(r)
    <3>1. stage[r] \in {"rpc", "restRpc"} /\ t = IF StoresOpen THEN "done" ELSE "broken"
      BY <1>2, <1>4, <2>4 DEF Handle, InRPC
    <3>2. StoresOpen \/ phase \notin {"serving", "draining", "shutdown"}
      BY OpenWhileServing
    <3> QED BY <2>1, <3>1, <3>2 DEF LifecycleInv, ProcessTyped, RequestsFit
  <2> QED BY <2>2, <2>3, <2>4
<1>6. ProcessTyped' /\ HeldIsDeferred' /\ GroupCounted'
  BY <1>1, <1>4, <1>5 DEF LifecycleInv, ProcessTyped, LifecycleTypeOK, HeldIsDeferred, GroupCounted
<1>7. RequestsFit' /\ GracefulDrains' /\ TasksOutlived'
  BY <1>1, <1>4, <1>5 DEF LifecycleInv, RequestsFit, GracefulDrains, TasksOutlived
<1> QED BY <1>6, <1>7 DEF LifecycleInv

\* The background task.
LEMMA TaskKeeps ==
  ASSUME LifecycleInv, TaskEnds \/ TaskFails
  PROVE  LifecycleInv'
<1>1. /\ task = "running" /\ task' \in {"ended", "broken"}
      /\ task' = "broken" => phase = "closing"
      /\ UNCHANGED <<svc, phase, step, deferred, held, grpc, http, signalled, cause, stage>>
  BY DEF TaskEnds, TaskFails
<1>2. errCh' \in 0..ErrChSize(svc) /\ GroupCounted' /\ (phase = "setup" => errCh' = 0)
  <2>1. errCh \in 0..ErrChSize(svc) /\ ErrChSize(svc) \in Nat /\ errCh \in Nat
    BY DEF LifecycleInv, ProcessTyped, LifecycleTypeOK, ErrChSize
  <2>2. CASE TaskEnds
    BY <1>1, <2>1, <2>2 DEF TaskEnds, LifecycleInv, ProcessTyped, GroupCounted
  <2>3. CASE TaskFails
    <3>1. Grouped(svc) /\ errCh' = errCh + 1 /\ phase = "serving"
      BY <2>3 DEF TaskFails
    <3>2. errCh + 1 <= 3
      BY <1>1, <2>1, <3>1 DEF LifecycleInv, GroupCounted
    <3> QED BY <1>1, <2>1, <3>1, <3>2 DEF LifecycleInv, GroupCounted, ErrChSize
  <2> QED BY <2>2, <2>3
<1>3. ProcessTyped' /\ HeldIsDeferred'
  BY <1>1, <1>2 DEF LifecycleInv, ProcessTyped, LifecycleTypeOK, HeldIsDeferred
<1>4. RequestsFit' /\ GracefulDrains' /\ TasksOutlived'
  BY <1>1 DEF LifecycleInv, RequestsFit, GracefulDrains, TasksOutlived, GroupCounted
<1> QED BY <1>2, <1>3, <1>4 DEF LifecycleInv

\* Every step keeps the invariant.
LEMMA LifecycleKeeps == LifecycleInv /\ [LifecycleNext]_lifecycleVars => LifecycleInv'
<1> SUFFICES ASSUME LifecycleInv, [LifecycleNext]_lifecycleVars PROVE LifecycleInv'
  OBVIOUS
<1>1. ASSUME Signal \/ UNCHANGED lifecycleVars PROVE LifecycleInv'
  <2>1. UNCHANGED <<svc, phase, step, deferred, held, grpc, http, errCh, cause, task, stage>>
    BY <1>1 DEF Signal, lifecycleVars
  <2> QED
    BY <2>1
    DEF LifecycleInv, ProcessTyped, LifecycleTypeOK, HeldIsDeferred, GroupCounted, RequestsFit,
        GracefulDrains, TasksOutlived
<1> QED
  BY <1>1, AcquireKeeps, SetupEndsKeeps, GoroutinesKeep, StopKeeps, ShutdownKeeps, CloseNextKeeps,
     ExitKeeps, RequestsKeep, TaskKeeps
  DEF LifecycleNext, Own

\* A stop is safe for every set of the services and of requests: no RPC and no task
\* of Notification loses its stores, errCh never overflows, everything is released.
THEOREM LifecycleStaysSafe == LifecycleSpec => []LifecycleSafe
<1>1. LifecycleInv => LifecycleSafe
  <2>1. LifecycleInv => AtExitReleased
    BY DEF LifecycleInv, HeldIsDeferred, AtExitReleased
  <2> QED BY <2>1 DEF LifecycleInv, ProcessTyped, LifecycleSafe
<1> QED BY <1>1, LifecycleStarts, LifecycleKeeps, PTL DEF LifecycleSpec

-----------------------------------------------------------------------------
(* The push providers *)

\* A request carries a token that outlives what is left of its timeout: the two
\* clocks of a request run together, and only a request that is out has used time.
PushClocks ==
    \A c \in Pushers :
        /\ at[c] = "sent" => carried[c] + waited[c] > Timeout
        /\ at[c] \in {"idle", "token"} => waited[c] = 0

PushInv == PushTypeOK /\ platform \in [Pushers -> Platforms] /\ PushClocks

\* The invariant holds when the service starts.
LEMMA PushStarts == PushInit => PushInv
  BY PushConstants DEF PushInit, BuildRouter, PushInv, PushTypeOK, PushClocks, Platforms

\* A Push that returns leaves the clocks of the others alone.
LEMMA PushEnds ==
  ASSUME PushInv, NEW c \in Pushers, NEW r \in {"delivered", "invalidToken", "transient"},
         PushReturns(c, r), UNCHANGED <<configured, left, platform>>,
         minting' \in [Platforms -> Pushers \cup {"free"}]
  PROVE  PushInv'
  BY PushConstants DEF PushInv, PushTypeOK, PushClocks, PushReturns, Platforms

\* Every answer is one of the three outcomes.
LEMMA Classified ==
  ASSUME NEW a PROVE Classify(a) \in {"delivered", "invalidToken", "transient"}
  BY DEF Classify

\* Every step keeps the invariant.
LEMMA PushKeeps == PushInv /\ [PushNext]_pushVars => PushInv'
<1> SUFFICES ASSUME PushInv, [PushNext]_pushVars PROVE PushInv'
  OBVIOUS
<1>1. ASSUME NEW c \in Pushers, Route(c) PROVE PushInv'
  <2>1. CASE platform[c] \in configured
    BY <1>1, <2>1 DEF Route, PushInv, PushTypeOK, PushClocks
  <2>2. CASE platform[c] \notin configured
    BY <1>1, <2>2, PushEnds DEF Route, PushInv, PushTypeOK
  <2> QED BY <2>1, <2>2
<1>2. ASSUME NEW c \in Pushers, TokenCached(c) PROVE PushInv'
  <2>1. left[platform[c]] \in 0..Life /\ left[platform[c]] > Margin
    BY <1>2 DEF TokenCached, Usable, PushInv, PushTypeOK
  <2> QED BY <1>2, <2>1, PushConstants DEF TokenCached, PushInv, PushTypeOK, PushClocks
<1>3. ASSUME NEW c \in Pushers, SignToken(c) PROVE PushInv'
  BY <1>3, PushConstants DEF SignToken, PushInv, PushTypeOK, PushClocks, Platforms
<1>4. ASSUME NEW c \in Pushers, RequestToken(c) PROVE PushInv'
  BY <1>4 DEF RequestToken, PushInv, PushTypeOK, PushClocks, Platforms
<1>5. ASSUME NEW c \in Pushers, TokenGranted(c) PROVE PushInv'
  <2>1. Life - waited[c] \in 0..Life /\ Life - waited[c] > Timeout
    BY PushConstants DEF PushInv, PushTypeOK
  <2> QED BY <1>5, <2>1, PushConstants DEF TokenGranted, PushInv, PushTypeOK, PushClocks, Platforms
<1>6. ASSUME NEW c \in Pushers, TokenRefused(c) PROVE PushInv'
  <2>1. minting' \in [Platforms -> Pushers \cup {"free"}]
    BY <1>6 DEF TokenRefused, PushInv, PushTypeOK
  <2> QED BY <1>6, <2>1, PushEnds DEF TokenRefused
<1>7. ASSUME NEW c \in Pushers, Answered(c) PROVE PushInv'
  <2>1. PICK a \in Answers(platform[c]) : PushReturns(c, Classify(a))
    BY <1>7 DEF Answered
  <2> QED BY <1>7, <2>1, PushEnds, Classified DEF Answered, PushInv, PushTypeOK
<1>8. ASSUME PushTick PROVE PushInv'
  <2>1. PushTypeOK' /\ platform' \in [Pushers -> Platforms]
    BY <1>8, PushConstants DEF PushTick, Less, PushInv, PushTypeOK
  <2>2. ASSUME NEW c \in Pushers, at[c] = "sent" PROVE carried'[c] + waited'[c] > Timeout
    BY <1>8, <2>2, PushConstants DEF PushTick, Less, PushInv, PushTypeOK, PushClocks
  <2>3. PushClocks'
    BY <1>8, <2>2 DEF PushTick, PushClocks
  <2> QED BY <2>1, <2>3 DEF PushInv
<1>9. ASSUME UNCHANGED pushVars PROVE PushInv'
  BY <1>9 DEF pushVars, PushInv, PushTypeOK, PushClocks
<1> QED
  BY <1>1, <1>2, <1>3, <1>4, <1>5, <1>6, <1>7, <1>8, <1>9 DEF PushNext, PushStep

\* No push carries a provider token that has run out when its answer comes, for
\* every life, margin and timeout in the order of the code's constants.
THEOREM PushStaysSafe == PushSpec => []PushSafe
<1>1. PushInv => PushSafe
  BY PushConstants DEF PushInv, PushSafe, PushTypeOK, PushClocks, CarriesLiveToken
<1> QED BY <1>1, PushStarts, PushKeeps, PTL DEF PushSpec

-----------------------------------------------------------------------------
(* The accounts of Identity *)

SocialPlaces == {"verify", "selectLink", "selectUser", "insertUser", "insertLink", "commitLink"}
EmailPlaces == {"expire", "getByEmail", "createUser", "getPassword", "insertCredential", "commitUser"}
Resolved == {"issuePair", "signedIn"}

Rows == [inserted : BOOLEAN, email : Emails \cup {NoEmail}, password : Passwords \cup {Nobody}]

\* The control and the rows of the transactions have their types, and a request is
\* of the kind its sign-in goes through.
SignInsTyped ==
    /\ AccountsTypeOK
    /\ place \in [SignIns -> SocialPlaces \cup EmailPlaces \cup Resolved \cup {"new", "refused", "error"}]
    /\ open \in [SignIns -> Rows]
    /\ \A a \in SignIns :
         /\ place[a] \in SocialPlaces => req[a] \in SocialRequests
         /\ place[a] \in EmailPlaces => req[a] \in EmailRequests
         /\ place[a] \in Resolved => req[a] \in SocialRequests \cup EmailRequests

\* An address belongs to one user, an open insert of it included.
RowAt(a) ==
    open[a].inserted =>
        /\ place[a] \in {"insertLink", "commitLink", "insertCredential", "commitUser"}
        /\ user[a] = a
        /\ open[a].email = req[a].email
        /\ open[a].email # NoEmail =>
             /\ \A u \in users : u.email # open[a].email
             /\ \A b \in SignIns \ {a} : ~(open[b].inserted /\ open[b].email = open[a].email)

AddressesUnique ==
    /\ \A u, v \in users : u.email = v.email /\ u.email # NoEmail => u = v
    /\ \A a \in SignIns : RowAt(a)

\* An open insert of a link is the only one of its identity, which has none yet.
LinksUnique ==
    \A a \in SignIns :
        /\ place[a] \in {"insertLink", "commitLink"} => user[a] \in SignIns
        /\ place[a] = "commitLink" =>
             /\ links[req[a].identity] = Nobody
             /\ \A b \in SignIns \ {a} :
                  ~(place[b] = "commitLink" /\ req[b].identity = req[a].identity)

\* A credential is written once, by the sign-in that made the user, and a
\* registration has both of its rows when it commits.
CredentialsOnce ==
    \A a \in SignIns :
        /\ place[a] \notin Ended \cup {"issuePair"} => creds[a] = Nobody
        /\ place[a] \in {"insertCredential", "commitUser"} => open[a].inserted
        /\ place[a] = "commitUser" => open[a].password = req[a].password

\* Who is let in is the user of the link, or the owner of the address and knows
\* the password.
ResolvedAt(a) ==
    /\ place[a] = "getPassword" => \E u \in users : u.id = user[a] /\ u.email = req[a].email
    /\ place[a] \in Resolved /\ req[a].kind = "social" =>
         user[a] = links[req[a].identity] /\ user[a] # Nobody
    /\ place[a] \in Resolved /\ req[a].kind = "email" =>
         /\ \E u \in users : u.id = user[a] /\ u.email = req[a].email
         /\ creds[user[a]] = req[a].password

ResolvedRight == \A a \in SignIns : ResolvedAt(a)

AccountsInv ==
    /\ SignInsTyped /\ AddressesUnique /\ LinksUnique /\ CredentialsOnce /\ ResolvedRight
    /\ NoOrphanAccount

\* The fields of a request.
LEMMA RequestFacts ==
  /\ \A r \in SocialRequests :
       r.kind = "social" /\ r.identity \in Identities /\ r.email \in Emails \cup {NoEmail}
  /\ \A r \in EmailRequests : r.kind = "email" /\ r.email \in Emails /\ r.password \in Passwords
  BY DEF SocialRequests, EmailRequests

\* Whom OwnerOf finds.
LEMMA OwnerFacts ==
  ASSUME NEW e
  PROVE  /\ OwnerOf(e) = {} <=> \A u \in users : u.email # e
         /\ \A x \in OwnerOf(e) : \E u \in users : u.id = x /\ u.email = e
  BY DEF OwnerOf

\* A step of one sign-in that only moves it on, outside the places the invariant
\* says more about.
LEMMA MovesOn ==
  ASSUME AccountsInv, NEW a \in SignIns, NEW s \in {"refused", "error"},
         GoTo(a, s), UNCHANGED <<users, creds, links, req, user, attempts>>,
         open' \in {open, [open EXCEPT ![a] = NoRows]},
         ~open'[a].inserted
  PROVE  AccountsInv'
<1> USE AccountsConstants DEF GoTo, NoRows
<1>0. open' \in [SignIns -> Rows]
  <2>1. NoRows \in Rows
    BY DEF Rows
  <2> HIDE DEF NoRows
  <2> QED BY <2>1 DEF AccountsInv, SignInsTyped
<1>1. SignInsTyped'
  BY <1>0 DEF AccountsInv, SignInsTyped, AccountsTypeOK, SocialPlaces, EmailPlaces, Resolved
<1>2. /\ \A b \in SignIns \ {a} : open'[b] = open[b] /\ place'[b] = place[b]
      /\ place'[a] = s
  BY DEF AccountsInv, SignInsTyped
<1>3. AddressesUnique'
  BY <1>2 DEF AccountsInv, AddressesUnique, RowAt
<1>4. LinksUnique'
  BY <1>2 DEF AccountsInv, LinksUnique
<1>5. CredentialsOnce'
  BY <1>2 DEF AccountsInv, CredentialsOnce, Ended
<1>6. ResolvedRight'
  BY <1>2 DEF AccountsInv, ResolvedRight, ResolvedAt, Resolved
<1> QED BY <1>1, <1>3, <1>4, <1>5, <1>6 DEF AccountsInv, NoOrphanAccount

\* A sign-in that has inserted nothing goes on, with the user it has found: enough
\* for the statements that read, for the verifier and for the rate limit.
LEMMA GoesOn ==
  ASSUME AccountsInv, NEW a \in SignIns, NEW x \in SignIns \cup {Nobody},
         NEW s \in {"selectLink", "selectUser", "insertUser", "insertLink", "getByEmail",
                    "createUser", "getPassword", "issuePair", "signedIn", "refused"},
         GoTo(a, s), user' = [user EXCEPT ![a] = x],
         UNCHANGED <<users, creds, links, open, req, attempts>>,
         ~open[a].inserted,
         s \in SocialPlaces => req[a] \in SocialRequests,
         s \in EmailPlaces => req[a] \in EmailRequests,
         s \notin Ended \cup {"issuePair"} => place[a] \notin Ended \cup {"issuePair"},
         s = "insertLink" => x \in SignIns,
         s = "getPassword" => \E u \in users : u.id = x /\ u.email = req[a].email,
         s \in Resolved =>
             /\ req[a] \in SocialRequests \cup EmailRequests
             /\ req[a].kind = "social" => x = links[req[a].identity] /\ x # Nobody
             /\ req[a].kind = "email" =>
                  /\ \E u \in users : u.id = x /\ u.email = req[a].email
                  /\ creds[x] = req[a].password
  PROVE  AccountsInv'
<1> USE AccountsConstants DEF GoTo
<1>2. /\ \A b \in SignIns \ {a} : place'[b] = place[b] /\ user'[b] = user[b]
      /\ place'[a] = s /\ user'[a] = x
  BY DEF AccountsInv, SignInsTyped, AccountsTypeOK
<1>1. SignInsTyped'
  <2>1. AccountsTypeOK'
    BY DEF AccountsInv, SignInsTyped, AccountsTypeOK
  <2>2. place' \in [SignIns -> SocialPlaces \cup EmailPlaces \cup Resolved
                              \cup {"new", "refused", "error"}]
    BY DEF AccountsInv, SignInsTyped, SocialPlaces, EmailPlaces, Resolved
  <2>3. \A b \in SignIns : /\ place'[b] \in SocialPlaces => req'[b] \in SocialRequests
                           /\ place'[b] \in EmailPlaces => req'[b] \in EmailRequests
                           /\ place'[b] \in Resolved => req'[b] \in SocialRequests \cup EmailRequests
    <3> TAKE b \in SignIns
    <3>1. CASE b = a
      BY <1>2, <3>1
    <3>2. CASE b # a
      BY <1>2, <3>2 DEF AccountsInv, SignInsTyped
    <3> QED BY <3>1, <3>2
  <2> QED BY <2>1, <2>2, <2>3 DEF AccountsInv, SignInsTyped
<1>3. AddressesUnique'
  BY <1>2 DEF AccountsInv, AddressesUnique, RowAt
<1>4. LinksUnique'
  BY <1>2 DEF AccountsInv, LinksUnique
<1>5. CredentialsOnce'
  BY <1>2 DEF AccountsInv, CredentialsOnce, Ended
<1>6. ResolvedRight'
  <2> SUFFICES ASSUME NEW b \in SignIns
               PROVE  ResolvedAt(b)'
    BY DEF ResolvedRight, ResolvedAt
  <2>1. CASE b = a
    BY <1>2, <2>1 DEF ResolvedAt, Resolved
  <2>2. CASE b # a
    <3>1. ResolvedAt(b)
      BY DEF AccountsInv, ResolvedRight, ResolvedAt
    <3> QED BY <1>2, <2>2, <3>1 DEF ResolvedAt
  <2> QED BY <2>1, <2>2
<1> QED BY <1>1, <1>3, <1>4, <1>5, <1>6 DEF AccountsInv, NoOrphanAccount

\* The invariant holds when the tables are empty.
LEMMA AccountsStart == AccountsInit => AccountsInv
  BY AccountsConstants
  DEF AccountsInit, AccountsInv, SignInsTyped, AccountsTypeOK, AddressesUnique, RowAt, LinksUnique,
      CredentialsOnce, ResolvedRight, ResolvedAt, NoOrphanAccount, NoRows, NoRequest, Rows,
      SocialPlaces, EmailPlaces, Resolved, Ended

\* A social sign-in begins.
LEMMA BeginSocialKeeps ==
  ASSUME AccountsInv, NEW a \in SignIns, NEW r \in SocialRequests, BeginSocial(a, r)
  PROVE  AccountsInv'
<1> USE AccountsConstants DEF GoTo, At
<1>1. SignInsTyped'
  BY DEF BeginSocial, AccountsInv, SignInsTyped, AccountsTypeOK, SocialPlaces, EmailPlaces, Resolved
<1>2. /\ \A b \in SignIns \ {a} : place'[b] = place[b] /\ req'[b] = req[b]
      /\ a \in DOMAIN place
  BY DEF BeginSocial, AccountsInv, SignInsTyped
<1>3. AddressesUnique'
  BY <1>2, OwnerFacts DEF BeginSocial, AccountsInv, AddressesUnique, RowAt
<1>4. LinksUnique'
  BY <1>2, OwnerFacts DEF BeginSocial, AccountsInv, LinksUnique
<1>5. CredentialsOnce'
  BY <1>2, OwnerFacts DEF BeginSocial, AccountsInv, CredentialsOnce, Ended
<1>6. ResolvedRight'
  BY <1>2, OwnerFacts DEF BeginSocial, AccountsInv, ResolvedRight, ResolvedAt, Resolved
<1>7. NoOrphanAccount'
  BY <1>2 DEF BeginSocial, AccountsInv, NoOrphanAccount
<1> QED BY <1>1, <1>3, <1>4, <1>5, <1>6, <1>7 DEF AccountsInv

\* Before its first insert a sign-in has no rows.
LEMMA NothingInserted ==
  ASSUME AccountsInv, NEW a \in SignIns,
         place[a] \notin {"insertLink", "commitLink", "insertCredential", "commitUser"}
  PROVE  ~open[a].inserted
  BY DEF AccountsInv, AddressesUnique, RowAt

\* The statements that read, the verifier and the limit keep the invariant.
LEMMA ReadsKeep ==
  ASSUME AccountsInv, NEW a \in SignIns,
         \/ FetchKeys(a) \/ VerifyIDToken(a) \/ SelectLink(a) \/ SelectUser(a)
         \/ ExpireCounter(a) \/ GetByEmail(a) \/ CheckPassword(a) \/ IssuePair(a)
  PROVE  AccountsInv'
<1>a. /\ user \in [SignIns -> SignIns \cup {Nobody}] /\ links \in [Identities -> SignIns \cup {Nobody}]
      /\ user = [user EXCEPT ![a] = user[a]] /\ user[a] \in SignIns \cup {Nobody}
      /\ users \subseteq [id : SignIns, email : Emails \cup {NoEmail}]
  BY DEF AccountsInv, SignInsTyped, AccountsTypeOK
<1>b. /\ place[a] \in SocialPlaces => req[a] \in SocialRequests
      /\ place[a] \in EmailPlaces => req[a] \in EmailRequests
  BY DEF AccountsInv, SignInsTyped
<1>c. \A e : \A x \in OwnerOf(e) : x \in SignIns
  BY <1>a, OwnerFacts
<1> USE DEF SocialPlaces, EmailPlaces, Resolved, Ended, At, GoTo
<1>1. CASE FetchKeys(a)
  BY <1>1, <1>a, <1>b, GoesOn, NothingInserted DEF FetchKeys
<1>2. CASE VerifyIDToken(a)
  BY <1>2, <1>a, <1>b, GoesOn, NothingInserted DEF VerifyIDToken
<1>3. CASE SelectLink(a)
  <2> DEFINE x == links[req[a].identity]
  <2>1. req[a] \in SocialRequests /\ req[a].kind = "social" /\ x \in SignIns \cup {Nobody}
    BY <1>3, <1>a, <1>b, RequestFacts DEF SelectLink
  <2> QED BY <1>3, <2>1, GoesOn, NothingInserted DEF SelectLink
<1>4. CASE SelectUser(a)
  <2> DEFINE owner == IF req[a].email = NoEmail THEN {} ELSE OwnerOf(req[a].email)
  <2>1. CASE owner = {}
    BY <1>4, <2>1, <1>a, <1>b, GoesOn, NothingInserted DEF SelectUser
  <2>2. CASE owner # {}
    <3>1. PICK x \in owner : user' = [user EXCEPT ![a] = x]
      BY <1>4, <2>2 DEF SelectUser
    <3>2. x \in SignIns
      BY <1>c
    <3> QED BY <1>4, <2>2, <3>1, <3>2, <1>b, GoesOn, NothingInserted DEF SelectUser
  <2> QED BY <2>1, <2>2
<1>5. CASE ExpireCounter(a)
  BY <1>5, <1>a, <1>b, GoesOn, NothingInserted DEF ExpireCounter
<1>6. CASE GetByEmail(a)
  <2> DEFINE owner == OwnerOf(req[a].email)
  <2>1. CASE owner = {}
    BY <1>6, <2>1, <1>a, <1>b, GoesOn, NothingInserted DEF GetByEmail
  <2>2. CASE owner # {}
    <3>1. PICK x \in owner : user' = [user EXCEPT ![a] = x]
      BY <1>6, <2>2 DEF GetByEmail
    <3>2. x \in SignIns /\ \E u \in users : u.id = x /\ u.email = req[a].email
      BY <1>c, OwnerFacts
    <3> QED BY <1>6, <2>2, <3>1, <3>2, <1>b, GoesOn, NothingInserted DEF GetByEmail
  <2> QED BY <2>1, <2>2
<1>7. CASE CheckPassword(a)
  <2>1. /\ req[a] \in EmailRequests /\ req[a].kind = "email"
        /\ \E u \in users : u.id = user[a] /\ u.email = req[a].email
    BY <1>7, <1>b, RequestFacts DEF CheckPassword, AccountsInv, ResolvedRight, ResolvedAt
  <2> QED BY <1>7, <1>a, <2>1, GoesOn, NothingInserted DEF CheckPassword
<1>8. CASE IssuePair(a)
  <2>1. /\ req[a] \in SocialRequests \cup EmailRequests
        /\ req[a].kind = "social" => user[a] = links[req[a].identity] /\ user[a] # Nobody
        /\ req[a].kind = "email" =>
             /\ \E u \in users : u.id = user[a] /\ u.email = req[a].email
             /\ creds[user[a]] = req[a].password
    BY <1>8 DEF IssuePair, AccountsInv, ResolvedRight, ResolvedAt, SignInsTyped
  <2> QED BY <1>8, <1>a, <2>1, GoesOn, NothingInserted DEF IssuePair
<1> QED BY <1>1, <1>2, <1>3, <1>4, <1>5, <1>6, <1>7, <1>8

\* An email sign-in begins with the rate limit.
LEMMA BeginEmailKeeps ==
  ASSUME AccountsInv, NEW a \in SignIns, NEW r \in EmailRequests, BeginEmail(a, r)
  PROVE  AccountsInv'
<1> USE AccountsConstants DEF GoTo, At
<1>1. r.email \in Emails
  BY RequestFacts
<1>2. /\ place[a] = "new"
      /\ place'[a] \in {"expire", "getByEmail", "refused"}
      /\ place' = [place EXCEPT ![a] = place'[a]]
      /\ req' = [req EXCEPT ![a] = r]
      /\ UNCHANGED <<users, creds, links, open, user>>
      /\ attempts' = [attempts EXCEPT ![r.email] = IF @ <= MaxAttempts THEN @ + 1 ELSE @]
  BY DEF BeginEmail, AccountsInv, SignInsTyped
<1>3. attempts' \in [Emails -> 0..(MaxAttempts + 1)]
  BY <1>1, <1>2 DEF AccountsInv, SignInsTyped, AccountsTypeOK
<1>4. \A b \in SignIns \ {a} : place'[b] = place[b] /\ req'[b] = req[b]
  BY <1>2 DEF AccountsInv, SignInsTyped
<1>5. req'[a] = r /\ req' \in [SignIns -> SocialRequests \cup EmailRequests \cup {NoRequest}]
  BY <1>2 DEF AccountsInv, SignInsTyped, AccountsTypeOK
<1>6. SignInsTyped'
  BY <1>2, <1>3, <1>4, <1>5
  DEF AccountsInv, SignInsTyped, AccountsTypeOK, SocialPlaces, EmailPlaces, Resolved
<1>7. AddressesUnique'
  BY <1>2, <1>4, NothingInserted DEF AccountsInv, AddressesUnique, RowAt
<1>8. LinksUnique'
  BY <1>2, <1>4 DEF AccountsInv, LinksUnique
<1>9. CredentialsOnce'
  BY <1>2, <1>4 DEF AccountsInv, CredentialsOnce, Ended
<1>10. ResolvedRight'
  BY <1>2, <1>4 DEF AccountsInv, ResolvedRight, ResolvedAt, Resolved
<1> QED BY <1>2, <1>6, <1>7, <1>8, <1>9, <1>10 DEF AccountsInv, NoOrphanAccount

\* A transaction rolls back.
LEMMA RollbackKeeps ==
  ASSUME AccountsInv, NEW a \in SignIns, Rollback(a),
         UNCHANGED <<users, creds, links, req, user, attempts>>
  PROVE  AccountsInv'
<1>1. open' = [open EXCEPT ![a] = NoRows] /\ GoTo(a, "error")
  BY DEF Rollback
<1>2. ~open'[a].inserted
  BY <1>1 DEF NoRows, AccountsInv, SignInsTyped
<1> QED BY <1>1, <1>2, MovesOn

\* The insert of a user: unique, because it waits for the open ones.
LEMMA InsertUserKeeps ==
  ASSUME AccountsInv, NEW a \in SignIns, InsertUser(a)
  PROVE  AccountsInv'
<1> DEFINE e == req[a].email
<1>1. CASE e # NoEmail /\ OwnerOf(e) # {}
  BY <1>1, RollbackKeeps DEF InsertUser
<1>2. CASE ~(e # NoEmail /\ OwnerOf(e) # {})
  <2> USE AccountsConstants
  <2>1. /\ place[a] \in {"insertUser", "createUser"}
        /\ e # NoEmail => /\ \A u \in users : u.email # e
                          /\ \A b \in SignIns \ {a} : ~(open[b].inserted /\ open[b].email = e)
        /\ open' = [open EXCEPT ![a].inserted = TRUE, ![a].email = e]
        /\ user' = [user EXCEPT ![a] = a]
        /\ place' = [place EXCEPT ![a] =
                        IF place[a] = "insertUser" THEN "insertLink" ELSE "insertCredential"]
        /\ UNCHANGED <<users, creds, links, req, attempts>>
    BY <1>2, OwnerFacts DEF InsertUser, GoTo, At
  <2>2. /\ e \in Emails \cup {NoEmail}
        /\ place[a] = "insertUser" => req[a] \in SocialRequests
        /\ place[a] = "createUser" => req[a] \in EmailRequests
    BY <2>1, RequestFacts DEF AccountsInv, SignInsTyped, SocialPlaces, EmailPlaces
  <2>3. /\ \A b \in SignIns \ {a} : /\ place'[b] = place[b] /\ user'[b] = user[b]
                                    /\ open'[b] = open[b]
        /\ place'[a] = IF place[a] = "insertUser" THEN "insertLink" ELSE "insertCredential"
        /\ user'[a] = a /\ open'[a] \in Rows
        /\ open'[a].inserted /\ open'[a].email = e
    BY <2>1, <2>2 DEF AccountsInv, SignInsTyped, AccountsTypeOK, Rows
  <2>4. open' \in [SignIns -> Rows]
    <3>1. /\ open \in [SignIns -> Rows]
          /\ open' = [open EXCEPT ![a] = open'[a]]
      BY <2>1 DEF AccountsInv, SignInsTyped
    <3> QED BY <2>3, <3>1
  <2>5. SignInsTyped'
    <3>1. place' \in [SignIns -> SocialPlaces \cup EmailPlaces \cup Resolved
                                \cup {"new", "refused", "error"}]
      BY <2>1 DEF AccountsInv, SignInsTyped, SocialPlaces, EmailPlaces
    <3>2. AccountsTypeOK'
      BY <2>1 DEF AccountsInv, SignInsTyped, AccountsTypeOK
    <3> QED BY <2>1, <2>2, <2>3, <2>4, <3>1, <3>2
            DEF AccountsInv, SignInsTyped, SocialPlaces, EmailPlaces, Resolved
  <2>6. AddressesUnique'
    <3> SUFFICES ASSUME NEW b \in SignIns PROVE RowAt(b)'
      BY <2>1 DEF AccountsInv, AddressesUnique
    <3>1. CASE b = a
      <4>1. /\ place'[a] \in {"insertLink", "insertCredential"}
            /\ user'[a] = a /\ open'[a].email = e /\ req' = req /\ users' = users
        BY <2>1, <2>3
      <4>2. e # NoEmail =>
              /\ \A u \in users' : u.email # e
              /\ \A c \in SignIns \ {a} : ~(open'[c].inserted /\ open'[c].email = e)
        BY <2>1, <2>3, <4>1
      <4> HIDE DEF e
      <4>3. e = req'[a].email
        BY <4>1 DEF e
      <4> QED BY <3>1, <4>1, <4>2, <4>3 DEF RowAt
    <3>2. CASE b # a
      <4>1. RowAt(b)
        BY DEF AccountsInv, AddressesUnique
      <4>2. open'[b] = open[b] /\ place'[b] = place[b] /\ user'[b] = user[b]
        BY <2>3, <3>2
      <4>3. open[b].inserted /\ open[b].email # NoEmail => open[b].email # open'[a].email
        BY <2>1, <2>3, <3>2
      <4>4. ASSUME NEW c \in SignIns \ {b}, open[b].inserted, open[b].email # NoEmail
            PROVE  ~(open'[c].inserted /\ open'[c].email = open[b].email)
        <5>1. CASE c = a
          BY <4>3, <4>4, <5>1
        <5>2. CASE c # a
          BY <2>3, <4>1, <4>4, <5>2 DEF RowAt
        <5> QED BY <5>1, <5>2
      <4> QED BY <2>1, <4>1, <4>2, <4>4 DEF RowAt
    <3> QED BY <3>1, <3>2
  <2>7. LinksUnique'
    BY <2>1, <2>3 DEF AccountsInv, LinksUnique
  <2>8. CredentialsOnce'
    <3> SUFFICES ASSUME NEW b \in SignIns
                 PROVE  /\ place'[b] \notin Ended \cup {"issuePair"} => creds[b] = Nobody
                        /\ place'[b] \in {"insertCredential", "commitUser"} => open'[b].inserted
                        /\ place'[b] = "commitUser" => open'[b].password = req[b].password
      BY <2>1 DEF CredentialsOnce
    <3>1. CASE b = a
      BY <2>1, <2>3, <3>1 DEF AccountsInv, CredentialsOnce, Ended
    <3>2. CASE b # a
      <4>1. /\ place[b] \notin Ended \cup {"issuePair"} => creds[b] = Nobody
            /\ place[b] \in {"insertCredential", "commitUser"} => open[b].inserted
            /\ place[b] = "commitUser" => open[b].password = req[b].password
        BY DEF AccountsInv, CredentialsOnce
      <4>2. place'[b] = place[b] /\ open'[b] = open[b]
        BY <2>3, <3>2
      <4> QED BY <4>1, <4>2
    <3> QED BY <3>1, <3>2
  <2>9. ResolvedRight'
    BY <2>1, <2>3 DEF AccountsInv, ResolvedRight, ResolvedAt, Resolved
  <2> QED BY <2>1, <2>5, <2>6, <2>7, <2>8, <2>9 DEF AccountsInv, NoOrphanAccount
<1> QED BY <1>1, <1>2

\* The insert of a link: unique, for the same reason.
LEMMA InsertLinkKeeps ==
  ASSUME AccountsInv, NEW a \in SignIns, InsertLink(a)
  PROVE  AccountsInv'
<1>1. CASE links[req[a].identity] # Nobody
  BY <1>1, RollbackKeeps DEF InsertLink
<1>2. CASE links[req[a].identity] = Nobody
  <2> USE AccountsConstants
  <2>1. /\ place[a] = "insertLink" /\ place' = [place EXCEPT ![a] = "commitLink"]
        /\ \A b \in SignIns \ {a} : ~(place[b] = "commitLink" /\ req[b].identity = req[a].identity)
        /\ UNCHANGED <<users, creds, links, open, req, user, attempts>>
    BY <1>2 DEF InsertLink, GoTo, At
  <2>2. place'[a] = "commitLink" /\ \A b \in SignIns \ {a} : place'[b] = place[b]
    BY <2>1 DEF AccountsInv, SignInsTyped
  <2>3. SignInsTyped'
    BY <2>1, <2>2 DEF AccountsInv, SignInsTyped, AccountsTypeOK, SocialPlaces, EmailPlaces, Resolved
  <2>4. AddressesUnique'
    BY <2>1, <2>2 DEF AccountsInv, AddressesUnique, RowAt
  <2>5. LinksUnique'
    BY <1>2, <2>1, <2>2 DEF AccountsInv, LinksUnique
  <2>6. CredentialsOnce'
    BY <2>1, <2>2 DEF AccountsInv, CredentialsOnce, Ended
  <2>7. ResolvedRight'
    BY <2>1, <2>2 DEF AccountsInv, ResolvedRight, ResolvedAt, Resolved
  <2> QED BY <2>1, <2>3, <2>4, <2>5, <2>6, <2>7 DEF AccountsInv, NoOrphanAccount
<1> QED BY <1>1, <1>2

\* The insert of a credential.
LEMMA InsertCredentialKeeps ==
  ASSUME AccountsInv, NEW a \in SignIns, InsertCredential(a)
  PROVE  AccountsInv'
<1> USE AccountsConstants
<1>1. /\ place[a] = "insertCredential" /\ place' = [place EXCEPT ![a] = "commitUser"]
      /\ open' = [open EXCEPT ![a].password = req[a].password]
      /\ UNCHANGED <<users, creds, links, req, user, attempts>>
  BY DEF InsertCredential, GoTo, At
<1>2. req[a] \in EmailRequests /\ req[a].password \in Passwords
  BY <1>1, RequestFacts DEF AccountsInv, SignInsTyped, EmailPlaces
<1>3. /\ place'[a] = "commitUser"
      /\ \A b \in SignIns \ {a} : place'[b] = place[b] /\ open'[b] = open[b]
      /\ open'[a] \in Rows /\ open'[a].email = open[a].email
      /\ open'[a].inserted = open[a].inserted /\ open'[a].password = req[a].password
  BY <1>1, <1>2 DEF AccountsInv, SignInsTyped, Rows
<1>4. open' \in [SignIns -> Rows]
  <2>1. open \in [SignIns -> Rows] /\ open' = [open EXCEPT ![a] = open'[a]]
    BY <1>1 DEF AccountsInv, SignInsTyped
  <2> QED BY <1>3, <2>1
<1>5. SignInsTyped'
  BY <1>1, <1>2, <1>3, <1>4 DEF AccountsInv, SignInsTyped, AccountsTypeOK, SocialPlaces, EmailPlaces, Resolved
<1>6. AddressesUnique'
  BY <1>1, <1>3 DEF AccountsInv, AddressesUnique, RowAt
<1>7. LinksUnique'
  BY <1>1, <1>3 DEF AccountsInv, LinksUnique
<1>8. CredentialsOnce'
  BY <1>1, <1>3 DEF AccountsInv, CredentialsOnce, Ended
<1>9. ResolvedRight'
  BY <1>1, <1>3 DEF AccountsInv, ResolvedRight, ResolvedAt, Resolved
<1> QED BY <1>1, <1>5, <1>6, <1>7, <1>8, <1>9 DEF AccountsInv, NoOrphanAccount

\* The commit of a link, with the user if the transaction made one.
LEMMA CommitLinkKeeps ==
  ASSUME AccountsInv, NEW a \in SignIns, CommitLink(a)
  PROVE  AccountsInv'
<1> USE AccountsConstants
<1> DEFINE i == req[a].identity
           u0 == [id |-> a, email |-> open[a].email]
<1>1. /\ place[a] = "commitLink" /\ place' = [place EXCEPT ![a] = "issuePair"]
      /\ open' = [open EXCEPT ![a] = NoRows]
      /\ links' = [links EXCEPT ![i] = user[a]]
      /\ users' = IF open[a].inserted THEN users \cup {u0} ELSE users
      /\ UNCHANGED <<creds, req, user, attempts>>
  BY DEF CommitLink, CommitRows, GoTo, At
<1>2. /\ req[a] \in SocialRequests /\ i \in Identities /\ req[a].kind = "social"
      /\ user[a] \in SignIns /\ links[i] = Nobody
      /\ \A b \in SignIns \ {a} : ~(place[b] = "commitLink" /\ req[b].identity = i)
  BY <1>1, RequestFacts DEF AccountsInv, SignInsTyped, LinksUnique, SocialPlaces
<1>3. /\ place'[a] = "issuePair" /\ ~open'[a].inserted
      /\ \A b \in SignIns \ {a} : place'[b] = place[b] /\ open'[b] = open[b]
      /\ links'[i] = user[a] /\ \A j \in Identities \ {i} : links'[j] = links[j]
  BY <1>1, <1>2 DEF AccountsInv, SignInsTyped, AccountsTypeOK, NoRows
<1>4. \A u \in users' : u \in users \/ (u = u0 /\ open[a].inserted)
  BY <1>1
<1>5. users \subseteq users'
  BY <1>1
<1>6. open[a] \in Rows /\ NoRows \in Rows /\ u0 \in [id : SignIns, email : Emails \cup {NoEmail}]
  BY DEF Rows, NoRows, AccountsInv, SignInsTyped
<1>7. SignInsTyped'
  <2>1. open' \in [SignIns -> Rows]
    BY <1>1, <1>6 DEF AccountsInv, SignInsTyped
  <2>2. AccountsTypeOK'
    BY <1>1, <1>2, <1>6 DEF AccountsInv, SignInsTyped, AccountsTypeOK
  <2> QED BY <1>1, <1>2, <1>3, <2>1, <2>2
          DEF AccountsInv, SignInsTyped, SocialPlaces, EmailPlaces, Resolved
<1>8. AddressesUnique'
  BY <1>1, <1>3, <1>4 DEF AccountsInv, AddressesUnique, RowAt
<1>9. LinksUnique'
  BY <1>1, <1>2, <1>3 DEF AccountsInv, LinksUnique, SignInsTyped, SocialPlaces
<1>10. CredentialsOnce'
  BY <1>1, <1>3 DEF AccountsInv, CredentialsOnce, Ended
<1>11. ResolvedRight'
  <2> SUFFICES ASSUME NEW b \in SignIns
               PROVE  ResolvedAt(b)'
    BY DEF ResolvedRight
  <2>1. CASE b = a
    BY <1>1, <1>2, <1>3, <2>1 DEF ResolvedAt, Resolved
  <2>2. CASE b # a
    <3>1. ResolvedAt(b)
      BY DEF AccountsInv, ResolvedRight
    <3>2. place[b] \in Resolved /\ req[b].kind = "social" => req[b].identity \in Identities
      BY RequestFacts DEF AccountsInv, SignInsTyped
    <3> QED BY <1>1, <1>2, <1>3, <1>5, <2>2, <3>1, <3>2 DEF ResolvedAt
  <2> QED BY <2>1, <2>2
<1>12. NoOrphanAccount'
  <2> SUFFICES ASSUME NEW u \in users'
               PROVE  creds[u.id] # Nobody \/ \E j \in Identities : links'[j] = u.id
    BY <1>1 DEF NoOrphanAccount
  <2>1. CASE u \in users
    <3>1. creds[u.id] # Nobody \/ \E j \in Identities : links[j] = u.id
      BY <2>1 DEF AccountsInv, NoOrphanAccount
    <3>2. u.id # Nobody
      BY <2>1 DEF AccountsInv, SignInsTyped, AccountsTypeOK
    <3> QED BY <1>2, <1>3, <3>1, <3>2
  <2>2. CASE u = u0 /\ open[a].inserted
    BY <1>2, <1>3, <2>2 DEF AccountsInv, AddressesUnique, RowAt
  <2> QED BY <1>4, <2>1, <2>2
<1> QED BY <1>7, <1>8, <1>9, <1>10, <1>11, <1>12 DEF AccountsInv

\* The commit of a registration.
LEMMA CommitUserKeeps ==
  ASSUME AccountsInv, NEW a \in SignIns, CommitUser(a)
  PROVE  AccountsInv'
<1> USE AccountsConstants
<1> DEFINE u0 == [id |-> a, email |-> open[a].email]
<1>1. /\ place[a] = "commitUser" /\ place' = [place EXCEPT ![a] = "issuePair"]
      /\ open' = [open EXCEPT ![a] = NoRows]
      /\ creds' = [creds EXCEPT ![a] = open[a].password]
      /\ users' = IF open[a].inserted THEN users \cup {u0} ELSE users
      /\ UNCHANGED <<links, req, user, attempts>>
  BY DEF CommitUser, CommitRows, GoTo, At
<1>2. /\ req[a] \in EmailRequests /\ req[a].kind = "email" /\ req[a].password \in Passwords
      /\ open[a].inserted /\ open[a].password = req[a].password
      /\ user[a] = a /\ open[a].email = req[a].email /\ creds[a] = Nobody
  BY <1>1, RequestFacts
  DEF AccountsInv, SignInsTyped, AddressesUnique, RowAt, CredentialsOnce, EmailPlaces, Ended
<1>3. /\ place'[a] = "issuePair" /\ ~open'[a].inserted
      /\ \A b \in SignIns \ {a} : /\ place'[b] = place[b] /\ open'[b] = open[b]
                                  /\ creds'[b] = creds[b]
      /\ creds'[a] = req[a].password
  BY <1>1, <1>2 DEF AccountsInv, SignInsTyped, AccountsTypeOK, NoRows
<1>4. users' = users \cup {u0}
  BY <1>1, <1>2
<1>6. open[a] \in Rows /\ NoRows \in Rows /\ u0 \in [id : SignIns, email : Emails \cup {NoEmail}]
  BY DEF Rows, NoRows, AccountsInv, SignInsTyped
<1>7. SignInsTyped'
  <2>1. open' \in [SignIns -> Rows]
    BY <1>1, <1>6 DEF AccountsInv, SignInsTyped
  <2>2. AccountsTypeOK'
    BY <1>1, <1>2, <1>4, <1>6 DEF AccountsInv, SignInsTyped, AccountsTypeOK
  <2> QED BY <1>1, <1>2, <1>3, <2>1, <2>2
          DEF AccountsInv, SignInsTyped, SocialPlaces, EmailPlaces, Resolved
<1>8. AddressesUnique'
  BY <1>1, <1>2, <1>3, <1>4 DEF AccountsInv, AddressesUnique, RowAt
<1>9. LinksUnique'
  BY <1>1, <1>3 DEF AccountsInv, LinksUnique
<1>10. CredentialsOnce'
  BY <1>1, <1>3 DEF AccountsInv, CredentialsOnce, Ended
<1>11. ResolvedRight'
  <2> SUFFICES ASSUME NEW b \in SignIns
               PROVE  ResolvedAt(b)'
    BY DEF ResolvedRight
  <2>1. CASE b = a
    <3>1. u0 \in users' /\ u0.id = a /\ u0.email = req[a].email
      BY <1>2, <1>4
    <3>2. place'[a] = "issuePair" /\ req'[a].kind = "email" /\ user'[a] = a /\ req'[a] = req[a]
      BY <1>1, <1>2, <1>3
    <3>3. \E u \in users' : u.id = user'[a] /\ u.email = req'[a].email
      BY <3>1, <3>2
    <3> QED BY <1>3, <2>1, <3>2, <3>3 DEF ResolvedAt
  <2>2. CASE b # a
    <3>1. ResolvedAt(b)
      BY DEF AccountsInv, ResolvedRight
    <3>2. place[b] \in Resolved /\ req[b].kind = "email" =>
             req[b].password \in Passwords /\ \E u \in users : u.id = user[b]
      BY <3>1, RequestFacts DEF AccountsInv, SignInsTyped, ResolvedAt
    <3>3. place[b] \in Resolved /\ req[b].kind = "email" => user[b] \in SignIns \ {a}
      BY <1>2, <3>1, <3>2 DEF AccountsInv, SignInsTyped, AccountsTypeOK, ResolvedAt
    <3> QED BY <1>1, <1>3, <1>4, <2>2, <3>1, <3>3 DEF ResolvedAt
  <2> QED BY <2>1, <2>2
<1>12. NoOrphanAccount'
  <2> SUFFICES ASSUME NEW u \in users'
               PROVE  creds'[u.id] # Nobody \/ \E j \in Identities : links[j] = u.id
    BY <1>1 DEF NoOrphanAccount
  <2>1. CASE u.id = a
    BY <1>2, <1>3, <2>1
  <2>2. CASE u.id # a
    <3>1. u \in users /\ u.id \in SignIns
      BY <1>4, <2>2 DEF AccountsInv, SignInsTyped, AccountsTypeOK
    <3> QED BY <1>3, <2>2, <3>1 DEF AccountsInv, NoOrphanAccount
  <2> QED BY <2>1, <2>2
<1> QED BY <1>7, <1>8, <1>9, <1>10, <1>11, <1>12 DEF AccountsInv

\* Every step keeps the invariant.
LEMMA AccountsKeep == AccountsInv /\ [AccountsNext]_accountsVars => AccountsInv'
<1> SUFFICES ASSUME AccountsInv, [AccountsNext]_accountsVars PROVE AccountsInv'
  OBVIOUS
<1>1. ASSUME NEW a \in SignIns, AccountsStep(a) PROVE AccountsInv'
  BY <1>1, ReadsKeep, InsertUserKeeps, InsertLinkKeeps, CommitLinkKeeps,
     InsertCredentialKeeps, CommitUserKeeps DEF AccountsStep
<1>2. ASSUME NEW a \in SignIns, StoreFails(a) PROVE AccountsInv'
  BY <1>2, RollbackKeeps DEF StoreFails
<1>3. ASSUME NEW e \in Emails, CounterEnds(e) PROVE AccountsInv'
  <2>1. attempts' \in [Emails -> 0..(MaxAttempts + 1)]
    BY <1>3, AccountsConstants DEF CounterEnds, AccountsInv, SignInsTyped, AccountsTypeOK
  <2> QED
    BY <1>3, <2>1
    DEF CounterEnds, AccountsInv, SignInsTyped, AccountsTypeOK, AddressesUnique, RowAt, LinksUnique,
        CredentialsOnce, ResolvedRight, ResolvedAt, NoOrphanAccount
<1>4. ASSUME KeysExpire \/ ProviderRotates \/ UNCHANGED accountsVars PROVE AccountsInv'
  BY <1>4
  DEF KeysExpire, ProviderRotates, accountsVars, AccountsInv, SignInsTyped, AccountsTypeOK,
      AddressesUnique, RowAt, LinksUnique, CredentialsOnce, ResolvedRight, ResolvedAt,
      NoOrphanAccount
<1> QED
  BY <1>1, <1>2, <1>3, <1>4, BeginSocialKeeps, BeginEmailKeeps DEF AccountsNext

\* Accounts stay safe for every set of sign-ins, identities, addresses and passwords:
\* nobody is signed in to somebody else's account, and every account has a way in.
THEOREM AccountsStaySafe == AccountsSpec => []AccountsSafe
<1>1. ASSUME AccountsInv PROVE SameAccount
  <2> SUFFICES ASSUME NEW a \in SignIns, NEW b \in SignIns, SignedIn(a), SignedIn(b)
               PROVE  /\ req[a].kind = "social" /\ req[b].kind = "social"
                           /\ req[a].identity = req[b].identity => user[a] = user[b]
                      /\ req[a].kind = "email" /\ req[b].kind = "email"
                           /\ req[a].email = req[b].email
                         => user[a] = user[b] /\ req[a].password = req[b].password
    BY DEF SameAccount
  <2>1. /\ ResolvedAt(a) /\ ResolvedAt(b) /\ place[a] \in Resolved /\ place[b] \in Resolved
    BY <1>1 DEF AccountsInv, ResolvedRight, SignedIn, Resolved
  <2>2. req[a].kind = "email" => req[a].email # NoEmail
    BY <1>1, <2>1, RequestFacts, AccountsConstants DEF AccountsInv, SignInsTyped
  <2> QED BY <1>1, <2>1, <2>2 DEF ResolvedAt, AccountsInv, AddressesUnique, RowAt
<1>2. AccountsInv => AccountsSafe
  BY <1>1 DEF AccountsInv, SignInsTyped, AccountsSafe
<1> QED BY <1>2, AccountsStart, AccountsKeep, PTL DEF AccountsSpec

-----------------------------------------------------------------------------
(* The verifiers of access tokens *)

Verdicts == {"none", "ok", "expired", "unknownKey", "noKeys", "malformed"}

\* The requests have their types; one that fetches holds its verifier's mutex, one
\* whose token is not issued yet has no verdict, and no token is signed with a key
\* that Identity has still to make.
BearersTyped ==
    /\ TokensTypeOK
    /\ hop \in [Bearers -> Verifiers]
    /\ verdict \in [Bearers -> [Hops -> Verdicts]]
    /\ \A r \in Bearers :
         /\ token[r].key <= current
         /\ pc[r] = "new" => verdict[r] = NoVerdict
         /\ pc[r] = "fetch" => mu[hop[r]] = r

\* An answer on its way belongs to a fetch, and has the key of the token that is
\* waiting for it if that key is still published.
AnswersFit ==
    \A v \in Verifiers :
        served[v] # {} => /\ mu[v] # None
                          /\ token[mu[v]].key \in Published => token[mu[v]].key \in served[v]

\* A published key, and one that is still to come, is not gone; a key in an answer is
\* gone for as long as the fetch takes at most, and a key in a cache that is trusted
\* for the age of the cache longer.
KeysAge ==
    /\ \A k \in 1..MaxKeys : k >= current \/ k \in Published => gone[k] = 0
    /\ \A v \in Verifiers :
         /\ \A k \in served[v] : gone[k] <= fetching[v]
         /\ age[v] < RefreshTTL => \A k \in cached[v] : gone[k] <= age[v] + FetchTimeout

TokensInv == BearersTyped /\ AnswersFit /\ KeysAge /\ RefusedForReason

\* The smaller of two numbers.
LEMMA MinOfTwo ==
  ASSUME NEW m \in Nat, NEW n \in Nat
  PROVE  Min({m, n}) = IF m <= n THEN m ELSE n
  BY DEF Min

\* What a hop's decision changes: the request's own control and verdicts.
LEMMA Decision ==
  ASSUME BearersTyped, NEW r \in Bearers, NEW v \in Verdicts, Decide(r, v)
  PROVE  /\ pc' = [pc EXCEPT ![r] = pc'[r]] /\ pc'[r] \in {"idle", "keyFor"}
         /\ hop' = [hop EXCEPT ![r] = hop'[r]] /\ hop'[r] \in Verifiers
         /\ verdict' = [verdict EXCEPT ![r] = verdict'[r]] /\ verdict'[r] \in [Hops -> Verdicts]
         /\ \A h \in Hops :
              \/ verdict'[r][h] = verdict[r][h]
              \/ h = hop[r] /\ verdict'[r][h] = v
              \/ h = "identity" /\ verdict'[r][h] = IdentityVerdict(r)
              \/ h = "poll" /\ r \in LowerCase /\ verdict'[r][h] = "malformed"
<1>1. PICK h \in {"poll", "identity", "other"} :
        /\ h = "other" =>
                 /\ verdict' = [verdict EXCEPT ![r][hop[r]] = v]
                 /\ pc' = [pc EXCEPT ![r] = "idle"]
                 /\ UNCHANGED hop
        /\ h = "identity" =>
                 /\ verdict' = [verdict EXCEPT ![r][hop[r]] = v, ![r]["identity"] = IdentityVerdict(r)]
                 /\ pc' = [pc EXCEPT ![r] = "idle"]
                 /\ UNCHANGED hop
        /\ h = "poll" /\ r \notin LowerCase =>
                 /\ verdict' = [verdict EXCEPT ![r][hop[r]] = v]
                 /\ pc' = [pc EXCEPT ![r] = "keyFor"]
                 /\ hop' = [hop EXCEPT ![r] = "poll"]
        /\ h = "poll" /\ r \in LowerCase =>
                 /\ verdict' = [verdict EXCEPT ![r][hop[r]] = v, ![r]["poll"] = "malformed"]
                 /\ pc' = [pc EXCEPT ![r] = "idle"]
                 /\ UNCHANGED hop
  BY Zenon DEF Decide
<1>2. IdentityVerdict(r) \in Verdicts
  BY DEF IdentityVerdict, Verdicts
<1>3. /\ hop \in [Bearers -> Verifiers] /\ hop[r] \in Verifiers
      /\ pc \in [Bearers -> {"new", "idle", "keyFor", "fetch"}]
      /\ verdict \in [Bearers -> [Hops -> Verdicts]] /\ hop[r] \in Hops
      /\ "identity" \in Hops /\ "poll" \in Hops /\ hop[r] # "identity"
  BY DEF BearersTyped, TokensTypeOK, Hops, Verifiers
<1>4. CASE h = "other"
  <2>1. /\ verdict' = [verdict EXCEPT ![r][hop[r]] = v]
        /\ pc' = [pc EXCEPT ![r] = "idle"] /\ hop' = hop
    BY <1>1, <1>4
  <2>2. pc' = [pc EXCEPT ![r] = pc'[r]] /\ pc'[r] = "idle" /\ hop' = [hop EXCEPT ![r] = hop'[r]]
    BY <1>3, <2>1
  <2>3. /\ verdict' = [verdict EXCEPT ![r] = verdict'[r]]
        /\ verdict'[r] = [verdict[r] EXCEPT ![hop[r]] = v]
    BY <1>3, <2>1
  <2> QED BY <1>3, <2>1, <2>2, <2>3
<1>5. CASE h = "identity"
  BY <1>1, <1>2, <1>3, <1>5
<1>6. CASE h = "poll" /\ r \notin LowerCase
  BY <1>1, <1>3, <1>6 DEF Verifiers
<1>7. CASE h = "poll" /\ r \in LowerCase
  BY <1>1, <1>3, <1>7 DEF Verdicts
<1> QED BY <1>4, <1>5, <1>6, <1>7

\* What a lookup says is a verdict.
LEMMA LookupTyped ==
  ASSUME NEW r \in Bearers, NEW keys PROVE LookupVerdict(r, keys) \in Verdicts
  BY DEF LookupVerdict, Verdicts

\* The invariant holds when Identity and the verifiers start.
LEMMA TokensStart == TokensInit => TokensInv
<1> SUFFICES ASSUME TokensInit PROVE TokensInv
  OBVIOUS
<1>1. NoVerdict \in [Hops -> Verdicts] /\ \A h \in Hops : NoVerdict[h] = "none"
  BY DEF NoVerdict, Verdicts
<1>2. BearersTyped
  BY <1>1, TokensConstants DEF TokensInit, NewManager, BearersTyped, TokensTypeOK, Verifiers, GoneCap
<1> QED
  BY <1>1, <1>2, TokensConstants
  DEF TokensInit, NewManager, TokensInv, AnswersFit, KeysAge, RefusedForReason

\* The reasons for a refusal last: a key that is no longer published does not come back.
LEMMA ReasonsLast ==
  ASSUME TokensInv, current' = current + 1, previous' \in {current, None},
         UNCHANGED <<token, faulty, verdict>>
  PROVE  /\ \A k \in 1..current : k \in Published' => k \in Published
         /\ RefusedForReason'
<1>1. /\ current \in Nat /\ current \in 1..MaxKeys
      /\ \A r \in Bearers : token[r].key \in 1..MaxKeys /\ token[r].key <= current
  BY TokensConstants DEF TokensInv, BearersTyped, TokensTypeOK
<1>2. \A k \in 1..current : k \in Published' => k \in Published
  BY <1>1, TokensConstants DEF Published
<1>3. \A r \in Bearers : token[r].key \in 1..current
  BY <1>1, TokensConstants
<1> QED BY <1>2, <1>3 DEF TokensInv, RefusedForReason

\* A new key, by rotation or by a restart.
LEMMA NewKeyKeeps ==
  ASSUME TokensInv, Rotate \/ Restart
  PROVE  TokensInv'
<1>1. /\ current < MaxKeys /\ current' = current + 1 /\ previous' \in {current, None}
      /\ UNCHANGED <<gone, cached, age, mu, served, fetching, token, hop, pc, verdict, faulty>>
  BY DEF Rotate, Restart
<1>2. /\ current \in 1..MaxKeys /\ current' \in 1..MaxKeys /\ previous' \in 1..MaxKeys \cup {None}
      /\ \A r \in Bearers : token[r].key \in 1..current
  BY <1>1, TokensConstants DEF TokensInv, BearersTyped, TokensTypeOK
<1>3. BearersTyped'
  <2>1. \A r \in Bearers : token[r].key <= current'
    BY <1>1, <1>2
  <2> QED BY <1>1, <1>2, <2>1 DEF TokensInv, BearersTyped, TokensTypeOK
<1>4. AnswersFit'
  <2> SUFFICES ASSUME NEW v \in Verifiers, served[v] # {}
               PROVE  /\ mu[v] # None
                      /\ token[mu[v]].key \in Published' => token[mu[v]].key \in served[v]
    BY <1>1 DEF AnswersFit
  <2>1. /\ mu[v] # None
        /\ token[mu[v]].key \in Published => token[mu[v]].key \in served[v]
    BY DEF TokensInv, AnswersFit
  <2>2. mu[v] \in Bearers
    BY <2>1 DEF TokensInv, BearersTyped, TokensTypeOK
  <2> QED BY <1>1, <1>2, <2>1, <2>2, ReasonsLast
<1>5. KeysAge'
  <2>1. \A k \in 1..MaxKeys : k >= current' \/ k \in Published' => k >= current
    BY <1>1, <1>2, TokensConstants DEF Published
  <2> QED BY <1>1, <2>1 DEF TokensInv, KeysAge
<1> QED BY <1>1, <1>3, <1>4, <1>5, ReasonsLast DEF TokensInv

\* A token is issued.
LEMMA IssueKeeps ==
  ASSUME TokensInv, NEW r \in Bearers, Issue(r)
  PROVE  TokensInv'
<1>1. /\ pc[r] = "new" /\ pc' = [pc EXCEPT ![r] = "idle"]
      /\ token' = [token EXCEPT ![r] = [key |-> current, left |-> TokenLife]]
      /\ UNCHANGED <<current, previous, gone, cached, age, mu, served, fetching, hop, verdict, faulty>>
  BY DEF Issue
<1>2. /\ token'[r].key = current /\ pc'[r] = "idle"
      /\ \A b \in Bearers \ {r} : token'[b] = token[b] /\ pc'[b] = pc[b]
  BY <1>1 DEF TokensInv, BearersTyped, TokensTypeOK
<1>3. BearersTyped'
  <2>1. [key |-> current, left |-> TokenLife] \in [key : 1..MaxKeys, left : 0..TokenLife]
    BY TokensConstants DEF TokensInv, BearersTyped, TokensTypeOK
  <2>2. token' \in [Bearers -> [key : 1..MaxKeys, left : 0..TokenLife]]
    BY <1>1, <2>1 DEF TokensInv, BearersTyped, TokensTypeOK
  <2>3. pc' \in [Bearers -> {"new", "idle", "keyFor", "fetch"}]
    BY <1>1 DEF TokensInv, BearersTyped, TokensTypeOK
  <2>4. \A b \in Bearers : token'[b].key <= current
    <3>1. current \in Nat /\ \A b \in Bearers : token[b].key <= current
      BY DEF TokensInv, BearersTyped, TokensTypeOK
    <3> QED BY <1>2, <3>1
  <2>5. \A b \in Bearers : pc'[b] = "new" \/ pc'[b] = "fetch" => b # r /\ pc'[b] = pc[b]
    BY <1>2
  <2>6. \A v \in Verifiers : mu[v] # None => mu[v] \in Bearers \ {r} /\ pc'[mu[v]] = "fetch"
    BY <1>1, <1>2 DEF TokensInv, BearersTyped, TokensTypeOK
  <2> QED BY <1>1, <2>2, <2>3, <2>4, <2>5, <2>6 DEF TokensInv, BearersTyped, TokensTypeOK
<1>4. AnswersFit'
  BY <1>1, <1>2 DEF TokensInv, BearersTyped, TokensTypeOK, AnswersFit, Published
<1>5. KeysAge'
  BY <1>1 DEF TokensInv, KeysAge, Published
<1>6. RefusedForReason'
  BY <1>1, <1>2 DEF TokensInv, BearersTyped, RefusedForReason, NoVerdict, Published
<1> QED BY <1>3, <1>4, <1>5, <1>6 DEF TokensInv

\* A request begins.
LEMMA PresentKeeps ==
  ASSUME TokensInv, NEW r \in Bearers, Present(r)
  PROVE  TokensInv'
<1>1. /\ pc[r] = "idle" /\ pc' = [pc EXCEPT ![r] = "keyFor"]
      /\ hop' = [hop EXCEPT ![r] = "gateway"]
      /\ verdict' = [verdict EXCEPT ![r] = NoVerdict]
      /\ faulty' = faulty \ {r}
      /\ UNCHANGED <<current, previous, gone, cached, age, mu, served, fetching, token>>
  BY DEF Present
<1>2. /\ pc'[r] = "keyFor" /\ hop'[r] = "gateway" /\ verdict'[r] = NoVerdict
      /\ \A b \in Bearers \ {r} : pc'[b] = pc[b] /\ hop'[b] = hop[b] /\ verdict'[b] = verdict[b]
  BY <1>1 DEF TokensInv, BearersTyped, TokensTypeOK
<1>3. NoVerdict \in [Hops -> Verdicts]
  BY DEF NoVerdict, Verdicts
<1>4. BearersTyped'
  <2>1. \A v \in Verifiers : mu[v] # None => mu[v] \in Bearers \ {r}
    BY <1>1 DEF TokensInv, BearersTyped, TokensTypeOK
  <2>2. TokensTypeOK'
    BY <1>1, <1>2, <2>1 DEF TokensInv, BearersTyped, TokensTypeOK
  <2>3. hop' \in [Bearers -> Verifiers] /\ verdict' \in [Bearers -> [Hops -> Verdicts]]
    BY <1>1, <1>3 DEF TokensInv, BearersTyped, Verifiers
  <2> QED BY <1>1, <1>2, <2>2, <2>3 DEF TokensInv, BearersTyped
<1>5. AnswersFit'
  BY <1>1 DEF TokensInv, AnswersFit, Published
<1>6. KeysAge'
  BY <1>1 DEF TokensInv, KeysAge, Published
<1>7. RefusedForReason'
  BY <1>1, <1>2 DEF TokensInv, RefusedForReason, NoVerdict, Published
<1> QED BY <1>4, <1>5, <1>6, <1>7 DEF TokensInv

\* A fetch begins.
LEMMA KeyForFetchKeeps ==
  ASSUME TokensInv, NEW r \in Bearers, KeyForFetch(r)
  PROVE  TokensInv'
<1> DEFINE v == hop[r]
<1>1. /\ pc[r] = "keyFor" /\ mu[v] = None /\ mu' = [mu EXCEPT ![v] = r]
      /\ pc' = [pc EXCEPT ![r] = "fetch"]
      /\ UNCHANGED <<current, previous, gone, cached, age, served, fetching, token, hop, verdict, faulty>>
  BY DEF KeyForFetch
<1>2. /\ pc'[r] = "fetch" /\ v \in Verifiers /\ mu'[v] = r
      /\ \A b \in Bearers \ {r} : pc'[b] = pc[b]
      /\ \A w \in Verifiers \ {v} : mu'[w] = mu[w]
  BY <1>1 DEF TokensInv, BearersTyped, TokensTypeOK
<1>3. BearersTyped'
  <2>1. \A w \in Verifiers \ {v} : mu[w] # None => mu[w] \in Bearers \ {r}
    BY <1>1 DEF TokensInv, BearersTyped, TokensTypeOK
  <2>2. \A b \in Bearers \ {r} : pc[b] = "fetch" => hop[b] # v
    BY <1>1, TokensConstants DEF TokensInv, BearersTyped
  <2>3. TokensTypeOK'
    BY <1>1, <1>2, <2>1 DEF TokensInv, BearersTyped, TokensTypeOK
  <2> QED BY <1>1, <1>2, <2>2, <2>3 DEF TokensInv, BearersTyped
<1>4. AnswersFit'
  BY <1>1, <1>2 DEF TokensInv, AnswersFit, Published
<1>5. KeysAge' /\ RefusedForReason'
  BY <1>1 DEF TokensInv, KeysAge, RefusedForReason, Published
<1> QED BY <1>3, <1>4, <1>5 DEF TokensInv

\* Identity answers a fetch.
LEMMA GetJWKSKeeps ==
  ASSUME TokensInv, NEW v \in Verifiers, GetJWKS(v)
  PROVE  TokensInv'
<1>1. /\ mu[v] # None /\ served' = [served EXCEPT ![v] = Published]
      /\ UNCHANGED <<current, previous, gone, cached, age, mu, fetching, token, hop, pc, verdict, faulty>>
  BY DEF GetJWKS
<1>2. Published \subseteq 1..MaxKeys
  BY DEF TokensInv, BearersTyped, TokensTypeOK, Published
<1>3. served'[v] = Published /\ \A w \in Verifiers \ {v} : served'[w] = served[w]
  BY <1>1 DEF TokensInv, BearersTyped, TokensTypeOK
<1>4. BearersTyped'
  BY <1>1, <1>2 DEF TokensInv, BearersTyped, TokensTypeOK
<1>5. AnswersFit'
  BY <1>1, <1>3 DEF TokensInv, AnswersFit, Published
<1>6. KeysAge'
  <2>1. fetching[v] \in Nat
    BY TokensConstants DEF TokensInv, BearersTyped, TokensTypeOK
  <2>2. \A k \in Published : gone[k] <= fetching[v]
    <3>1. \A k \in Published : gone[k] = 0
      BY <1>2 DEF TokensInv, KeysAge
    <3> QED BY <2>1, <3>1
  <2>3. Published' = Published
    BY <1>1 DEF Published
  <2> QED BY <1>1, <1>3, <2>2, <2>3 DEF TokensInv, KeysAge
<1>7. RefusedForReason'
  BY <1>1 DEF TokensInv, RefusedForReason, Published
<1> QED BY <1>4, <1>5, <1>6, <1>7 DEF TokensInv

\* A verdict is given for a reason, the request's own fetch having failed or not.
LEMMA DecisionHasReason ==
  ASSUME TokensInv, NEW r \in Bearers, NEW v \in Verdicts, Decide(r, v),
         UNCHANGED <<current, previous, token>>, faulty' \in {faulty, faulty \cup {r}},
         v = "ok" \/ token[r].left = 0 \/ token[r].key \notin Published \/ r \in faulty'
  PROVE  RefusedForReason'
<1>1. /\ \A b \in Bearers \ {r} : verdict'[b] = verdict[b]
      /\ \A h \in Hops :
              \/ verdict'[r][h] = verdict[r][h]
              \/ h = hop[r] /\ verdict'[r][h] = v
              \/ h = "identity" /\ verdict'[r][h] = IdentityVerdict(r)
              \/ h = "poll" /\ r \in LowerCase /\ verdict'[r][h] = "malformed"
  BY Decision DEF TokensInv, BearersTyped
<1>2. Published' = Published
  BY DEF Published
<1>3. IdentityVerdict(r) = "ok" \/ token[r].left = 0 \/ token[r].key \notin Published
  <2>1. token[r].left \in Nat
    BY TokensConstants DEF TokensInv, BearersTyped, TokensTypeOK
  <2> QED BY <2>1 DEF IdentityVerdict, Unexpired
<1> SUFFICES ASSUME NEW b \in Bearers, NEW h \in Hops, verdict'[b][h] \notin {"none", "ok"}
             PROVE  \/ token[b].left = 0
                    \/ token[b].key \notin Published
                    \/ b \in faulty'
                    \/ h = "poll" /\ b \in LowerCase
  BY <1>2 DEF RefusedForReason
<1>4. CASE verdict'[b][h] = verdict[b][h]
  BY <1>4 DEF TokensInv, RefusedForReason
<1>5. CASE b = r
  BY <1>1, <1>3, <1>4, <1>5
<1> QED BY <1>1, <1>4, <1>5

\* The control of a request that is decided, when its verifier's mutex is free for it:
\* it holds none, or gives back the one it holds.
LEMMA DecisionTyped ==
  ASSUME TokensInv, NEW r \in Bearers, NEW v \in Verdicts, Decide(r, v),
         pc[r] \in {"keyFor", "fetch"},
         mu' = [w \in Verifiers |-> IF mu[w] = r THEN None ELSE mu[w]],
         UNCHANGED <<current, previous, gone, token>>,
         cached' \in [Verifiers -> SUBSET (1..MaxKeys)], age' \in [Verifiers -> 0..RefreshTTL],
         served' \in [Verifiers -> SUBSET (1..MaxKeys)], fetching' \in [Verifiers -> 0..FetchTimeout]
  PROVE  BearersTyped'
<1>1. /\ pc' = [pc EXCEPT ![r] = pc'[r]] /\ pc'[r] \in {"idle", "keyFor"}
      /\ hop' = [hop EXCEPT ![r] = hop'[r]] /\ hop'[r] \in Verifiers
      /\ verdict' = [verdict EXCEPT ![r] = verdict'[r]] /\ verdict'[r] \in [Hops -> Verdicts]
  BY Decision DEF TokensInv
<1>2. /\ \A b \in Bearers \ {r} : pc'[b] = pc[b] /\ hop'[b] = hop[b] /\ verdict'[b] = verdict[b]
      /\ hop' \in [Bearers -> Verifiers] /\ verdict' \in [Bearers -> [Hops -> Verdicts]]
      /\ pc' \in [Bearers -> {"new", "idle", "keyFor", "fetch"}]
  <2>1. /\ pc \in [Bearers -> {"new", "idle", "keyFor", "fetch"}] /\ hop \in [Bearers -> Verifiers]
        /\ verdict \in [Bearers -> [Hops -> Verdicts]]
    BY DEF TokensInv, BearersTyped, TokensTypeOK
  <2>2. pc' \in [Bearers -> {"new", "idle", "keyFor", "fetch"}] /\ \A b \in Bearers \ {r} : pc'[b] = pc[b]
    BY <1>1, <2>1
  <2>3. hop' \in [Bearers -> Verifiers] /\ \A b \in Bearers \ {r} : hop'[b] = hop[b]
    BY <1>1, <2>1
  <2>4. verdict' \in [Bearers -> [Hops -> Verdicts]] /\ \A b \in Bearers \ {r} : verdict'[b] = verdict[b]
    BY <1>1, <2>1
  <2> QED BY <2>2, <2>3, <2>4
<1>3. \A w \in Verifiers :
        mu'[w] # None => /\ mu'[w] = mu[w] /\ mu[w] \in Bearers \ {r}
                         /\ pc[mu[w]] = "fetch" /\ hop[mu[w]] = w
  <2> TAKE w \in Verifiers
  <2>1. mu'[w] = IF mu[w] = r THEN None ELSE mu[w]
    OBVIOUS
  <2>2. mu[w] # None => mu[w] \in Bearers /\ pc[mu[w]] = "fetch" /\ hop[mu[w]] = w
    BY DEF TokensInv, BearersTyped, TokensTypeOK
  <2> QED BY <2>1, <2>2
<1>4. mu' \in [Verifiers -> Bearers \cup {None}]
  BY DEF TokensInv, BearersTyped, TokensTypeOK
<1>5. TokensTypeOK'
  BY <1>2, <1>3, <1>4 DEF TokensInv, BearersTyped, TokensTypeOK
<1>6. \A b \in Bearers : pc'[b] = "fetch" => mu'[hop'[b]] = b
  BY <1>1, <1>2 DEF TokensInv, BearersTyped
<1> QED BY <1>1, <1>2, <1>5, <1>6 DEF TokensInv, BearersTyped

\* keyFor answers from the cache.
LEMMA KeyForCachedKeeps ==
  ASSUME TokensInv, NEW r \in Bearers, KeyForCached(r)
  PROVE  TokensInv'
<1> DEFINE v == LookupVerdict(r, cached[hop[r]])
<1>1. /\ pc[r] = "keyFor" /\ Decide(r, v) /\ ~NeedsRefresh(hop[r], token[r].key)
      /\ UNCHANGED <<current, previous, gone, cached, age, mu, served, fetching, token, faulty>>
  BY DEF KeyForCached
<1>2. v \in Verdicts /\ (v = "ok" \/ token[r].left = 0)
  <2>1. token[r].left \in Nat
    BY TokensConstants DEF TokensInv, BearersTyped, TokensTypeOK
  <2> QED BY <1>1, <2>1, LookupTyped DEF LookupVerdict, NeedsRefresh, Unexpired
<1>3. mu' = [w \in Verifiers |-> IF mu[w] = r THEN None ELSE mu[w]]
  <2>1. mu \in [Verifiers -> Bearers \cup {None}] /\ \A w \in Verifiers : mu[w] # r
    <3>1. r # None
      BY TokensConstants
    <3>2. \A w \in Verifiers : mu[w] # None => pc[mu[w]] = "fetch"
      BY DEF TokensInv, BearersTyped, TokensTypeOK
    <3> QED BY <1>1, <3>1, <3>2 DEF TokensInv, BearersTyped, TokensTypeOK
  <2>2. mu = [w \in Verifiers |-> mu[w]]
    BY <2>1
  <2> QED BY <1>1, <2>1, <2>2
<1>4. BearersTyped'
  <2>1. /\ cached \in [Verifiers -> SUBSET (1..MaxKeys)] /\ age \in [Verifiers -> 0..RefreshTTL]
        /\ served \in [Verifiers -> SUBSET (1..MaxKeys)] /\ fetching \in [Verifiers -> 0..FetchTimeout]
    BY DEF TokensInv, BearersTyped, TokensTypeOK
  <2> QED BY <1>1, <1>2, <1>3, <2>1, DecisionTyped
<1>5. AnswersFit' /\ KeysAge'
  BY <1>1 DEF TokensInv, AnswersFit, KeysAge, Published
<1>6. RefusedForReason'
  BY <1>1, <1>2, DecisionHasReason
<1> QED BY <1>4, <1>5, <1>6 DEF TokensInv

\* The end of a fetch gives the mutex back, and only its own.
LEMMA MutexBack ==
  ASSUME TokensInv, NEW r \in Bearers, pc[r] = "fetch", FetchEnds(hop[r])
  PROVE  /\ hop[r] \in Verifiers /\ mu[hop[r]] = r
         /\ mu' = [w \in Verifiers |-> IF mu[w] = r THEN None ELSE mu[w]]
         /\ served' \in [Verifiers -> SUBSET (1..MaxKeys)] /\ fetching' \in [Verifiers -> 0..FetchTimeout]
         /\ served'[hop[r]] = {}
         /\ \A w \in Verifiers \ {hop[r]} : /\ mu'[w] = mu[w] /\ served'[w] = served[w]
                                            /\ fetching'[w] = fetching[w]
<1>1. hop[r] \in Verifiers /\ mu[hop[r]] = r /\ \A w \in Verifiers \ {hop[r]} : mu[w] # r
  BY TokensConstants DEF TokensInv, BearersTyped, TokensTypeOK
<1>2. /\ mu \in [Verifiers -> Bearers \cup {None}] /\ served \in [Verifiers -> SUBSET (1..MaxKeys)]
      /\ fetching \in [Verifiers -> 0..FetchTimeout] /\ 0 \in 0..FetchTimeout
  BY TokensConstants DEF TokensInv, BearersTyped, TokensTypeOK
<1>3. mu' = [w \in Verifiers |-> IF mu[w] = r THEN None ELSE mu[w]]
  BY <1>1, <1>2 DEF FetchEnds
<1>4. /\ served' = [served EXCEPT ![hop[r]] = {}] /\ fetching' = [fetching EXCEPT ![hop[r]] = 0]
      /\ mu' = [mu EXCEPT ![hop[r]] = None]
  BY DEF FetchEnds
<1> QED BY <1>1, <1>2, <1>3, <1>4

\* A fetch succeeds.
LEMMA FetchSucceedsKeeps ==
  ASSUME TokensInv, NEW r \in Bearers, FetchSucceeds(r)
  PROVE  TokensInv'
<1> DEFINE w == hop[r]
           v == LookupVerdict(r, served[w])
<1>1. /\ pc[r] = "fetch" /\ Decide(r, v) /\ FetchEnds(w) /\ served[w] # {}
      /\ cached' = [cached EXCEPT ![w] = served[w]] /\ age' = [age EXCEPT ![w] = 0]
      /\ UNCHANGED <<current, previous, gone, token, faulty>>
  BY DEF FetchSucceeds
<1>2. v \in Verdicts /\ (v = "ok" \/ token[r].left = 0 \/ token[r].key \notin Published)
  <2>1. token[r].left \in Nat
    BY TokensConstants DEF TokensInv, BearersTyped, TokensTypeOK
  <2>2. token[r].key \in Published => token[r].key \in served[w]
    BY <1>1, MutexBack DEF TokensInv, AnswersFit
  <2> QED BY <1>1, <2>1, <2>2, LookupTyped DEF LookupVerdict, Unexpired
<1>3. /\ w \in Verifiers /\ cached'[w] = served[w] /\ age'[w] = 0
      /\ \A x \in Verifiers \ {w} : cached'[x] = cached[x] /\ age'[x] = age[x]
      /\ cached' \in [Verifiers -> SUBSET (1..MaxKeys)] /\ age' \in [Verifiers -> 0..RefreshTTL]
  <2>1. /\ w \in Verifiers /\ cached \in [Verifiers -> SUBSET (1..MaxKeys)]
        /\ age \in [Verifiers -> 0..RefreshTTL] /\ served[w] \subseteq 1..MaxKeys
    BY DEF TokensInv, BearersTyped, TokensTypeOK
  <2>2. 0 \in 0..RefreshTTL
    BY TokensConstants
  <2> HIDE DEF w
  <2> QED BY <1>1, <2>1, <2>2
<1>4. BearersTyped'
  BY <1>1, <1>2, <1>3, MutexBack, DecisionTyped
<1>5. AnswersFit'
  BY <1>1, MutexBack DEF TokensInv, AnswersFit, Published
<1>6. KeysAge'
  <2>1. \A k \in served[w] : /\ gone[k] \in Nat /\ gone[k] <= fetching[w]
                             /\ fetching[w] \in Nat /\ fetching[w] <= FetchTimeout
    BY <1>3, TokensConstants DEF TokensInv, BearersTyped, TokensTypeOK, KeysAge, GoneCap
  <2>2. \A k \in cached'[w] : gone[k] <= age'[w] + FetchTimeout
    BY <1>3, <2>1, TokensConstants
  <2> QED BY <1>1, <1>3, <2>2, MutexBack DEF TokensInv, KeysAge, Published
<1>7. RefusedForReason'
  BY <1>1, <1>2, DecisionHasReason
<1> QED BY <1>4, <1>5, <1>6, <1>7 DEF TokensInv

\* A fetch fails.
LEMMA FetchFailsKeeps ==
  ASSUME TokensInv, NEW r \in Bearers, FetchFails(r)
  PROVE  TokensInv'
<1> DEFINE v == LookupVerdict(r, cached[hop[r]])
<1>1. /\ pc[r] = "fetch" /\ Decide(r, v) /\ FetchEnds(hop[r]) /\ faulty' = faulty \cup {r}
      /\ UNCHANGED <<current, previous, gone, cached, age, token>>
  BY DEF FetchFails
<1>2. v \in Verdicts
  BY LookupTyped
<1>3. BearersTyped'
  <2>1. cached \in [Verifiers -> SUBSET (1..MaxKeys)] /\ age \in [Verifiers -> 0..RefreshTTL]
    BY DEF TokensInv, BearersTyped, TokensTypeOK
  <2> QED BY <1>1, <1>2, <2>1, MutexBack, DecisionTyped
<1>4. AnswersFit' /\ KeysAge'
  BY <1>1, MutexBack DEF TokensInv, AnswersFit, KeysAge, Published
<1>5. RefusedForReason'
  BY <1>1, <1>2, DecisionHasReason
<1> QED BY <1>3, <1>4, <1>5 DEF TokensInv

\* Time passes.
LEMMA TokensTickKeeps ==
  ASSUME TokensInv, TokensTick
  PROVE  TokensInv'
<1>1. /\ \A v \in Verifiers : mu[v] # None => fetching[v] < FetchTimeout
      /\ fetching' = [v \in Verifiers |-> IF mu[v] # None THEN fetching[v] + 1 ELSE 0]
      /\ UNCHANGED <<current, previous, cached, mu, served, hop, pc, verdict, faulty>>
  BY DEF TokensTick
<1>2. /\ age' \in [Verifiers -> 0..RefreshTTL]
      /\ \A v \in Verifiers : age'[v] = IF age[v] + 1 <= RefreshTTL THEN age[v] + 1 ELSE RefreshTTL
  <2>1. /\ RefreshTTL \in Nat
        /\ \A v \in Verifiers : age[v] \in 0..RefreshTTL /\ age[v] + 1 \in Nat
    BY TokensConstants DEF TokensInv, BearersTyped, TokensTypeOK
  <2>2. \A v \in Verifiers : Min({age[v] + 1, RefreshTTL})
                              = IF age[v] + 1 <= RefreshTTL THEN age[v] + 1 ELSE RefreshTTL
    BY <2>1, MinOfTwo
  <2>3. age' = [v \in Verifiers |-> Min({age[v] + 1, RefreshTTL})]
    BY DEF TokensTick
  <2> QED BY <2>1, <2>2, <2>3
<1>3. /\ gone' \in [1..MaxKeys -> 0..GoneCap]
      /\ \A k \in 1..MaxKeys : /\ gone'[k] <= gone[k] + 1
                               /\ k >= current \/ k \in Published => gone'[k] = 0
  <2>1. GoneCap \in Nat /\ \A k \in 1..MaxKeys : gone[k] \in 0..GoneCap /\ gone[k] + 1 \in Nat
    BY TokensConstants DEF TokensInv, BearersTyped, TokensTypeOK, GoneCap
  <2>2. \A k \in 1..MaxKeys : Min({gone[k] + 1, GoneCap})
                               = IF gone[k] + 1 <= GoneCap THEN gone[k] + 1 ELSE GoneCap
    BY <2>1, MinOfTwo
  <2>3. gone' = [k \in 1..MaxKeys |->
                   IF k >= current \/ k \in Published THEN 0 ELSE Min({gone[k] + 1, GoneCap})]
    BY DEF TokensTick
  <2>4. \A k \in 1..MaxKeys : /\ gone'[k] \in 0..GoneCap /\ gone'[k] <= gone[k] + 1
                              /\ k >= current \/ k \in Published => gone'[k] = 0
    BY <2>1, <2>2, <2>3
  <2>5. gone' \in [1..MaxKeys -> 0..GoneCap]
    BY <2>3, <2>4
  <2> QED BY <2>4, <2>5
<1>4. /\ token' \in [Bearers -> [key : 1..MaxKeys, left : 0..TokenLife]]
      /\ \A r \in Bearers : token'[r].key = token[r].key /\ (token[r].left = 0 => token'[r].left = 0)
  <2>1. token' = [r \in Bearers |-> [token[r] EXCEPT !.left = IF @ = 0 THEN 0 ELSE @ - 1]]
    BY DEF TokensTick
  <2>2. TokenLife \in Nat /\ \A r \in Bearers : token[r] \in [key : 1..MaxKeys, left : 0..TokenLife]
    BY TokensConstants DEF TokensInv, BearersTyped, TokensTypeOK
  <2>3. ASSUME NEW r \in Bearers
        PROVE  /\ token'[r] \in [key : 1..MaxKeys, left : 0..TokenLife]
               /\ token'[r].key = token[r].key /\ (token[r].left = 0 => token'[r].left = 0)
    <3>1. token'[r] = [token[r] EXCEPT !.left = IF @ = 0 THEN 0 ELSE @ - 1]
      BY <2>1
    <3> QED BY <2>2, <3>1
  <2>4. token' = [r \in Bearers |-> token'[r]]
    BY <2>1
  <2> QED BY <2>3, <2>4
<1>5. fetching' \in [Verifiers -> 0..FetchTimeout]
  BY <1>1, TokensConstants DEF TokensInv, BearersTyped, TokensTypeOK
<1>6. BearersTyped'
  BY <1>1, <1>2, <1>3, <1>4, <1>5 DEF TokensInv, BearersTyped, TokensTypeOK, GoneCap
<1>7. AnswersFit'
  BY <1>1, <1>4 DEF TokensInv, AnswersFit, Published, BearersTyped, TokensTypeOK
<1>8. KeysAge'
  <2>1. \A v \in Verifiers : /\ served[v] \subseteq 1..MaxKeys /\ cached[v] \subseteq 1..MaxKeys
                             /\ fetching[v] \in Nat /\ age[v] \in Nat
    BY TokensConstants DEF TokensInv, BearersTyped, TokensTypeOK
  <2>2. \A k \in 1..MaxKeys : gone[k] \in Nat /\ gone'[k] \in Nat
    BY <1>3, TokensConstants DEF TokensInv, BearersTyped, TokensTypeOK, GoneCap
  <2>3. ASSUME NEW v \in Verifiers, NEW k \in served[v] PROVE gone'[k] <= fetching'[v]
    BY <1>1, <1>3, <2>1, <2>2, <2>3 DEF TokensInv, AnswersFit, KeysAge
  <2>4. ASSUME NEW v \in Verifiers, age'[v] < RefreshTTL, NEW k \in cached[v]
        PROVE  gone'[k] <= age'[v] + FetchTimeout
    <3>1. age'[v] = age[v] + 1 /\ age[v] < RefreshTTL
      BY <1>2, <2>1, <2>4, TokensConstants
    <3>2. k \in 1..MaxKeys /\ gone[k] <= age[v] + FetchTimeout
      BY <2>1, <2>4, <3>1 DEF TokensInv, KeysAge
    <3>3. gone'[k] <= gone[k] + 1
      BY <1>3, <3>2
    <3>4. FetchTimeout \in Nat /\ age[v] \in Nat /\ gone[k] \in Nat /\ gone'[k] \in Nat
      BY <2>1, <2>2, <3>2, TokensConstants
    <3> QED BY <3>1, <3>2, <3>3, <3>4
  <2> QED BY <1>1, <1>3, <2>3, <2>4 DEF KeysAge, Published
<1>9. RefusedForReason'
  BY <1>1, <1>4 DEF TokensInv, RefusedForReason, Published
<1> QED BY <1>6, <1>7, <1>8, <1>9 DEF TokensInv

\* Every step keeps the invariant.
LEMMA TokensKeep == TokensInv /\ [TokensNext]_tokensVars => TokensInv'
<1> SUFFICES ASSUME TokensInv, [TokensNext]_tokensVars PROVE TokensInv'
  OBVIOUS
<1>1. ASSUME UNCHANGED tokensVars PROVE TokensInv'
  BY <1>1
  DEF tokensVars, TokensInv, BearersTyped, TokensTypeOK, AnswersFit, KeysAge, RefusedForReason, Published
<1> QED
  BY <1>1, NewKeyKeeps, TokensTickKeeps, GetJWKSKeeps, IssueKeeps, PresentKeeps,
     KeyForCachedKeeps, KeyForFetchKeeps, FetchSucceedsKeeps, FetchFailsKeeps
  DEF TokensNext, VerifyStep

\* No verifier refuses a token without a reason, for every number of keys and
\* requests, every life of a token and every trust in a key set.
THEOREM VerdictsStaySafe == TokensSpec => []VerdictsSafe
<1>1. TokensInv => VerdictsSafe
  BY DEF TokensInv, BearersTyped, VerdictsSafe
<1> QED BY <1>1, TokensStart, TokensKeep, PTL DEF TokensSpec

\* A step that accepts a token at a verifier does so within the bound of the key's
\* retirement, or after a fetch of its own that failed.
LEMMA AcceptsInTime ==
  ASSUME TokensInv, TokensNext, NEW r \in Bearers, NEW v \in Verifiers,
         verdict'[r][v] = "ok", verdict[r][v] # "ok"
  PROVE  gone[token[r].key] < RefreshTTL + FetchTimeout \/ r \in faulty'
<1>1. v \in Hops /\ v # "identity" /\ NoVerdict[v] # "ok"
  BY DEF Hops, Verifiers, NoVerdict
<1>2. /\ verdict' # verdict
      /\ \A k \in 1..MaxKeys : gone[k] \in Nat
      /\ \A w \in Verifiers : fetching[w] \in 0..FetchTimeout /\ age[w] \in Nat
                              /\ served[w] \subseteq 1..MaxKeys /\ cached[w] \subseteq 1..MaxKeys
      /\ hop \in [Bearers -> Verifiers] /\ verdict \in [Bearers -> [Hops -> Verdicts]]
  <2>1. verdict' # verdict
    OBVIOUS
  <2>2. GoneCap \in Nat /\ RefreshTTL \in Nat
    BY TokensConstants DEF GoneCap
  <2>3. \A k \in 1..MaxKeys : gone[k] \in Nat
    BY <2>2 DEF TokensInv, BearersTyped, TokensTypeOK
  <2>4. \A w \in Verifiers : fetching[w] \in 0..FetchTimeout /\ age[w] \in Nat
                             /\ served[w] \subseteq 1..MaxKeys /\ cached[w] \subseteq 1..MaxKeys
    BY <2>2 DEF TokensInv, BearersTyped, TokensTypeOK
  <2> QED BY <2>1, <2>3, <2>4 DEF TokensInv, BearersTyped
<1>3. ASSUME NEW b \in Bearers, NEW x \in Verdicts, Decide(b, x)
      PROVE  b = r /\ hop[r] = v /\ x = "ok"
  BY <1>1, <1>2, <1>3, Decision DEF TokensInv
<1>4. ASSUME NEW b \in Bearers, KeyForCached(b) PROVE gone[token[r].key] < RefreshTTL + FetchTimeout
  <2>1. b = r /\ hop[r] = v
    BY <1>3, <1>4, LookupTyped DEF KeyForCached
  <2>2. token[r].key \in cached[v] /\ ~(age[v] >= RefreshTTL)
    BY <1>4, <2>1 DEF KeyForCached, NeedsRefresh
  <2>3. gone[token[r].key] <= age[v] + FetchTimeout /\ gone[token[r].key] \in Nat
    BY <1>2, <2>2, TokensConstants DEF TokensInv, KeysAge
  <2> QED BY <1>2, <2>2, <2>3, TokensConstants
<1>5. ASSUME NEW b \in Bearers, FetchSucceeds(b) PROVE gone[token[r].key] < RefreshTTL + FetchTimeout
  <2>1. b = r /\ hop[r] = v /\ LookupVerdict(r, served[v]) = "ok"
    BY <1>3, <1>5, LookupTyped DEF FetchSucceeds
  <2>2. token[r].key \in served[v]
    BY <2>1 DEF LookupVerdict
  <2>3. gone[token[r].key] <= fetching[v] /\ gone[token[r].key] \in Nat
    BY <1>2, <2>2 DEF TokensInv, KeysAge
  <2> QED BY <1>2, <2>3, TokensConstants
<1>6. ASSUME NEW b \in Bearers, FetchFails(b) PROVE r \in faulty'
  BY <1>3, <1>6, LookupTyped DEF FetchFails
<1>7. ASSUME NEW b \in Bearers, Present(b) PROVE FALSE
  BY <1>1, <1>2, <1>7 DEF Present
<1>8. ~(\/ Rotate \/ Restart \/ TokensTick
        \/ \E w \in Verifiers : GetJWKS(w)
        \/ \E b \in Bearers : Issue(b) \/ KeyForFetch(b))
  BY <1>2 DEF Rotate, Restart, TokensTick, GetJWKS, Issue, KeyForFetch
<1> QED BY <1>4, <1>5, <1>6, <1>7, <1>8 DEF TokensNext, VerifyStep

\* The trust in a retired key lapses: no verifier accepts a token whose key Identity
\* stopped publishing RefreshTTL + FetchTimeout ago, unless its own fetch failed.
THEOREM RetiredKeysLapse == TokensSpec => RetiredKeyLapses
<1>1. TokensInv /\ [TokensNext]_tokensVars =>
        [\A r \in Bearers, v \in Verifiers :
             verdict'[r][v] = "ok" /\ verdict[r][v] # "ok" =>
                 gone[token[r].key] < RefreshTTL + FetchTimeout \/ r \in faulty']_tokensVars
  BY AcceptsInTime
<1> QED BY <1>1, TokensStart, TokensKeep, PTL DEF TokensSpec, RetiredKeyLapses
=============================================================================
