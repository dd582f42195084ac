----------------------------- MODULE Lifecycle ------------------------------
(***************************************************************************)
(* How a service process starts, serves and stops: app.NewApp and App.Run  *)
(* of the seven services.  Run acquires its dependencies one after the     *)
(* other, each with a deferred close, starts the goroutines that serve     *)
(* gRPC and HTTP, and waits for a signal or for the first error.           *)
(*                                                                         *)
(* The services differ in what they acquire and in one point of control:   *)
(* Notification runs everything in an errgroup and stops it as a whole on  *)
(* an error too, while the others return at once.                          *)
(***************************************************************************)
EXTENDS Naturals, Sequences, FiniteSets

CONSTANTS
    Services,   \* the services under check
    Requests    \* requests that may arrive

VARIABLES
    svc,        \* the service this process runs
    phase,      \* setup, serving, draining, shutdown, closing or exited
    step,       \* the next step of the plan
    deferred,   \* resources with a pending deferred close, last one first
    held,       \* resources acquired and not closed
    grpc, http, \* the two serving goroutines: start, serving, sending, ended
    errCh,      \* number of values in errCh
    signalled,  \* ctx is cancelled
    cause,      \* why Run left its select
    task,       \* the background task: none, running, ended, broken
    stage       \* where each request is

lifecycleVars == <<svc, phase, step, deferred, held, grpc, http, errCh,
                   signalled, cause, task, stage>>

-----------------------------------------------------------------------------
(* What each Run acquires, in order.  The steps listed in Closable have a     *)
(* deferred close once they have succeeded, "worker" and its like start the   *)
(* background task, the others only can fail.                                 *)

IdentityRun == <<"logkit", "telemetry", "postgres", "migrate", "valkey", "ping",
                 "keys", "listen", "rest">>
PollRun == <<"logkit", "telemetry", "postgres", "migrate", "valkey", "nats",
             "auth", "listen", "rest">>
SurpriseRun == <<"logkit", "telemetry", "postgres", "migrate", "valkey", "nats",
                 "pollClient", "catalogClient", "worker", "listen", "rest">>
CatalogRun == <<"logkit", "telemetry", "embedder", "postgres", "valkey",
                "listen", "rest">>
NotificationRun == <<"logkit", "telemetry", "postgres", "push", "listen", "rest",
                     "nats", "tasks">>
GatewayRun == <<"logkit", "telemetry", "verifier", "clients">>
LogServerRun == <<"store", "web", "pruner">>

Plan == [identity |-> IdentityRun, poll |-> PollRun, surprise |-> SurpriseRun,
         catalog |-> CatalogRun, notification |-> NotificationRun,
         gateway |-> GatewayRun, logServer |-> LogServerRun]

ASSUME LifecycleConstants == Services \subseteq DOMAIN Plan

Closable == {"telemetry", "postgres", "valkey", "nats", "pollClient",
             "catalogClient", "clients", "store"}
Background == {"worker", "tasks", "pruner"}
Infallible == {"logkit", "tasks", "pruner"}

\* The gateway and the log server have no gRPC server of their own.
HasGRPC(s) == s \notin {"gateway", "logServer"}

\* Run waits for its goroutines (errgroup) before it returns.
Grouped(s) == s = "notification"

\* The size of errCh: one place for each serving goroutine.  The errgroup takes
\* what any of its goroutines returns, the background tasks included.
ErrChSize(s) == IF Grouped(s) THEN 3 ELSE IF HasGRPC(s) THEN 2 ELSE 1

\* telemetry.Setup is two steps: logkit is installed first, and only a Setup
\* that succeeds hands its flush to the deferred Shutdown.
Acquired(r) == IF r \in Closable \cup {"logkit"} THEN held \cup {r} ELSE held

\* What one deferred call closes.  Provider.Shutdown flushes logkit first.
Closes(r) == IF r = "telemetry" THEN {"telemetry", "logkit"} ELSE {r}

Stores == {"postgres", "valkey", "clients", "store"}

\* A handler finds what it was given open.
StoresOpen == \A r \in Stores : (\E i \in DOMAIN Plan[svc] : Plan[svc][i] = r) => r \in held

-----------------------------------------------------------------------------
(* Starting *)

LifecycleInit ==
    /\ svc \in Services
    /\ phase = "setup"
    /\ step = 1
    /\ deferred = <<>>
    /\ held = {}
    /\ grpc = "start"
    /\ http = "start"
    /\ errCh = 0
    /\ signalled = FALSE
    /\ cause = "none"
    /\ task = "none"
    /\ stage = [r \in Requests |-> "idle"]

\* The next dependency is there.
Acquire ==
    /\ phase = "setup"
    /\ step <= Len(Plan[svc])
    /\ LET r == Plan[svc][step] IN
       /\ held' = Acquired(r)
       /\ deferred' = IF r \in Closable THEN <<r>> \o deferred ELSE deferred
       /\ task' = IF r \in Background THEN "running" ELSE task
    /\ step' = step + 1
    /\ UNCHANGED <<svc, phase, grpc, http, errCh, signalled, cause, stage>>

\* The next dependency is not: Run returns the error through its deferred calls.
SetupFails ==
    /\ phase = "setup"
    /\ step <= Len(Plan[svc])
    /\ Plan[svc][step] \notin Infallible
    /\ phase' = "closing"
    /\ cause' = "setup"
    /\ UNCHANGED <<svc, step, deferred, held, grpc, http, errCh, signalled, task, stage>>

\* Everything is there: the serving goroutines are started, Run waits.
StartServing ==
    /\ phase = "setup"
    /\ step > Len(Plan[svc])
    /\ phase' = "serving"
    /\ grpc' = IF HasGRPC(svc) THEN "start" ELSE "ended"
    /\ UNCHANGED <<svc, step, deferred, held, http, errCh, signalled, cause, task, stage>>

Started == phase \notin {"setup", "exited"} /\ cause # "setup"

GRPCStopped == phase \in {"draining", "shutdown", "closing"} /\ cause # "error"
HTTPStopped == phase \in {"shutdown", "closing"} /\ cause # "error"

\* grpcServer.Serve: serves until it fails or GracefulStop, which may come first.
GRPCServes ==
    /\ Started
    /\ \/ grpc = "start" /\ ~GRPCStopped /\ grpc' = "serving"
       \/ grpc \in {"start", "serving"} /\ GRPCStopped /\ grpc' = "sending"
       \/ grpc = "serving" /\ ~GRPCStopped /\ grpc' = "sending"
    /\ UNCHANGED <<svc, phase, step, deferred, held, http, errCh, signalled, cause, task, stage>>

\* httpServer.ListenAndServe, likewise; the address may be taken.
HTTPServes ==
    /\ Started
    /\ \/ http = "start" /\ ~HTTPStopped /\ http' \in {"serving", "sending"}
       \/ http \in {"start", "serving"} /\ HTTPStopped /\ http' = "sending"
    /\ UNCHANGED <<svc, phase, step, deferred, held, grpc, errCh, signalled, cause, task, stage>>

\* The goroutine's last send; in the errgroup its return value.
SendsErr ==
    /\ errCh < ErrChSize(svc)
    /\ \/ grpc = "sending" /\ grpc' = "ended" /\ UNCHANGED http
       \/ http = "sending" /\ http' = "ended" /\ UNCHANGED grpc
    /\ errCh' = errCh + 1
    /\ UNCHANGED <<svc, phase, step, deferred, held, signalled, cause, task, stage>>

-----------------------------------------------------------------------------
(* Stopping *)

\* SIGINT or SIGTERM cancels ctx, at any time.
Signal ==
    /\ ~signalled
    /\ phase # "exited"
    /\ signalled' = TRUE
    /\ UNCHANGED <<svc, phase, step, deferred, held, grpc, http, errCh, cause, task, stage>>

\* Mutant: Run waits for errCh alone and never sees ctx.Done.
StopOnSignalUnseen ==
    /\ phase = "serving"
    /\ signalled
    /\ errCh > 0
    /\ phase' = "draining"
    /\ cause' = "signal"
    /\ UNCHANGED <<svc, step, deferred, held, grpc, http, errCh, signalled, task, stage>>

\* The select sees ctx.Done: GracefulStop begins.
StopOnSignal ==
    /\ phase = "serving"
    /\ signalled
    /\ phase' = "draining"
    /\ cause' = "signal"
    /\ UNCHANGED <<svc, step, deferred, held, grpc, http, errCh, signalled, task, stage>>

\* The select sees an error: Run returns it.  In the errgroup it cancels gctx and
\* the shutdown watcher stops the servers instead.
StopOnError ==
    /\ phase = "serving"
    /\ errCh > 0
    /\ errCh' = errCh - 1
    /\ phase' = IF Grouped(svc) THEN "draining" ELSE "closing"
    /\ cause' = IF Grouped(svc) THEN "group" ELSE "error"
    /\ UNCHANGED <<svc, step, deferred, held, grpc, http, signalled, task, stage>>

InRPC == {r \in Requests : stage[r] \in {"rpc", "restRpc"}}
InREST == {r \in Requests : stage[r] \in {"rest", "restRpc"}}

\* Mutant: Stop in place of GracefulStop does not wait.
StopReturns == TRUE

\* GracefulStop waits for the RPCs under way, without a limit.
GracefulStopReturns == InRPC = {}

Drain ==
    /\ phase = "draining"
    /\ GracefulStopReturns
    /\ phase' = "shutdown"
    /\ UNCHANGED <<svc, step, deferred, held, grpc, http, errCh, signalled, cause, task, stage>>

\* httpServer.Shutdown returns when the requests under way have ended, or after
\* five seconds with an error; the errgroup also waits for its tasks.
ShutdownReturns ==
    /\ phase = "shutdown"
    /\ \/ InREST = {} /\ UNCHANGED cause
       \/ InREST # {} /\ cause' = "timeout"
    /\ Grouped(svc) => grpc \in {"sending", "ended"} /\ http \in {"sending", "ended"}
                       /\ task # "running"
    /\ phase' = "closing"
    /\ UNCHANGED <<svc, step, deferred, held, grpc, http, errCh, signalled, task, stage>>

\* The deferred calls, last in first out.
CloseNext ==
    /\ phase = "closing"
    /\ deferred # <<>>
    /\ held' = held \ Closes(Head(deferred))
    /\ deferred' = Tail(deferred)
    /\ UNCHANGED <<svc, phase, step, grpc, http, errCh, signalled, cause, task, stage>>

\* main returns, or log.Fatalf: whatever still runs is cut short.
Exit ==
    /\ phase = "closing"
    /\ deferred = <<>>
    /\ phase' = "exited"
    /\ grpc' = "ended"
    /\ http' = "ended"
    /\ task' = IF task = "running" THEN "cut" ELSE task
    /\ stage' = [r \in Requests |->
                    IF r \in InRPC THEN "cut"
                    ELSE IF r \in InREST THEN "dropped" ELSE stage[r]]
    /\ UNCHANGED <<svc, step, deferred, held, errCh, signalled, cause>>

-----------------------------------------------------------------------------
(* What runs meanwhile *)

\* A request arrives at the gRPC port, or at the HTTP port.
Arrive(r) ==
    /\ stage[r] = "idle"
    /\ \/ grpc = "serving" /\ ~GRPCStopped /\ stage' = [stage EXCEPT ![r] = "rpc"]
       \/ http = "serving" /\ ~HTTPStopped /\ stage' = [stage EXCEPT ![r] = "rest"]
    /\ UNCHANGED <<svc, phase, step, deferred, held, grpc, http, errCh, signalled, cause, task>>

\* The REST handler dials the service's own gRPC server, which may have stopped
\* first; a handler of the gateway or the log server does its work itself.
Forward(r) ==
    /\ stage[r] = "rest"
    /\ stage' = [stage EXCEPT ![r] =
           IF ~HasGRPC(svc) THEN IF StoresOpen THEN "done" ELSE "broken"
           ELSE IF grpc = "serving" /\ ~GRPCStopped THEN "restRpc" ELSE "refused"]
    /\ UNCHANGED <<svc, phase, step, deferred, held, grpc, http, errCh, signalled, cause, task>>

\* The RPC uses its stores and returns.
Handle(r) ==
    /\ r \in InRPC
    /\ stage' = [stage EXCEPT ![r] = IF StoresOpen THEN "done" ELSE "broken"]
    /\ UNCHANGED <<svc, phase, step, deferred, held, grpc, http, errCh, signalled, cause, task>>

\* The background task sees its context done and returns, or is at its store when
\* that is closed.  The errgroup's context is done on an error too.
TaskEnds ==
    /\ task = "running"
    /\ \/ (signalled \/ cause = "group") /\ task' = "ended"
       \/ ~StoresOpen /\ phase = "closing" /\ task' = "broken"
    /\ UNCHANGED <<svc, phase, step, deferred, held, grpc, http, errCh, signalled, cause, stage>>

\* A dispatcher or consumer returns an error to the errgroup.
TaskFails ==
    /\ Grouped(svc)
    /\ phase = "serving"
    /\ task = "running"
    /\ task' = "ended"
    /\ errCh' = errCh + 1
    /\ UNCHANGED <<svc, phase, step, deferred, held, grpc, http, signalled, cause, stage>>

-----------------------------------------------------------------------------
(* Specification *)

Own ==
    \/ Acquire \/ SetupFails \/ StartServing
    \/ StopOnSignal \/ StopOnError \/ Drain \/ ShutdownReturns \/ CloseNext \/ Exit

LifecycleNext ==
    \/ Own \/ GRPCServes \/ HTTPServes \/ SendsErr \/ Signal \/ TaskEnds \/ TaskFails
    \/ \E r \in Requests : Arrive(r) \/ Forward(r) \/ Handle(r)

\* Run's own steps and the goroutines keep going, a handler and a task whose
\* context is done return; nobody has to send a request or a signal, and the
\* HTTP server need not fail.
LifecycleFairness ==
    /\ WF_lifecycleVars(Own)
    /\ WF_lifecycleVars(SendsErr)
    /\ WF_lifecycleVars(GRPCServes /\ GRPCStopped)
    /\ WF_lifecycleVars(HTTPServes /\ HTTPStopped)
    /\ WF_lifecycleVars(TaskEnds)
    /\ \A r \in Requests : WF_lifecycleVars(Forward(r) \/ Handle(r))

LifecycleSpec == LifecycleInit /\ [][LifecycleNext]_lifecycleVars /\ LifecycleFairness

-----------------------------------------------------------------------------
(* Properties *)

LifecycleTypeOK ==
    /\ svc \in DOMAIN Plan
    /\ phase \in {"setup", "serving", "draining", "shutdown", "closing", "exited"}
    /\ step \in 1..(Len(Plan[svc]) + 1)
    /\ held \subseteq Closable \cup {"logkit"}
    /\ errCh \in 0..ErrChSize(svc)
    /\ task \in {"none", "running", "ended", "broken", "cut"}
    /\ stage \in [Requests -> {"idle", "rpc", "rest", "restRpc", "done", "refused",
                               "broken", "cut", "dropped"}]

\* An orderly stop harms no RPC: one that a handler had begun when the signal
\* came (or, in Notification, when a part of the service failed) finds its stores
\* open and returns.  Only Run's error branch closes them under a handler, and,
\* without a gRPC server of its own, a Shutdown that ran out of time.
GracefulDrains ==
    \A r \in Requests :
        stage[r] \in {"broken", "cut"} =>
            cause = "error" \/ (cause = "timeout" /\ ~HasGRPC(svc))

\* Whichever step of Run fails and however it is stopped, what it acquired is
\* released when the process ends; only a telemetry.Setup that fails half way
\* leaves logkit unflushed.
AtExitReleased ==
    phase = "exited" => held \subseteq (IF step = 2 THEN {"logkit"} ELSE {})

\* The tasks of Notification never meet a closed store, whatever fails; the
\* worker of Surprise and the pruner may.
TasksOutlived == task \in {"broken", "cut"} => ~Grouped(svc)

\* A stop is safe: the process is in one of its states, errCh never holds more than
\* its capacity, RPCs and tasks keep their stores, and all is released.
LifecycleSafe == LifecycleTypeOK /\ GracefulDrains /\ AtExitReleased /\ TasksOutlived

\* A signal ends the process: no handler, task or full errCh holds Run up.
StopsOnSignal == signalled ~> phase = "exited"
=============================================================================
