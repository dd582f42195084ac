------------------------------- MODULE Outbox -------------------------------
(***************************************************************************)
(* The Notification service: the bus consumer that writes one outbox row   *)
(* per logical event, the dispatchers that claim rows under a lease and    *)
(* push them to the user's devices, and the device registry.               *)
(*                                                                         *)
(* An event is named by its dedupe_key.  A row's next_attempt_at is kept   *)
(* relative to the clock, as the ticks left until the row is due, so that  *)
(* time needs no bound: Tick brings every row one tick nearer.             *)
(*                                                                         *)
(* A dispatcher is one process running Dispatcher.Run, that is, one sweep  *)
(* at a time.  Every store call and every push is a step of its own.       *)
(***************************************************************************)
EXTENDS Naturals, FiniteSets

CONSTANTS
    Events,       \* logical notifications, by dedupe_key
    Users,
    Target,       \* the user of each event
    Devices,      \* push tokens
    Dispatchers,  \* notification processes
    None,         \* no event, no user
    Lease,        \* DispatcherConfig.Lease, in ticks
    BaseBackoff,  \* DispatcherConfig.BaseBackoff, in ticks
    MaxAttempts,  \* DispatcherConfig.MaxAttempts
    Batch,        \* DispatcherConfig.Batch
    SlowSweeps,   \* may a sweep outlast the lease it took?
    MaxFaults     \* bound on crashes and store errors

ASSUME OutboxConstants ==
    /\ Target \in [Events -> Users]
    /\ None \notin Events \cup Users
    /\ Lease \in Nat \ {0}
    /\ BaseBackoff \in Nat \ {0}
    /\ MaxAttempts \in Nat \ {0}
    /\ Batch \in Nat \ {0}
    /\ SlowSweeps \in BOOLEAN
    /\ MaxFaults \in Nat

VARIABLES
    stream,     \* events published and not yet acked
    toAck,      \* events whose handler has committed and not yet acked
    status,     \* notifications.status of each event's row, "none" if no row
    attempts,   \* notifications.attempts
    wait,       \* notifications.next_attempt_at - now, 0 when due
    owner,      \* devices.user_id of each token, None if never registered
    active,     \* tokens whose device row is active
    claimed,    \* rows each dispatcher's sweep has claimed and not finished
    snapshot,   \* the attempts the claim returned for each of them
    cur,        \* the row each dispatcher is dispatching
    todo,       \* devices it has still to push to
    transient,  \* dispatch's local flag: some push failed transiently
    resolved,   \* history: the devices the row's last dispatch resolved
    settled,    \* history: devices that got each event or turned out dead
    faults      \* crashes and store errors so far

bus       == <<stream, toAck>>
rows      == <<status, attempts, wait>>
registry  == <<owner, active>>
sweep     == <<claimed, snapshot, cur, todo, transient>>
history   == <<resolved, settled>>
vars      == <<stream, toAck, status, attempts, wait, owner, active, claimed,
               snapshot, cur, todo, transient, resolved, settled, faults>>

Final == {"sent", "failed"}

TypeOK ==
    /\ stream \subseteq Events
    /\ toAck \subseteq Events
    /\ status \in [Events -> {"none", "pending"} \cup Final]
    /\ attempts \in [Events -> 0..(MaxAttempts - 1)]
    /\ wait \in [Events -> Nat]
    /\ owner \in [Devices -> Users \cup {None}]
    /\ active \subseteq Devices
    /\ claimed \in [Dispatchers -> SUBSET Events]
    /\ snapshot \in [Dispatchers -> [Events -> 0..(MaxAttempts - 1)]]
    /\ cur \in [Dispatchers -> Events \cup {None}]
    /\ todo \in [Dispatchers -> SUBSET Devices]
    /\ transient \in [Dispatchers -> BOOLEAN]
    /\ resolved \in [Events -> SUBSET Devices]
    /\ settled \in [Events -> SUBSET Devices]
    /\ faults \in Nat

\* A crash or a store error, of which there are at most MaxFaults.
Fault ==
    /\ faults < MaxFaults
    /\ faults' = faults + 1

-----------------------------------------------------------------------------
(* The bus and its consumer *)

\* A producer publishes the event, for the first time or again.
Publish(e) ==
    /\ e \notin stream
    /\ stream' = stream \cup {e}
    /\ UNCHANGED <<toAck, rows, registry, sweep, history, faults>>

\* Mutant: ON CONFLICT DO UPDATE, a redelivered event revives its row.
EnqueueOutboxUpserts(e) ==
    /\ status' = [status EXCEPT ![e] = "pending"]
    /\ attempts' = [attempts EXCEPT ![e] = 0]
    /\ wait' = [wait EXCEPT ![e] = 0]

\* INSERT ... ON CONFLICT (dedupe_key) DO NOTHING; the new row is due at once.
EnqueueOutbox(e) ==
    IF status[e] = "none"
    THEN /\ status' = [status EXCEPT ![e] = "pending"]
         /\ attempts' = [attempts EXCEPT ![e] = 0]
         /\ wait' = [wait EXCEPT ![e] = 0]
    ELSE UNCHANGED rows

\* Mutant: the event is acked before the row is committed.
HandleAcksFirst(e) ==
    /\ e \in stream
    /\ e \notin toAck
    /\ stream' = stream \ {e}
    /\ toAck' = toAck \cup {e}
    /\ UNCHANGED <<rows, registry, sweep, history, faults>>

\* HandlePollCompleted / HandleIdeasReady on one delivery, up to the commit.
Handle(e) ==
    /\ e \in stream
    /\ e \notin toAck
    /\ EnqueueOutbox(e)
    /\ toAck' = toAck \cup {e}
    /\ UNCHANGED <<stream, registry, sweep, history, faults>>

\* Process acks after a nil handler error.
Ack(e) ==
    /\ e \in toAck
    /\ stream' = stream \ {e}
    /\ toAck' = toAck \ {e}
    /\ UNCHANGED <<rows, registry, sweep, history, faults>>

\* The insert fails and Process naks: the event stays in the stream.
HandleFails(e) ==
    /\ e \in stream
    /\ e \notin toAck
    /\ Fault
    /\ UNCHANGED <<bus, rows, registry, sweep, history>>

\* The consumer dies between commit and ack: every such event is redelivered.
ConsumerCrash ==
    /\ toAck # {}
    /\ Fault
    /\ toAck' = {}
    /\ UNCHANGED <<stream, rows, registry, sweep, history>>

-----------------------------------------------------------------------------
(* The device registry *)

\* RegisterDevice: upsert by token, which also moves the token to the caller.
RegisterDevice(v, u) ==
    /\ owner' = [owner EXCEPT ![v] = u]
    /\ active' = active \cup {v}
    /\ UNCHANGED <<bus, rows, sweep, history, faults>>

\* DeactivateDeviceByToken.
Deactivate(v) == active' = active \ {v}

UnregisterDevice(v) ==
    /\ v \in active
    /\ Deactivate(v)
    /\ UNCHANGED <<bus, rows, owner, sweep, history, faults>>

\* ActiveDevicesForUser.
ActiveDevicesForUser(u) == {v \in active : owner[v] = u}

-----------------------------------------------------------------------------
(* The dispatcher *)

\* Rows ClaimPending may take.
Due == {e \in Events : status[e] = "pending" /\ wait[e] = 0}

\* Mutant: the claim does not push next_attempt_at forward.
LeasedNot(S) == wait

\* The claim's SET next_attempt_at = now + lease.
Leased(S) == [e \in Events |-> IF e \in S THEN Lease ELSE wait[e]]

\* One tick of the sweep loop that finds work: claim up to Batch due rows.  Which
\* ones, when there are more, is left open (the code takes the longest overdue).
\* A claim that skips rows another transaction has locked is one that comes after
\* that transaction, and a claim whose answer is lost is one followed by a crash.
ClaimPending(d) ==
    /\ claimed[d] = {}
    /\ Due # {}
    /\ \E S \in SUBSET Due :
        /\ Cardinality(S) = IF Cardinality(Due) < Batch THEN Cardinality(Due) ELSE Batch
        /\ claimed' = [claimed EXCEPT ![d] = S]
        /\ snapshot' = [snapshot EXCEPT ![d] = [e \in Events |-> IF e \in S THEN attempts[e] ELSE 0]]
        /\ wait' = Leased(S)
    /\ UNCHANGED <<bus, status, attempts, registry, cur, todo, transient, history, faults>>

\* dispatch begins: resolve the target's devices.
BeginDispatch(d, e) ==
    /\ e \in claimed[d]
    /\ cur[d] = None
    /\ cur' = [cur EXCEPT ![d] = e]
    /\ todo' = [todo EXCEPT ![d] = ActiveDevicesForUser(Target[e])]
    /\ transient' = [transient EXCEPT ![d] = FALSE]
    /\ resolved' = [resolved EXCEPT ![e] = ActiveDevicesForUser(Target[e])]
    /\ UNCHANGED <<bus, rows, registry, claimed, snapshot, settled, faults>>

\* The lookup of the devices fails; dispatch goes straight to retry.
BeginDispatchFails(d, e) ==
    /\ e \in claimed[d]
    /\ cur[d] = None
    /\ Fault
    /\ cur' = [cur EXCEPT ![d] = e]
    /\ todo' = [todo EXCEPT ![d] = {}]
    /\ transient' = [transient EXCEPT ![d] = TRUE]
    /\ UNCHANGED <<bus, rows, registry, claimed, snapshot, history>>

\* The provider accepts the push.
PushDelivered(d, v) ==
    /\ v \in todo[d]
    /\ todo' = [todo EXCEPT ![d] = @ \ {v}]
    /\ settled' = [settled EXCEPT ![cur[d]] = @ \cup {v}]
    /\ UNCHANGED <<bus, rows, registry, claimed, snapshot, cur, transient, resolved, faults>>

\* The provider reports a dead token: deactivate it, keep the row going.
PushInvalidToken(d, v) ==
    /\ v \in todo[d]
    /\ todo' = [todo EXCEPT ![d] = @ \ {v}]
    /\ settled' = [settled EXCEPT ![cur[d]] = @ \cup {v}]
    /\ \/ Deactivate(v) /\ UNCHANGED faults
       \/ Fault /\ UNCHANGED active
    /\ UNCHANGED <<bus, rows, owner, claimed, snapshot, cur, transient, resolved>>

\* Mutant: a transient failure is remembered only for the last device.
PushTransientForgotten(d, v) ==
    /\ v \in todo[d]
    /\ todo' = [todo EXCEPT ![d] = @ \ {v}]
    /\ transient' = [transient EXCEPT ![d] = (todo[d] = {v})]
    /\ UNCHANGED <<bus, rows, registry, claimed, snapshot, cur, history, faults>>

\* A transient push failure, a missing provider included: flag the row.
PushTransient(d, v) ==
    /\ v \in todo[d]
    /\ todo' = [todo EXCEPT ![d] = @ \ {v}]
    /\ transient' = [transient EXCEPT ![d] = TRUE]
    /\ UNCHANGED <<bus, rows, registry, claimed, snapshot, cur, history, faults>>

\* BaseBackoff * 2^(attempts-1), the exponent capped at 16.
Backoff(n) ==
    LET shift == IF n > 17 THEN 16 ELSE n - 1 IN BaseBackoff * 2^shift

\* retry: give up after MaxAttempts, else reschedule with the claim's attempts + 1.
Retry(d, e) ==
    LET n == snapshot[d][e] + 1 IN
    IF n >= MaxAttempts
    THEN /\ status' = [status EXCEPT ![e] = "failed"]
         /\ UNCHANGED <<attempts, wait>>
    ELSE /\ status' = [status EXCEPT ![e] = "pending"]
         /\ attempts' = [attempts EXCEPT ![e] = n]
         /\ wait' = [wait EXCEPT ![e] = Backoff(n)]

MarkSent(e) ==
    /\ status' = [status EXCEPT ![e] = "sent"]
    /\ UNCHANGED <<attempts, wait>>

\* The sweep moves on to its next row.
NextRow(d) ==
    /\ claimed' = [claimed EXCEPT ![d] = @ \ {cur[d]}]
    /\ cur' = [cur EXCEPT ![d] = None]
    /\ transient' = [transient EXCEPT ![d] = FALSE]
    /\ UNCHANGED <<snapshot, todo>>

\* Every device was tried: finalize the row and go on.
EndDispatch(d) ==
    /\ cur[d] # None
    /\ todo[d] = {}
    /\ IF transient[d] THEN Retry(d, cur[d]) ELSE MarkSent(cur[d])
    /\ NextRow(d)
    /\ UNCHANGED <<bus, registry, history, faults>>

\* The finalizing write fails: RunOnce logs it and goes on, the row stays leased.
EndDispatchFails(d) ==
    /\ cur[d] # None
    /\ todo[d] = {}
    /\ Fault
    /\ NextRow(d)
    /\ UNCHANGED <<bus, rows, registry, history>>

\* The process dies mid-sweep; its claims are left to the lease.
DispatcherCrash(d) ==
    /\ claimed[d] # {}
    /\ Fault
    /\ claimed' = [claimed EXCEPT ![d] = {}]
    /\ cur' = [cur EXCEPT ![d] = None]
    /\ todo' = [todo EXCEPT ![d] = {}]
    /\ transient' = [transient EXCEPT ![d] = FALSE]
    /\ UNCHANGED <<bus, rows, registry, snapshot, history>>

-----------------------------------------------------------------------------
(* Time *)

Held == UNION {claimed[d] : d \in Dispatchers}

\* The clock advances while some pending row is not due yet.  Unless sweeps may
\* be slow, it does not use up the lease of a row some sweep still holds.
Tick ==
    /\ \E e \in Events : status[e] = "pending" /\ wait[e] > 0
    /\ SlowSweeps \/ \A e \in Held : wait[e] > 1
    /\ wait' = [e \in Events |-> IF wait[e] > 0 THEN wait[e] - 1 ELSE 0]
    /\ UNCHANGED <<bus, status, attempts, registry, sweep, history, faults>>

-----------------------------------------------------------------------------
(* Specification *)

Init ==
    /\ stream = {}
    /\ toAck = {}
    /\ status = [e \in Events |-> "none"]
    /\ attempts = [e \in Events |-> 0]
    /\ wait = [e \in Events |-> 0]
    /\ owner = [v \in Devices |-> None]
    /\ active = {}
    /\ claimed = [d \in Dispatchers |-> {}]
    /\ snapshot = [d \in Dispatchers |-> [e \in Events |-> 0]]
    /\ cur = [d \in Dispatchers |-> None]
    /\ todo = [d \in Dispatchers |-> {}]
    /\ transient = [d \in Dispatchers |-> FALSE]
    /\ resolved = [e \in Events |-> {}]
    /\ settled = [e \in Events |-> {}]
    /\ faults = 0

PushStep(d) == \E v \in Devices :
    PushDelivered(d, v) \/ PushInvalidToken(d, v) \/ PushTransient(d, v)

DispatchStep(d) ==
    \/ \E e \in Events : BeginDispatch(d, e)
    \/ PushStep(d)
    \/ EndDispatch(d)

Next ==
    \/ \E e \in Events : Publish(e) \/ Handle(e) \/ Ack(e) \/ HandleFails(e)
    \/ ConsumerCrash
    \/ \E v \in Devices : UnregisterDevice(v) \/ \E u \in Users : RegisterDevice(v, u)
    \/ \E d \in Dispatchers :
        \/ ClaimPending(d)
        \/ DispatchStep(d)
        \/ \E e \in Events : BeginDispatchFails(d, e)
        \/ EndDispatchFails(d)
        \/ DispatcherCrash(d)
    \/ Tick

\* The bus redelivers, the ticker sweeps, the push clients time out and the clock
\* runs.  Producers and users owe nothing.
Fairness ==
    /\ \A e \in Events : WF_vars(Handle(e)) /\ WF_vars(Ack(e))
    /\ \A d \in Dispatchers : WF_vars(ClaimPending(d)) /\ WF_vars(DispatchStep(d))
    /\ WF_vars(Tick)

Spec == Init /\ [][Next]_vars /\ Fairness

-----------------------------------------------------------------------------
(* Properties *)

\* "The atomic lease in Store.ClaimPending means a single row is worked by one
\* sweep at a time": no row is in the hands of two dispatchers.
OneSweepPerRow ==
    \A d1, d2 \in Dispatchers : d1 # d2 => claimed[d1] \cap claimed[d2] = {}

\* The rows and the sweeps agree: attempts stay below MaxAttempts while a row is
\* pending, and no row is in two sweeps.
OutboxConsistent == TypeOK /\ OneSweepPerRow

\* A row only moves forward: sent and failed are final, neither a redelivered
\* event nor a late finalizing write reopens it, and its attempts never go back.
RowsOnlyAdvance ==
    [][\A e \in Events :
        /\ status[e] \in Final => status'[e] = status[e]
        /\ status[e] # "none" => status'[e] # "none" /\ attempts'[e] >= attempts[e]]_vars

\* A row is marked sent only when every device its dispatch resolved has got the
\* push or has been reported dead, over however many attempts that took.
SentMeansSettled ==
    \A e \in Events : status[e] = "sent" => resolved[e] \subseteq settled[e]

\* A published event is never lost: its row is eventually sent, or failed after
\* MaxAttempts, whatever crashes and store errors happened on the way.
NeverLost == \A e \in Events : (e \in stream) ~> (status[e] \in Final)
=============================================================================
