---------------------------- MODULE OutboxProofs ----------------------------
(***************************************************************************)
(* Proofs about Outbox for any number of events, devices and dispatchers:  *)
(* types, and, as long as no sweep outlasts its lease, the exclusiveness   *)
(* of claims and the monotonicity of rows.                                 *)
(***************************************************************************)
EXTENDS Outbox, TLAPS

-----------------------------------------------------------------------------
(* Type correctness *)

\* The exponent of the backoff is capped, so its powers of two are these.
LEMMA CappedPower ==
    ASSUME NEW k \in 0..16
    PROVE  2^k \in Nat
<1>1. k \in {0, 1, 2, 3, 4, 5, 6, 7, 8, 9, 10, 11, 12, 13, 14, 15, 16}
  OBVIOUS
<1>2. /\ 2^0 \in Nat /\ 2^1 \in Nat /\ 2^2 \in Nat /\ 2^3 \in Nat /\ 2^4 \in Nat
      /\ 2^5 \in Nat /\ 2^6 \in Nat /\ 2^7 \in Nat /\ 2^8 \in Nat /\ 2^9 \in Nat
      /\ 2^10 \in Nat /\ 2^11 \in Nat /\ 2^12 \in Nat /\ 2^13 \in Nat /\ 2^14 \in Nat
      /\ 2^15 \in Nat /\ 2^16 \in Nat
  OBVIOUS
<1>. QED BY <1>1, <1>2, Zenon

\* The delay of a retry is a number of ticks.
LEMMA BackoffType ==
    ASSUME NEW n \in Nat \ {0}
    PROVE  Backoff(n) \in Nat
<1>. DEFINE shift == IF n > 17 THEN 16 ELSE n - 1
<1>1. shift \in 0..16
  OBVIOUS
<1>2. 2^shift \in Nat
  BY <1>1, CappedPower
<1>. HIDE DEF shift
<1>3. BaseBackoff * 2^shift \in Nat
  BY <1>2, OutboxConstants
<1>. QED BY <1>3 DEF Backoff, shift

\* The finalizing writes keep the types of the row.
LEMMA FinalizeTypes ==
    ASSUME TypeOK, NEW d \in Dispatchers, NEW e \in Events, Retry(d, e) \/ MarkSent(e)
    PROVE  /\ status' \in [Events -> {"none", "pending"} \cup Final]
           /\ attempts' \in [Events -> 0..(MaxAttempts - 1)]
           /\ wait' \in [Events -> Nat]
<1>. DEFINE n == snapshot[d][e] + 1
<1>1. n \in Nat \ {0}
  BY OutboxConstants DEF TypeOK
<1>2. Backoff(n) \in Nat
  BY <1>1, BackoffType
<1>3. CASE MarkSent(e)
  BY <1>3 DEF TypeOK, MarkSent, Final
<1>4. CASE Retry(d, e) /\ n >= MaxAttempts
  BY <1>4 DEF TypeOK, Retry, Final
<1>5. CASE Retry(d, e) /\ ~(n >= MaxAttempts)
  <2>1. n \in 0..(MaxAttempts - 1)
    BY <1>1, <1>5, OutboxConstants
  <2>2. /\ status' = [status EXCEPT ![e] = "pending"]
        /\ attempts' = [attempts EXCEPT ![e] = n]
        /\ wait' = [wait EXCEPT ![e] = Backoff(n)]
    BY <1>5 DEF Retry
  <2>. HIDE DEF n
  <2>. QED BY <1>2, <2>1, <2>2 DEF TypeOK
<1>. QED BY <1>3, <1>4, <1>5

\* The bus, the registry and the clock keep the types.
LEMMA EnvironmentTypes ==
    ASSUME TypeOK,
           \/ \E e \in Events : Publish(e) \/ Handle(e) \/ Ack(e) \/ HandleFails(e)
           \/ ConsumerCrash
           \/ \E v \in Devices : UnregisterDevice(v) \/ \E u \in Users : RegisterDevice(v, u)
           \/ Tick
    PROVE  TypeOK'
<1>. USE DEF TypeOK, bus, rows, registry, sweep, history
<1>1. ASSUME NEW e \in Events, Publish(e) \/ Handle(e) \/ Ack(e) \/ HandleFails(e)
      PROVE  TypeOK'
  <2>1. CASE Publish(e)
    BY <2>1 DEF Publish
  <2>2. CASE Handle(e)
    <3>1. /\ status' \in [Events -> {"none", "pending"} \cup Final]
          /\ attempts' \in [Events -> 0..(MaxAttempts - 1)]
          /\ wait' \in [Events -> Nat]
      <4>1. CASE UNCHANGED rows
        BY <4>1
      <4>2. CASE /\ status' = [status EXCEPT ![e] = "pending"]
                 /\ attempts' = [attempts EXCEPT ![e] = 0]
                 /\ wait' = [wait EXCEPT ![e] = 0]
        BY <4>2, OutboxConstants
      <4>. QED BY <2>2, <4>1, <4>2 DEF Handle, EnqueueOutbox
    <3>. QED BY <2>2, <3>1 DEF Handle
  <2>3. CASE Ack(e)
    BY <2>3 DEF Ack
  <2>4. CASE HandleFails(e)
    BY <2>4 DEF HandleFails, Fault
  <2>. QED BY <1>1, <2>1, <2>2, <2>3, <2>4
<1>2. CASE ConsumerCrash
  BY <1>2 DEF ConsumerCrash, Fault
<1>3. ASSUME NEW v \in Devices, UnregisterDevice(v) \/ \E u \in Users : RegisterDevice(v, u)
      PROVE  TypeOK'
  BY <1>3 DEF UnregisterDevice, RegisterDevice, Deactivate
<1>4. CASE Tick
  BY <1>4 DEF Tick
<1>. QED BY <1>1, <1>2, <1>3, <1>4

\* A dispatcher keeps the types.
LEMMA DispatcherTypes ==
    ASSUME TypeOK, NEW d \in Dispatchers,
           \/ ClaimPending(d) \/ DispatchStep(d)
           \/ \E e \in Events : BeginDispatchFails(d, e)
           \/ EndDispatchFails(d) \/ DispatcherCrash(d)
    PROVE  TypeOK'
<1>. USE OutboxConstants
<1>. USE DEF TypeOK, bus, rows, registry, sweep, history
<1>1. CASE ClaimPending(d)
  <2>1. PICK S \in SUBSET Due :
          /\ claimed' = [claimed EXCEPT ![d] = S]
          /\ snapshot' = [snapshot EXCEPT ![d] = [e \in Events |-> IF e \in S THEN attempts[e] ELSE 0]]
          /\ wait' = Leased(S)
    BY <1>1 DEF ClaimPending
  <2>2. wait' \in [Events -> Nat]
    BY <2>1 DEF Leased
  <2>3. claimed' \in [Dispatchers -> SUBSET Events]
    BY <2>1 DEF Due
  <2>4. [e \in Events |-> IF e \in S THEN attempts[e] ELSE 0] \in [Events -> 0..(MaxAttempts - 1)]
    OBVIOUS
  <2>5. snapshot' \in [Dispatchers -> [Events -> 0..(MaxAttempts - 1)]]
    BY <2>1, <2>4
  <2>. QED BY <1>1, <2>2, <2>3, <2>5 DEF ClaimPending
<1>2. ASSUME NEW e \in Events, BeginDispatch(d, e)
      PROVE  TypeOK'
  BY <1>2 DEF BeginDispatch, ActiveDevicesForUser
<1>3. ASSUME NEW v \in Devices, PushDelivered(d, v) \/ PushInvalidToken(d, v) \/ PushTransient(d, v)
      PROVE  TypeOK'
  <2>1. CASE PushDelivered(d, v)
    BY <2>1 DEF PushDelivered
  <2>2. CASE PushInvalidToken(d, v)
    <3>1. active' \subseteq Devices /\ faults' \in Nat
      BY <2>2 DEF PushInvalidToken, Deactivate, Fault
    <3>. QED BY <2>2, <3>1 DEF PushInvalidToken
  <2>3. CASE PushTransient(d, v)
    BY <2>3 DEF PushTransient
  <2>. QED BY <1>3, <2>1, <2>2, <2>3
<1>4. CASE EndDispatch(d)
  <2>1. cur[d] \in Events
    BY <1>4 DEF EndDispatch
  <2>2. /\ status' \in [Events -> {"none", "pending"} \cup Final]
        /\ attempts' \in [Events -> 0..(MaxAttempts - 1)]
        /\ wait' \in [Events -> Nat]
    BY <1>4, <2>1, FinalizeTypes DEF EndDispatch
  <2>. QED BY <1>4, <2>2 DEF EndDispatch, NextRow
<1>5. ASSUME NEW e \in Events, BeginDispatchFails(d, e)
      PROVE  TypeOK'
  BY <1>5 DEF BeginDispatchFails, Fault
<1>6. CASE EndDispatchFails(d)
  BY <1>6 DEF EndDispatchFails, NextRow, Fault
<1>7. CASE DispatcherCrash(d)
  BY <1>7 DEF DispatcherCrash, Fault
<1>. QED BY <1>1, <1>2, <1>3, <1>4, <1>5, <1>6, <1>7 DEF DispatchStep, PushStep

\* The Notification service keeps its types; in particular a row's attempts stay
\* below MaxAttempts, which is where retry gives up.
THEOREM OutboxTypes == Spec => []TypeOK
<1>1. Init => TypeOK
  BY OutboxConstants DEF Init, TypeOK, Final
<1>2. TypeOK /\ [Next]_vars => TypeOK'
  <2>1. TypeOK /\ UNCHANGED vars => TypeOK'
    BY DEF TypeOK, vars
  <2>2. TypeOK /\ Next => TypeOK'
    BY EnvironmentTypes, DispatcherTypes DEF Next
  <2>. QED BY <2>1, <2>2
<1>. QED BY <1>1, <1>2, PTL DEF Spec

-----------------------------------------------------------------------------
(* Leases *)

\* The row a dispatcher works on is one it has claimed.
CurClaimed == \A d \in Dispatchers : cur[d] # None => cur[d] \in claimed[d]

\* A claimed row is still pending under its lease, with the attempts the claim
\* returned: nobody else has written to it.
HeldUntouched == \A d \in Dispatchers : \A e \in claimed[d] :
    status[e] = "pending" /\ wait[e] > 0 /\ snapshot[d][e] = attempts[e]

\* The inductive invariant behind the exclusiveness of claims.
LeaseInv == CurClaimed /\ HeldUntouched /\ OneSweepPerRow

\* What a dispatcher's own step may do to the sweeps: other sweeps, and the rows
\* it does not finalize, are left alone, and its claims only shrink.
LeavesOthers(d) ==
    /\ \A x \in Dispatchers \ {d} :
        claimed'[x] = claimed[x] /\ snapshot'[x] = snapshot[x] /\ cur'[x] = cur[x]
    /\ claimed'[d] \subseteq claimed[d] /\ snapshot'[d] = snapshot[d]
    /\ cur'[d] # None => cur'[d] \in claimed'[d]

\* Steps that touch neither rows nor claims.
LEMMA QuietStep ==
    ASSUME TypeOK, LeaseInv, NEW d \in Dispatchers, LeavesOthers(d), UNCHANGED rows
    PROVE  LeaseInv'
<1>1. \A x \in Dispatchers : claimed'[x] \subseteq claimed[x] /\ snapshot'[x] = snapshot[x]
  BY DEF LeavesOthers
<1>2. CurClaimed'
  BY DEF LeaseInv, CurClaimed, LeavesOthers
<1>3. HeldUntouched'
  BY <1>1 DEF LeaseInv, HeldUntouched, rows
<1>4. OneSweepPerRow'
  BY <1>1 DEF LeaseInv, OneSweepPerRow
<1>. QED BY <1>2, <1>3, <1>4 DEF LeaseInv

\* Steps of the environment: a delivery inserts only where there is no row, and
\* the clock stops short of the lease of a row that a sweep still holds.
LEMMA EnvironmentKeepsLeases ==
    ASSUME ~SlowSweeps, TypeOK, LeaseInv,
           \/ \E e \in Events : Publish(e) \/ Handle(e) \/ Ack(e) \/ HandleFails(e)
           \/ ConsumerCrash
           \/ \E v \in Devices : UnregisterDevice(v) \/ \E u \in Users : RegisterDevice(v, u)
           \/ Tick
    PROVE  LeaseInv'
<1>. USE DEF LeaseInv, CurClaimed, HeldUntouched, OneSweepPerRow, rows, sweep
<1>1. CASE UNCHANGED <<rows, sweep>>
  BY <1>1
<1>2. ASSUME NEW e \in Events, Handle(e)
      PROVE  LeaseInv'
  <2>1. UNCHANGED sweep
    BY <1>2 DEF Handle
  <2>2. \A d \in Dispatchers : \A f \in claimed[d] :
          status'[f] = status[f] /\ wait'[f] = wait[f] /\ attempts'[f] = attempts[f]
    BY <1>2 DEF Handle, EnqueueOutbox, TypeOK
  <2>. QED BY <2>1, <2>2
<1>3. CASE Tick
  <2>1. \A d \in Dispatchers : \A e \in claimed[d] : wait[e] \in Nat /\ wait[e] > 1
    BY <1>3 DEF Tick, Held, TypeOK
  <2>2. \A d \in Dispatchers : \A e \in claimed[d] : wait'[e] > 0
    BY <1>3, <2>1 DEF Tick, TypeOK
  <2>. QED BY <1>3, <2>2 DEF Tick
<1>. QED BY <1>1, <1>2, <1>3
         DEF Publish, Ack, HandleFails, ConsumerCrash, UnregisterDevice, RegisterDevice

\* A claim takes due rows, which nobody holds, and puts them under its lease.
LEMMA ClaimKeepsLeases ==
    ASSUME TypeOK, LeaseInv, NEW d \in Dispatchers, ClaimPending(d)
    PROVE  LeaseInv'
<1>. USE OutboxConstants DEF TypeOK, LeaseInv
<1>1. PICK S \in SUBSET Due :
        /\ claimed' = [claimed EXCEPT ![d] = S]
        /\ snapshot' = [snapshot EXCEPT ![d] = [e \in Events |-> IF e \in S THEN attempts[e] ELSE 0]]
        /\ wait' = Leased(S)
  BY DEF ClaimPending
<1>2. \A x \in Dispatchers : S \cap claimed[x] = {}
  BY DEF Due, HeldUntouched
<1>3. cur[d] = None /\ UNCHANGED <<cur, status, attempts>>
  BY DEF ClaimPending, CurClaimed
<1>4. CurClaimed'
  BY <1>1, <1>3 DEF CurClaimed
<1>5. OneSweepPerRow'
  BY <1>1, <1>2 DEF OneSweepPerRow
<1>6. HeldUntouched'
  BY <1>1, <1>2, <1>3 DEF HeldUntouched, Leased, Due
<1>. QED BY <1>4, <1>5, <1>6

\* A finalizing write goes to a row that only this sweep holds, and it lets it go.
LEMMA EndDispatchKeepsLeases ==
    ASSUME TypeOK, LeaseInv, NEW d \in Dispatchers, EndDispatch(d)
    PROVE  LeaseInv'
<1>. USE DEF TypeOK, LeaseInv
<1>1. cur[d] \in Events /\ cur[d] \in claimed[d]
  BY DEF EndDispatch, CurClaimed
<1>2. \A e \in Events \ {cur[d]} :
        status'[e] = status[e] /\ wait'[e] = wait[e] /\ attempts'[e] = attempts[e]
  BY <1>1 DEF EndDispatch, Retry, MarkSent
<1>3. /\ claimed' = [claimed EXCEPT ![d] = @ \ {cur[d]}]
      /\ cur' = [cur EXCEPT ![d] = None]
      /\ UNCHANGED snapshot
  BY DEF EndDispatch, NextRow
<1>4. \A x \in Dispatchers : cur[d] \notin claimed'[x]
  BY <1>1, <1>3 DEF OneSweepPerRow
<1>5. HeldUntouched'
  BY <1>2, <1>3, <1>4 DEF HeldUntouched
<1>6. CurClaimed' /\ OneSweepPerRow'
  BY <1>3 DEF CurClaimed, OneSweepPerRow
<1>. QED BY <1>5, <1>6

\* The other steps of a dispatcher touch no row.
LEMMA DispatcherKeepsLeases ==
    ASSUME TypeOK, LeaseInv, NEW d \in Dispatchers,
           \/ DispatchStep(d) /\ ~EndDispatch(d)
           \/ \E e \in Events : BeginDispatchFails(d, e)
           \/ EndDispatchFails(d) \/ DispatcherCrash(d)
    PROVE  LeaseInv'
<1>1. LeavesOthers(d) /\ UNCHANGED rows
  <2>. USE DEF TypeOK, LeaseInv, CurClaimed, LeavesOthers
  <2>1. ASSUME NEW e \in Events, BeginDispatch(d, e) \/ BeginDispatchFails(d, e)
        PROVE  LeavesOthers(d) /\ UNCHANGED rows
    BY <2>1 DEF BeginDispatch, BeginDispatchFails
  <2>2. ASSUME NEW v \in Devices, PushDelivered(d, v) \/ PushInvalidToken(d, v) \/ PushTransient(d, v)
        PROVE  LeavesOthers(d) /\ UNCHANGED rows
    BY <2>2 DEF PushDelivered, PushInvalidToken, PushTransient
  <2>3. CASE EndDispatchFails(d)
    BY <2>3 DEF EndDispatchFails, NextRow
  <2>4. CASE DispatcherCrash(d)
    BY <2>4 DEF DispatcherCrash
  <2>. QED BY <2>1, <2>2, <2>3, <2>4 DEF DispatchStep, PushStep
<1>. QED BY <1>1, QuietStep

\* Every step keeps the lease invariant, as long as no sweep outlasts its lease.
LEMMA LeaseStep ==
    ASSUME ~SlowSweeps, TypeOK, LeaseInv, [Next]_vars
    PROVE  LeaseInv'
<1>1. CASE UNCHANGED vars
  BY <1>1 DEF vars, LeaseInv, CurClaimed, HeldUntouched, OneSweepPerRow
<1>2. CASE Next
  BY <1>2, EnvironmentKeepsLeases, ClaimKeepsLeases, EndDispatchKeepsLeases, DispatcherKeepsLeases
     DEF Next
<1>. QED BY <1>1, <1>2

\* The lease invariant holds throughout.
THEOREM LeasesHold ==
    ASSUME ~SlowSweeps
    PROVE  Spec => []LeaseInv
<1>1. Init => LeaseInv
  BY DEF Init, LeaseInv, CurClaimed, HeldUntouched, OneSweepPerRow
<1>2. TypeOK /\ LeaseInv /\ [Next]_vars => LeaseInv'
  BY LeaseStep
<1>. QED BY <1>1, <1>2, OutboxTypes, PTL DEF Spec

\* ClaimPending's lease: as long as sweeps finish within it, a row is worked by
\* one dispatcher at a time, however many processes sweep and crash.
THEOREM LeaseExclusion ==
    ASSUME ~SlowSweeps
    PROVE  Spec => []OneSweepPerRow
BY LeasesHold, PTL DEF LeaseInv

\* A step only moves rows forward.
LEMMA AdvanceStep ==
    ASSUME TypeOK, LeaseInv, [Next]_vars
    PROVE  \A e \in Events :
             /\ status[e] \in Final => status'[e] = status[e]
             /\ status[e] # "none" => status'[e] # "none" /\ attempts'[e] >= attempts[e]
<1>. USE OutboxConstants
<1>. DEFINE Advance == \A e \in Events :
             /\ status[e] \in Final => status'[e] = status[e]
             /\ status[e] # "none" => status'[e] # "none" /\ attempts'[e] >= attempts[e]
<1>1. CASE UNCHANGED <<status, attempts>>
  BY <1>1 DEF TypeOK, Final
<1>2. ASSUME NEW e \in Events, Handle(e)
      PROVE  Advance
  <2>1. CASE status[e] = "none"
    <3>1. /\ status' = [status EXCEPT ![e] = "pending"]
          /\ attempts' = [attempts EXCEPT ![e] = 0]
      BY <1>2, <2>1 DEF Handle, EnqueueOutbox
    <3>. QED BY <2>1, <3>1 DEF TypeOK, Final
  <2>2. CASE status[e] # "none"
    BY <1>1, <1>2, <2>2 DEF Handle, EnqueueOutbox, rows
  <2>. QED BY <2>1, <2>2
<1>3. ASSUME NEW d \in Dispatchers, EndDispatch(d)
      PROVE  Advance
  <2>1. /\ cur[d] \in Events /\ status[cur[d]] = "pending"
        /\ snapshot[d][cur[d]] = attempts[cur[d]]
    BY <1>3 DEF EndDispatch, TypeOK, LeaseInv, CurClaimed, HeldUntouched
  <2>. QED BY <1>3, <2>1 DEF EndDispatch, Retry, MarkSent, TypeOK, Final
<1>. QED BY <1>1, <1>2, <1>3
         DEF Next, Publish, Ack, HandleFails, ConsumerCrash, UnregisterDevice, RegisterDevice,
             ClaimPending, DispatchStep, BeginDispatch, PushStep, PushDelivered, PushInvalidToken,
             PushTransient, BeginDispatchFails, EndDispatchFails, DispatcherCrash, Tick, rows, vars

\* Sent and failed are final and attempts never go back, as long as sweeps finish
\* within their lease: no redelivery and no finalizing write reopens a row.
THEOREM RowsAdvance ==
    ASSUME ~SlowSweeps
    PROVE  Spec => RowsOnlyAdvance
<1>1. TypeOK /\ LeaseInv /\ [Next]_vars =>
        [\A e \in Events :
            /\ status[e] \in Final => status'[e] = status[e]
            /\ status[e] # "none" => status'[e] # "none" /\ attempts'[e] >= attempts[e]]_vars
  BY AdvanceStep
<1>. QED BY <1>1, OutboxTypes, LeasesHold, PTL DEF Spec, RowsOnlyAdvance

\* The rows and the sweeps agree as long as sweeps end within their lease.
THEOREM OutboxStaysConsistent ==
    ASSUME ~SlowSweeps
    PROVE  Spec => []OutboxConsistent
BY OutboxTypes, LeaseExclusion, PTL DEF OutboxConsistent

-----------------------------------------------------------------------------
(* What sent means *)

\* In a dispatch that has met no transient failure, every device that was resolved has got
\* the push, has been reported dead or is still to be tried.
PushedOrLeft ==
    \A d \in Dispatchers : cur[d] # None /\ ~transient[d] =>
        resolved[cur[d]] \subseteq settled[cur[d]] \cup todo[d]

\* Only a dispatcher's own step changes its dispatch, and nobody else's step can change
\* which devices the row it holds has resolved.
LEMMA OthersKeepPushed ==
    ASSUME TypeOK, LeaseInv, PushedOrLeft, NEW d \in Dispatchers,
           \A x \in Dispatchers \ {d} :
               cur'[x] = cur[x] /\ transient'[x] = transient[x] /\ todo'[x] = todo[x],
           \A e \in Events : settled[e] \subseteq settled'[e],
           \A e \in Events : resolved'[e] = resolved[e] \/ e \in claimed[d],
           cur'[d] # None /\ ~transient'[d] =>
               resolved'[cur'[d]] \subseteq settled'[cur'[d]] \cup todo'[d]
    PROVE  PushedOrLeft'
<1>. SUFFICES ASSUME NEW x \in Dispatchers, x # d, cur'[x] # None, ~transient'[x]
              PROVE  resolved'[cur'[x]] \subseteq settled'[cur'[x]] \cup todo'[x]
  BY DEF PushedOrLeft
<1>1. cur'[x] = cur[x] /\ ~transient[x] /\ todo'[x] = todo[x]
  BY Zenon
<1>2. cur[x] \in Events /\ cur[x] \in claimed[x]
  BY <1>1 DEF TypeOK, LeaseInv, CurClaimed
<1>3. cur[x] \notin claimed[d]
  BY <1>2 DEF LeaseInv, OneSweepPerRow
<1>4. resolved'[cur[x]] = resolved[cur[x]] /\ settled[cur[x]] \subseteq settled'[cur[x]]
  BY <1>2, <1>3
<1>5. resolved[cur[x]] \subseteq settled[cur[x]] \cup todo[x]
  BY <1>1, <1>2, OutboxConstants DEF PushedOrLeft
<1>. QED BY <1>1, <1>4, <1>5

\* Every step keeps the rows that are sent settled and the dispatches under way accounted for.
LEMMA SettledStep ==
    ASSUME TypeOK, LeaseInv, SentMeansSettled, PushedOrLeft, [Next]_vars
    PROVE  SentMeansSettled' /\ PushedOrLeft'
<1>. USE OutboxConstants
<1>1. CASE UNCHANGED <<cur, transient, todo, resolved, settled>>
           /\ \A e \in Events : status'[e] = "sent" => status[e] = "sent"
  <2>1. PushedOrLeft'
    BY <1>1, Zenon DEF PushedOrLeft
  <2>2. SentMeansSettled'
    BY <1>1 DEF SentMeansSettled
  <2>. QED BY <2>1, <2>2
<1>2. ASSUME NEW d \in Dispatchers, NEW e \in Events, BeginDispatch(d, e)
      PROVE  SentMeansSettled' /\ PushedOrLeft'
  <2>1. /\ UNCHANGED <<status, claimed, settled>> /\ e \in claimed[d]
        /\ cur' = [cur EXCEPT ![d] = e]
        /\ todo' = [todo EXCEPT ![d] = ActiveDevicesForUser(Target[e])]
        /\ resolved' = [resolved EXCEPT ![e] = ActiveDevicesForUser(Target[e])]
    BY <1>2 DEF BeginDispatch, rows
  <2>2. \A x \in Dispatchers \ {d} :
            cur'[x] = cur[x] /\ transient'[x] = transient[x] /\ todo'[x] = todo[x]
    BY <1>2 DEF BeginDispatch
  <2>3. cur'[d] = e /\ todo'[d] = ActiveDevicesForUser(Target[e])
        /\ resolved'[e] = ActiveDevicesForUser(Target[e])
        /\ \A f \in Events : f # e => resolved'[f] = resolved[f]
    BY <2>1 DEF TypeOK
  <2>4. PushedOrLeft'
    <3>1. \A f \in Events : settled[f] \subseteq settled'[f]
      BY <2>1
    <3>2. \A f \in Events : resolved'[f] = resolved[f] \/ f \in claimed[d]
      BY <2>1, <2>3
    <3>3. resolved'[cur'[d]] \subseteq settled'[cur'[d]] \cup todo'[d]
      BY <2>3
    <3>. QED BY <2>2, <3>1, <3>2, <3>3, OthersKeepPushed
  <2>5. status[e] = "pending"
    BY <2>1 DEF LeaseInv, HeldUntouched
  <2>6. SentMeansSettled'
    BY <2>1, <2>3, <2>5 DEF SentMeansSettled
  <2>. QED BY <2>4, <2>6
<1>3. ASSUME NEW d \in Dispatchers, NEW v \in Devices,
             PushDelivered(d, v) \/ PushInvalidToken(d, v) \/ PushTransient(d, v)
      PROVE  SentMeansSettled' /\ PushedOrLeft'
  <2>1. UNCHANGED <<status, cur, resolved>> /\ todo' = [todo EXCEPT ![d] = @ \ {v}]
    BY <1>3 DEF PushDelivered, PushInvalidToken, PushTransient, rows, history
  <2>2. /\ \A e \in Events : settled[e] \subseteq settled'[e]
        /\ transient'[d] \/ (transient'[d] <=> transient[d])
        /\ ~transient'[d] /\ cur[d] \in Events =>
               ~transient[d] /\ settled'[cur[d]] = settled[cur[d]] \cup {v}
    <3>1. CASE PushDelivered(d, v) \/ PushInvalidToken(d, v)
      <4>1. settled' = [settled EXCEPT ![cur[d]] = @ \cup {v}] /\ transient' = transient
        BY <3>1 DEF PushDelivered, PushInvalidToken
      <4>2. \A e \in Events : settled[e] \subseteq settled'[e]
        BY <4>1 DEF TypeOK
      <4>3. cur[d] \in Events => settled'[cur[d]] = settled[cur[d]] \cup {v}
        BY <4>1 DEF TypeOK
      <4>. QED BY <4>1, <4>2, <4>3, Zenon
    <3>2. CASE PushTransient(d, v)
      <4>1. transient' = [transient EXCEPT ![d] = TRUE] /\ settled' = settled
        BY <3>2 DEF PushTransient, history
      <4>2. transient'[d]
        BY <4>1 DEF TypeOK
      <4>. QED BY <4>1, <4>2
    <3>. QED BY <1>3, <3>1, <3>2
  <2>3. \A x \in Dispatchers \ {d} :
            cur'[x] = cur[x] /\ transient'[x] = transient[x] /\ todo'[x] = todo[x]
    <3>1. \A x \in Dispatchers \ {d} : cur'[x] = cur[x] /\ todo'[x] = todo[x]
      BY <2>1
    <3>2. CASE UNCHANGED transient
      BY <3>1, <3>2
    <3>3. CASE transient' = [transient EXCEPT ![d] = TRUE]
      BY <3>1, <3>3
    <3>. QED BY <1>3, <3>2, <3>3 DEF PushDelivered, PushInvalidToken, PushTransient
  <2>4. cur'[d] # None /\ ~transient'[d] =>
            resolved'[cur'[d]] \subseteq settled'[cur'[d]] \cup todo'[d]
    <3>. SUFFICES ASSUME cur[d] # None, ~transient'[d]
                  PROVE  resolved[cur[d]] \subseteq settled'[cur[d]] \cup todo'[d]
      BY <2>1
    <3>1. cur[d] \in Events /\ todo'[d] = todo[d] \ {v}
      BY <2>1 DEF TypeOK
    <3>2. ~transient[d] /\ settled'[cur[d]] = settled[cur[d]] \cup {v}
      BY <2>2, <3>1
    <3>3. resolved[cur[d]] \subseteq settled[cur[d]] \cup todo[d]
      BY <3>2 DEF PushedOrLeft
    <3>. QED BY <3>1, <3>2, <3>3
  <2>5. PushedOrLeft'
    <3>1. \A e \in Events : resolved'[e] = resolved[e] \/ e \in claimed[d]
      BY <2>1
    <3>. QED BY <2>2, <2>3, <2>4, <3>1, OthersKeepPushed
  <2>6. SentMeansSettled'
    BY <2>1, <2>2 DEF SentMeansSettled
  <2>. QED BY <2>5, <2>6
<1>4. ASSUME NEW d \in Dispatchers,
             \/ EndDispatch(d) \/ EndDispatchFails(d) \/ DispatcherCrash(d)
             \/ \E e \in Events : BeginDispatchFails(d, e)
      PROVE  SentMeansSettled' /\ PushedOrLeft'
  <2>1. UNCHANGED <<resolved, settled>>
    BY <1>4 DEF EndDispatch, EndDispatchFails, DispatcherCrash, BeginDispatchFails, history
  <2>2. \A x \in Dispatchers \ {d} :
            cur'[x] = cur[x] /\ transient'[x] = transient[x] /\ todo'[x] = todo[x]
    <3>1. CASE \E e \in Events : BeginDispatchFails(d, e)
      BY <3>1 DEF BeginDispatchFails
    <3>2. CASE EndDispatch(d) \/ EndDispatchFails(d)
      <4>1. NextRow(d)
        BY <3>2, Zenon DEF EndDispatch, EndDispatchFails
      <4>. QED BY <4>1 DEF NextRow
    <3>3. CASE DispatcherCrash(d)
      BY <3>3 DEF DispatcherCrash
    <3>. QED BY <1>4, <3>1, <3>2, <3>3
  <2>3. cur'[d] = None \/ transient'[d]
    <3>1. CASE \E e \in Events : BeginDispatchFails(d, e)
      <4>1. transient' = [transient EXCEPT ![d] = TRUE]
        BY <3>1 DEF BeginDispatchFails
      <4>. QED BY <4>1 DEF TypeOK
    <3>. QED BY <1>4, <3>1 DEF EndDispatch, EndDispatchFails, DispatcherCrash, NextRow, TypeOK
  <2>4. PushedOrLeft'
    <3>1. /\ \A e \in Events : settled[e] \subseteq settled'[e]
          /\ \A e \in Events : resolved'[e] = resolved[e] \/ e \in claimed[d]
      BY <2>1
    <3>. QED BY <2>2, <2>3, <3>1, OthersKeepPushed
  <2>5. SentMeansSettled'
    <3>. SUFFICES ASSUME NEW e \in Events, status'[e] = "sent"
                  PROVE  resolved[e] \subseteq settled[e]
      BY <2>1 DEF SentMeansSettled
    <3>1. CASE status[e] = "sent"
      BY <3>1 DEF SentMeansSettled
    <3>2. CASE status[e] # "sent"
      <4>1. EndDispatch(d)
        BY <1>4, <3>2 DEF EndDispatchFails, DispatcherCrash, BeginDispatchFails, rows
      <4>2. ~transient[d] /\ cur[d] = e /\ todo[d] = {}
        <5>1. cur[d] \in Events /\ todo[d] = {}
          BY <4>1 DEF EndDispatch, TypeOK
        <5>2. CASE transient[d]
          <6>1. Retry(d, cur[d])
            BY <4>1, <5>2, Zenon DEF EndDispatch
          <6>. QED BY <6>1, <5>1, <3>2 DEF Retry, TypeOK
        <5>3. CASE ~transient[d]
          <6>1. MarkSent(cur[d])
            BY <4>1, <5>3, Zenon DEF EndDispatch
          <6>. QED BY <6>1, <5>1, <5>3, <3>2 DEF MarkSent, TypeOK
        <5>. QED BY <5>2, <5>3
      <4>. QED BY <4>2 DEF PushedOrLeft
    <3>. QED BY <3>1, <3>2
  <2>. QED BY <2>4, <2>5
<1>5. ASSUME NEW d \in Dispatchers, ClaimPending(d)
      PROVE  SentMeansSettled' /\ PushedOrLeft'
  BY <1>1, <1>5 DEF ClaimPending, history
<1>6. ASSUME NEW e \in Events, Handle(e)
      PROVE  SentMeansSettled' /\ PushedOrLeft'
  <2>1. UNCHANGED <<cur, transient, todo, resolved, settled>>
    BY <1>6 DEF Handle, sweep, history
  <2>2. \A f \in Events : status'[f] = "sent" => status[f] = "sent"
    BY <1>6 DEF Handle, EnqueueOutbox, rows, TypeOK
  <2>. QED BY <2>1, <2>2, <1>1
<1>7. CASE \/ \E e \in Events : Publish(e) \/ Ack(e) \/ HandleFails(e)
           \/ ConsumerCrash \/ Tick
           \/ \E v \in Devices : UnregisterDevice(v) \/ \E u \in Users : RegisterDevice(v, u)
           \/ UNCHANGED vars
  <2>1. UNCHANGED <<cur, transient, todo, resolved, settled, status>>
    BY <1>7 DEF Publish, Ack, HandleFails, ConsumerCrash, Tick, UnregisterDevice,
                RegisterDevice, sweep, history, rows, vars
  <2>. QED BY <2>1, <1>1
<1>. QED BY <1>2, <1>3, <1>4, <1>5, <1>6, <1>7, Zenon DEF Next, DispatchStep, PushStep

\* A row is marked sent only when every device that its dispatch resolved has got the push or
\* has been reported dead, for any number of events, devices and dispatchers, as long as sweeps
\* end within their lease.
THEOREM SentRowsSettled ==
    ASSUME ~SlowSweeps
    PROVE  Spec => []SentMeansSettled
<1>1. Init => SentMeansSettled /\ PushedOrLeft
  BY DEF Init, SentMeansSettled, PushedOrLeft
<1>2. TypeOK /\ LeaseInv /\ SentMeansSettled /\ PushedOrLeft /\ [Next]_vars
        => SentMeansSettled' /\ PushedOrLeft'
  BY SettledStep
<1>. QED BY <1>1, <1>2, OutboxTypes, LeasesHold, PTL DEF Spec
=============================================================================
