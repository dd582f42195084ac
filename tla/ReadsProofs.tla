------------------------------ MODULE ReadsProofs ------------------------------
(***************************************************************************)
(* The safety of the parts that put an answer together from several reads, *)
(* for every value of their constants: RequestGeneration, the gateway, the *)
(* Catalog service, and the log store with its viewer.                     *)
(*                                                                         *)
(* Each part is proved on its own, in the same way: an inductive invariant *)
(* as a conjunction of named parts, that it holds at the start, one lemma  *)
(* for each step or group of steps that keeps it, and the theorems.        *)
(***************************************************************************)
EXTENDS Gateway, Submission, Catalog, LogStore, FiniteSetTheorems, WellFoundedInduction, TLAPS

-----------------------------------------------------------------------------
(* RequestGeneration, for any number of calls and keys and any set of faults *)

\* A call that has not reached its publish has enqueued nothing, and a call
\* between its insert and its publish has its row.
PublishOnce ==
    \A c \in Calls :
        /\ pc[c] \in {"status", "publish"} => c \in rows /\ enqueued[c] = 0
        /\ pc[c] \in {"new", "setnx", "getSlot", "getRequest", "getByKey", "create", "duplicate"}
                => enqueued[c] = 0
        /\ enqueued[c] <= 1

\* The unique index: no two rows carry the same key.
KeysUnique == \A r, s \in rows : key[r] = key[s] => r = s

\* A call that goes on to look a request up has found an id in the slot.
SeenAnId == \A c \in Calls : pc[c] \in {"getRequest", "getByKey"} => seen[c] # NoId

\* The inductive invariant.
IInv == TypeOK /\ SeenAnId /\ PublishOnce /\ KeysUnique /\ EnqueuedHasRow

-----------------------------------------------------------------------------
\* The initial state satisfies the inductive invariant.
LEMMA InitIInv == Init => IInv
BY SubmissionConstants
   DEF Init, IInv, TypeOK, CallStates, SeenAnId, PublishOnce, KeysUnique, EnqueuedHasRow

\* A call's step keeps the types, and an answered call carries an id.
LEMMA TypeStep ==
    ASSUME IInv, [Next]_vars
    PROVE  TypeOK' /\ SeenAnId'
<1>. USE SubmissionConstants
<1>1. ASSUME NEW c \in Calls, CallStep(c)
      PROVE  TypeOK' /\ SeenAnId'
  <2>. USE DEF IInv, TypeOK, CallStates, SeenAnId, Goto
  <2>1. CASE Begin(c)
    BY <2>1 DEF Begin
  <2>2. CASE SetIdempotencyIfAbsent(c)
    BY <2>2 DEF SetIdempotencyIfAbsent
  <2>3. CASE SetIdempotencyFails(c)
    BY <2>3 DEF SetIdempotencyFails, Refuse
  <2>4. CASE GetSlot(c)
    BY <2>4 DEF GetSlot
  <2>5. CASE GetSlotFails(c)
    BY <2>5 DEF GetSlotFails, Refuse
  <2>6. CASE GetRequest(c)
    BY <2>6 DEF GetRequest, ReadFails, Respond
  <2>7. CASE GetByKey(c)
    BY <2>7 DEF GetByKey, ReadFails, Respond, RowsOf
  <2>8. CASE CreateRequest(c)
    BY <2>8 DEF CreateRequest
  <2>9. CASE CreateRequestFails(c)
    BY <2>9 DEF CreateRequestFails, Refuse
  <2>10. CASE Duplicate(c)
    BY <2>10 DEF Duplicate, ReadFails, Respond, Refuse, RowsOf
  <2>11. CASE SetStatusQueued(c)
    BY <2>11 DEF SetStatusQueued
  <2>12. CASE Publish(c)
    BY <2>12 DEF Publish, Enqueue, Respond
  <2>13. CASE PublishFails(c)
    BY <2>13 DEF PublishFails, Enqueue, Refuse
  <2>14. CASE Crash(c)
    BY <2>14 DEF Crash
  <2>. QED BY <1>1, <2>1, <2>2, <2>3, <2>4, <2>5, <2>6, <2>7, <2>8, <2>9, <2>10, <2>11,
              <2>12, <2>13, <2>14 DEF CallStep
<1>2. ASSUME NEW k \in Keys, Expire(k)
      PROVE  TypeOK' /\ SeenAnId'
  BY <1>2 DEF IInv, TypeOK, SeenAnId, Expire
<1>3. CASE UNCHANGED vars
  BY <1>3 DEF IInv, TypeOK, SeenAnId, vars
<1>. QED BY <1>1, <1>2, <1>3 DEF Next

\* The insert lets a row in only when its key has none, and nothing else adds
\* rows or changes keys.
LEMMA KeysUniqueStep ==
    ASSUME IInv, [Next]_vars
    PROVE  KeysUnique' /\ rows \subseteq rows'
<1>. USE DEF IInv, TypeOK, KeysUnique
<1>1. ASSUME NEW c \in Calls, UniqueKey(c), rows' = rows \cup {c}, UNCHANGED key
      PROVE  KeysUnique' /\ rows \subseteq rows'
  BY <1>1 DEF UniqueKey, RowsOf
<1>2. UNCHANGED <<rows, key>> => KeysUnique' /\ rows \subseteq rows'
  OBVIOUS
<1>3. \/ UNCHANGED <<rows, key>>
      \/ \E c \in Calls : UniqueKey(c) /\ rows' = rows \cup {c} /\ UNCHANGED key
  BY DEF Next, CallStep, Begin, SetIdempotencyIfAbsent, SetIdempotencyFails, GetSlot, GetSlotFails,
         GetRequest, GetByKey, ReadFails, CreateRequest, CreateRequestFails, Duplicate, SetStatusQueued, Publish,
         PublishFails, Crash, Expire, vars
<1>. QED BY <1>1, <1>2, <1>3

\* Only a call that holds its row enqueues, and it does so once, on the way to an
\* end of its handler.
LEMMA PublishStep ==
    ASSUME IInv, [Next]_vars, rows \subseteq rows'
    PROVE  PublishOnce' /\ EnqueuedHasRow'
<1>. USE DEF IInv, TypeOK, CallStates, PublishOnce, EnqueuedHasRow, Goto
<1>1. ASSUME NEW c \in Calls, CallStep(c)
      PROVE  PublishOnce' /\ EnqueuedHasRow'
  <2>1. CASE Begin(c)
    BY <2>1 DEF Begin
  <2>2. CASE SetIdempotencyIfAbsent(c)
    BY <2>2 DEF SetIdempotencyIfAbsent
  <2>3. CASE SetIdempotencyFails(c)
    BY <2>3 DEF SetIdempotencyFails, Refuse
  <2>4. CASE GetSlot(c)
    BY <2>4 DEF GetSlot
  <2>5. CASE GetSlotFails(c)
    BY <2>5 DEF GetSlotFails, Refuse
  <2>6. CASE GetRequest(c)
    BY <2>6 DEF GetRequest, ReadFails, Respond
  <2>7. CASE GetByKey(c)
    BY <2>7 DEF GetByKey, ReadFails, Respond
  <2>8. CASE CreateRequest(c)
    BY <2>8 DEF CreateRequest
  <2>9. CASE CreateRequestFails(c)
    BY <2>9 DEF CreateRequestFails, Refuse
  <2>10. CASE Duplicate(c)
    BY <2>10 DEF Duplicate, ReadFails, Respond, Refuse
  <2>11. CASE SetStatusQueued(c)
    BY <2>11 DEF SetStatusQueued
  <2>12. CASE Publish(c)
    BY <2>12 DEF Publish, Enqueue, Respond
  <2>13. CASE PublishFails(c)
    BY <2>13 DEF PublishFails, Enqueue, Refuse
  <2>14. CASE Crash(c)
    BY <2>14 DEF Crash
  <2>. QED BY <1>1, <2>1, <2>2, <2>3, <2>4, <2>5, <2>6, <2>7, <2>8, <2>9, <2>10, <2>11,
              <2>12, <2>13, <2>14 DEF CallStep
<1>2. ASSUME NEW k \in Keys, Expire(k)
      PROVE  PublishOnce' /\ EnqueuedHasRow'
  BY <1>2 DEF Expire
<1>3. CASE UNCHANGED vars
  BY <1>3 DEF vars
<1>. QED BY <1>1, <1>2, <1>3 DEF Next

\* The inductive invariant holds in every reachable state: RequestGeneration
\* keeps its types, one row per key and at most one publish per row under any
\* interleaving of submits, expired slots and failures.
THEOREM SubmissionInvariant == Spec => []IInv
<1>1. Init => IInv
  BY InitIInv
<1>2. IInv /\ [Next]_vars => IInv'
  BY TypeStep, KeysUniqueStep, PublishStep DEF IInv
<1>. QED BY <1>1, <1>2, PTL DEF Spec

\* RequestGeneration's variables keep their types, and an answered call always
\* carries a request id.
THEOREM SubmissionTypes == Spec => []TypeOK
BY SubmissionInvariant, PTL DEF IInv

\* A job is only enqueued for a request whose row was inserted before.
THEOREM JobsHaveRows == Spec => []EnqueuedHasRow
BY SubmissionInvariant, PTL DEF IInv

\* One key is enqueued at most once, whatever the Valkey slot does: the unique
\* index alone carries the guarantee.
THEOREM SingleEnqueue == Spec => []OneEnqueuePerKey
<1>1. IInv => OneEnqueuePerKey
  BY DEF IInv, TypeOK, PublishOnce, KeysUnique, EnqueuedHasRow, OneEnqueuePerKey
<1>. QED BY <1>1, SubmissionInvariant, PTL

-----------------------------------------------------------------------------
(* What a late submit is told *)

\* A slot, and what a call has read from it, holds the id of a call that carries
\* the slot's key.
SlotsMatchKeys ==
    /\ \A k \in Keys : slot[k] # NoId => key[slot[k]] = k
    /\ \A c \in Calls : seen[c] # NoId => key[seen[c]] = key[c]

\* A late call's key has its row for good.
LateHasRow == \A c \in late : RowsOf(key[c]) # {}

\* The inductive invariant behind the answers to late submits.
LateInv == SlotsMatchKeys /\ LateHasRow /\ LateSubmitGetsOriginal

\* Slots and reads of slots stay with their keys.
LEMMA SlotsStep ==
    ASSUME IInv, SlotsMatchKeys, [Next]_vars
    PROVE  SlotsMatchKeys'
<1>. USE SubmissionConstants DEF IInv, TypeOK, SlotsMatchKeys
<1>1. UNCHANGED key
  BY DEF Next, CallStep, Begin, SetIdempotencyIfAbsent, SetIdempotencyFails, GetSlot, GetSlotFails,
         GetRequest, GetByKey, ReadFails, CreateRequest, CreateRequestFails, Duplicate, SetStatusQueued, Publish,
         PublishFails, Crash, Expire, vars
<1>2. ASSUME NEW c \in Calls, slot' = [slot EXCEPT ![key[c]] = c], UNCHANGED seen
      PROVE  SlotsMatchKeys'
  BY <1>1, <1>2
<1>3. ASSUME NEW c \in Calls, GetSlot(c)
      PROVE  SlotsMatchKeys'
  BY <1>1, <1>3 DEF GetSlot
<1>4. ASSUME NEW k \in Keys, Expire(k)
      PROVE  SlotsMatchKeys'
  BY <1>1, <1>4 DEF Expire
<1>5. CASE UNCHANGED <<slot, seen>>
  BY <1>1, <1>5
<1>6. \/ UNCHANGED <<slot, seen>>
      \/ \E c \in Calls : slot' = [slot EXCEPT ![key[c]] = c] /\ UNCHANGED seen
      \/ \E c \in Calls : GetSlot(c)
      \/ \E k \in Keys : Expire(k)
  BY DEF Next, CallStep, Begin, SetIdempotencyIfAbsent, SetIdempotencyFails, GetSlotFails,
         GetRequest, GetByKey, ReadFails, CreateRequest, CreateRequestFails, Duplicate, SetStatusQueued, Publish,
         PublishFails, Crash, vars
<1>. QED BY <1>2, <1>3, <1>4, <1>5, <1>6

\* Whoever is answered with an id of its own key that has a row keeps that answer
\* right: rows are never deleted.
LEMMA LateStep ==
    ASSUME IInv, LateInv, [Next]_vars
    PROVE  LateHasRow' /\ LateSubmitGetsOriginal'
<1>. USE SubmissionConstants DEF IInv, TypeOK, CallStates, RowsOf, Goto
<1>1. rows \subseteq rows'
  BY KeysUniqueStep
<1>2. UNCHANGED key
  BY DEF Next, CallStep, Begin, SetIdempotencyIfAbsent, SetIdempotencyFails, GetSlot, GetSlotFails,
         GetRequest, GetByKey, ReadFails, CreateRequest, CreateRequestFails, Duplicate, SetStatusQueued, Publish,
         PublishFails, Crash, Expire, vars
<1>3. LateHasRow'
  <2>1. \A c \in late' : c \in late \/ RowsOf(key[c]) # {}
    BY DEF Next, CallStep, Begin, SetIdempotencyIfAbsent, SetIdempotencyFails, GetSlot, GetSlotFails,
           GetRequest, GetByKey, ReadFails, CreateRequest, CreateRequestFails, Duplicate, SetStatusQueued, Publish,
           PublishFails, Crash, Expire, vars
  <2>. QED BY <1>1, <1>2, <2>1 DEF LateInv, LateHasRow
<1>4. \A c \in Calls : pc'[c] = "answered" /\ c \notin misread' =>
        \/ pc[c] = "answered" /\ answer'[c] = answer[c] /\ (c \in late' <=> c \in late)
        \/ answer'[c] \in RowsOf(key[c])
        \/ RowsOf(key[c]) = {} /\ (c \in late' <=> c \in late)
  <2>. SUFFICES ASSUME NEW c \in Calls, pc'[c] = "answered", c \notin misread'
                PROVE  \/ pc[c] = "answered" /\ answer'[c] = answer[c] /\ (c \in late' <=> c \in late)
                       \/ answer'[c] \in RowsOf(key[c])
                       \/ RowsOf(key[c]) = {} /\ (c \in late' <=> c \in late)
    OBVIOUS
  <2>1. CASE GetRequest(c)
    BY <2>1 DEF GetRequest, ReadFails, Respond, LateInv, SlotsMatchKeys, SeenAnId
  <2>2. CASE GetByKey(c)
    BY <2>2 DEF GetByKey, ReadFails, Respond
  <2>3. CASE Duplicate(c)
    BY <2>3 DEF Duplicate, ReadFails, Respond, Refuse
  <2>4. CASE Publish(c)
    BY <2>4 DEF Publish, Respond, PublishOnce
  <2>5. CASE pc[c] = "answered"
    BY <2>5 DEF Next, CallStep, Begin, SetIdempotencyIfAbsent, SetIdempotencyFails, GetSlot,
           GetSlotFails, GetRequest, GetByKey, ReadFails, CreateRequest, CreateRequestFails, Duplicate,
           SetStatusQueued, Publish, PublishFails, Crash, Expire, Respond, Refuse, vars
  <2>6. pc[c] = "answered" \/ GetRequest(c) \/ GetByKey(c) \/ Duplicate(c) \/ Publish(c)
    BY DEF Next, CallStep, Begin, SetIdempotencyIfAbsent, SetIdempotencyFails, GetSlot,
           GetSlotFails, GetRequest, GetByKey, ReadFails, CreateRequest, CreateRequestFails, Duplicate,
           SetStatusQueued, Publish, PublishFails, Crash, Expire, Respond, Refuse, vars
  <2>. QED BY <2>1, <2>2, <2>3, <2>4, <2>5, <2>6
<1>5. LateSubmitGetsOriginal'
  <2>1. \A c \in Calls : RowsOf(key[c]) \subseteq RowsOf(key[c])'
    BY <1>1, <1>2
  <2>2. late' \subseteq Calls
    BY TypeStep
  <2>3. misread \subseteq misread'
    BY DEF Next, CallStep, Begin, SetIdempotencyIfAbsent, SetIdempotencyFails, GetSlot, GetSlotFails,
           GetRequest, GetByKey, ReadFails, CreateRequest, CreateRequestFails, Duplicate,
           SetStatusQueued, Publish, PublishFails, Crash, Expire, vars
  <2>. HIDE DEF RowsOf
  <2>. QED BY <1>2, <1>4, <2>1, <2>2, <2>3 DEF LateInv, LateHasRow, LateSubmitGetsOriginal
<1>. QED BY <1>3, <1>5

\* Once a key has its row, every later submit of it that is answered gets that
\* row, for any number of submits and any faults, unless one of its own SELECTs
\* failed (existingResponse takes that for a missing row).
THEOREM LateSubmits == Spec => []LateSubmitGetsOriginal
<1>1. Init => LateInv
  BY DEF Init, LateInv, SlotsMatchKeys, LateHasRow, LateSubmitGetsOriginal
<1>2. IInv /\ LateInv /\ [Next]_vars => LateInv'
  BY SlotsStep, LateStep DEF LateInv
<1>3. LateInv => LateSubmitGetsOriginal
  BY DEF LateInv
<1>. QED BY <1>1, <1>2, <1>3, SubmissionInvariant, PTL DEF Spec

\* The calls, the rows and the queue agree in every behaviour.
THEOREM SubmissionStaysConsistent == Spec => []SubmissionConsistent
BY SubmissionTypes, SingleEnqueue, JobsHaveRows, PTL DEF SubmissionConsistent

-----------------------------------------------------------------------------
(* The gateway *)

\* The shapes of the state that the type invariant leaves open.
AnswersTyped ==
    /\ DOMAIN stage = Requests /\ DOMAIN reply = Requests
    /\ ranking \in Nat
    /\ DOMAIN passed = Clients

\* A generation whose status is, or is about to be, ready has ideas, and so has
\* the one whose ideas a request is about to ask for: they are only replaced.
ReadyIsRanked ==
    /\ genStatus \in {"saved", "ready"} => ranking > 0
    /\ \A r \in Requests : stage[r] = "ideas" => ranking > 0

\* The passes of the window that is open for a client.
InWindow(c) ==
    {p \in passed[c] : bucket[<<"ip", c>>].left > 0
                       /\ p[1] + bucket[<<"ip", c>>].left <= Window + 1}

\* The bucket counts the passes of its window; the ones before it fit in one
\* budget too, and are gone when the window closes.
PassesCounted ==
    Budgets["ip"] # 0 =>
      \A c \in Clients :
        /\ IsFiniteSet(passed[c])
        /\ \A p \in passed[c] : p \in Nat \X Nat /\ p[1] <= Window
        /\ bucket[<<"ip", c>>].left = 0 => \A p \in passed[c] : p[1] > 0
        /\ Cardinality(InWindow(c)) <= bucket[<<"ip", c>>].count
        /\ Cardinality(passed[c] \ InWindow(c)) <= Budgets["ip"]

\* The inductive invariant of the gateway.
GatewayInv ==
    GatewayTypeOK /\ AnswersTyped /\ ReadyIsRanked /\ ReadyAnswerHasIdeas /\ PassesCounted

-----------------------------------------------------------------------------
\* What Key names is a bucket of its limiter.
LEMMA KeyIsBucket ==
    ASSUME GatewayTypeOK, NEW r \in Requests, NEW kind \in Limiters
    PROVE  /\ Key(kind, r) \in BucketKeys
           /\ Key(kind, r)[1] = kind
           /\ \A c \in Clients : <<"ip", c>> = Key(kind, r) <=> kind = "ip" /\ c = client[r]
<1>1. client[r] \in Clients
  BY DEF GatewayTypeOK
<1>2. CASE kind = "global"
  BY <1>1, <1>2 DEF Key, BucketKeys
<1>3. CASE kind # "global"
  BY <1>1, <1>3 DEF Key, BucketKeys, Limiters
<1>. QED
  BY <1>2, <1>3

\* The buckets of the per-IP limiter are buckets.
LEMMA IPBucket ==
    ASSUME GatewayTypeOK, NEW c \in Clients
    PROVE  /\ <<"ip", c>> \in BucketKeys
           /\ bucket[<<"ip", c>>] \in [count : Nat, left : 0..(Window + 1)]
           /\ bucket[<<"ip", c>>].count <= Budgets["ip"]
<1>1. <<"ip", c>> \in BucketKeys
  BY DEF BucketKeys
<1>2. <<"ip", c>>[1] = "ip"
  OBVIOUS
<1>. QED
  BY <1>1, <1>2 DEF GatewayTypeOK

\* A call that is allowed leaves the buckets typed and none over its budget.
LEMMA ChargeKeepsBudget ==
    ASSUME GatewayTypeOK, NEW r \in Requests, NEW kind \in Limiters,
           Allows(kind, r), Charge(kind, r)
    PROVE  /\ bucket' \in [BucketKeys -> [count : Nat, left : 0..(Window + 1)]]
           /\ \A k \in BucketKeys : bucket'[k].count <= Budgets[k[1]]
           /\ \A k \in BucketKeys : k # Key(kind, r) => bucket'[k] = bucket[k]
<1>. DEFINE k == Key(kind, r)
<1>1. k \in BucketKeys /\ k[1] = kind
  BY KeyIsBucket
<1>2. Budgets[kind] \in Nat /\ Window \in Nat
  BY GatewayConstants
<1>3. bucket \in [BucketKeys -> [count : Nat, left : 0..(Window + 1)]]
      /\ \A j \in BucketKeys : bucket[j].count <= Budgets[j[1]]
  BY DEF GatewayTypeOK
<1>4. CASE Budgets[kind] = 0
  BY <1>3, <1>4 DEF Charge
<1>5. CASE Budgets[kind] # 0 /\ WindowOver(k)
  <2>1. bucket' = [bucket EXCEPT ![k] = [count |-> 1, left |-> Window + 1]]
    BY <1>5 DEF Charge
  <2>2. bucket'[k] = [count |-> 1, left |-> Window + 1] /\ DOMAIN bucket' = BucketKeys
        /\ \A j \in BucketKeys : j # k => bucket'[j] = bucket[j]
    BY <2>1, <1>1, <1>3
  <2>3. [count |-> 1, left |-> Window + 1] \in [count : Nat, left : 0..(Window + 1)]
    BY <1>2
  <2>4. bucket' \in [BucketKeys -> [count : Nat, left : 0..(Window + 1)]]
    BY <2>1, <2>3, <1>3
  <2>5. ASSUME NEW j \in BucketKeys PROVE bucket'[j].count <= Budgets[j[1]]
    <3>1. CASE j = k
      BY <3>1, <2>2, <1>1, <1>2, <1>5
    <3>2. CASE j # k
      BY <3>2, <2>2, <1>3
    <3>. QED
      BY <3>1, <3>2
  <2>. QED
    BY <2>2, <2>4, <2>5
<1>6. CASE Budgets[kind] # 0 /\ ~WindowOver(k)
  <2>1. bucket' = [bucket EXCEPT ![k].count = @ + 1] /\ bucket[k].count < Budgets[kind]
    BY <1>6 DEF Charge, Allows
  <2>2. bucket'[k] = [bucket[k] EXCEPT !.count = @ + 1] /\ DOMAIN bucket' = BucketKeys
        /\ \A j \in BucketKeys : j # k => bucket'[j] = bucket[j]
    BY <2>1, <1>1, <1>3
  <2>3. bucket[k] \in [count : Nat, left : 0..(Window + 1)]
    BY <1>1, <1>3
  <2>4. bucket'[k] \in [count : Nat, left : 0..(Window + 1)]
        /\ bucket'[k].count = bucket[k].count + 1
    BY <2>2, <2>3
  <2>5. bucket' \in [BucketKeys -> [count : Nat, left : 0..(Window + 1)]]
    <3>1. \A j \in BucketKeys : bucket'[j] \in [count : Nat, left : 0..(Window + 1)]
      BY <2>2, <2>4, <1>3
    <3>2. bucket' = [j \in BucketKeys |-> bucket'[j]]
      BY <2>1, <1>3
    <3>. QED
      BY <3>1, <3>2
  <2>6. ASSUME NEW j \in BucketKeys PROVE bucket'[j].count <= Budgets[j[1]]
    <3>1. CASE j = k
      BY <3>1, <2>1, <2>3, <2>4, <1>1, <1>2
    <3>2. CASE j # k
      BY <3>2, <2>2, <1>3
    <3>. QED
      BY <3>1, <3>2
  <2>. QED
    BY <2>2, <2>5, <2>6
<1>. QED
  BY <1>4, <1>5, <1>6

\* A pass of the per-IP limiter is counted in the window it opens or joins.
LEMMA PassCounted ==
    ASSUME GatewayInv, NEW r \in Requests, Allows("ip", r), Charge("ip", r),
           passed' = NotePass(client[r]), Budgets["ip"] # 0, NEW c \in Clients
    PROVE  /\ IsFiniteSet(passed'[c])
           /\ \A p \in passed'[c] : p \in Nat \X Nat /\ p[1] <= Window
           /\ bucket'[<<"ip", c>>].left = 0 => \A p \in passed'[c] : p[1] > 0
           /\ Cardinality(InWindow(c)') <= bucket'[<<"ip", c>>].count
           /\ Cardinality(passed'[c] \ InWindow(c)') <= Budgets["ip"]
<1>. DEFINE k == <<"ip", c>>
            S == passed[c]
            W == InWindow(c)
            n == <<0, Cardinality({p \in S : p[1] = 0}) + 1>>
<1>. GatewayTypeOK /\ "ip" \in Limiters /\ client[r] \in Clients
  BY DEF GatewayInv, GatewayTypeOK, Limiters
<1>1. /\ k \in BucketKeys /\ bucket[k] \in [count : Nat, left : 0..(Window + 1)]
      /\ bucket[k].count <= Budgets["ip"]
      /\ Budgets["ip"] \in Nat /\ Window \in Nat
  BY IPBucket, GatewayConstants
<1>2. /\ IsFiniteSet(S) /\ \A p \in S : p \in Nat \X Nat /\ p[1] <= Window
      /\ bucket[k].left = 0 => \A p \in S : p[1] > 0
      /\ Cardinality(W) <= bucket[k].count /\ Cardinality(S \ W) <= Budgets["ip"]
  BY DEF GatewayInv, PassesCounted
<1>3. CASE c # client[r]
  <2>1. k # Key("ip", r)
    BY <1>3, KeyIsBucket
  <2>2. bucket'[k] = bucket[k]
    BY <2>1, <1>1, ChargeKeepsBudget
  <2>3. passed'[c] = S
    BY <1>3 DEF NotePass
  <2>4. InWindow(c)' = W
    BY <2>2, <2>3 DEF InWindow
  <2>. QED
    BY <1>2, <2>2, <2>3, <2>4
<1>4. CASE c = client[r]
  <2>1. Key("ip", r) = k
    BY <1>4, KeyIsBucket
  <2>2. passed'[c] = S \cup {n}
    BY <1>4 DEF NotePass, GatewayInv, AnswersTyped
  <2>3. IsFiniteSet({p \in S : p[1] = 0})
    <3>1. {p \in S : p[1] = 0} \subseteq S
      OBVIOUS
    <3>. QED
      BY <3>1, <1>2, FS_Subset
  <2>4. Cardinality({p \in S : p[1] = 0}) \in Nat
    BY <2>3, FS_CardinalityType
  <2>5. n \in Nat \X Nat /\ n[1] = 0
    BY <2>4
  <2>6. IsFiniteSet(W) /\ IsFiniteSet(S \ W)
    <3>1. W \subseteq S /\ S \ W \subseteq S
      BY DEF InWindow
    <3>. QED
      BY <3>1, <1>2, FS_Subset
  <2>7. Cardinality(W) \in Nat /\ Cardinality(S \ W) \in Nat
    BY <2>6, FS_CardinalityType
  <2>8. IsFiniteSet(S \cup {n})
    BY <1>2, FS_AddElement
  <2>9. CASE WindowOver(k)
    <3>1. bucket' = [bucket EXCEPT ![k] = [count |-> 1, left |-> Window + 1]]
      BY <2>1, <2>9 DEF Charge
    <3>2. bucket'[k] = [count |-> 1, left |-> Window + 1]
      BY <3>1, <1>1 DEF GatewayTypeOK
    <3>3. \A p \in S : p[1] > 0
      BY <2>9, <1>2 DEF WindowOver
    <3>4. W = {}
      BY <2>9, <1>1 DEF WindowOver, InWindow
    <3>5. InWindow(c)' = {n}
      <4>1. InWindow(c)' = {p \in S \cup {n} : Window + 1 > 0 /\ p[1] + (Window + 1) <= Window + 1}
        BY <3>2, <2>2 DEF InWindow
      <4>2. \A p \in S : ~(p[1] + (Window + 1) <= Window + 1)
        BY <3>3, <1>1, <1>2
      <4>3. Window + 1 > 0 /\ n[1] + (Window + 1) <= Window + 1
        BY <2>5, <1>1
      <4>. QED
        BY <4>1, <4>2, <4>3
    <3>6. Cardinality({n}) = 1
      BY FS_Singleton
    <3>7. passed'[c] \ InWindow(c)' = S \ W
      <4>1. n \notin S
        BY <3>3, <2>5, <1>2
      <4>. QED
        BY <4>1, <3>4, <3>5, <2>2
    <3>8. \A p \in passed'[c] : p \in Nat \X Nat /\ p[1] <= Window
      BY <2>2, <2>5, <1>1, <1>2
    <3>9. Cardinality(InWindow(c)') <= bucket'[k].count
      BY <3>2, <3>5, <3>6
    <3>10. bucket'[k].left # 0
      BY <3>2, <1>1
    <3>. QED
      BY <3>7, <3>8, <3>9, <3>10, <2>2, <2>8, <1>2
  <2>10. CASE ~WindowOver(k)
    <3>1. bucket' = [bucket EXCEPT ![k].count = @ + 1]
      BY <2>1, <2>10 DEF Charge
    <3>2. bucket'[k] = [bucket[k] EXCEPT !.count = @ + 1]
      BY <3>1, <1>1 DEF GatewayTypeOK
    <3>3. bucket'[k].left = bucket[k].left /\ bucket'[k].count = bucket[k].count + 1
      BY <3>2, <1>1
    <3>4. bucket[k].left > 0
      BY <2>10, <1>1 DEF WindowOver
    <3>5. InWindow(c)' = W \cup {n}
      <4>1. InWindow(c)' = {p \in S \cup {n} : bucket[k].left > 0
                               /\ p[1] + bucket[k].left <= Window + 1}
        BY <3>3, <2>2 DEF InWindow
      <4>2. W = {p \in S : bucket[k].left > 0 /\ p[1] + bucket[k].left <= Window + 1}
        BY DEF InWindow
      <4>3. n[1] + bucket[k].left <= Window + 1
        BY <2>5, <1>1
      <4>. QED
        BY <4>1, <4>2, <4>3, <3>4
    <3>6. Cardinality(W \cup {n}) <= Cardinality(W) + 1
      <4>1. ASSUME NEW x
            PROVE  Cardinality(W \cup {x}) <= Cardinality(W) + 1
        <5>1. Cardinality(W \cup {x}) = IF x \in W THEN Cardinality(W) ELSE Cardinality(W) + 1
          BY <2>6, FS_AddElement
        <5>. QED
          BY <5>1, <2>7
      <4>. QED
        BY <4>1
    <3>7. passed'[c] \ InWindow(c)' \subseteq S \ W
      BY <3>5, <2>2
    <3>8. Cardinality(passed'[c] \ InWindow(c)') <= Cardinality(S \ W)
      BY <3>7, <2>6, FS_Subset
    <3>9. IsFiniteSet(passed'[c] \ InWindow(c)') /\ IsFiniteSet(W \cup {n})
      BY <3>7, <2>6, FS_Subset, FS_AddElement
    <3>10. Cardinality(passed'[c] \ InWindow(c)') \in Nat /\ Cardinality(W \cup {n}) \in Nat
      BY <3>9, FS_CardinalityType
    <3>11. Cardinality(InWindow(c)') <= bucket'[k].count
      BY <3>3, <3>5, <3>6, <3>10, <2>7, <1>1, <1>2
    <3>12. Cardinality(passed'[c] \ InWindow(c)') <= Budgets["ip"]
      BY <3>8, <3>10, <2>7, <1>1, <1>2
    <3>. QED
      BY <3>3, <3>4, <3>11, <3>12, <2>2, <2>5, <2>8, <1>1, <1>2
  <2>. QED
    BY <2>9, <2>10
<1>. QED
  BY <1>3, <1>4

\* The passes of P a tick later, without the ones that are a whole window old.
Older(P) == {<<p[1] + 1, p[2]>> : p \in {q \in P : q[1] < Window}}

\* No pass is counted twice when time passes.
LEMMA OlderFewer ==
    ASSUME NEW P, IsFiniteSet(P)
    PROVE  IsFiniteSet(Older(P)) /\ Cardinality(Older(P)) <= Cardinality(P)
<1>. DEFINE A == {q \in P : q[1] < Window}
            f == [p \in A |-> <<p[1] + 1, p[2]>>]
<1>1. IsFiniteSet(A) /\ Cardinality(A) <= Cardinality(P)
  <2>1. A \in SUBSET P
    OBVIOUS
  <2>. QED
    BY <2>1, FS_Subset
<1>2. f \in [A -> Older(P)] /\ \A t \in Older(P) : \E p \in A : f[p] = t
  BY DEF Older
<1>3. f \in Surjection(A, Older(P))
  BY <1>2, Zenon DEF Surjection
<1>4. IsFiniteSet(Older(P)) /\ Cardinality(Older(P)) <= Cardinality(A)
  <2>. HIDE DEF A, f
  <2>. QED
    BY <1>1, <1>3, FS_Surjection
<1>5. Cardinality(P) \in Nat /\ Cardinality(A) \in Nat /\ Cardinality(Older(P)) \in Nat
  BY <1>1, <1>4, FS_CardinalityType
<1>6. Cardinality(Older(P)) <= Cardinality(P)
  <2>. HIDE DEF A, f
  <2>. QED
    BY <1>1, <1>4, <1>5
<1>. QED
  BY <1>4, <1>6

\* A tick ages the passes and closes the windows that are over.
LEMMA TickCounted ==
    ASSUME GatewayInv, GatewayTick, Budgets["ip"] # 0, NEW c \in Clients
    PROVE  /\ IsFiniteSet(passed'[c])
           /\ \A p \in passed'[c] : p \in Nat \X Nat /\ p[1] <= Window
           /\ bucket'[<<"ip", c>>].left = 0 => \A p \in passed'[c] : p[1] > 0
           /\ Cardinality(InWindow(c)') <= bucket'[<<"ip", c>>].count
           /\ Cardinality(passed'[c] \ InWindow(c)') <= Budgets["ip"]
<1>. DEFINE k == <<"ip", c>>
            S == passed[c]
            W == InWindow(c)
<1>. GatewayTypeOK
  BY DEF GatewayInv
<1>1. /\ k \in BucketKeys /\ bucket[k] \in [count : Nat, left : 0..(Window + 1)]
      /\ bucket[k].count <= Budgets["ip"]
      /\ Budgets["ip"] \in Nat /\ Window \in Nat
  BY IPBucket, GatewayConstants DEF Limiters
<1>2. /\ IsFiniteSet(S) /\ \A p \in S : p \in Nat \X Nat /\ p[1] <= Window
      /\ Cardinality(W) <= bucket[k].count /\ Cardinality(S \ W) <= Budgets["ip"]
  BY DEF GatewayInv, PassesCounted
<1>3. passed'[c] = Older(S)
  BY DEF GatewayTick, Older
<1>4. bucket'[k] = IF bucket[k].left <= 1 THEN [count |-> 0, left |-> 0]
                   ELSE [bucket[k] EXCEPT !.left = @ - 1]
  BY <1>1 DEF GatewayTick
<1>5. \A t \in Older(S) : \E p \in S : p \in Nat \X Nat /\ p[1] < Window /\ t = <<p[1] + 1, p[2]>>
  BY <1>2 DEF Older
<1>6. \A t \in Older(S) : t \in Nat \X Nat /\ t[1] <= Window /\ t[1] > 0
  <2>. TAKE t \in Older(S)
  <2>1. PICK p \in S : p \in Nat \X Nat /\ p[1] < Window /\ t = <<p[1] + 1, p[2]>>
    BY <1>5
  <2>2. p[1] \in Nat /\ p[2] \in Nat /\ t[1] = p[1] + 1 /\ t[2] = p[2]
    BY <2>1
  <2>. QED
    BY <2>1, <2>2, <1>1
<1>7. W \subseteq S /\ S \ W \subseteq S
  BY DEF InWindow
<1>8. IsFiniteSet(W) /\ IsFiniteSet(S \ W)
  BY <1>7, <1>2, FS_Subset
<1>9. /\ Cardinality(S) \in Nat /\ Cardinality(W) \in Nat /\ Cardinality(S \ W) \in Nat
  BY <1>2, <1>8, FS_CardinalityType
<1>10. IsFiniteSet(Older(S)) /\ Cardinality(Older(S)) <= Cardinality(S)
  BY <1>2, OlderFewer
<1>11. W = {p \in S : bucket[k].left > 0 /\ p[1] + bucket[k].left <= Window + 1}
  BY DEF InWindow
<1>12. CASE bucket[k].left <= 1
  <2>1. bucket'[k].left = 0 /\ bucket'[k].count = 0
    BY <1>4, <1>12
  <2>2. InWindow(c)' = {}
    <3>1. InWindow(c)' = {p \in passed'[c] : bucket'[k].left > 0
                                             /\ p[1] + bucket'[k].left <= Window + 1}
      BY DEF InWindow
    <3>2. ~(bucket'[k].left > 0)
      BY <2>1
    <3>. QED
      BY <3>1, <3>2
  <2>3. Cardinality({}) = 0
    BY FS_EmptySet
  <2>4. S \ W = S \/ W = S
    <3>1. CASE bucket[k].left = 0
      BY <3>1, <1>11
    <3>2. CASE bucket[k].left = 1
      <4>1. \A p \in S : p[1] + 1 <= Window + 1
        BY <1>1, <1>2
      <4>. QED
        BY <3>2, <4>1, <1>11
    <3>3. bucket[k].left = 0 \/ bucket[k].left = 1
      BY <1>1, <1>12
    <3>. QED
      BY <3>1, <3>2, <3>3
  <2>5. Cardinality(S) <= Budgets["ip"]
    <3>1. CASE S \ W = S
      BY ONLY <3>1, <1>2
    <3>2. CASE W = S
      <4>1. Cardinality(S) <= bucket[k].count
        BY ONLY <3>2, <1>2
      <4>2. bucket[k].count \in Nat
        BY <1>1
      <4>. QED
        BY <4>1, <4>2, <1>1, <1>9
    <3>. QED
      BY <3>1, <3>2, <2>4
  <2>6. Cardinality(Older(S)) \in Nat
    BY <1>10, FS_CardinalityType
  <2>7. Cardinality(Older(S)) <= Budgets["ip"]
    BY <2>5, <2>6, <1>1, <1>9, <1>10
  <2>8. passed'[c] \ InWindow(c)' = Older(S)
    BY <2>2, <1>3
  <2>. QED
    BY <2>1, <2>2, <2>3, <2>7, <2>8, <1>3, <1>6, <1>10
<1>13. CASE bucket[k].left > 1
  <2>1. bucket'[k].left = bucket[k].left - 1 /\ bucket'[k].count = bucket[k].count
    <3>1. bucket'[k] = [bucket[k] EXCEPT !.left = @ - 1]
      BY <1>1, <1>4, <1>13
    <3>. QED
      BY <3>1, <1>1
  <2>2. bucket'[k].left > 0
    BY <2>1, <1>1, <1>13
  <2>3. InWindow(c)' = {t \in Older(S) : bucket[k].left - 1 > 0
                                         /\ t[1] + (bucket[k].left - 1) <= Window + 1}
    BY <2>1, <1>3 DEF InWindow
  <2>4. InWindow(c)' \subseteq Older(W)
    <3>. SUFFICES ASSUME NEW t \in Older(S), t[1] + (bucket[k].left - 1) <= Window + 1
                  PROVE  t \in Older(W)
      BY <2>3
    <3>1. PICK p \in S : p \in Nat \X Nat /\ p[1] < Window /\ t = <<p[1] + 1, p[2]>>
      BY <1>5
    <3>2. p[1] + bucket[k].left <= Window + 1
      <4>1. t[1] = p[1] + 1 /\ p[1] \in Nat
        BY <3>1
      <4>. QED
        BY <4>1, <1>1
    <3>3. p \in W
      BY <3>2, <1>11, <1>13, <1>1
    <3>. QED
      BY <3>1, <3>3 DEF Older
  <2>5. passed'[c] \ InWindow(c)' \subseteq Older(S \ W)
    <3>. SUFFICES ASSUME NEW t \in Older(S), ~(t[1] + (bucket[k].left - 1) <= Window + 1)
                  PROVE  t \in Older(S \ W)
      BY <2>1, <2>2, <2>3, <1>3
    <3>1. PICK p \in S : p \in Nat \X Nat /\ p[1] < Window /\ t = <<p[1] + 1, p[2]>>
      BY <1>5
    <3>2. ~(p[1] + bucket[k].left <= Window + 1)
      <4>1. t[1] = p[1] + 1 /\ p[1] \in Nat
        BY <3>1
      <4>. QED
        BY <4>1, <1>1
    <3>3. p \in S \ W
      BY <3>2, <1>11
    <3>. QED
      BY <3>1, <3>3 DEF Older
  <2>6. /\ IsFiniteSet(Older(W)) /\ Cardinality(Older(W)) <= Cardinality(W)
        /\ IsFiniteSet(Older(S \ W)) /\ Cardinality(Older(S \ W)) <= Cardinality(S \ W)
    BY <1>8, OlderFewer
  <2>7. /\ IsFiniteSet(InWindow(c)')
        /\ Cardinality(InWindow(c)') <= Cardinality(Older(W))
    BY <2>4, <2>6, FS_Subset
  <2>8. /\ IsFiniteSet(passed'[c] \ InWindow(c)')
        /\ Cardinality(passed'[c] \ InWindow(c)') <= Cardinality(Older(S \ W))
    BY <2>5, <2>6, FS_Subset
  <2>9. /\ Cardinality(InWindow(c)') \in Nat /\ Cardinality(Older(W)) \in Nat
        /\ Cardinality(passed'[c] \ InWindow(c)') \in Nat /\ Cardinality(Older(S \ W)) \in Nat
    BY <2>6, <2>7, <2>8, FS_CardinalityType
  <2>10. Cardinality(InWindow(c)') <= bucket'[k].count
    BY <2>1, <2>6, <2>7, <2>9, <1>1, <1>2, <1>9
  <2>11. Cardinality(passed'[c] \ InWindow(c)') <= Budgets["ip"]
    BY <2>6, <2>8, <2>9, <1>1, <1>2, <1>9
  <2>. QED
    BY <2>10, <2>11, <1>3, <1>6, <1>10
<1>. QED
  BY <1>12, <1>13, <1>1

-----------------------------------------------------------------------------
\* The gateway's first state.
LEMMA InitGateway == GatewayInit => GatewayInv
<1>. SUFFICES ASSUME GatewayInit PROVE GatewayInv
  OBVIOUS
<1>. USE GatewayConstants
<1>1. GatewayTypeOK
  <2>1. \A k \in BucketKeys : k[1] \in Limiters
    BY DEF BucketKeys, Limiters
  <2>2. (CHOOSE c \in Clients : TRUE) \in Clients
    OBVIOUS
  <2>3. client \in [Requests -> Clients]
    BY <2>2 DEF GatewayInit
  <2>4. bucket \in [BucketKeys -> [count : Nat, left : 0..(Window + 1)]]
        /\ \A k \in BucketKeys : bucket[k].count = 0
    BY DEF GatewayInit
  <2>5. \A k \in BucketKeys : Budgets[k[1]] \in Nat
    BY <2>1
  <2>. QED
    BY <2>3, <2>4, <2>5 DEF GatewayInit, GatewayTypeOK, Routes
<1>2. AnswersTyped /\ ReadyIsRanked
  BY DEF GatewayInit, AnswersTyped, ReadyIsRanked
<1>3. ReadyAnswerHasIdeas
  BY DEF GatewayInit, ReadyAnswerHasIdeas, NoAnswer
<1>4. PassesCounted
  <2>. SUFFICES ASSUME Budgets["ip"] # 0, NEW c \in Clients
                PROVE  /\ IsFiniteSet(passed[c]) /\ passed[c] = {} /\ InWindow(c) = {}
                       /\ Cardinality({}) <= bucket[<<"ip", c>>].count
                       /\ Cardinality({}) <= Budgets["ip"]
    BY Zenon DEF PassesCounted
  <2>1. passed[c] = {} /\ InWindow(c) = {}
    BY DEF GatewayInit, InWindow
  <2>2. IsFiniteSet({}) /\ Cardinality({}) = 0
    BY FS_EmptySet
  <2>3. bucket[<<"ip", c>>].count \in Nat /\ Budgets["ip"] \in Nat
    BY <1>1, IPBucket DEF Limiters
  <2>. QED
    BY <2>1, <2>2, <2>3
<1>. QED
  BY <1>1, <1>2, <1>3, <1>4 DEF GatewayInv

\* A step that leaves the limiters alone leaves what they have counted.
LEMMA PassesKept ==
    ASSUME PassesCounted, UNCHANGED limiterVars
    PROVE  PassesCounted'
<1>1. UNCHANGED <<bucket, passed>>
  BY DEF limiterVars
<1>2. \A c \in Clients : InWindow(c)' = InWindow(c)
  BY <1>1 DEF InWindow
<1>. QED
  BY <1>1, <1>2 DEF PassesCounted

\* What a middleware that asks a limiter does.
LEMMA AskLimiterStep ==
    ASSUME GatewayInv, NEW r \in Requests, NEW kind \in Limiters, NEW next,
           AskLimiter(r, kind, next), next = "ideas" => ranking > 0
    PROVE  GatewayInv'
<1>0. GatewayTypeOK /\ AnswersTyped /\ ReadyIsRanked /\ ReadyAnswerHasIdeas /\ PassesCounted
  BY DEF GatewayInv
<1>1. UNCHANGED <<route, client, genStatus, ranking>>
  BY DEF AskLimiter, genVars
<1>2. CASE /\ Allows(kind, r)
           /\ Charge(kind, r)
           /\ passed' = IF kind = "ip" THEN NotePass(client[r]) ELSE passed
           /\ stage' = [stage EXCEPT ![r] = next]
           /\ UNCHANGED reply
  <2>1. GatewayTypeOK'
    BY <1>0, <1>1, <1>2, ChargeKeepsBudget DEF GatewayTypeOK
  <2>2. AnswersTyped'
    BY <1>0, <1>1, <1>2 DEF AnswersTyped, NotePass
  <2>3. ReadyIsRanked' /\ ReadyAnswerHasIdeas'
    BY <1>0, <1>1, <1>2 DEF ReadyIsRanked, ReadyAnswerHasIdeas, AnswersTyped
  <2>4. PassesCounted'
    <3>1. CASE kind = "ip"
      <4>1. ASSUME Budgets["ip"] # 0, NEW c \in Clients
            PROVE  (/\ IsFiniteSet(passed[c])
                    /\ \A p \in passed[c] : p \in Nat \X Nat /\ p[1] <= Window
                    /\ bucket[<<"ip", c>>].left = 0 => \A p \in passed[c] : p[1] > 0
                    /\ Cardinality(InWindow(c)) <= bucket[<<"ip", c>>].count
                    /\ Cardinality(passed[c] \ InWindow(c)) <= Budgets["ip"])'
        BY <4>1, <3>1, <1>2, PassCounted
      <4>. QED
        BY <4>1, Zenon DEF PassesCounted
    <3>2. CASE kind # "ip"
      <4>1. passed' = passed
        BY <3>2, <1>2
      <4>2. \A c \in Clients : bucket'[<<"ip", c>>] = bucket[<<"ip", c>>]
        <5>1. \A k \in BucketKeys : k # Key(kind, r) => bucket'[k] = bucket[k]
          BY <1>0, <1>2, ChargeKeepsBudget
        <5>2. \A c \in Clients : <<"ip", c>> # Key(kind, r)
          BY <3>2, <1>0, KeyIsBucket
        <5>3. \A c \in Clients : <<"ip", c>> \in BucketKeys
          BY <1>0, IPBucket
        <5>. QED
          BY <5>1, <5>2, <5>3
      <4>3. \A c \in Clients : InWindow(c)' = InWindow(c)
        BY <4>1, <4>2 DEF InWindow
      <4>. QED
        BY <4>1, <4>2, <4>3, <1>0 DEF PassesCounted
    <3>. QED
      BY <3>1, <3>2
  <2>. QED
    BY <2>1, <2>2, <2>3, <2>4 DEF GatewayInv
<1>3. CASE Reply(r, Answer(429)) /\ UNCHANGED limiterVars
  <2>1. UNCHANGED <<bucket, passed>>
    BY <1>3 DEF limiterVars
  <2>2. GatewayTypeOK'
    BY <2>1, <1>0, <1>1 DEF GatewayTypeOK
  <2>3. AnswersTyped' /\ ReadyIsRanked' /\ ReadyAnswerHasIdeas'
    BY <2>1, <1>0, <1>1, <1>3
       DEF AnswersTyped, ReadyIsRanked, ReadyAnswerHasIdeas, Reply, Answer, NoAnswer
  <2>. QED
    BY <2>2, <2>3, <1>0, <1>3, PassesKept DEF GatewayInv
<1>. QED
  BY <1>2, <1>3 DEF AskLimiter

\* Every step of the gateway and of the generation it asks about keeps the invariant.
LEMMA NextGateway == GatewayInv /\ [GatewayNext]_gatewayVars => GatewayInv'
<1>. SUFFICES ASSUME GatewayInv, [GatewayNext]_gatewayVars PROVE GatewayInv'
  OBVIOUS
<1>. USE GatewayConstants
<1>0. GatewayTypeOK /\ AnswersTyped /\ ReadyIsRanked /\ ReadyAnswerHasIdeas /\ PassesCounted
  BY DEF GatewayInv
\* The steps of one request that leave the limiters and the generation alone.
<1>a. ASSUME NEW r \in Requests, UNCHANGED <<limiterVars, genVars>>,
             route' \in [Requests -> Routes], client' \in [Requests -> Clients],
             NEW s, stage' = [stage EXCEPT ![r] = s], s = "ideas" => ranking > 0,
             NEW a, reply' = reply \/ reply' = [reply EXCEPT ![r] = a],
             a.status = "ready" => a.ideas > 0
      PROVE  GatewayInv'
  <2>1. UNCHANGED <<bucket, passed, genStatus, ranking>>
    BY <1>a DEF limiterVars, genVars
  <2>2. GatewayTypeOK'
    BY <2>1, <1>0, <1>a DEF GatewayTypeOK
  <2>3. AnswersTyped' /\ ReadyIsRanked'
    BY <2>1, <1>0, <1>a DEF AnswersTyped, ReadyIsRanked
  <2>4. ReadyAnswerHasIdeas'
    BY <2>1, <1>0, <1>a DEF AnswersTyped, ReadyAnswerHasIdeas
  <2>. QED
    BY <2>2, <2>3, <2>4, <1>0, <1>a, PassesKept DEF GatewayInv
<1>1. CASE GatewayTick
  <2>1. GatewayTypeOK'
    <3>1. \A k \in BucketKeys :
             /\ bucket'[k] \in [count : Nat, left : 0..(Window + 1)]
             /\ bucket'[k].count <= Budgets[k[1]]
      <4>. TAKE k \in BucketKeys
      <4>1. /\ bucket[k] \in [count : Nat, left : 0..(Window + 1)]
            /\ bucket[k].count <= Budgets[k[1]]
        BY <1>0 DEF GatewayTypeOK
      <4>2. Budgets[k[1]] \in Nat
        <5>1. k[1] \in Limiters
          BY DEF BucketKeys, Limiters
        <5>. QED
          BY <5>1
      <4>3. bucket'[k] = IF bucket[k].left <= 1 THEN [count |-> 0, left |-> 0]
                         ELSE [bucket[k] EXCEPT !.left = @ - 1]
        BY <1>1 DEF GatewayTick
      <4>. QED
        BY <4>1, <4>2, <4>3
    <3>2. bucket' = [k \in BucketKeys |-> bucket'[k]]
      BY <1>1 DEF GatewayTick
    <3>3. bucket' \in [BucketKeys -> [count : Nat, left : 0..(Window + 1)]]
      BY <3>1, <3>2
    <3>. QED
      BY <3>1, <3>3, <1>0, <1>1 DEF GatewayTypeOK, GatewayTick, genVars
  <2>2. AnswersTyped' /\ ReadyIsRanked' /\ ReadyAnswerHasIdeas'
    BY <1>0, <1>1 DEF GatewayTick, genVars, AnswersTyped, ReadyIsRanked, ReadyAnswerHasIdeas
  <2>3. PassesCounted'
    <3>1. ASSUME Budgets["ip"] # 0, NEW c \in Clients
          PROVE  (/\ IsFiniteSet(passed[c])
                  /\ \A p \in passed[c] : p \in Nat \X Nat /\ p[1] <= Window
                  /\ bucket[<<"ip", c>>].left = 0 => \A p \in passed[c] : p[1] > 0
                  /\ Cardinality(InWindow(c)) <= bucket[<<"ip", c>>].count
                  /\ Cardinality(passed[c] \ InWindow(c)) <= Budgets["ip"])'
      BY <3>1, <1>1, TickCounted
    <3>. QED
      BY <3>1, Zenon DEF PassesCounted
  <2>. QED
    BY <2>1, <2>2, <2>3 DEF GatewayInv
<1>2. ASSUME NEW r \in Requests,
             \/ \E p \in Routes, c \in Clients : Arrive(r, p, c)
             \/ Dispatch(r) \/ RequireJWT(r)
             \/ HandleCall(r) \/ GetGenerationStatus(r) \/ GetIdeas(r) \/ Done(r)
      PROVE  GatewayInv'
  <2>0. /\ route \in [Requests -> Routes] /\ client \in [Requests -> Clients]
        /\ NoAnswer.status # "ready" /\ \A n : Answer(n).status # "ready"
    BY <1>0 DEF GatewayTypeOK, NoAnswer, Answer
  <2>1. ASSUME NEW p \in Routes, NEW c \in Clients, Arrive(r, p, c) PROVE GatewayInv'
    <3>. QED
      BY <1>a, <2>0, <2>1 DEF Arrive
  <2>2. CASE Dispatch(r)
    <3>1. PICK s : stage' = [stage EXCEPT ![r] = s] /\ s \in {"call", "refresh", "jwt"}
      <4>. DEFINE s == CASE route[r] = "open" -> "call"
                         [] route[r] = "refresh" -> "refresh"
                         [] OTHER -> "jwt"
      <4>1. s \in {"call", "refresh", "jwt"}
        BY <2>0, Zenon DEF Routes
      <4>. HIDE DEF s
      <4>2. stage' = [stage EXCEPT ![r] = s]
        BY <2>2, Zenon DEF Dispatch, s
      <4>. QED
        BY <4>1, <4>2
    <3>2. UNCHANGED <<limiterVars, route, client, reply, genVars>>
      BY <2>2, Zenon DEF Dispatch
    <3>. QED
      BY <1>a, <2>0, <3>1, <3>2
  <2>3. CASE RequireJWT(r)
    BY <1>a, <2>0, <2>3 DEF RequireJWT, Reply
  <2>4. CASE HandleCall(r)
    <3>1. PICK n : Reply(r, Answer(n))
      BY <2>4, Zenon DEF HandleCall, Handled, IdentityHandlers, PollHandlers, SurpriseHandlers,
                  CatalogHandlers, DeviceHandlers
    <3>2. UNCHANGED <<limiterVars, route, client, genVars>>
      BY <2>4, Zenon DEF HandleCall, Handled, IdentityHandlers, PollHandlers, SurpriseHandlers,
                  CatalogHandlers, DeviceHandlers
    <3>. QED
      BY <1>a, <2>0, <3>1, <3>2 DEF Reply
  <2>5. CASE GetGenerationStatus(r)
    <3>1. CASE genStatus = "ready" /\ stage' = [stage EXCEPT ![r] = "ideas"] /\ UNCHANGED reply
      BY <1>a, <1>0, <2>0, <2>5, <3>1 DEF GetGenerationStatus, ReadyIsRanked
    <3>2. CASE genStatus # "ready" /\ Reply(r, [Answer(200) EXCEPT !.status = genStatus])
      BY <1>a, <2>0, <2>5, <3>2 DEF GetGenerationStatus, Reply, Answer, NoAnswer
    <3>3. CASE \E n : Reply(r, Answer(n))
      BY <1>a, <2>0, <2>5, <3>3 DEF GetGenerationStatus, Reply
    <3>. QED
      BY <2>5, <3>1, <3>2, <3>3, Zenon DEF GetGenerationStatus
  <2>6. CASE GetIdeas(r)
    <3>1. ranking > 0
      BY <1>0, <2>6 DEF GetIdeas, ReadyIsRanked
    <3>2. CASE Reply(r, [code |-> 200, status |-> "ready", ideas |-> ranking])
      BY <1>a, <2>0, <2>6, <3>1, <3>2 DEF GetIdeas, Reply
    <3>3. CASE \E n : Reply(r, Answer(n))
      BY <1>a, <2>0, <2>6, <3>3 DEF GetIdeas, Reply
    <3>. QED
      BY <2>6, <3>2, <3>3, Zenon DEF GetIdeas
  <2>7. CASE Done(r)
    BY <1>a, <2>0, <2>7 DEF Done, Routes
  <2>. QED
    BY <1>2, <2>1, <2>2, <2>3, <2>4, <2>5, <2>6, <2>7
<1>3. ASSUME NEW r \in Requests,
             GlobalLimit(r) \/ PerIPLimit(r) \/ LimitRefresh(r) \/ PerUserLimit(r)
      PROVE  GatewayInv'
  <2>1. CASE GlobalLimit(r)
    BY <2>1, AskLimiterStep DEF GlobalLimit, Limiters
  <2>2. CASE PerIPLimit(r)
    BY <2>2, AskLimiterStep DEF PerIPLimit, Limiters
  <2>3. CASE LimitRefresh(r)
    BY <2>3, AskLimiterStep DEF LimitRefresh, Limiters
  <2>4. CASE PerUserLimit(r)
    BY <2>4, AskLimiterStep DEF PerUserLimit, Limiters
  <2>. QED
    BY <1>3, <2>1, <2>2, <2>3, <2>4
<1>4. CASE GenerationRuns \/ GenerationFails \/ SaveIdeas \/ SetReady \/ Refine
  <2>1. UNCHANGED <<bucket, passed, stage, route, client, reply>>
    BY <1>4 DEF GenerationRuns, GenerationFails, SaveIdeas, SetReady, Refine, Generate, limiterVars
  <2>2. GatewayTypeOK'
    BY <2>1, <1>0, <1>4 DEF GatewayTypeOK, GenerationRuns, GenerationFails, SaveIdeas, SetReady,
          Refine, Generate
  <2>3. AnswersTyped' /\ ReadyIsRanked' /\ ReadyAnswerHasIdeas'
    BY <2>1, <1>0, <1>4 DEF AnswersTyped, ReadyIsRanked, ReadyAnswerHasIdeas, GenerationRuns,
          GenerationFails, SaveIdeas, SetReady, Refine, Generate
  <2>. QED
    BY <2>1, <2>2, <2>3, <1>0, PassesKept DEF GatewayInv, limiterVars
<1>5. CASE UNCHANGED gatewayVars
  <2>1. UNCHANGED <<bucket, passed, stage, route, client, reply, genStatus, ranking>>
    BY <1>5 DEF gatewayVars, limiterVars, genVars
  <2>. QED
    BY <2>1, <1>0, PassesKept DEF GatewayInv, GatewayTypeOK, AnswersTyped, ReadyIsRanked,
       ReadyAnswerHasIdeas, limiterVars
<1>. QED
  BY <1>1, <1>2, <1>3, <1>4, <1>5, Zenon DEF GatewayNext

\* Two budgets bound what passes the per-IP limiter in one window's time.
LEMMA PassesBounded == GatewayInv => PerIPBudgetHolds
<1>. SUFFICES ASSUME GatewayInv, Budgets["ip"] # 0, NEW c \in Clients
              PROVE  Cardinality(passed[c]) <= 2 * Budgets["ip"]
  BY DEF PerIPBudgetHolds
<1>. DEFINE S == passed[c]
            W == InWindow(c)
<1>1. /\ IsFiniteSet(S) /\ Cardinality(W) <= bucket[<<"ip", c>>].count
      /\ Cardinality(S \ W) <= Budgets["ip"]
  BY DEF GatewayInv, PassesCounted
<1>2. /\ bucket[<<"ip", c>>].count \in Nat /\ bucket[<<"ip", c>>].count <= Budgets["ip"]
      /\ Budgets["ip"] \in Nat
  BY IPBucket, GatewayConstants DEF GatewayInv, Limiters
<1>3. W \subseteq S /\ S \ W \subseteq S /\ S = W \cup (S \ W) /\ W \cap (S \ W) = {}
  BY DEF InWindow
<1>4. IsFiniteSet(W) /\ IsFiniteSet(S \ W)
  BY <1>1, <1>3, FS_Subset
<1>5. Cardinality(W) \in Nat /\ Cardinality(S \ W) \in Nat /\ Cardinality({}) = 0
  BY <1>4, FS_CardinalityType, FS_EmptySet
<1>6. Cardinality(W \cup (S \ W)) = Cardinality(W) + Cardinality(S \ W) - Cardinality(W \cap (S \ W))
  BY <1>4, FS_Union
<1>7. Cardinality(S) = Cardinality(W) + Cardinality(S \ W)
  <2>1. Cardinality(S) = Cardinality(W) + Cardinality(S \ W) - Cardinality({})
    BY ONLY <1>3, <1>6
  <2>. QED
    BY ONLY <2>1, <1>5
<1>. QED
  <2>. HIDE DEF S, W
  <2>1. Cardinality(S) <= 2 * Budgets["ip"]
    BY <1>1, <1>2, <1>5, <1>7
  <2>. QED
    BY <2>1 DEF S

\* The edge stays safe for any requests, clients, budgets and window: the buckets never
\* hold more than their budget, and in any interval as long as a window the fixed windows
\* of Limiter let at most two budgets of one client through.
THEOREM GatewayStaysSafe == GatewaySpec => []GatewaySafe
<1>1. GatewayInv => GatewaySafe
  BY PassesBounded DEF GatewayInv, GatewaySafe
<1>. QED
  BY InitGateway, NextGateway, <1>1, PTL DEF GatewaySpec

\* handleGetGeneration never answers "ready" without ideas, whatever a refinement does
\* between its two calls, for any number of requests and of refinements.
THEOREM ReadyAnswersHaveIdeas == GatewaySpec => []ReadyAnswerHasIdeas
<1>1. GatewayInv => ReadyAnswerHasIdeas
  BY DEF GatewayInv
<1>. QED
  BY InitGateway, NextGateway, <1>1, PTL DEF GatewaySpec

-----------------------------------------------------------------------------
(* The Catalog service *)

Editions == 0..MaxEdits

ReaderStates == Tables \cup {"idle", "set", "answered"}

ReaderTyped(q) ==
    q \in [at : ReaderStates, key : CacheKeys, got : [Tables -> Editions], took : 0..Deadline]

EntryTyped(e) == e \in [left : 0..ReferenceTTL, of : [Tables -> Editions]]

\* The shapes of the state.
ReadsTyped ==
    /\ table \in [Tables -> Editions]
    /\ superseded \in [Tables -> [Editions -> Nat]]
    /\ DOMAIN entry = CacheKeys /\ \A k \in CacheKeys : EntryTyped(entry[k])
    /\ DOMAIN reader = Readers /\ \A r \in Readers : ReaderTyped(reader[r])

\* The last edition of a table, and the ones to come, have not been superseded.
LastIsFresh == \A t \in Tables, n \in Editions : n >= table[t] => superseded[t][n] = 0

\* The tables a read that is under way has queried.
Queried(q) ==
    IF q.at = "set" THEN TablesOf(q.key) ELSE IF q.at = "bands" THEN {"categories"} ELSE {}

\* What a read has got so far was the last edition when the read began, or later; a read
\* of the categories asks for both of their tables; and an answer is not too old.
ReaderFits(q) ==
    /\ q.at = "holidays" => q.key = "holidays"
    /\ q.at \in {"categories", "bands"} => q.key = "categories"
    /\ \A t \in Queried(q) : superseded[t][q.got[t]] <= q.took
    /\ q.at = "answered" =>
         \A t \in TablesOf(q.key) : superseded[t][q.got[t]] < ReferenceTTL + Deadline

\* What the cache holds and the time it still has: together no more than a TTL and the
\* deadline of the read that filled it.
EntryFits(k, e) ==
    e.left > 0 =>
        \A t \in TablesOf(k) : superseded[t][e.of[t]] + e.left <= ReferenceTTL + Deadline

\* The inductive invariant of the catalogue.
CatalogInv ==
    /\ ReadsTyped
    /\ LastIsFresh
    /\ \A r \in Readers : ReaderFits(reader[r])
    /\ \A k \in CacheKeys : EntryFits(k, entry[k])

-----------------------------------------------------------------------------
\* The catalogue's first state.
LEMMA InitCatalog == CatalogInit => CatalogInv
<1>. SUFFICES ASSUME CatalogInit PROVE CatalogInv
  OBVIOUS
<1>. USE CatalogConstants DEF Editions
<1>1. ReadsTyped
  BY DEF CatalogInit, ReadsTyped, ReaderTyped, EntryTyped, NoEntry, IdleReader, ReaderStates,
         CacheKeys
<1>2. LastIsFresh
  BY DEF CatalogInit, LastIsFresh
<1>3. \A r \in Readers : ReaderFits(reader[r])
  BY DEF CatalogInit, ReaderFits, Queried, IdleReader
<1>4. \A k \in CacheKeys : EntryFits(k, entry[k])
  BY DEF CatalogInit, EntryFits, NoEntry
<1>. QED
  BY <1>1, <1>2, <1>3, <1>4 DEF CatalogInv

\* The tables under a key are tables.
LEMMA TablesOfKey == \A k \in CacheKeys : TablesOf(k) \subseteq Tables
BY DEF CacheKeys, TablesOf, Tables

\* A step of one reader that leaves the tables and the cache's history alone.
LEMMA ReaderStep ==
    ASSUME CatalogInv, NEW r \in Readers, NEW q, ReaderTyped(q), ReaderFits(q),
           reader' = [reader EXCEPT ![r] = q], UNCHANGED <<table, superseded>>,
           \A k \in CacheKeys : EntryTyped(entry'[k]) /\ EntryFits(k, entry'[k]),
           DOMAIN entry' = CacheKeys
    PROVE  CatalogInv'
<1>1. \A s \in Readers : reader'[s] = IF s = r THEN q ELSE reader[s]
  BY DEF CatalogInv, ReadsTyped
<1>2. ReadsTyped'
  <2>1. DOMAIN reader' = Readers /\ \A s \in Readers : ReaderTyped(reader'[s])
    BY <1>1 DEF CatalogInv, ReadsTyped
  <2>. QED
    BY <2>1 DEF CatalogInv, ReadsTyped, ReaderTyped, EntryTyped
<1>3. LastIsFresh'
  BY DEF CatalogInv, LastIsFresh
<1>4. ASSUME NEW s \in Readers PROVE ReaderFits(reader[s])'
  <2>1. ReaderFits(reader'[s])
    BY <1>1 DEF CatalogInv
  <2>. QED
    BY <2>1 DEF ReaderFits, Queried
<1>5. \A k \in CacheKeys : EntryFits(k, entry[k])'
  BY DEF EntryFits
<1>. QED
  BY <1>2, <1>3, <1>4, <1>5 DEF CatalogInv

\* A read: a hit takes over the bound of the entry, a query that of its table, and a
\* SET passes the bound of the read on to the entry.
LEMMA ReadStep ==
    ASSUME CatalogInv, NEW r \in Readers,
           \/ \E k \in CacheKeys : CacheGet(r, k)
           \/ ListHolidays(r) \/ GetCategories(r) \/ QueryFails(r) \/ CacheSet(r)
    PROVE  CatalogInv'
<1>. USE CatalogConstants DEF Editions
<1>0. /\ ReadsTyped /\ LastIsFresh /\ ReaderTyped(reader[r]) /\ ReaderFits(reader[r])
      /\ \A k \in CacheKeys : EntryTyped(entry[k]) /\ EntryFits(k, entry[k])
      /\ DOMAIN entry = CacheKeys
  BY DEF CatalogInv, ReadsTyped
<1>t. superseded \in [Tables -> [Editions -> Nat]] /\ table \in [Tables -> Editions]
  BY <1>0 DEF ReadsTyped
<1>1. ASSUME NEW k \in CacheKeys, CacheGet(r, k) PROVE CatalogInv'
  <2>1. UNCHANGED <<table, superseded, entry>>
    BY <1>1 DEF CacheGet
  <2>2. CASE entry[k].left > 0 /\ reader' = [reader EXCEPT ![r] =
                           [at |-> "answered", key |-> k, got |-> entry[k].of, took |-> 0]]
    <3>. DEFINE q == [at |-> "answered", key |-> k, got |-> entry[k].of, took |-> 0]
    <3>1. ReaderTyped(q)
      BY <1>0 DEF ReaderTyped, EntryTyped, ReaderStates
    <3>2. \A t \in TablesOf(k) : superseded[t][entry[k].of[t]] < ReferenceTTL + Deadline
      <4>. TAKE t \in TablesOf(k)
      <4>1. entry[k].of[t] \in Editions /\ t \in Tables /\ entry[k].left \in Nat
        BY <1>0, TablesOfKey DEF EntryTyped
      <4>2. superseded[t][entry[k].of[t]] + entry[k].left <= ReferenceTTL + Deadline
        BY <1>0, <2>2 DEF EntryFits
      <4>3. superseded[t][entry[k].of[t]] \in Nat
        BY <4>1, <1>t
      <4>. QED
        BY <4>1, <4>2, <4>3, <2>2
    <3>3. ReaderFits(q)
      BY <3>2 DEF ReaderFits, Queried
    <3>. HIDE DEF q
    <3>4. reader' = [reader EXCEPT ![r] = q]
      BY <2>2 DEF q
    <3>. QED
      BY <3>1, <3>3, <3>4, <2>1, <1>0, ReaderStep
  <2>3. CASE reader' = [reader EXCEPT ![r] =
                        [at |-> IF k = "holidays" THEN "holidays" ELSE "categories",
                         key |-> k, got |-> NoEntry.of, took |-> 0]]
    <3>. DEFINE q == [at |-> IF k = "holidays" THEN "holidays" ELSE "categories",
                      key |-> k, got |-> NoEntry.of, took |-> 0]
    <3>1. ReaderTyped(q)
      BY DEF ReaderTyped, ReaderStates, NoEntry, Tables
    <3>2. ReaderFits(q)
      BY DEF ReaderFits, Queried, CacheKeys
    <3>. HIDE DEF q
    <3>3. reader' = [reader EXCEPT ![r] = q]
      BY <2>3 DEF q
    <3>. QED
      BY <3>1, <3>2, <3>3, <2>1, <1>0, ReaderStep
  <2>. QED
    BY <2>2, <2>3, <1>1 DEF CacheGet
<1>2. ASSUME NEW t \in Tables, NEW next \in {"bands", "set"}, QueryTable(r, t, next),
             next = "bands" => t = "categories",
             next = "set" => t \in {"holidays", "bands"}
      PROVE  CatalogInv'
  <2>. DEFINE p == reader[r]
              q == [p EXCEPT !.at = next, !.got = [p.got EXCEPT ![t] = table[t]]]
  <2>1. UNCHANGED <<table, superseded, entry>> /\ p.at = t
    BY <1>2 DEF QueryTable, ReaderAt
  <2>2. reader' = [reader EXCEPT ![r] = q]
    <3>1. reader' = [reader EXCEPT ![r].at = next, ![r].got[t] = table[t]]
          /\ DOMAIN reader = Readers /\ ReaderTyped(p)
      BY <1>2, <1>0 DEF QueryTable, ReadsTyped
    <3>2. reader'[r] = q
      BY <3>1 DEF ReaderTyped
    <3>3. \A s \in Readers : s # r => reader'[s] = reader[s]
      BY <3>1
    <3>4. reader' = [s \in Readers |-> reader'[s]]
      BY <3>1
    <3>5. DOMAIN reader' = Readers /\ DOMAIN reader = Readers
      BY <3>1
    <3>. HIDE DEF q
    <3>. QED
      BY <3>2, <3>3, <3>4, <3>5
  <2>3. ReaderTyped(q)
    <3>1. p \in [at : ReaderStates, key : CacheKeys, got : [Tables -> Editions], took : 0..Deadline]
      BY <1>0 DEF ReaderTyped
    <3>2. [p.got EXCEPT ![t] = table[t]] \in [Tables -> Editions]
      BY <3>1, <1>t
    <3>3. next \in ReaderStates
      BY DEF ReaderStates, Tables
    <3>. HIDE DEF p
    <3>4. [p EXCEPT !.at = next, !.got = [p.got EXCEPT ![t] = table[t]]]
             \in [at : ReaderStates, key : CacheKeys, got : [Tables -> Editions], took : 0..Deadline]
      BY ONLY <3>1, <3>2, <3>3
    <3>. QED
      BY <3>4 DEF ReaderTyped
  <2>4. /\ q.at = next /\ q.key = p.key /\ q.took = p.took /\ q.took \in Nat
        /\ q.got[t] = table[t] /\ \A u \in Tables : u # t => q.got[u] = p.got[u]
    BY <1>0 DEF ReaderTyped
  <2>5. superseded[t][q.got[t]] <= q.took
    BY <2>4, <1>0, <1>t DEF LastIsFresh
  <2>6. \A u \in Queried(q) : superseded[u][q.got[u]] <= q.took
    <3>1. CASE next = "bands"
      <4>1. Queried(q) = {t}
        BY <3>1, <2>4, <1>2 DEF Queried
      <4>. QED
        BY <4>1, <2>5
    <3>2. CASE next = "set" /\ t = "holidays"
      <4>1. Queried(q) = {t}
        BY <3>2, <2>1, <2>4, <1>0 DEF Queried, ReaderFits, TablesOf
      <4>. QED
        BY <4>1, <2>5
    <3>3. CASE next = "set" /\ t = "bands"
      <4>1. Queried(q) = {"categories", "bands"} /\ Queried(p) = {"categories"}
        BY <3>3, <2>1, <2>4, <1>0 DEF Queried, ReaderFits, TablesOf
      <4>2. superseded["categories"][q.got["categories"]] <= q.took
        BY <4>1, <3>3, <2>4, <1>0 DEF ReaderFits, Tables
      <4>. QED
        BY <4>1, <4>2, <3>3, <2>5
    <3>. QED
      BY <3>1, <3>2, <3>3, <1>2
  <2>7. ReaderFits(q)
    BY <2>1, <2>4, <2>6, <1>2, <1>0 DEF ReaderFits
  <2>. HIDE DEF q
  <2>. QED
    BY <2>1, <2>2, <2>3, <2>7, <1>0, ReaderStep
<1>3. CASE QueryFails(r)
  <2>1. ReaderTyped(IdleReader) /\ ReaderFits(IdleReader)
    BY DEF ReaderTyped, ReaderFits, Queried, IdleReader, ReaderStates, CacheKeys
  <2>. QED
    BY <1>3, <2>1, <1>0, ReaderStep DEF QueryFails
<1>4. CASE CacheSet(r)
  <2>. DEFINE p == reader[r]
              q == [p EXCEPT !.at = "answered", !.took = 0]
              e == [left |-> ReferenceTTL, of |-> p.got]
  <2>1. UNCHANGED <<table, superseded>> /\ p.at = "set"
    BY <1>4 DEF CacheSet, ReaderAt
  <2>2. reader' = [reader EXCEPT ![r] = q]
    <3>1. reader' = [reader EXCEPT ![r].at = "answered", ![r].took = 0]
          /\ DOMAIN reader = Readers /\ ReaderTyped(p)
      BY <1>4, <1>0 DEF CacheSet, ReadsTyped
    <3>2. reader'[r] = q
      BY <3>1 DEF ReaderTyped
    <3>3. \A s \in Readers : s # r => reader'[s] = reader[s]
      BY <3>1
    <3>4. reader' = [s \in Readers |-> reader'[s]]
      BY <3>1
    <3>5. DOMAIN reader' = Readers /\ DOMAIN reader = Readers
      BY <3>1
    <3>. HIDE DEF q
    <3>. QED
      BY <3>2, <3>3, <3>4, <3>5
  <2>3. ReaderTyped(q) /\ EntryTyped(e)
    <3>1. p \in [at : ReaderStates, key : CacheKeys, got : [Tables -> Editions], took : 0..Deadline]
      BY <1>0 DEF ReaderTyped
    <3>2. "answered" \in ReaderStates /\ 0 \in 0..Deadline
      BY DEF ReaderStates
    <3>3. q \in [at : ReaderStates, key : CacheKeys, got : [Tables -> Editions], took : 0..Deadline]
      BY <3>1, <3>2
    <3>4. EntryTyped(e)
      BY <3>1 DEF EntryTyped
    <3>. QED
      BY <3>3, <3>4 DEF ReaderTyped
  <2>4. \A t \in TablesOf(p.key) : superseded[t][p.got[t]] \in Nat /\ superseded[t][p.got[t]] <= Deadline
    <3>. TAKE t \in TablesOf(p.key)
    <3>1. p.got[t] \in Editions /\ t \in Tables /\ p.took \in 0..Deadline
      BY <1>0, TablesOfKey DEF ReaderTyped
    <3>2. superseded[t][p.got[t]] <= p.took
      BY <1>0, <2>1 DEF ReaderFits, Queried
    <3>3. superseded[t][p.got[t]] \in Nat
      BY <3>1, <1>t
    <3>. QED
      BY <3>1, <3>2, <3>3
  <2>5. q.key = p.key /\ q.got = p.got /\ q.at = "answered"
    BY <1>0 DEF ReaderTyped
  <2>6. ReaderFits(q)
    BY <2>4, <2>5 DEF ReaderFits, Queried
  <2>7. EntryFits(p.key, e)
    BY <2>4 DEF EntryFits
  <2>8. \/ entry' = entry
        \/ entry' = [entry EXCEPT ![p.key] = e]
    BY <1>4 DEF CacheSet
  <2>. HIDE DEF q, e
  <2>9. DOMAIN entry' = CacheKeys
        /\ \A k \in CacheKeys : EntryTyped(entry'[k]) /\ EntryFits(k, entry'[k])
    <3>1. p.key \in CacheKeys
      BY <1>0 DEF ReaderTyped
    <3>. QED
      BY <2>3, <2>7, <2>8, <1>0, <3>1
  <2>. QED
    BY <2>1, <2>2, <2>3, <2>6, <2>9, ReaderStep
<1>. QED
  BY <1>1, <1>2, <1>3, <1>4 DEF ListHolidays, GetCategories, Tables

\* A tick: everything that is superseded gets older, every entry has less left, and the
\* reads under way have taken longer.
LEMMA CatalogTickStep == ASSUME CatalogInv, CatalogTick PROVE CatalogInv'
<1>. USE CatalogConstants
<1>0. ReadsTyped /\ LastIsFresh
  BY DEF CatalogInv
<1>t. superseded \in [Tables -> [Editions -> Nat]] /\ table \in [Tables -> Editions]
      /\ table' = table
  BY <1>0 DEF ReadsTyped, CatalogTick
<1>1. \A t \in Tables, n \in Editions :
         superseded'[t][n] = IF n >= table[t] THEN 0
                             ELSE IF superseded[t][n] = OldCap THEN OldCap ELSE superseded[t][n] + 1
  BY DEF CatalogTick, Editions
<1>2. \A t \in Tables, n \in Editions :
         superseded'[t][n] \in Nat /\ superseded'[t][n] <= superseded[t][n] + 1
  <2>. TAKE t \in Tables, n \in Editions
  <2>1. superseded[t][n] \in Nat /\ OldCap \in Nat
    BY <1>t DEF OldCap
  <2>. QED
    BY <2>1, <1>1
<1>3. superseded' \in [Tables -> [Editions -> Nat]]
  <2>1. superseded' = [t \in Tables |-> [n \in Editions |-> superseded'[t][n]]]
    BY DEF CatalogTick, Editions
  <2>. QED
    BY <2>1, <1>2
<1>4. LastIsFresh'
  BY <1>1, <1>t DEF LastIsFresh
<1>5. DOMAIN entry' = CacheKeys
      /\ \A k \in CacheKeys : EntryTyped(entry[k])' /\ EntryFits(k, entry[k])'
  <2>1. DOMAIN entry' = CacheKeys
    BY DEF CatalogTick
  <2>2. ASSUME NEW k \in CacheKeys PROVE EntryTyped(entry[k])' /\ EntryFits(k, entry[k])'
    <3>1. entry'[k] = IF entry[k].left <= 1 THEN NoEntry ELSE [entry[k] EXCEPT !.left = @ - 1]
      BY DEF CatalogTick
    <3>2. EntryTyped(entry[k]) /\ EntryFits(k, entry[k])
      BY DEF CatalogInv, ReadsTyped
    <3>3. CASE entry[k].left <= 1
      BY <3>1, <3>3 DEF EntryTyped, EntryFits, NoEntry, Editions
    <3>4. CASE ~(entry[k].left <= 1)
      <4>1. entry'[k].left = entry[k].left - 1 /\ entry'[k].of = entry[k].of
            /\ entry[k].left \in Nat /\ entry[k].left > 1
        BY <3>1, <3>2, <3>4 DEF EntryTyped
      <4>2. EntryTyped(entry'[k])
        BY <3>1, <3>2, <3>4 DEF EntryTyped
      <4>3. ASSUME NEW t \in TablesOf(k)
            PROVE  superseded'[t][entry'[k].of[t]] + entry'[k].left <= ReferenceTTL + Deadline
        <5>. DEFINE n == entry[k].of[t]
        <5>1. t \in Tables /\ n \in Editions
          BY <3>2, TablesOfKey DEF EntryTyped
        <5>2. superseded[t][n] + entry[k].left <= ReferenceTTL + Deadline
          BY <3>2, <4>1 DEF EntryFits
        <5>3. superseded[t][n] \in Nat /\ superseded'[t][n] \in Nat
              /\ superseded'[t][n] <= superseded[t][n] + 1
          BY <5>1, <1>t, <1>2
        <5>4. entry'[k].of[t] = n
          BY <4>1
        <5>. HIDE DEF n
        <5>. QED
          BY <5>2, <5>3, <5>4, <4>1
      <4>. QED
        BY <4>2, <4>3 DEF EntryTyped, EntryFits
    <3>. QED
      BY <3>3, <3>4
  <2>. QED
    BY <2>1, <2>2
<1>6. DOMAIN reader' = Readers
      /\ \A r \in Readers : ReaderTyped(reader[r])' /\ ReaderFits(reader[r])'
  <2>1. DOMAIN reader' = Readers
    BY DEF CatalogTick
  <2>2. ASSUME NEW r \in Readers PROVE ReaderTyped(reader[r])' /\ ReaderFits(reader[r])'
    <3>1. reader'[r] = IF reader[r].at \in Tables \cup {"set"} THEN [reader[r] EXCEPT !.took = @ + 1]
                       ELSE IdleReader
      BY DEF CatalogTick
    <3>2. ReaderTyped(reader[r]) /\ ReaderFits(reader[r])
      BY DEF CatalogInv, ReadsTyped
    <3>3. CASE reader[r].at \notin Tables \cup {"set"}
      BY <3>1, <3>3
         DEF ReaderTyped, ReaderFits, Queried, IdleReader, ReaderStates, CacheKeys, Editions
    <3>4. CASE reader[r].at \in Tables \cup {"set"}
      <4>. DEFINE p == reader[r]
                  q == reader'[r]
      <4>1. p.took < Deadline
        BY <3>4 DEF CatalogTick
      <4>2. /\ q = [p EXCEPT !.took = @ + 1]
            /\ q.at = p.at /\ q.key = p.key /\ q.got = p.got /\ q.took = p.took + 1
            /\ p.took \in Nat /\ p.at # "answered"
        BY <3>1, <3>2, <3>4 DEF ReaderTyped, Tables
      <4>3. ReaderTyped(q)
        BY <4>1, <4>2, <3>2 DEF ReaderTyped
      <4>4. Queried(q) = Queried(p) /\ Queried(p) \subseteq Tables
        BY <4>2, <3>2, TablesOfKey DEF Queried, ReaderTyped, Tables
      <4>5. ASSUME NEW t \in Queried(q) PROVE superseded'[t][q.got[t]] <= q.took
        <5>. DEFINE n == p.got[t]
        <5>1. t \in Tables /\ n \in Editions
          BY <4>4, <4>5, <3>2 DEF ReaderTyped
        <5>2. superseded[t][n] <= p.took
          BY <4>4, <4>5, <3>2 DEF ReaderFits
        <5>3. superseded[t][n] \in Nat /\ superseded'[t][n] \in Nat
              /\ superseded'[t][n] <= superseded[t][n] + 1
          BY <5>1, <1>t, <1>2
        <5>4. q.got[t] = n
          BY <4>2
        <5>. HIDE DEF n
        <5>. QED
          BY <5>2, <5>3, <5>4, <4>2
      <4>6. ReaderFits(reader[r])'
        BY <4>2, <4>4, <4>5, <3>2 DEF ReaderFits, Queried
      <4>. QED
        BY <4>3, <4>6 DEF ReaderTyped
    <3>. QED
      BY <3>3, <3>4
  <2>. QED
    BY <2>1, <2>2
<1>. QED
  BY <1>0, <1>t, <1>3, <1>4, <1>5, <1>6 DEF CatalogInv, ReadsTyped

\* Every step of the catalogue keeps the invariant.
LEMMA NextCatalog == CatalogInv /\ [CatalogNext]_catalogVars => CatalogInv'
<1>. SUFFICES ASSUME CatalogInv, [CatalogNext]_catalogVars PROVE CatalogInv'
  OBVIOUS
<1>. USE CatalogConstants
<1>1. CASE CatalogTick
  BY <1>1, CatalogTickStep
<1>2. ASSUME NEW r \in Readers,
             \/ \E k \in CacheKeys : CacheGet(r, k)
             \/ ListHolidays(r) \/ GetCategories(r) \/ QueryFails(r) \/ CacheSet(r)
      PROVE  CatalogInv'
  BY <1>2, ReadStep
<1>3. ASSUME NEW t \in Tables, EditTable(t) PROVE CatalogInv'
  <2>1. UNCHANGED <<superseded, entry, reader>> /\ table[t] < MaxEdits
        /\ table' = [table EXCEPT ![t] = @ + 1]
    BY <1>3 DEF EditTable
  <2>2. ReadsTyped /\ LastIsFresh
    BY DEF CatalogInv
  <2>3. table' \in [Tables -> Editions]
    BY <2>1, <2>2 DEF ReadsTyped, Editions
  <2>4. ReadsTyped'
    BY <2>1, <2>2, <2>3 DEF ReadsTyped, ReaderTyped, EntryTyped
  <2>5. LastIsFresh'
    <3>1. \A u \in Tables : table'[u] \in Nat /\ table[u] \in Nat
      BY <2>2, <2>3 DEF ReadsTyped, Editions
    <3>2. \A u \in Tables : table'[u] = table[u] \/ table'[u] = table[u] + 1
      BY <2>1, <2>2 DEF ReadsTyped
    <3>3. \A u \in Tables, n \in Editions : n >= table'[u] => n >= table[u]
      BY <3>1, <3>2 DEF Editions
    <3>. QED
      BY <3>3, <2>1, <2>2 DEF LastIsFresh
  <2>6. (\A r \in Readers : ReaderFits(reader[r])) /\ \A k \in CacheKeys : EntryFits(k, entry[k])
    BY DEF CatalogInv
  <2>7. (\A r \in Readers : ReaderFits(reader[r])') /\ \A k \in CacheKeys : EntryFits(k, entry[k])'
    BY <2>1, <2>6 DEF ReaderFits, Queried, EntryFits
  <2>. QED
    BY <2>4, <2>5, <2>7 DEF CatalogInv
<1>4. ASSUME NEW w \in Editors,
             \/ \E x \in Texts : EmbedInspiration(w, x)
             \/ UpsertInspiration(w) \/ UpsertFails(w) \/ Invalidate(w)
      PROVE  CatalogInv'
  <2>1. UNCHANGED <<table, superseded, reader>>
    BY <1>4 DEF EmbedInspiration, UpsertInspiration, UpsertFails, Invalidate
  <2>2. ReadsTyped /\ LastIsFresh
        /\ (\A r \in Readers : ReaderFits(reader[r])) /\ \A k \in CacheKeys : EntryFits(k, entry[k])
    BY DEF CatalogInv
  <2>3. DOMAIN entry' = CacheKeys /\ \A k \in CacheKeys : entry'[k] = entry[k] \/ entry'[k] = NoEntry
    BY <1>4, <2>2 DEF EmbedInspiration, UpsertInspiration, UpsertFails, Invalidate, ReadsTyped
  <2>4. EntryTyped(NoEntry) /\ \A k \in CacheKeys : EntryFits(k, NoEntry)
    BY DEF EntryTyped, EntryFits, NoEntry, Editions
  <2>5. \A k \in CacheKeys : EntryTyped(entry'[k]) /\ EntryFits(k, entry'[k])
    BY <2>2, <2>3, <2>4 DEF ReadsTyped
  <2>6. ReadsTyped'
    BY <2>1, <2>2, <2>3, <2>5 DEF ReadsTyped, ReaderTyped, EntryTyped
  <2>7. (\A r \in Readers : ReaderFits(reader[r])') /\ \A k \in CacheKeys : EntryFits(k, entry[k])'
    BY <2>1, <2>2, <2>5 DEF ReaderFits, Queried, EntryFits
  <2>8. LastIsFresh'
    BY <2>1, <2>2 DEF LastIsFresh
  <2>. QED
    BY <2>6, <2>7, <2>8 DEF CatalogInv
<1>5. CASE UNCHANGED catalogVars
  BY <1>5 DEF catalogVars, CatalogInv, ReadsTyped, ReaderTyped, EntryTyped, LastIsFresh,
     ReaderFits, Queried, EntryFits
<1>. QED
  BY <1>1, <1>2, <1>3, <1>4, <1>5 DEF CatalogNext

\* A read of the reference data is never older than the TTL and the deadline of the read that
\* filled the cache together, for any readers, editors, TTL, deadline and edits.
THEOREM CatalogStaysSafe == CatalogSpec => []CatalogSafe
<1>1. CatalogInv => CatalogSafe
  BY DEF CatalogInv, CatalogSafe, CatalogTypeOK, StalenessBounded, ReadsTyped, ReaderTyped,
         EntryTyped, Editions, ReaderFits, ReaderAt
<1>. QED
  BY InitCatalog, NextCatalog, <1>1, PTL DEF CatalogSpec

-----------------------------------------------------------------------------
(* The log store and its viewer *)

FetchRecords ==
    [kind : {"load", "tail"}, filter : LogServices \cup {All}, after : Nat, load : Nat,
     epoch : Nat, answer : SUBSET Nat, answered : BOOLEAN]

\* The shapes of the state: ids come from the sequence.
StoreTyped ==
    /\ IsFiniteSet(logs) /\ \A r \in logs : r.id <= lastId
    /\ IsFiniteSet(fetches) /\ fetches \subseteq FetchRecords
    /\ loads \in Nat /\ epoch \in Nat
    /\ overtaken \in BOOLEAN /\ cut \in BOOLEAN

\* The last load has been used, and no answer after it.
Settled == ~overtaken /\ \A f \in fetches : f.kind = "load" => f.load # loads

\* An answer has every stored row that matches, is above its cursor and not above all of it.
NoGap(f) ==
    \A r \in Matching(f.filter, f.after) : (\E a \in f.answer : r.id <= a) => r.id \in f.answer

\* A tick of the tail under way since the last load: its cursor is not ahead of the viewer's,
\* its filter is the viewer's, and its answer has no gap.
FetchFits(f) ==
    /\ f.answer \subseteq 1..lastId
    /\ f.epoch <= epoch
    /\ f.kind = "tail" /\ f.epoch = epoch =>
         /\ f.after <= cursor
         /\ Settled => f.filter = filter
         /\ ~cut => NoGap(f)

\* What the tail has passed since the last load, it shows.
TailShown ==
    Settled /\ ~cut => \A r \in Matching(filter, since) : r.id <= cursor => r.id \in shown

\* The inductive invariant of the store and its viewer.
LogStoreInv ==
    /\ LogStoreTypeOK
    /\ StoreTyped
    /\ \A f \in fetches : FetchFits(f)
    /\ TailShown

-----------------------------------------------------------------------------
\* A set of naturals that is not empty has a least element.
LEMMA NatHasLeast ==
    ASSUME NEW T \in SUBSET Nat, T # {}
    PROVE  \E x \in T : \A y \in T : x <= y
<1>. DEFINE R == {p \in Nat \X Nat : p[1] < p[2]}
<1>1. IsWellFoundedOn(R, Nat)
  BY NatLessThanWellFounded DEF OpToRel
<1>. HIDE DEF R
<1>2. PICK x \in T : \A y \in T : ~(<<y, x>> \in R)
  BY <1>1, WFMin
<1>3. ASSUME NEW y \in T PROVE x <= y
  <2>1. ~(<<y, x>> \in R)
    BY <1>2
  <2>2. <<y, x>> \in Nat \X Nat /\ <<y, x>>[1] = y /\ <<y, x>>[2] = x
    OBVIOUS
  <2>3. ~(y < x)
    BY <2>1, <2>2 DEF R
  <2>. QED
    BY <2>3
<1>. QED
  BY <1>3

\* The maximum of a bounded set of naturals is its greatest element.
LEMMA MaxIsGreatest ==
    ASSUME NEW n \in Nat, NEW S \in SUBSET (0..n), S # {}
    PROVE  Max(S) \in S /\ \A y \in S : y <= Max(S)
<1>. DEFINE U == {u \in Nat : \A y \in S : y <= u}
<1>1. n \in U
  OBVIOUS
<1>2. PICK m \in U : \A u \in U : m <= u
  <2>1. U \in SUBSET Nat /\ U # {}
    BY <1>1
  <2>. HIDE DEF U
  <2>. QED
    BY <2>1, NatHasLeast
<1>3. m \in S
  <2>. SUFFICES ASSUME m \notin S PROVE FALSE
    OBVIOUS
  <2>1. PICK y \in S : TRUE
    OBVIOUS
  <2>2. \A z \in S : z < m
    BY <1>2
  <2>3. m - 1 \in Nat /\ \A z \in S : z <= m - 1
    BY <2>1, <2>2
  <2>4. m - 1 \in U
    BY <2>3
  <2>. QED
    BY <2>4, <1>2
<1>4. m \in S /\ \A y \in S : m >= y
  BY <1>2, <1>3
<1>5. Max(S) \in S /\ \A y \in S : Max(S) >= y
  BY <1>4, Zenon DEF Max
<1>. QED
  BY <1>5

\* nextAfter moves the cursor to the greatest of the ids, and never back.
LEMMA NextAfterGreatest ==
    ASSUME NEW n \in Nat, NEW ids \in SUBSET (1..n), NEW current \in 0..n
    PROVE  /\ NextAfter(ids, current) \in 0..n
           /\ NextAfter(ids, current) \in ids \cup {current}
           /\ current <= NextAfter(ids, current)
<1>. DEFINE S == ids \cup {current}
<1>1. S \in SUBSET (0..n) /\ S # {}
  OBVIOUS
<1>2. Max(S) \in S /\ \A y \in S : y <= Max(S)
  <2>. HIDE DEF S
  <2>. QED
    BY <1>1, MaxIsGreatest
<1>. QED
  BY <1>1, <1>2 DEF NextAfter

\* A query that finds no more rows than its limit answers with all of them.
LEMMA QueryComplete ==
    ASSUME NEW f, NEW after, IsFiniteSet(logs), \A r \in logs : r.id \in Nat,
           Cardinality(Matching(f, after)) <= Limit
    PROVE  \A r \in Matching(f, after) : r.id \in Query(f, after)
<1>. DEFINE M == Matching(f, after)
            I == Ids(M)
            g == [r \in M |-> r.id]
<1>1. IsFiniteSet(M)
  <2>1. M \in SUBSET logs
    BY DEF Matching
  <2>. QED
    BY <2>1, FS_Subset
<1>2. g \in [M -> I] /\ \A i \in I : \E r \in M : g[r] = i
  BY DEF Ids
<1>3. g \in Surjection(M, I)
  BY <1>2, Zenon DEF Surjection
<1>4. IsFiniteSet(I) /\ Cardinality(I) <= Cardinality(M)
  <2>. HIDE DEF g, M, I
  <2>. QED
    BY <1>1, <1>3, FS_Surjection
<1>5. Cardinality(I) \in Nat /\ Cardinality(M) \in Nat /\ Limit \in Nat
  BY <1>1, <1>4, FS_CardinalityType, LogStoreBounds
<1>6. ASSUME NEW i \in I PROVE Cardinality({j \in I : j > i}) < Limit
  <2>. DEFINE J == {j \in I : j > i}
  <2>1. J \in SUBSET I
    OBVIOUS
  <2>2. /\ IsFiniteSet(J) /\ Cardinality(J) <= Cardinality(I)
        /\ Cardinality(I) = Cardinality(J) => I = J
    BY <2>1, <1>4, FS_Subset
  <2>3. I # J
    <3>. SUFFICES ASSUME I = J PROVE FALSE
      OBVIOUS
    <3>1. i > i
      BY <1>6
    <3>2. i \in Nat
      BY <1>6 DEF Ids, Matching
    <3>. QED
      BY <3>1, <3>2
  <2>4. Cardinality(J) \in Nat
    BY <2>2, FS_CardinalityType
  <2>5. Cardinality(J) < Cardinality(I)
    <3>. HIDE DEF I, J, M
    <3>. QED
      BY <2>2, <2>3, <2>4, <1>5
  <2>6. Cardinality(J) < Limit
    <3>. HIDE DEF I, J
    <3>. QED
      BY <2>4, <2>5, <1>4, <1>5
  <2>. QED
    BY <2>6
<1>. QED
  BY <1>6 DEF Query, Ids

-----------------------------------------------------------------------------
\* The first state: nothing is stored and nothing is shown.
LEMMA InitLogStore == LogStoreInit => LogStoreInv
<1>. SUFFICES ASSUME LogStoreInit PROVE LogStoreInv
  OBVIOUS
<1>1. IsFiniteSet({}) /\ Cardinality({}) = 0
  BY FS_EmptySet
<1>. USE LogStoreBounds
<1>2. LogStoreTypeOK
  BY <1>1 DEF LogStoreInit, LogStoreTypeOK
<1>3. StoreTyped
  BY <1>1 DEF LogStoreInit, StoreTyped
<1>4. TailShown
  BY DEF LogStoreInit, TailShown, Matching
<1>. QED
  BY <1>2, <1>3, <1>4 DEF LogStoreInit, LogStoreInv

\* What an insert does to the rows a query finds.
LEMMA IngestMatching ==
    ASSUME HandleIngest, NEW f, NEW after, NEW r \in Matching(f, after)'
    PROVE  r \in Matching(f, after) \/ r.id = lastId + 1
BY DEF HandleIngest, Matching, FreshId

\* An insert and a prune leave what the viewer has passed as it was.
LEMMA StoreStep ==
    ASSUME LogStoreInv, HandleIngest \/ Prune
    PROVE  LogStoreInv'
<1>. USE LogStoreBounds
<1>0. LogStoreTypeOK /\ StoreTyped /\ TailShown
  BY DEF LogStoreInv
<1>1. UNCHANGED <<filter, live, cursor, shown, fetches, loads, epoch, since, overtaken, cut>>
  BY DEF HandleIngest, Prune
<1>2. /\ lastId \in Nat /\ lastId' \in Nat /\ lastId <= lastId' /\ lastId' <= MaxRows
      /\ cursor \in 0..lastId /\ since \in 0..lastId
  BY <1>0 DEF HandleIngest, Prune, LogStoreTypeOK, FreshId
<1>3. /\ logs' \subseteq [id : 1..MaxRows, service : LogServices, old : BOOLEAN]
      /\ \A r \in logs' : r.id <= lastId'
      /\ IsFiniteSet(logs')
  <2>1. CASE HandleIngest
    <3>1. PICK s \in LogServices, old \in BOOLEAN :
             logs' = logs \cup {[id |-> FreshId, service |-> s, old |-> old]}
      BY <2>1, Zenon DEF HandleIngest
    <3>2. lastId' = lastId + 1 /\ FreshId = lastId + 1 /\ lastId < MaxRows
      BY <2>1 DEF HandleIngest, FreshId
    <3>3. FreshId \in 1..MaxRows
      BY <3>2, <1>2
    <3>4. [id |-> FreshId, service |-> s, old |-> old]
             \in [id : 1..MaxRows, service : LogServices, old : BOOLEAN]
      BY <3>3
    <3>5. \A r \in logs : r.id <= lastId'
      BY <3>2, <1>2, <1>0 DEF StoreTyped, LogStoreTypeOK
    <3>6. IsFiniteSet(logs')
      BY <3>1, <1>0, FS_AddElement DEF StoreTyped
    <3>. QED
      BY <3>1, <3>2, <3>4, <3>5, <3>6, <1>0, <1>2 DEF LogStoreTypeOK
  <2>2. CASE Prune
    <3>1. logs' \in SUBSET logs /\ lastId' = lastId
      BY <2>2 DEF Prune
    <3>2. IsFiniteSet(logs')
      BY <3>1, <1>0, FS_Subset DEF StoreTyped
    <3>. QED
      BY <3>1, <3>2, <1>0 DEF StoreTyped, LogStoreTypeOK
  <2>. QED
    BY <2>1, <2>2
<1>4. LogStoreTypeOK'
  BY <1>0, <1>1, <1>2, <1>3 DEF LogStoreTypeOK
<1>5. StoreTyped'
  BY <1>0, <1>1, <1>3 DEF StoreTyped
<1>6. ASSUME NEW f, NEW after, NEW r \in Matching(f, after)'
      PROVE  r \in Matching(f, after) \/ r.id = lastId + 1
  <2>1. CASE Prune
    BY <1>6, <2>1 DEF Prune, Matching
  <2>. QED
    BY <1>6, <2>1, IngestMatching
<1>7. Settled' = Settled
  BY <1>1 DEF Settled
<1>8. ASSUME NEW f \in fetches' PROVE FetchFits(f)'
  <2>1. FetchFits(f) /\ f \in fetches
    BY <1>1 DEF LogStoreInv
  <2>2. f.answer \subseteq 1..lastId'
    BY <2>1, <1>2 DEF FetchFits
  <2>3. ASSUME NoGap(f) PROVE NoGap(f)'
    <3>. SUFFICES ASSUME NEW r \in Matching(f.filter, f.after)', NEW a \in f.answer, r.id <= a
                  PROVE  r.id \in f.answer
      BY DEF NoGap
    <3>1. a <= lastId /\ a \in Nat
      BY <2>1 DEF FetchFits
    <3>2. r.id # lastId + 1
      BY <3>1, <1>2
    <3>3. r \in Matching(f.filter, f.after)
      BY <3>2, <1>6
    <3>. QED
      BY <3>3, <2>3 DEF NoGap
  <2>. QED
    BY <2>1, <2>2, <2>3, <1>1, <1>7 DEF FetchFits
<1>9. TailShown'
  <2>. SUFFICES ASSUME Settled, ~cut, NEW r \in Matching(filter, since)', r.id <= cursor
                PROVE  r.id \in shown
    BY <1>1, <1>7 DEF TailShown, Matching
  <2>1. r.id # lastId + 1
    BY <1>2
  <2>2. r \in Matching(filter, since)' => r \in Matching(filter, since)
    BY <2>1, <1>1, <1>6 DEF Matching
  <2>. QED
    BY <2>2, <1>0 DEF TailShown
<1>. QED
  BY <1>4, <1>5, <1>8, <1>9 DEF LogStoreInv

\* One more query under way.
LEMMA SentTyped ==
    ASSUME StoreTyped, LogStoreTypeOK, Cardinality(fetches) < MaxFetches,
           NEW g \in FetchRecords, fetches' = fetches \cup {g}
    PROVE  /\ IsFiniteSet(fetches') /\ fetches' \subseteq FetchRecords
           /\ Cardinality(fetches') <= MaxFetches
<1>1. IsFiniteSet(fetches) /\ fetches \subseteq FetchRecords
  BY DEF StoreTyped
<1>2. /\ IsFiniteSet(fetches')
      /\ Cardinality(fetches') = IF g \in fetches THEN Cardinality(fetches)
                                 ELSE Cardinality(fetches) + 1
  BY <1>1, FS_AddElement
<1>3. Cardinality(fetches) \in Nat /\ MaxFetches \in Nat
  BY <1>1, FS_CardinalityType, LogStoreBounds
<1>. QED
  BY <1>1, <1>2, <1>3

\* One query fewer, or one that has another answer.
LEMMA FewerTyped ==
    ASSUME StoreTyped, LogStoreTypeOK, NEW f \in fetches,
           \/ fetches' \subseteq fetches
           \/ \E g \in FetchRecords : fetches' = (fetches \ {f}) \cup {g}
    PROVE  /\ IsFiniteSet(fetches') /\ fetches' \subseteq FetchRecords
           /\ Cardinality(fetches') <= MaxFetches
<1>1. IsFiniteSet(fetches) /\ fetches \subseteq FetchRecords /\ Cardinality(fetches) <= MaxFetches
  BY DEF StoreTyped, LogStoreTypeOK
<1>2. Cardinality(fetches) \in Nat /\ MaxFetches \in Nat
  BY <1>1, FS_CardinalityType, LogStoreBounds
<1>3. CASE fetches' \subseteq fetches
  <2>1. IsFiniteSet(fetches') /\ Cardinality(fetches') <= Cardinality(fetches)
    BY <1>1, <1>3, FS_Subset
  <2>2. Cardinality(fetches') \in Nat
    BY <2>1, FS_CardinalityType
  <2>. QED
    BY <2>1, <2>2, <1>1, <1>2, <1>3
<1>4. ASSUME NEW g \in FetchRecords, fetches' = (fetches \ {f}) \cup {g}
      PROVE  /\ IsFiniteSet(fetches') /\ fetches' \subseteq FetchRecords
             /\ Cardinality(fetches') <= MaxFetches
  <2>1. /\ IsFiniteSet(fetches \ {f})
        /\ Cardinality(fetches \ {f}) = Cardinality(fetches) - 1
    BY <1>1, FS_RemoveElement
  <2>2. /\ IsFiniteSet(fetches')
        /\ Cardinality(fetches') = IF g \in fetches \ {f} THEN Cardinality(fetches \ {f})
                                   ELSE Cardinality(fetches \ {f}) + 1
    BY <2>1, <1>4, FS_AddElement
  <2>. QED
    BY <2>1, <2>2, <1>1, <1>2, <1>4
<1>. QED
  BY <1>3, <1>4

\* Reload, ToggleLive and TailTick: the viewer asks.
LEMMA AskStep ==
    ASSUME LogStoreInv, Reload \/ ToggleLive \/ TailTick
    PROVE  LogStoreInv'
<1>. USE LogStoreBounds
<1>0. LogStoreTypeOK /\ StoreTyped /\ TailShown /\ \A f \in fetches : FetchFits(f)
  BY DEF LogStoreInv
<1>1. UNCHANGED <<logs, lastId, cursor, shown, epoch, since, overtaken, cut>>
  BY DEF Reload, ToggleLive, TailTick
<1>2. \A f, after : Matching(f, after)' = Matching(f, after)
  BY <1>1 DEF Matching
<1>t. /\ loads \in Nat /\ epoch \in Nat /\ cursor \in 0..lastId /\ lastId \in Nat
      /\ filter \in LogServices \cup {All}
  BY <1>0 DEF StoreTyped, LogStoreTypeOK
<1>3. CASE Reload
  <2>. DEFINE g == [kind |-> "load", filter |-> filter', after |-> 0, load |-> loads + 1,
                    epoch |-> epoch, answer |-> {}, answered |-> FALSE]
  <2>1. /\ fetches' = fetches \cup {g} /\ loads' = loads + 1
        /\ filter' \in LogServices \cup {All} /\ Cardinality(fetches) < MaxFetches
    BY <1>3, Zenon DEF Reload, Send
  <2>2. g \in FetchRecords
    BY <2>1, <1>t DEF FetchRecords
  <2>3. g.kind = "load" /\ g.load = loads' /\ g.answer = {} /\ g.epoch = epoch
    BY <2>1
  <2>. HIDE DEF g
  <2>4. /\ IsFiniteSet(fetches') /\ fetches' \subseteq FetchRecords
        /\ Cardinality(fetches') <= MaxFetches
    BY <2>1, <2>2, <1>0, SentTyped
  <2>5. ~Settled'
    BY <2>1, <2>3 DEF Settled
  <2>6. LogStoreTypeOK'
    BY <2>1, <2>4, <1>0, <1>1 DEF LogStoreTypeOK
  <2>7. StoreTyped'
    BY <2>1, <2>4, <1>0, <1>1, <1>t DEF StoreTyped
  <2>8. ASSUME NEW f \in fetches' PROVE FetchFits(f)'
    <3>1. CASE f = g
      BY <3>1, <2>3, <1>1, <1>t DEF FetchFits
    <3>2. CASE f \in fetches
      BY <3>2, <2>5, <1>0, <1>1, <1>2 DEF FetchFits, NoGap
    <3>. QED
      BY <3>1, <3>2, <2>1, <2>8
  <2>9. TailShown'
    BY <2>5 DEF TailShown
  <2>. QED
    BY <2>6, <2>7, <2>8, <2>9 DEF LogStoreInv
<1>4. CASE ToggleLive
  <2>1. fetches' = {f \in fetches : live => f.kind = "load"} /\ UNCHANGED <<filter, loads>>
    BY <1>4 DEF ToggleLive
  <2>2. fetches' \subseteq fetches
    BY <2>1
  <2>3. fetches = {} \/ \E f \in fetches : TRUE
    OBVIOUS
  <2>4. /\ IsFiniteSet(fetches') /\ fetches' \subseteq FetchRecords
        /\ Cardinality(fetches') <= MaxFetches
    <3>1. CASE fetches = {}
      <4>1. fetches' = fetches
        BY <3>1, <2>2
      <4>. QED
        BY <4>1, <1>0 DEF StoreTyped, LogStoreTypeOK
    <3>. QED
      BY <2>2, <2>3, <3>1, <1>0, FewerTyped
  <2>5. Settled' => Settled
    BY <2>1, <1>1 DEF Settled
  <2>6. LogStoreTypeOK' /\ StoreTyped'
    BY <2>1, <2>4, <1>0, <1>1 DEF LogStoreTypeOK, StoreTyped
  <2>7. ASSUME NEW f \in fetches' PROVE FetchFits(f)'
    <3>1. FetchFits(f)
      BY <2>2, <1>0
    <3>. QED
      BY <3>1, <2>1, <2>5, <1>1, <1>2 DEF FetchFits, NoGap
  <2>8. TailShown'
    <3>1. Matching(filter, since)' = Matching(filter, since)
      BY <2>1, <1>1 DEF Matching
    <3>. QED
      BY <3>1, <2>1, <2>5, <1>0, <1>1 DEF TailShown
  <2>. QED
    BY <2>6, <2>7, <2>8 DEF LogStoreInv
<1>5. CASE TailTick
  <2>. DEFINE g == [kind |-> "tail", filter |-> filter, after |-> cursor, load |-> loads,
                    epoch |-> epoch, answer |-> {}, answered |-> FALSE]
  <2>1. /\ fetches' = fetches \cup {g} /\ UNCHANGED <<loads, filter>>
        /\ Cardinality(fetches) < MaxFetches
    <3>1. loads' = loads
      BY <1>5 DEF TailTick
    <3>. QED
      BY <3>1, <1>5 DEF TailTick, Send
  <2>2. g \in FetchRecords
    BY <1>t DEF FetchRecords
  <2>3. /\ g.kind = "tail" /\ g.filter = filter /\ g.after = cursor /\ g.answer = {}
        /\ g.epoch = epoch
    OBVIOUS
  <2>. HIDE DEF g
  <2>4. /\ IsFiniteSet(fetches') /\ fetches' \subseteq FetchRecords
        /\ Cardinality(fetches') <= MaxFetches
    BY <2>1, <2>2, <1>0, SentTyped
  <2>5. Settled' => Settled
    BY <2>1, <1>1 DEF Settled
  <2>6. LogStoreTypeOK' /\ StoreTyped'
    BY <2>1, <2>4, <1>0, <1>1 DEF LogStoreTypeOK, StoreTyped
  <2>7. ASSUME NEW f \in fetches' PROVE FetchFits(f)'
    <3>1. CASE f = g
      BY <3>1, <2>1, <2>3, <1>1, <1>t DEF FetchFits, NoGap
    <3>2. CASE f \in fetches
      <4>1. FetchFits(f)
        BY <3>2, <1>0
      <4>. QED
        BY <4>1, <2>1, <2>5, <1>1, <1>2 DEF FetchFits, NoGap
    <3>. QED
      BY <3>1, <3>2, <2>1, <2>7
  <2>8. TailShown'
    <3>1. Matching(filter, since)' = Matching(filter, since)
      BY <2>1, <1>1 DEF Matching
    <3>. QED
      BY <3>1, <2>1, <2>5, <1>0, <1>1 DEF TailShown
  <2>. QED
    BY <2>6, <2>7, <2>8 DEF LogStoreInv
<1>. QED
  BY <1>3, <1>4, <1>5

\* handleLogs: an answer to the tail that is not cut has no gap.
LEMMA HandleLogsStep ==
    ASSUME LogStoreInv, NEW f \in fetches, HandleLogs(f)
    PROVE  LogStoreInv'
<1>. USE LogStoreBounds
<1>0. LogStoreTypeOK /\ StoreTyped /\ TailShown /\ \A g \in fetches : FetchFits(g)
  BY DEF LogStoreInv
<1>1. UNCHANGED <<logs, lastId, filter, cursor, shown, loads, epoch, since, overtaken>>
  BY DEF HandleLogs
<1>. DEFINE q == Query(f.filter, f.after)
            g == [f EXCEPT !.answered = TRUE, !.answer = q]
<1>2. fetches' = (fetches \ {f}) \cup {g}
  BY DEF HandleLogs
<1>3. f \in FetchRecords /\ lastId \in Nat
  BY <1>0 DEF StoreTyped, LogStoreTypeOK
<1>4. \A r \in logs : r.id \in Nat /\ r.id \in 1..lastId
  BY <1>0 DEF StoreTyped, LogStoreTypeOK
<1>5. q \subseteq 1..lastId
  BY <1>4 DEF Query, Ids, Matching
<1>6. /\ g.kind = f.kind /\ g.filter = f.filter /\ g.after = f.after /\ g.epoch = f.epoch
      /\ g.load = f.load /\ g.answer = q
  BY <1>3 DEF FetchRecords
<1>7. g \in FetchRecords
  <2>1. q \in SUBSET Nat
    BY <1>5
  <2>. HIDE DEF q
  <2>. QED
    BY <2>1, <1>3 DEF FetchRecords
<1>8. /\ cut' \in BOOLEAN
      /\ ~cut' => ~cut
      /\ ~cut' /\ f.kind = "tail" => ~(Cardinality(Matching(f.filter, f.after)) > Limit)
  BY <1>0, Zenon DEF HandleLogs, StoreTyped
<1>9. \A x, after : Matching(x, after)' = Matching(x, after)
  BY <1>1 DEF Matching
<1>10. ~cut' /\ f.kind = "tail" => NoGap(g)
  <2>. SUFFICES ASSUME ~cut', f.kind = "tail" PROVE NoGap(g)
    OBVIOUS
  <2>1. IsFiniteSet(Matching(f.filter, f.after))
    <3>1. Matching(f.filter, f.after) \in SUBSET logs
      BY DEF Matching
    <3>. QED
      BY <3>1, <1>0, FS_Subset DEF StoreTyped
  <2>2. Cardinality(Matching(f.filter, f.after)) \in Nat
    BY <2>1, FS_CardinalityType
  <2>3. Cardinality(Matching(f.filter, f.after)) <= Limit
    BY <2>2, <1>8
  <2>4. \A r \in Matching(f.filter, f.after) : r.id \in q
    BY <2>3, <1>0, <1>4, QueryComplete DEF StoreTyped
  <2>. QED
    BY <2>4, <1>6 DEF NoGap
<1>. HIDE DEF g, q
<1>11. /\ IsFiniteSet(fetches') /\ fetches' \subseteq FetchRecords
       /\ Cardinality(fetches') <= MaxFetches
  BY <1>2, <1>7, <1>0, FewerTyped
<1>12. Settled' => Settled
  BY <1>1, <1>2, <1>6 DEF Settled
<1>13. LogStoreTypeOK'
  BY <1>0, <1>1, <1>11 DEF LogStoreTypeOK
<1>14. StoreTyped'
  <2>1. overtaken' \in BOOLEAN
    BY <1>0, <1>1 DEF StoreTyped
  <2>. QED
    BY <2>1, <1>0, <1>1, <1>8, <1>11 DEF StoreTyped
<1>15. ASSUME NEW h \in fetches' PROVE FetchFits(h)'
  <2>1. CASE h = g
    <3>1. FetchFits(f)
      BY <1>0
    <3>2. NoGap(h)' <=> NoGap(h)
      BY <1>9 DEF NoGap
    <3>3. ~cut' /\ f.kind = "tail" => NoGap(h)
      BY <2>1, <1>10
    <3>4. /\ h.kind = f.kind /\ h.filter = f.filter /\ h.after = f.after /\ h.epoch = f.epoch
          /\ h.answer = q
      BY <2>1, <1>6
    <3>. QED
      BY <3>1, <3>2, <3>3, <3>4, <1>1, <1>5, <1>8, <1>12 DEF FetchFits
  <2>2. CASE h \in fetches
    <3>1. FetchFits(h)
      BY <2>2, <1>0
    <3>2. NoGap(h)' <=> NoGap(h)
      BY <1>9 DEF NoGap
    <3>. QED
      BY <3>1, <3>2, <1>1, <1>8, <1>12 DEF FetchFits
  <2>. QED
    BY <2>1, <2>2, <1>2, <1>15
<1>16. TailShown'
  <2>1. Matching(filter, since)' = Matching(filter, since)
    BY <1>1 DEF Matching
  <2>. QED
    BY <2>1, <1>0, <1>1, <1>8, <1>12 DEF TailShown
<1>. QED
  BY <1>13, <1>14, <1>15, <1>16 DEF LogStoreInv

\* The answer to a load starts the tail anew at its cursor.
LEMMA UseLoadStep ==
    ASSUME LogStoreInv, NEW f \in fetches, UseLoad(f)
    PROVE  LogStoreInv'
<1>. USE LogStoreBounds
<1>0. LogStoreTypeOK /\ StoreTyped /\ TailShown /\ \A g \in fetches : FetchFits(g)
  BY DEF LogStoreInv
<1>1. /\ UNCHANGED <<logs, lastId, filter, loads>>
      /\ shown' = f.answer /\ cursor' = NextAfter(f.answer, 0) /\ since' = cursor'
      /\ fetches' = fetches \ {f} /\ epoch' = epoch + 1 /\ cut' = FALSE
  BY DEF UseLoad
<1>2. overtaken' \in BOOLEAN /\ cut' \in BOOLEAN
  BY Zenon DEF UseLoad
<1>3. f.answer \in SUBSET (1..lastId) /\ lastId \in Nat /\ 0 \in 0..lastId
  BY <1>0 DEF FetchFits, LogStoreTypeOK
<1>4. cursor' \in 0..lastId
  BY <1>1, <1>3, NextAfterGreatest
<1>5. /\ IsFiniteSet(fetches') /\ fetches' \subseteq FetchRecords
      /\ Cardinality(fetches') <= MaxFetches
  BY <1>0, <1>1, FewerTyped
<1>6. LogStoreTypeOK'
  BY <1>0, <1>1, <1>3, <1>4, <1>5 DEF LogStoreTypeOK
<1>7. StoreTyped'
  BY <1>0, <1>1, <1>2, <1>5 DEF StoreTyped
<1>8. ASSUME NEW g \in fetches' PROVE FetchFits(g)'
  <2>1. FetchFits(g) /\ g \in FetchRecords /\ epoch \in Nat
    BY <1>0, <1>1 DEF StoreTyped
  <2>2. g.epoch \in Nat
    BY <2>1 DEF FetchRecords
  <2>3. g.epoch <= epoch' /\ g.epoch # epoch'
    BY <2>1, <2>2, <1>1 DEF FetchFits
  <2>. QED
    BY <2>1, <2>3, <1>1 DEF FetchFits
<1>9. TailShown'
  <2>. SUFFICES ASSUME NEW r \in Matching(filter, since)' PROVE ~(r.id <= cursor')
    BY DEF TailShown
  <2>1. r.id > cursor' /\ r \in logs
    BY <1>1 DEF Matching
  <2>2. r.id \in Nat
    BY <2>1, <1>0 DEF LogStoreTypeOK
  <2>. QED
    BY <2>1, <2>2, <1>3, <1>4
<1>. QED
  BY <1>6, <1>7, <1>8, <1>9 DEF LogStoreInv

\* The answer to a tick: the rows between the old and the new cursor are in the answer.
LEMMA UseTailStep ==
    ASSUME LogStoreInv, NEW f \in fetches, UseTail(f)
    PROVE  LogStoreInv'
<1>. USE LogStoreBounds
<1>0. LogStoreTypeOK /\ StoreTyped /\ TailShown /\ \A g \in fetches : FetchFits(g)
  BY DEF LogStoreInv
<1>1. /\ UNCHANGED <<logs, lastId, filter, loads, epoch, since, cut>>
      /\ shown' = shown \cup f.answer /\ cursor' = NextAfter(f.answer, cursor)
      /\ fetches' = fetches \ {f} /\ f.kind = "tail"
  BY DEF UseTail
<1>2. overtaken' \in BOOLEAN /\ (~overtaken' => ~overtaken /\ f.epoch = epoch)
  BY Zenon DEF UseTail
<1>3. f.answer \in SUBSET (1..lastId) /\ lastId \in Nat /\ cursor \in 0..lastId
  BY <1>0 DEF FetchFits, LogStoreTypeOK
<1>4. cursor' \in 0..lastId /\ cursor <= cursor' /\ (cursor' \in f.answer \/ cursor' = cursor)
  BY <1>1, <1>3, NextAfterGreatest
<1>5. /\ IsFiniteSet(fetches') /\ fetches' \subseteq FetchRecords
      /\ Cardinality(fetches') <= MaxFetches
  BY <1>0, <1>1, FewerTyped
<1>6. LogStoreTypeOK'
  BY <1>0, <1>1, <1>3, <1>4, <1>5 DEF LogStoreTypeOK
<1>7. StoreTyped'
  BY <1>0, <1>1, <1>2, <1>5 DEF StoreTyped
<1>8. Settled' => Settled /\ f.epoch = epoch
  BY <1>1, <1>2 DEF Settled
<1>9. \A x, after : Matching(x, after)' = Matching(x, after)
  BY <1>1 DEF Matching
<1>10. ASSUME NEW g \in fetches' PROVE FetchFits(g)'
  <2>1. FetchFits(g) /\ g \in FetchRecords
    BY <1>0, <1>1 DEF StoreTyped
  <2>2. g.after \in Nat
    BY <2>1 DEF FetchRecords
  <2>3. g.after <= cursor => g.after <= cursor'
    BY <2>2, <1>3, <1>4
  <2>4. NoGap(g)' <=> NoGap(g)
    BY <1>9 DEF NoGap
  <2>. QED
    BY <2>1, <2>3, <2>4, <1>1, <1>8 DEF FetchFits
<1>11. TailShown'
  <2>. SUFFICES ASSUME Settled', ~cut', NEW r \in Matching(filter, since)', r.id <= cursor'
                PROVE  r.id \in shown'
    BY DEF TailShown
  <2>1. Settled /\ ~cut /\ r \in Matching(filter, since) /\ f.epoch = epoch
    BY <1>1, <1>8 DEF Matching
  <2>2. r.id \in Nat /\ r \in logs
    BY <2>1, <1>0 DEF LogStoreTypeOK, Matching
  <2>3. CASE r.id <= cursor
    BY <2>1, <2>3, <1>0, <1>1 DEF TailShown
  <2>4. CASE r.id > cursor
    <3>1. cursor' \in f.answer
      BY <2>2, <2>4, <1>3, <1>4
    <3>2. FetchFits(f) /\ f \in FetchRecords
      BY <1>0 DEF StoreTyped
    <3>3. f.after <= cursor /\ f.filter = filter /\ NoGap(f) /\ f.after \in Nat
      BY <3>2, <2>1, <1>1 DEF FetchFits, FetchRecords
    <3>4. r \in Matching(f.filter, f.after)
      BY <3>3, <2>1, <2>2, <2>4, <1>3 DEF Matching
    <3>. QED
      BY <3>1, <3>3, <3>4, <1>1 DEF NoGap
  <2>. QED
    BY <2>2, <2>3, <2>4, <1>3
<1>. QED
  BY <1>6, <1>7, <1>10, <1>11 DEF LogStoreInv

\* A query that fails.
LEMMA FetchFailsStep ==
    ASSUME LogStoreInv, NEW f \in fetches, FetchFails(f)
    PROVE  LogStoreInv'
<1>. USE LogStoreBounds
<1>0. LogStoreTypeOK /\ StoreTyped /\ TailShown /\ \A g \in fetches : FetchFits(g)
  BY DEF LogStoreInv
<1>1. /\ UNCHANGED <<logs, lastId, filter, cursor, loads, epoch, since, cut>>
      /\ shown' = (IF f.kind = "load" THEN {} ELSE shown) /\ fetches' = fetches \ {f}
  BY DEF FetchFails
<1>2. overtaken' \in BOOLEAN /\ (~overtaken' => ~overtaken /\ f.kind # "load")
  BY Zenon DEF FetchFails
<1>3. /\ IsFiniteSet(fetches') /\ fetches' \subseteq FetchRecords
      /\ Cardinality(fetches') <= MaxFetches
  BY <1>0, <1>1, FewerTyped
<1>4. LogStoreTypeOK'
  BY <1>0, <1>1, <1>3 DEF LogStoreTypeOK
<1>5. StoreTyped'
  BY <1>0, <1>1, <1>2, <1>3 DEF StoreTyped
<1>6. Settled' => Settled /\ f.kind # "load"
  BY <1>1, <1>2 DEF Settled
<1>7. \A x, after : Matching(x, after)' = Matching(x, after)
  BY <1>1 DEF Matching
<1>8. ASSUME NEW g \in fetches' PROVE FetchFits(g)'
  <2>1. FetchFits(g)
    BY <1>0, <1>1
  <2>2. NoGap(g)' <=> NoGap(g)
    BY <1>7 DEF NoGap
  <2>. QED
    BY <2>1, <2>2, <1>1, <1>6 DEF FetchFits
<1>9. TailShown'
  <2>1. Matching(filter, since)' = Matching(filter, since)
    BY <1>1 DEF Matching
  <2>. QED
    BY <2>1, <1>0, <1>1, <1>6 DEF TailShown
<1>. QED
  BY <1>4, <1>5, <1>8, <1>9 DEF LogStoreInv

\* Every step of the store and of the viewer keeps the invariant.
LEMMA NextLogStore == LogStoreInv /\ [LogStoreNext]_logVars => LogStoreInv'
<1>. SUFFICES ASSUME LogStoreInv, [LogStoreNext]_logVars PROVE LogStoreInv'
  OBVIOUS
<1>1. CASE UNCHANGED logVars
  <2>1. UNCHANGED <<logs, lastId, filter, live, cursor, shown, fetches, loads,
                    epoch, since, overtaken, cut>>
    BY <1>1 DEF logVars
  <2>2. \A x, after : Matching(x, after)' = Matching(x, after)
    BY <2>1 DEF Matching
  <2>3. Settled' <=> Settled
    BY <2>1 DEF Settled
  <2>4. \A f \in fetches : FetchFits(f)'
    BY <2>1, <2>2, <2>3 DEF LogStoreInv, FetchFits, NoGap
  <2>5. TailShown'
    <3>1. Matching(filter, since)' = Matching(filter, since)
      BY <2>1 DEF Matching
    <3>. QED
      BY <3>1, <2>1, <2>3 DEF LogStoreInv, TailShown
  <2>. QED
    BY <2>1, <2>4, <2>5 DEF LogStoreInv, LogStoreTypeOK, StoreTyped
<1>. QED
  BY <1>1, StoreStep, AskStep, HandleLogsStep, UseLoadStep, UseTailStep, FetchFailsStep
     DEF LogStoreNext, Answering

\* The live tail misses no stored row behind its cursor, for any services, page size, number of
\* rows and queries under way, but for the two exceptions that TailComplete names.
THEOREM LogStoreStaysSafe == LogStoreSpec => []LogStoreSafe
<1>1. LogStoreInv => LogStoreSafe
  BY DEF LogStoreInv, LogStoreSafe, TailComplete, TailShown, Settled
<1>. QED
  BY InitLogStore, NextLogStore, <1>1, PTL DEF LogStoreSpec
=============================================================================
