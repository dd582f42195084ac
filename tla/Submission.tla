----------------------------- MODULE Submission -----------------------------
(***************************************************************************)
(* RequestGeneration of the Surprise service: deduplication of submits on  *)
(* the idempotency key, through a Valkey slot that expires and a unique    *)
(* index of Postgres behind it, and the enqueue of the generation job.     *)
(*                                                                         *)
(* A call is one RPC.  The uuid it draws for a new request is named after  *)
(* the call, so request ids are calls.  Every store or bus operation is a  *)
(* step; calls interleave, and a client that got an error, or no answer,   *)
(* submits again as another call with the same key.                        *)
(*                                                                         *)
(* Faults names the failures a run admits:                                 *)
(*   "cache"    a Valkey command fails, applied or not                     *)
(*   "insert"   the INSERT fails, applied or not                           *)
(*   "read"     a SELECT fails                                             *)
(*   "publish"  the publish fails, stored or not                           *)
(*   "crash"    the process dies in the middle of a call                   *)
(*   "expiry"   a slot's TTL runs out                                      *)
(***************************************************************************)
EXTENDS Naturals, FiniteSets

CONSTANTS
    Calls,      \* RPCs, and the request ids they draw
    Keys,       \* idempotency keys
    NoId,       \* no request id
    Faults

FaultKinds == {"cache", "insert", "read", "publish", "crash", "expiry"}

ASSUME SubmissionConstants ==
    /\ NoId \notin Calls
    /\ Faults \subseteq FaultKinds

VARIABLES
    slot,       \* surprise:idem:{key} in Valkey
    rows,       \* ids of the rows of surprise_requests
    enqueued,   \* number of GenerationRequested messages stored, per id
    pc,         \* where each call is
    key,        \* the idempotency key each call carries, an input
    seen,       \* the id the slot held, for a call that found it taken
    answer,     \* the id of the response, NoId for an error
    late,       \* history: calls that began when their key had a row
    misread     \* history: calls one of whose SELECTs failed

vars == <<slot, rows, enqueued, pc, key, seen, answer, late, misread>>

CallStates == {"new", "setnx", "getSlot", "getRequest", "getByKey", "create",
               "duplicate", "status", "publish", "answered", "error", "dead"}

TypeOK ==
    /\ slot \in [Keys -> Calls \cup {NoId}]
    /\ rows \subseteq Calls
    /\ enqueued \in [Calls -> Nat]
    /\ pc \in [Calls -> CallStates]
    /\ key \in [Calls -> Keys]
    /\ seen \in [Calls -> Calls \cup {NoId}]
    /\ answer \in [Calls -> Calls \cup {NoId}]
    /\ late \subseteq Calls
    /\ misread \subseteq Calls
    /\ \A c \in Calls : pc[c] = "answered" <=> answer[c] # NoId

RowsOf(k) == {r \in rows : key[r] = k}

Goto(c, l) == pc' = [pc EXCEPT ![c] = l]

\* The response {request_id: id}.
Respond(c, id) ==
    /\ Goto(c, "answered")
    /\ answer' = [answer EXCEPT ![c] = id]

\* codes.Internal.
Refuse(c) ==
    /\ Goto(c, "error")
    /\ UNCHANGED answer

-----------------------------------------------------------------------------
(* RequestGeneration *)

\* A validated request arrives and draws its id.
Begin(c) ==
    /\ pc[c] = "new"
    /\ Goto(c, "setnx")
    /\ late' = IF RowsOf(key[c]) # {} THEN late \cup {c} ELSE late
    /\ UNCHANGED <<slot, rows, enqueued, key, seen, answer, misread>>

\* SET NX: take the slot, or go and read who has it.
SetIdempotencyIfAbsent(c) ==
    /\ pc[c] = "setnx"
    /\ IF slot[key[c]] = NoId
       THEN /\ slot' = [slot EXCEPT ![key[c]] = c]
            /\ Goto(c, "create")
       ELSE /\ Goto(c, "getSlot")
            /\ UNCHANGED slot
    /\ UNCHANGED <<rows, enqueued, key, seen, answer, late, misread>>

\* SET NX fails; it may have taken the slot all the same.
SetIdempotencyFails(c) ==
    /\ "cache" \in Faults
    /\ pc[c] = "setnx"
    /\ Refuse(c)
    /\ \/ UNCHANGED slot
       \/ slot[key[c]] = NoId /\ slot' = [slot EXCEPT ![key[c]] = c]
    /\ UNCHANGED <<rows, enqueued, key, seen, late, misread>>

\* GET of the slot the SET NX found taken.
GetSlot(c) ==
    /\ pc[c] = "getSlot"
    /\ slot[key[c]] # NoId
    /\ seen' = [seen EXCEPT ![c] = slot[key[c]]]
    /\ Goto(c, "getRequest")
    /\ UNCHANGED <<slot, rows, enqueued, key, answer, late, misread>>

\* The GET fails, or the slot expired since the SET NX.
GetSlotFails(c) ==
    /\ pc[c] = "getSlot"
    /\ "cache" \in Faults \/ slot[key[c]] = NoId
    /\ Refuse(c)
    /\ UNCHANGED <<slot, rows, enqueued, key, seen, late, misread>>

\* A SELECT of the call fails.
ReadFails(c) ==
    /\ "read" \in Faults
    /\ misread' = misread \cup {c}

\* existingResponse, first lookup: by the id the slot holds.  Not found and a
\* failed SELECT are the same to it.
GetRequest(c) ==
    /\ pc[c] = "getRequest"
    /\ \/ seen[c] \in rows /\ Respond(c, seen[c]) /\ UNCHANGED misread
       \/ seen[c] \notin rows /\ Goto(c, "getByKey") /\ UNCHANGED <<answer, misread>>
       \/ ReadFails(c) /\ Goto(c, "getByKey") /\ UNCHANGED answer
    /\ UNCHANGED <<slot, rows, enqueued, key, seen, late>>

\* Mutant: the second lookup is dropped.
GetByKeySkipped(c) ==
    /\ pc[c] = "getByKey"
    /\ Respond(c, seen[c])
    /\ UNCHANGED <<slot, rows, enqueued, key, seen, late, misread>>

\* existingResponse, second lookup: by key; failing that, the slot's id, queued.
GetByKey(c) ==
    /\ pc[c] = "getByKey"
    /\ \/ \E r \in RowsOf(key[c]) : Respond(c, r) /\ UNCHANGED misread
       \/ RowsOf(key[c]) = {} /\ Respond(c, seen[c]) /\ UNCHANGED misread
       \/ ReadFails(c) /\ Respond(c, seen[c])
    /\ UNCHANGED <<slot, rows, enqueued, key, seen, late>>

\* Mutant: no unique index on idempotency_key.
UniqueKeyDropped(c) == TRUE

\* The unique index on idempotency_key lets the row in.
UniqueKey(c) == RowsOf(key[c]) = {}

\* CreateRequest.
CreateRequest(c) ==
    /\ pc[c] = "create"
    /\ IF UniqueKey(c)
       THEN rows' = rows \cup {c} /\ Goto(c, "status")
       ELSE Goto(c, "duplicate") /\ UNCHANGED rows
    /\ UNCHANGED <<slot, enqueued, key, seen, answer, late, misread>>

\* The INSERT fails; it may have been committed.
CreateRequestFails(c) ==
    /\ "insert" \in Faults
    /\ pc[c] = "create"
    /\ Refuse(c)
    /\ \/ UNCHANGED rows
       \/ UniqueKey(c) /\ rows' = rows \cup {c}
    /\ UNCHANGED <<slot, enqueued, key, seen, late, misread>>

\* ErrDuplicate: answer with the row that has the key.
Duplicate(c) ==
    /\ pc[c] = "duplicate"
    /\ \/ \E r \in RowsOf(key[c]) : Respond(c, r) /\ UNCHANGED misread
       \/ ReadFails(c) /\ Refuse(c)
    /\ UNCHANGED <<slot, rows, enqueued, key, seen, late>>

\* SetStatus queued in the cache; its error is ignored.
SetStatusQueued(c) ==
    /\ pc[c] = "status"
    /\ Goto(c, "publish")
    /\ UNCHANGED <<slot, rows, enqueued, key, seen, answer, late, misread>>

Enqueue(c) == enqueued' = [enqueued EXCEPT ![c] = @ + 1]

\* PublishGenerationRequested, and the 202.
Publish(c) ==
    /\ pc[c] = "publish"
    /\ Enqueue(c)
    /\ Respond(c, c)
    /\ UNCHANGED <<slot, rows, key, seen, late, misread>>

\* The publish fails; the stream may have stored the message.
PublishFails(c) ==
    /\ "publish" \in Faults
    /\ pc[c] = "publish"
    /\ Refuse(c)
    /\ Enqueue(c) \/ UNCHANGED enqueued
    /\ UNCHANGED <<slot, rows, key, seen, late, misread>>

\* The process dies in the middle of the call.
Crash(c) ==
    /\ "crash" \in Faults
    /\ pc[c] \notin {"new", "answered", "error", "dead"}
    /\ Goto(c, "dead")
    /\ UNCHANGED <<slot, rows, enqueued, key, seen, answer, late, misread>>

\* The slot's TTL runs out.
Expire(k) ==
    /\ "expiry" \in Faults
    /\ slot[k] # NoId
    /\ slot' = [slot EXCEPT ![k] = NoId]
    /\ UNCHANGED <<rows, enqueued, pc, key, seen, answer, late, misread>>

-----------------------------------------------------------------------------
(* Specification *)

Init ==
    /\ slot = [k \in Keys |-> NoId]
    /\ rows = {}
    /\ enqueued = [c \in Calls |-> 0]
    /\ pc = [c \in Calls |-> "new"]
    /\ key \in [Calls -> Keys]
    /\ seen = [c \in Calls |-> NoId]
    /\ answer = [c \in Calls |-> NoId]
    /\ late = {}
    /\ misread = {}

CallStep(c) ==
    \/ Begin(c)
    \/ SetIdempotencyIfAbsent(c) \/ SetIdempotencyFails(c)
    \/ GetSlot(c) \/ GetSlotFails(c)
    \/ GetRequest(c) \/ GetByKey(c)
    \/ CreateRequest(c) \/ CreateRequestFails(c) \/ Duplicate(c)
    \/ SetStatusQueued(c)
    \/ Publish(c) \/ PublishFails(c)
    \/ Crash(c)

Next ==
    \/ \E c \in Calls : CallStep(c)
    \/ \E k \in Keys : Expire(k)

Spec == Init /\ [][Next]_vars

-----------------------------------------------------------------------------
(* Properties *)

\* "Re-submitting the same idempotency key returns the original request without
\* a second enqueue": whatever slots expire, writes fail and calls die, at most
\* one message is stored for all the submits of one key.
OneEnqueuePerKey ==
    \A c, d \in Calls :
        key[c] = key[d] /\ enqueued[c] > 0 /\ enqueued[d] > 0 => c = d /\ enqueued[c] = 1

\* A job is enqueued only for a request that has been persisted, so the worker
\* that loads it finds it.
EnqueuedHasRow == \A c \in Calls : enqueued[c] > 0 => c \in rows

\* Once a key has its row, every later submit of that key that is answered is
\* answered with that row, whether the slot has expired, holds the row's id or
\* holds the id of a submit that lost; the one exception is a submit one of whose
\* own SELECTs failed, which existingResponse takes for a missing row.
LateSubmitGetsOriginal ==
    \A c \in late \ misread : pc[c] = "answered" => answer[c] \in RowsOf(key[c])

\* The calls, the rows and the queue agree: an answered call carries an id, and a
\* key is enqueued at most once, with its request persisted before.
SubmissionConsistent == TypeOK /\ OneEnqueuePerKey /\ EnqueuedHasRow
=============================================================================
