----------------------------- MODULE Generation -----------------------------
(***************************************************************************)
(* Idea generation in the Surprise service, from the persisted request to  *)
(* the IdeasReady event: the request-path handlers RequestGeneration (once *)
(* the submit is known to be new: Submission models the deduplication),    *)
(* Refine, GetGenerationStatus and SaveIdea, the JetStream work queue, and *)
(* the workers that run Pipeline.Run.                                      *)
(*                                                                         *)
(* A worker is one process.  Its queue subscription hands it one message   *)
(* at a time, and the messages delivered behind that one wait in its       *)
(* inbox.  Every call to Postgres, Valkey, Claude or the bus is a step.    *)
(*                                                                         *)
(* The text of a refinement is its number, the ideas of one run are one    *)
(* batch, named by the worker that wrote it and the refinement it served.  *)
(* SaveIdeas is two steps, the DELETE and the COMMIT: under READ COMMITTED *)
(* the DELETE sees the rows committed when it starts.                      *)
(*                                                                         *)
(* Faults names the failures a run admits; at most MaxFaults happen:       *)
(*   "store"     a Postgres or Valkey call of a worker or handler fails    *)
(*   "llm"       Claude fails after all retries                            *)
(*   "bus"       a publish or an ack fails                                 *)
(*   "redeliver" AckWait runs out while a worker still has the message     *)
(*   "crash"     a worker or a handler dies                                *)
(*   "shutdown"  a worker's context is cancelled by SIGTERM                *)
(***************************************************************************)
EXTENDS Naturals, FiniteSets

CONSTANTS
    Requests,
    Workers,
    Candidates,   \* what Claude may propose
    None,         \* no message
    MaxRefines,   \* bound on Refine calls per request
    Faults,
    MaxFaults     \* bound on failures

FaultKinds == {"store", "llm", "bus", "redeliver", "crash", "shutdown"}

Versions == 0..MaxRefines
Batches  == [by : Workers, ver : Versions]

\* The job published for a request's submit (0) or for its n-th refinement.  It
\* carries the request id only; the number keeps the messages apart.
Messages == [req : Requests, n : Versions]

ASSUME GenerationConstants ==
    /\ None \notin Messages
    /\ MaxRefines \in Nat
    /\ MaxFaults \in Nat
    /\ Faults \subseteq FaultKinds

VARIABLES
    dbStatus,     \* surprise_requests.status, "none" if there is no row
    refinement,   \* surprise_requests.refinement
    cacheStatus,  \* surprise:status:{id} in Valkey, "none" if absent
    llmCache,     \* surprise:llmcache:{hash}: the candidates, {} if absent
    ideas,        \* the batches in generated_ideas
    saved,        \* the batches saved_ideas points into
    announced,    \* requests whose IdeasReady has been published
    hpc,          \* where each request's handler is
    abandoned,    \* history: requests whose last handler did not enqueue
    stream,       \* messages not yet acked
    awaiting,     \* messages delivered, whose AckWait runs
    inbox,        \* messages delivered to each worker and not yet handled
    wpc,          \* where each worker is in Pipeline.Run
    job,          \* the message it handles
    ver,          \* the refinement it read with the request
    cands,        \* its candidates, then those that survive moderation
    old,          \* the batches its DELETE saw
    closing,      \* workers whose context is cancelled
    faults

requests == <<dbStatus, refinement, cacheStatus>>
results  == <<llmCache, ideas, saved, announced>>
handlers == <<hpc, abandoned>>
broker   == <<stream, awaiting, inbox>>
locals   == <<job, ver, cands, old>>
vars     == <<dbStatus, refinement, cacheStatus, llmCache, ideas, saved, announced,
              hpc, abandoned, stream, awaiting, inbox, wpc, job, ver, cands, old,
              closing, faults>>

Terminal == {"ready", "failed"}
Statuses == {"none", "queued", "running"} \cup Terminal

WorkerStates == {"idle", "load", "run10", "run10db", "lookup", "run40", "run40db",
                 "generate", "store", "run70", "run70db", "moderate", "delete",
                 "commit", "ready", "readydb", "announce", "fail", "faildb", "ack", "nak"}

TypeOK ==
    /\ dbStatus \in [Requests -> Statuses]
    /\ refinement \in [Requests -> Versions]
    /\ cacheStatus \in [Requests -> Statuses]
    /\ llmCache \in [Requests -> [Versions -> SUBSET Candidates]]
    /\ ideas \in [Requests -> SUBSET Batches]
    /\ saved \in [Requests -> SUBSET Batches]
    /\ announced \subseteq Requests
    /\ hpc \in [Requests -> {"idle", "setStatus", "publish"}]
    /\ abandoned \subseteq Requests
    /\ stream \subseteq Messages
    /\ awaiting \subseteq Messages
    /\ inbox \in [Workers -> SUBSET Messages]
    /\ wpc \in [Workers -> WorkerStates]
    /\ job \in [Workers -> Messages \cup {None}]
    /\ ver \in [Workers -> Versions]
    /\ cands \in [Workers -> SUBSET Candidates]
    /\ old \in [Workers -> SUBSET Batches]
    /\ closing \subseteq Workers
    /\ faults \in Nat

\* A failure of one kind happens, if the run admits it.
Fault(kind) ==
    /\ kind \in Faults
    /\ faults < MaxFaults
    /\ faults' = faults + 1

\* A call that takes the worker's context succeeds only while that is alive, and
\* always fails once it is cancelled.
Works(w) == w \notin closing /\ UNCHANGED faults
Fails(w, kind) ==
    \/ w \in closing /\ UNCHANGED faults
    \/ w \notin closing /\ Fault(kind)

Goto(w, l) == wpc' = [wpc EXCEPT ![w] = l]
Req(w) == job[w].req

-----------------------------------------------------------------------------
(* Request path *)

\* RequestGeneration has inserted the row, with status queued.
CreateRequest(r) ==
    /\ dbStatus[r] = "none"
    /\ dbStatus' = [dbStatus EXCEPT ![r] = "queued"]
    /\ hpc' = [hpc EXCEPT ![r] = "setStatus"]
    /\ abandoned' = abandoned \cup {r}
    /\ UNCHANGED <<refinement, cacheStatus, results, broker, wpc, locals, closing, faults>>

\* Refine: MarkRefinement stores the refinement and puts the row back to queued.
MarkRefinement(r) ==
    /\ dbStatus[r] # "none"
    /\ hpc[r] = "idle"
    /\ refinement[r] < MaxRefines
    /\ refinement' = [refinement EXCEPT ![r] = @ + 1]
    /\ dbStatus' = [dbStatus EXCEPT ![r] = "queued"]
    /\ hpc' = [hpc EXCEPT ![r] = "setStatus"]
    /\ abandoned' = abandoned \cup {r}
    /\ UNCHANGED <<cacheStatus, results, broker, wpc, locals, closing, faults>>

\* Either handler writes queued to the cache and ignores the error.
HandlerSetStatus(r) ==
    /\ hpc[r] = "setStatus"
    /\ hpc' = [hpc EXCEPT ![r] = "publish"]
    /\ \/ cacheStatus' = [cacheStatus EXCEPT ![r] = "queued"] /\ UNCHANGED faults
       \/ UNCHANGED cacheStatus /\ Fault("store")
    /\ UNCHANGED <<dbStatus, refinement, results, abandoned, broker, wpc, locals, closing>>

\* Either handler publishes GenerationRequested and answers.
PublishGenerationRequested(r) ==
    /\ hpc[r] = "publish"
    /\ hpc' = [hpc EXCEPT ![r] = "idle"]
    /\ stream' = stream \cup {[req |-> r, n |-> refinement[r]]}
    /\ abandoned' = abandoned \ {r}
    /\ UNCHANGED <<requests, results, awaiting, inbox, wpc, locals, closing, faults>>

\* The publish fails and the caller gets an error; the message may be stored.
PublishGenerationFails(r) ==
    /\ hpc[r] = "publish"
    /\ Fault("bus")
    /\ hpc' = [hpc EXCEPT ![r] = "idle"]
    /\ \/ UNCHANGED stream
       \/ stream' = stream \cup {[req |-> r, n |-> refinement[r]]}
    /\ UNCHANGED <<requests, results, abandoned, awaiting, inbox, wpc, locals, closing>>

\* The process dies between persisting and publishing.
HandlerCrash(r) ==
    /\ hpc[r] # "idle"
    /\ Fault("crash")
    /\ hpc' = [hpc EXCEPT ![r] = "idle"]
    /\ UNCHANGED <<requests, results, abandoned, broker, wpc, locals, closing>>

\* SaveIdea: the insert refers to an idea that must still be there.
SaveIdea(r, b) ==
    /\ b \in ideas[r]
    /\ b \notin saved[r]
    /\ saved' = [saved EXCEPT ![r] = @ \cup {b}]
    /\ UNCHANGED <<requests, llmCache, ideas, announced, handlers, broker, wpc, locals, closing, faults>>

\* What GetGenerationStatus answers: the cache, or the row when there is none.
ReportedStatus(r) == IF cacheStatus[r] # "none" THEN cacheStatus[r] ELSE dbStatus[r]

\* The status entry's TTL runs out.
ExpireStatus(r) ==
    /\ cacheStatus[r] # "none"
    /\ cacheStatus' = [cacheStatus EXCEPT ![r] = "none"]
    /\ UNCHANGED <<dbStatus, refinement, results, handlers, broker, wpc, locals, closing, faults>>

-----------------------------------------------------------------------------
(* The work queue *)

\* JetStream delivers an unacked message to a member of the queue group.
Deliver(w, m) ==
    /\ m \in stream \ awaiting
    /\ w \notin closing
    /\ inbox' = [inbox EXCEPT ![w] = @ \cup {m}]
    /\ awaiting' = awaiting \cup {m}
    /\ UNCHANGED <<requests, results, handlers, stream, wpc, locals, closing, faults>>

HasCopy(w, m) == m \in inbox[w] \/ job[w] = m

\* AckWait runs out: after the death of the workers that had the message, or
\* because one of them takes longer than that.
AckWaitExpires(m) ==
    /\ m \in awaiting
    /\ \/ (\A w \in Workers : ~HasCopy(w, m)) /\ UNCHANGED faults
       \/ (\E w \in Workers : HasCopy(w, m)) /\ Fault("redeliver")
    /\ awaiting' = awaiting \ {m}
    /\ UNCHANGED <<requests, results, handlers, stream, inbox, wpc, locals, closing>>

\* The subscription's callback starts on the next message.
Take(w, m) ==
    /\ wpc[w] = "idle"
    /\ m \in inbox[w]
    /\ Goto(w, "load")
    /\ inbox' = [inbox EXCEPT ![w] = @ \ {m}]
    /\ job' = [job EXCEPT ![w] = m]
    /\ UNCHANGED <<requests, results, handlers, stream, awaiting, ver, cands, old, closing, faults>>

\* The callback has returned; its locals are gone.
Done(w) ==
    /\ Goto(w, "idle")
    /\ job' = [job EXCEPT ![w] = None]
    /\ ver' = [ver EXCEPT ![w] = 0]
    /\ cands' = [cands EXCEPT ![w] = {}]
    /\ old' = [old EXCEPT ![w] = {}]

\* Run returned nil: msg.Ack.
Ack(w) ==
    /\ wpc[w] = "ack"
    /\ stream' = stream \ {job[w]}
    /\ awaiting' = awaiting \ {job[w]}
    /\ Done(w)
    /\ UNCHANGED <<requests, results, handlers, inbox, closing, faults>>

\* The ack is lost; its error is ignored.
AckLost(w) ==
    /\ wpc[w] = "ack"
    /\ Fault("bus")
    /\ Done(w)
    /\ UNCHANGED <<requests, results, handlers, broker, closing>>

\* Run returned an error: msg.Nak, redelivery at once.
Nak(w) ==
    /\ wpc[w] = "nak"
    /\ awaiting' = awaiting \ {job[w]}
    /\ Done(w)
    /\ UNCHANGED <<requests, results, handlers, stream, inbox, closing, faults>>

-----------------------------------------------------------------------------
(* Pipeline.Run *)

\* Mutant: a redelivered job is served with the inputs of the first submit.
LoadStale(w) ==
    /\ wpc[w] = "load"
    /\ \/ Works(w) /\ Goto(w, "run10") /\ ver' = [ver EXCEPT ![w] = 0]
       \/ Fails(w, "store") /\ Goto(w, "nak") /\ UNCHANGED ver
    /\ UNCHANGED <<requests, results, handlers, broker, job, cands, old, closing>>

\* GetRequest; an error is returned to the subscription.
Load(w) ==
    /\ wpc[w] = "load"
    /\ \/ Works(w) /\ Goto(w, "run10") /\ ver' = [ver EXCEPT ![w] = refinement[Req(w)]]
       \/ Fails(w, "store") /\ Goto(w, "nak") /\ UNCHANGED ver
    /\ UNCHANGED <<requests, results, handlers, broker, job, cands, old, closing>>

\* setStatus(running) at 10, 40 and 70 per cent: the cache, then the row.  Both
\* errors are ignored.
RowWrite == [run10 |-> "run10db", run40 |-> "run40db", run70 |-> "run70db"]
AfterRunning == [run10db |-> "lookup", run40db |-> "generate", run70db |-> "moderate"]

SetStatusRunning(w) ==
    /\ wpc[w] \in DOMAIN RowWrite
    /\ Goto(w, RowWrite[wpc[w]])
    /\ \/ Works(w) /\ cacheStatus' = [cacheStatus EXCEPT ![Req(w)] = "running"]
       \/ Fails(w, "store") /\ UNCHANGED cacheStatus
    /\ UNCHANGED <<dbStatus, refinement, results, handlers, broker, locals, closing>>

SetRequestStatusRunning(w) ==
    /\ wpc[w] \in DOMAIN AfterRunning
    /\ Goto(w, AfterRunning[wpc[w]])
    /\ \/ Works(w) /\ dbStatus' = [dbStatus EXCEPT ![Req(w)] = "running"]
       \/ Fails(w, "store") /\ UNCHANGED dbStatus
    /\ UNCHANGED <<refinement, cacheStatus, results, handlers, broker, locals, closing>>

\* cachedCandidates: an error and an empty entry are misses.  On a miss the
\* grounding is gathered (poll, embedding, catalog), best effort.
CachedCandidates(w) ==
    LET hit == llmCache[Req(w)][ver[w]] IN
    /\ wpc[w] = "lookup"
    /\ \/ /\ Works(w)
          /\ Goto(w, IF hit # {} THEN "run70" ELSE "run40")
          /\ cands' = [cands EXCEPT ![w] = hit]
       \/ Fails(w, "store") /\ Goto(w, "run40") /\ UNCHANGED cands
    /\ UNCHANGED <<requests, results, handlers, broker, job, ver, old, closing>>

\* GenerateIdeas: Claude proposes some candidates, possibly none, or fails.
GenerateIdeas(w) ==
    /\ wpc[w] = "generate"
    /\ \/ Works(w) /\ Goto(w, "store") /\ \E S \in SUBSET Candidates : cands' = [cands EXCEPT ![w] = S]
       \/ Fails(w, "llm") /\ Goto(w, "fail") /\ UNCHANGED cands
    /\ UNCHANGED <<requests, results, handlers, broker, job, ver, old, closing>>

\* SetLLMCache under the hash of the request's inputs; the error is ignored.
SetLLMCache(w) ==
    /\ wpc[w] = "store"
    /\ Goto(w, "run70")
    /\ \/ Works(w) /\ llmCache' = [llmCache EXCEPT ![Req(w)][ver[w]] = cands[w]]
       \/ Fails(w, "store") /\ UNCHANGED llmCache
    /\ UNCHANGED <<requests, ideas, saved, announced, handlers, broker, locals, closing>>

\* Mutant: an empty list of survivors is persisted like any other.
AfterModerationUnguarded(S) == "delete"

\* Nothing survived: the request fails.
AfterModeration(S) == IF S = {} THEN "fail" ELSE "delete"

\* moderateValidateRank: a candidate that is invalid, rejected or whose check
\* fails is dropped; once the context is cancelled every check fails.
ModerateValidateRank(w) ==
    /\ wpc[w] = "moderate"
    /\ UNCHANGED faults
    /\ \E S \in SUBSET cands[w] :
        /\ w \in closing => S = {}
        /\ cands' = [cands EXCEPT ![w] = S]
        /\ Goto(w, AfterModeration(S))
    /\ UNCHANGED <<requests, results, handlers, broker, job, ver, old, closing>>

\* Mutant: SaveIdeas inserts without deleting the previous ideas.
DeletedNothing(w) == {}

\* The rows the transaction's DELETE finds.
Deleted(w) == ideas[Req(w)]

\* SaveIdeas begins: DELETE FROM generated_ideas WHERE request_id = $1.
SaveIdeasDelete(w) ==
    /\ wpc[w] = "delete"
    /\ \/ Works(w) /\ Goto(w, "commit") /\ old' = [old EXCEPT ![w] = Deleted(w)]
       \/ Fails(w, "store") /\ Goto(w, "nak") /\ UNCHANGED old
    /\ UNCHANGED <<requests, results, handlers, broker, job, ver, cands, closing>>

\* The rows the transaction inserts, one per surviving candidate.
Inserted(w) == IF cands[w] = {} THEN {} ELSE {[by |-> w, ver |-> ver[w]]}

\* The transaction's effect: the rows it deleted go, with the saves that point
\* at them (ON DELETE CASCADE), and its own come.  These are new rows, so no
\* other open transaction has deleted them.
Commit(w) ==
    /\ ideas' = [ideas EXCEPT ![Req(w)] = (@ \ old[w]) \cup Inserted(w)]
    /\ saved' = [saved EXCEPT ![Req(w)] = @ \ old[w]]
    /\ old' = [x \in Workers |-> IF x = w THEN {} ELSE old[x] \ Inserted(w)]

\* SaveIdeas inserts the ideas and commits; an error is returned, and it may
\* hide a commit that went through.
SaveIdeasCommit(w) ==
    /\ wpc[w] = "commit"
    /\ \/ Works(w) /\ Commit(w) /\ Goto(w, "ready")
       \/ Fails(w, "store") /\ Goto(w, "nak") /\ UNCHANGED <<ideas, saved, old>>
       \/ Fails(w, "store") /\ Goto(w, "nak") /\ Commit(w)
    /\ UNCHANGED <<requests, llmCache, announced, handlers, broker, job, ver, cands, closing>>

\* setStatus(ready): the cache only; the error is ignored.
SetStatusReady(w) ==
    /\ wpc[w] = "ready"
    /\ Goto(w, "readydb")
    /\ \/ Works(w) /\ cacheStatus' = [cacheStatus EXCEPT ![Req(w)] = "ready"]
       \/ Fails(w, "store") /\ UNCHANGED cacheStatus
    /\ UNCHANGED <<dbStatus, refinement, results, handlers, broker, locals, closing>>

\* SetRequestStatus(ready): an error is returned.
SetRequestStatusReady(w) ==
    /\ wpc[w] = "readydb"
    /\ \/ Works(w) /\ Goto(w, "announce") /\ dbStatus' = [dbStatus EXCEPT ![Req(w)] = "ready"]
       \/ Fails(w, "store") /\ Goto(w, "nak") /\ UNCHANGED dbStatus
    /\ UNCHANGED <<refinement, cacheStatus, results, handlers, broker, locals, closing>>

\* PublishIdeasReady does not take the context; an error is returned, and the
\* event may be stored all the same.
PublishIdeasReady(w) ==
    /\ wpc[w] = "announce"
    /\ \/ Goto(w, "ack") /\ UNCHANGED faults /\ announced' = announced \cup {Req(w)}
       \/ Goto(w, "nak") /\ Fault("bus") /\ UNCHANGED announced
       \/ Goto(w, "nak") /\ Fault("bus") /\ announced' = announced \cup {Req(w)}
    /\ UNCHANGED <<requests, llmCache, ideas, saved, handlers, broker, locals, closing>>

\* fail: setStatus(failed) in the cache, then the row; both errors are ignored
\* and Run returns nil.
SetStatusFailed(w) ==
    /\ wpc[w] = "fail"
    /\ Goto(w, "faildb")
    /\ \/ Works(w) /\ cacheStatus' = [cacheStatus EXCEPT ![Req(w)] = "failed"]
       \/ Fails(w, "store") /\ UNCHANGED cacheStatus
    /\ UNCHANGED <<dbStatus, refinement, results, handlers, broker, locals, closing>>

\* Mutant: fail updates the cache only, as setStatus does for ready.
SetRequestStatusFailedSkipped(w) ==
    /\ wpc[w] = "faildb"
    /\ Goto(w, "ack")
    /\ UNCHANGED <<requests, results, handlers, broker, locals, closing, faults>>

SetRequestStatusFailed(w) ==
    /\ wpc[w] = "faildb"
    /\ Goto(w, "ack")
    /\ \/ Works(w) /\ dbStatus' = [dbStatus EXCEPT ![Req(w)] = "failed"]
       \/ Fails(w, "store") /\ UNCHANGED dbStatus
    /\ UNCHANGED <<refinement, cacheStatus, results, handlers, broker, locals, closing>>

-----------------------------------------------------------------------------
(* Process death *)

\* The process is gone and a new one takes its place; the broker still waits
\* for the acks of what it had.
Restart(w) ==
    /\ Done(w)
    /\ inbox' = [inbox EXCEPT ![w] = {}]
    /\ closing' = closing \ {w}
    /\ UNCHANGED <<requests, results, handlers, stream, awaiting>>

WorkerCrash(w) ==
    /\ w \notin closing
    /\ wpc[w] # "idle" \/ inbox[w] # {}
    /\ Fault("crash")
    /\ Restart(w)

\* SIGTERM cancels the context the handler runs under.
Shutdown(w) ==
    /\ w \notin closing
    /\ Fault("shutdown")
    /\ closing' = closing \cup {w}
    /\ UNCHANGED <<requests, results, handlers, broker, wpc, locals>>

\* The process ends, whether or not the handler has returned by then.
Exit(w) ==
    /\ w \in closing
    /\ Restart(w)
    /\ UNCHANGED faults

-----------------------------------------------------------------------------
(* Specification *)

Init ==
    /\ dbStatus = [r \in Requests |-> "none"]
    /\ refinement = [r \in Requests |-> 0]
    /\ cacheStatus = [r \in Requests |-> "none"]
    /\ llmCache = [r \in Requests |-> [v \in Versions |-> {}]]
    /\ ideas = [r \in Requests |-> {}]
    /\ saved = [r \in Requests |-> {}]
    /\ announced = {}
    /\ hpc = [r \in Requests |-> "idle"]
    /\ abandoned = {}
    /\ stream = {}
    /\ awaiting = {}
    /\ inbox = [w \in Workers |-> {}]
    /\ wpc = [w \in Workers |-> "idle"]
    /\ job = [w \in Workers |-> None]
    /\ ver = [w \in Workers |-> 0]
    /\ cands = [w \in Workers |-> {}]
    /\ old = [w \in Workers |-> {}]
    /\ closing = {}
    /\ faults = 0

HandlerStep(r) ==
    \/ HandlerSetStatus(r)
    \/ PublishGenerationRequested(r)
    \/ PublishGenerationFails(r)

PipelineStep(w) ==
    \/ Load(w)
    \/ SetStatusRunning(w) \/ SetRequestStatusRunning(w)
    \/ CachedCandidates(w) \/ GenerateIdeas(w) \/ SetLLMCache(w)
    \/ ModerateValidateRank(w)
    \/ SaveIdeasDelete(w) \/ SaveIdeasCommit(w)
    \/ SetStatusReady(w) \/ SetRequestStatusReady(w) \/ PublishIdeasReady(w)
    \/ SetStatusFailed(w) \/ SetRequestStatusFailed(w)
    \/ Ack(w) \/ AckLost(w) \/ Nak(w)

WorkerStep(w) == PipelineStep(w) \/ \E m \in Messages : Take(w, m)

Next ==
    \/ \E r \in Requests :
        \/ CreateRequest(r) \/ MarkRefinement(r)
        \/ HandlerStep(r) \/ HandlerCrash(r)
        \/ ExpireStatus(r)
        \/ \E b \in Batches : SaveIdea(r, b)
    \/ \E m \in Messages : AckWaitExpires(m) \/ \E w \in Workers : Deliver(w, m)
    \/ \E w \in Workers : WorkerStep(w) \/ WorkerCrash(w) \/ Shutdown(w) \/ Exit(w)

\* A running handler and a running worker keep going (every call they make has a
\* timeout), the broker delivers and times acks out.  Users owe nothing, and
\* failures need not happen.
Fairness ==
    /\ \A r \in Requests : WF_vars(HandlerStep(r))
    /\ \A w \in Workers : WF_vars(WorkerStep(w)) /\ WF_vars(Exit(w))
    /\ \A m \in Messages :
        /\ WF_vars(\E w \in Workers : Deliver(w, m))
        /\ WF_vars(AckWaitExpires(m) /\ UNCHANGED faults)

Spec == Init /\ [][Next]_vars /\ Fairness

-----------------------------------------------------------------------------
(* Properties *)

\* Whoever is told that a request is ready finds its ideas: by the cache, by the
\* row or by IdeasReady, under concurrent runs, redeliveries, crashes and failed
\* writes, and although SaveIdeas deletes before it inserts.
ReadyHasIdeas ==
    \A r \in Requests :
        "ready" \in {ReportedStatus(r), dbStatus[r]} \/ r \in announced => ideas[r] # {}

\* The stores, the queue and the workers agree: every job is about a request and
\* no request is shown as ready without ideas.
GenerationConsistent == TypeOK /\ ReadyHasIdeas

\* Nothing of the request is under way: no handler, no message, no worker.
Settled(r) ==
    /\ hpc[r] = "idle"
    /\ r \notin abandoned
    /\ \A m \in stream : m.req # r
    /\ \A w \in Workers : \A m \in inbox[w] \cup ({job[w]} \ {None}) : m.req # r

\* Run: business failures "mark the request FAILED and return nil", everything
\* else is redelivered; "durable queue survives worker restarts".  When all the
\* jobs of an accepted request are settled its row is ready or failed: no acked
\* job leaves it queued or running for ever.
NoOrphan ==
    \A r \in Requests : dbStatus[r] # "none" /\ Settled(r) => dbStatus[r] \in Terminal

\* Refine "regenerates with adjustments": when all the jobs of a ready request
\* are settled, the ideas it shows were generated with its latest refinement.
RefinementServed ==
    \A r \in Requests :
        dbStatus[r] = "ready" /\ Settled(r) => \A b \in ideas[r] : b.ver = refinement[r]

\* GetIdeas "returns the ranked ideas": one run's ranking, never the rows of two
\* runs mixed under the same ranks.
SingleRanking == \A r \in Requests : Cardinality(ideas[r]) <= 1

\* An enqueued job is eventually settled, whatever crashes, Claude failures and
\* lost acks come between: the request's row becomes ready or failed.  The one
\* excuse is a later Refine that has put the row back to queued and has not (or
\* not yet) published the job that would settle it.
JobsSettle ==
    \A m \in Messages :
        (m \in stream) ~> (dbStatus[m.req] \in Terminal \/ m.req \in abandoned)
=============================================================================
