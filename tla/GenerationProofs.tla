-------------------------- MODULE GenerationProofs --------------------------
(***************************************************************************)
(* Proofs about Generation.  For any number of requests, workers and       *)
(* refinements and any faults: whoever is told that a request is ready     *)
(* finds its ideas (IInv).                                                 *)
(*                                                                         *)
(* For any number of workers as long as store calls of workers work, no    *)
(* AckWait runs out early and no context is cancelled (Calm): no acked job *)
(* leaves a row unfinished.  A message is in one hand (QueueInv), and rows *)
(* not yet finished have a job that has not yet written its outcome        *)
(* (OrphanInv).                                                            *)
(*                                                                         *)
(* For one worker: the ideas are of one run (RankInv, any faults), and of  *)
(* the latest refinement (ServedInv, under Calm).                          *)
(***************************************************************************)
EXTENDS Generation, FiniteSetTheorems, TLAPS

\* A worker inside Pipeline.Run handles a message.
BusyHasJob == \A w \in Workers : wpc[w] # "idle" => job[w] \in Messages

\* SaveIdeas is only reached with survivors of moderation.
SaveHasIdeas == \A w \in Workers : wpc[w] \in {"delete", "commit"} => cands[w] # {}

\* A worker past SaveIdeas has ideas behind it, which later runs replace and
\* never remove.
PastSave == \A w \in Workers :
    wpc[w] \in {"ready", "readydb", "announce"} => ideas[Req(w)] # {}

\* What the three signals of readiness promise, each on its own.
SignalsHaveIdeas == \A r \in Requests :
    cacheStatus[r] = "ready" \/ dbStatus[r] = "ready" \/ r \in announced => ideas[r] # {}

\* The inductive invariant.
IInv == TypeOK /\ BusyHasJob /\ SaveHasIdeas /\ PastSave /\ SignalsHaveIdeas

\* All that the steps of handlers, broker and process deaths can do to the state
\* the invariant speaks of besides keeping the types: put a row back to queued,
\* drop a cache entry, and bring a worker to the start or the end of a run.
Harmless ==
    /\ \A r \in Requests : /\ dbStatus'[r] # dbStatus[r] => dbStatus'[r] # "ready"
                           /\ cacheStatus'[r] # cacheStatus[r] => cacheStatus'[r] # "ready"
    /\ UNCHANGED <<ideas, announced>>
    /\ \A w \in Workers :
        \/ wpc'[w] = wpc[w] /\ job'[w] = job[w] /\ cands'[w] = cands[w]
        \/ wpc'[w] \in {"idle", "load"}

-----------------------------------------------------------------------------
\* The initial state satisfies the inductive invariant.
LEMMA InitIInv == Init => IInv
BY GenerationConstants
   DEF Init, IInv, TypeOK, BusyHasJob, SaveHasIdeas, PastSave, SignalsHaveIdeas,
       Statuses, Terminal, WorkerStates, Versions

\* A harmless step keeps every part of the invariant that is not a type.
LEMMA HarmlessStep ==
    ASSUME IInv, TypeOK', BusyHasJob', Harmless
    PROVE  SaveHasIdeas' /\ PastSave' /\ SignalsHaveIdeas'
BY DEF IInv, TypeOK, BusyHasJob, Harmless, SaveHasIdeas, PastSave, SignalsHaveIdeas, Req

\* A call of a worker, whether it works or fails, keeps the count of faults a
\* number.
LEMMA FaultsStayNat ==
    ASSUME TypeOK
    PROVE  /\ \A kind : Fault(kind) => faults' \in Nat
           /\ \A w \in Workers : \A kind : Works(w) \/ Fails(w, kind) => faults' \in Nat
BY DEF TypeOK, Works, Fails, Fault

\* The handlers of the request path.
LEMMA HandlersKeepIInv ==
    ASSUME IInv, NEW r \in Requests,
           \/ CreateRequest(r) \/ MarkRefinement(r) \/ HandlerStep(r) \/ HandlerCrash(r)
           \/ ExpireStatus(r) \/ \E b \in Batches : SaveIdea(r, b)
    PROVE  IInv'
<1>. USE GenerationConstants
<1>. USE DEF IInv, TypeOK, BusyHasJob, Statuses, Terminal, requests, results, handlers, broker, locals
<1>1. TypeOK' /\ BusyHasJob' /\ Harmless
  <2>1. CASE CreateRequest(r)
    BY <2>1 DEF CreateRequest, Harmless
  <2>2. CASE MarkRefinement(r)
    <3>1. refinement[r] + 1 \in Versions
      BY <2>2 DEF MarkRefinement, Versions
    <3>2. TypeOK'
      BY <2>2, <3>1 DEF MarkRefinement
    <3>3. BusyHasJob' /\ Harmless
      BY <2>2 DEF MarkRefinement, Harmless
    <3>. QED BY <3>2, <3>3
  <2>3. CASE HandlerSetStatus(r)
    <3>1. faults' \in Nat /\ cacheStatus' \in [Requests -> Statuses]
      BY <2>3, FaultsStayNat DEF HandlerSetStatus
    <3>3. TypeOK'
      BY <2>3, <3>1 DEF HandlerSetStatus
    <3>2. BusyHasJob' /\ Harmless
      BY <2>3 DEF HandlerSetStatus, Harmless
    <3>. QED BY <3>3, <3>2
  <2>4. CASE PublishGenerationRequested(r)
    BY <2>4 DEF PublishGenerationRequested, Harmless, Messages
  <2>5. CASE PublishGenerationFails(r)
    BY <2>5 DEF PublishGenerationFails, Harmless, Messages, Fault
  <2>6. CASE HandlerCrash(r)
    BY <2>6 DEF HandlerCrash, Harmless, Fault
  <2>7. CASE ExpireStatus(r)
    BY <2>7 DEF ExpireStatus, Harmless
  <2>8. CASE \E b \in Batches : SaveIdea(r, b)
    BY <2>8 DEF SaveIdea, Harmless
  <2>. QED BY <2>1, <2>2, <2>3, <2>4, <2>5, <2>6, <2>7, <2>8 DEF HandlerStep
<1>. QED BY <1>1, HarmlessStep

\* The work queue, the ends of a run and the death of a process.
LEMMA QueueKeepsIInv ==
    ASSUME IInv, NEW w \in Workers,
           \/ \E m \in Messages : Deliver(w, m) \/ Take(w, m)
           \/ Ack(w) \/ AckLost(w) \/ Nak(w)
           \/ WorkerCrash(w) \/ Shutdown(w) \/ Exit(w)
    PROVE  IInv'
<1>. USE GenerationConstants
<1>. USE DEF IInv, TypeOK, BusyHasJob, requests, results, handlers, broker, locals
<1>1. TypeOK' /\ BusyHasJob' /\ Harmless
  <2>1. ASSUME NEW m \in Messages, Deliver(w, m)
        PROVE  TypeOK' /\ BusyHasJob' /\ Harmless
    BY <2>1 DEF Deliver, Harmless
  <2>2. ASSUME NEW m \in Messages, Take(w, m)
        PROVE  TypeOK' /\ BusyHasJob' /\ Harmless
    BY <2>2 DEF Take, Goto, Harmless, WorkerStates
  <2>4. CASE Ack(w)
    BY <2>4 DEF Ack, Done, Goto, Harmless, WorkerStates, Versions
  <2>5. CASE AckLost(w)
    BY <2>5 DEF AckLost, Done, Goto, Harmless, WorkerStates, Versions, Fault
  <2>6. CASE Nak(w)
    BY <2>6 DEF Nak, Done, Goto, Harmless, WorkerStates, Versions
  <2>7. CASE WorkerCrash(w)
    BY <2>7 DEF WorkerCrash, Restart, Done, Goto, Harmless, WorkerStates, Versions, Fault
  <2>8. CASE Shutdown(w)
    BY <2>8 DEF Shutdown, Harmless, Fault
  <2>9. CASE Exit(w)
    BY <2>9 DEF Exit, Restart, Done, Goto, Harmless, WorkerStates, Versions
  <2>. QED BY <2>1, <2>2, <2>4, <2>5, <2>6, <2>7, <2>8, <2>9
<1>. QED BY <1>1, HarmlessStep

\* An AckWait that runs out touches the broker only.
LEMMA AckWaitKeepsIInv ==
    ASSUME IInv, NEW m \in Messages, AckWaitExpires(m)
    PROVE  IInv'
<1>1. TypeOK' /\ BusyHasJob' /\ Harmless
  BY DEF IInv, TypeOK, BusyHasJob, AckWaitExpires, Harmless, Fault, requests, results, handlers, locals
<1>. QED BY <1>1, HarmlessStep DEF IInv

\* All that a step of Pipeline.Run before SaveIdeas' commit, or of fail, can do to
\* the state the invariant speaks of.
Early(w) ==
    /\ \A r \in Requests : /\ dbStatus'[r] # dbStatus[r] => dbStatus'[r] # "ready"
                           /\ cacheStatus'[r] # cacheStatus[r] => cacheStatus'[r] # "ready"
    /\ UNCHANGED <<ideas, announced, job>>
    /\ wpc[w] # "idle"
    /\ wpc'[w] \notin {"ready", "readydb", "announce"}
    /\ wpc'[w] \in {"delete", "commit"} => cands'[w] # {}
    /\ \A x \in Workers \ {w} : wpc'[x] = wpc[x] /\ cands'[x] = cands[x]

\* Such a step keeps every part of the invariant that is not a type.
LEMMA EarlyStep ==
    ASSUME IInv, TypeOK', NEW w \in Workers, Early(w)
    PROVE  IInv'
BY DEF IInv, TypeOK, BusyHasJob, Early, SaveHasIdeas, PastSave, SignalsHaveIdeas, Req

\* The steps of Pipeline.Run up to SaveIdeas, and those of fail: they write no
\* ready status and no ideas.
LEMMA EarlyStagesKeepIInv ==
    ASSUME IInv, NEW w \in Workers,
           \/ Load(w) \/ SetStatusRunning(w) \/ SetRequestStatusRunning(w)
           \/ CachedCandidates(w) \/ GenerateIdeas(w) \/ SetLLMCache(w)
           \/ ModerateValidateRank(w) \/ SaveIdeasDelete(w)
           \/ SetStatusFailed(w) \/ SetRequestStatusFailed(w)
    PROVE  IInv'
<1>. USE GenerationConstants
<1>1. Req(w) \in Requests
  BY DEF IInv, BusyHasJob, Messages, Req, Load, SetStatusRunning, SetRequestStatusRunning,
         CachedCandidates, GenerateIdeas, SetLLMCache, ModerateValidateRank, SaveIdeasDelete,
         SetStatusFailed, SetRequestStatusFailed, RowWrite, AfterRunning
<1>2. TypeOK' /\ Early(w)
  <2>. USE DEF IInv, TypeOK, requests, results, handlers, broker, locals, Goto
  <2>1. CASE Load(w)
    <3>1. ver' \in [Workers -> Versions]
      BY <1>1, <2>1 DEF Load
    <3>2. wpc' \in [Workers -> WorkerStates]
      BY <2>1 DEF Load, WorkerStates
    <3>3. faults' \in Nat
      BY <2>1, FaultsStayNat DEF Load
    <3>4. Early(w)
      BY <1>1, <2>1 DEF Load, Early
    <3>. QED BY <2>1, <3>1, <3>2, <3>3, <3>4 DEF Load
  <2>2. CASE SetStatusRunning(w)
    <3>1. cacheStatus' \in [Requests -> Statuses]
      BY <1>1, <2>2 DEF SetStatusRunning, Statuses, Terminal
    <3>2. wpc' \in [Workers -> WorkerStates]
      BY <2>2 DEF SetStatusRunning, RowWrite, WorkerStates
    <3>3. faults' \in Nat
      BY <2>2, FaultsStayNat DEF SetStatusRunning
    <3>4. Early(w)
      BY <1>1, <2>2 DEF SetStatusRunning, RowWrite, Early
    <3>. QED BY <2>2, <3>1, <3>2, <3>3, <3>4 DEF SetStatusRunning
  <2>3. CASE SetRequestStatusRunning(w)
    <3>1. dbStatus' \in [Requests -> Statuses]
      BY <1>1, <2>3 DEF SetRequestStatusRunning, Statuses, Terminal
    <3>2. wpc' \in [Workers -> WorkerStates]
      BY <2>3 DEF SetRequestStatusRunning, AfterRunning, WorkerStates
    <3>3. faults' \in Nat
      BY <2>3, FaultsStayNat DEF SetRequestStatusRunning
    <3>4. Early(w)
      BY <1>1, <2>3 DEF SetRequestStatusRunning, AfterRunning, Early
    <3>. QED BY <2>3, <3>1, <3>2, <3>3, <3>4 DEF SetRequestStatusRunning
  <2>4. CASE CachedCandidates(w)
    <3>1. cands' \in [Workers -> SUBSET Candidates]
      <4>1. llmCache[Req(w)] \in [Versions -> SUBSET Candidates] /\ ver[w] \in Versions
        BY <1>1
      <4>2. llmCache[Req(w)][ver[w]] \in SUBSET Candidates
        BY <4>1
      <4>. QED BY <2>4, <4>2 DEF CachedCandidates
    <3>2. wpc' \in [Workers -> WorkerStates]
      BY <2>4 DEF CachedCandidates, WorkerStates
    <3>3. faults' \in Nat
      BY <2>4, FaultsStayNat DEF CachedCandidates
    <3>4. Early(w)
      BY <1>1, <2>4 DEF CachedCandidates, Early
    <3>. QED BY <2>4, <3>1, <3>2, <3>3, <3>4 DEF CachedCandidates
  <2>5. CASE GenerateIdeas(w)
    <3>1. cands' \in [Workers -> SUBSET Candidates]
      BY <1>1, <2>5 DEF GenerateIdeas
    <3>2. wpc' \in [Workers -> WorkerStates]
      BY <2>5 DEF GenerateIdeas, WorkerStates
    <3>3. faults' \in Nat
      BY <2>5, FaultsStayNat DEF GenerateIdeas
    <3>4. Early(w)
      BY <1>1, <2>5 DEF GenerateIdeas, Early
    <3>. QED BY <2>5, <3>1, <3>2, <3>3, <3>4 DEF GenerateIdeas
  <2>6. CASE SetLLMCache(w)
    <3>1. llmCache' \in [Requests -> [Versions -> SUBSET Candidates]]
      <4>1. /\ llmCache[Req(w)] \in [Versions -> SUBSET Candidates]
            /\ ver[w] \in Versions
            /\ cands[w] \in SUBSET Candidates
        BY <1>1
      <4>2. [llmCache[Req(w)] EXCEPT ![ver[w]] = cands[w]] \in [Versions -> SUBSET Candidates]
        BY <4>1
      <4>3. CASE UNCHANGED llmCache
        BY <4>3
      <4>4. CASE llmCache' = [llmCache EXCEPT ![Req(w)][ver[w]] = cands[w]]
        BY <1>1, <4>2, <4>4
      <4>. QED BY <2>6, <4>3, <4>4 DEF SetLLMCache
    <3>2. wpc' \in [Workers -> WorkerStates]
      BY <2>6 DEF SetLLMCache, WorkerStates
    <3>3. faults' \in Nat
      BY <2>6, FaultsStayNat DEF SetLLMCache
    <3>4. Early(w)
      BY <1>1, <2>6 DEF SetLLMCache, Early
    <3>. QED BY <2>6, <3>1, <3>2, <3>3, <3>4 DEF SetLLMCache
  <2>7. CASE ModerateValidateRank(w)
    <3>1. cands' \in [Workers -> SUBSET Candidates]
      BY <1>1, <2>7 DEF ModerateValidateRank
    <3>2. wpc' \in [Workers -> WorkerStates]
      BY <2>7 DEF ModerateValidateRank, AfterModeration, WorkerStates
    <3>3. faults' \in Nat
      BY <2>7, FaultsStayNat DEF ModerateValidateRank
    <3>4. Early(w)
      BY <1>1, <2>7 DEF ModerateValidateRank, AfterModeration, Early
    <3>. QED BY <2>7, <3>1, <3>2, <3>3, <3>4 DEF ModerateValidateRank
  <2>8. CASE SaveIdeasDelete(w)
    <3>1. old' \in [Workers -> SUBSET Batches]
      BY <1>1, <2>8 DEF SaveIdeasDelete, Deleted
    <3>2. wpc' \in [Workers -> WorkerStates]
      BY <2>8 DEF SaveIdeasDelete, WorkerStates
    <3>3. faults' \in Nat
      BY <2>8, FaultsStayNat DEF SaveIdeasDelete
    <3>4. Early(w)
      BY <1>1, <2>8 DEF SaveIdeasDelete, Deleted, Early, SaveHasIdeas
    <3>. QED BY <2>8, <3>1, <3>2, <3>3, <3>4 DEF SaveIdeasDelete
  <2>9. CASE SetStatusFailed(w)
    <3>1. cacheStatus' \in [Requests -> Statuses]
      BY <1>1, <2>9 DEF SetStatusFailed, Statuses, Terminal
    <3>2. wpc' \in [Workers -> WorkerStates]
      BY <2>9 DEF SetStatusFailed, WorkerStates
    <3>3. faults' \in Nat
      BY <2>9, FaultsStayNat DEF SetStatusFailed
    <3>4. Early(w)
      BY <1>1, <2>9 DEF SetStatusFailed, Early
    <3>. QED BY <2>9, <3>1, <3>2, <3>3, <3>4 DEF SetStatusFailed
  <2>10. CASE SetRequestStatusFailed(w)
    <3>1. dbStatus' \in [Requests -> Statuses]
      BY <1>1, <2>10 DEF SetRequestStatusFailed, Statuses, Terminal
    <3>2. wpc' \in [Workers -> WorkerStates]
      BY <2>10 DEF SetRequestStatusFailed, WorkerStates
    <3>3. faults' \in Nat
      BY <2>10, FaultsStayNat DEF SetRequestStatusFailed
    <3>4. Early(w)
      BY <1>1, <2>10 DEF SetRequestStatusFailed, Early
    <3>. QED BY <2>10, <3>1, <3>2, <3>3, <3>4 DEF SetRequestStatusFailed
  <2>. QED BY <2>1, <2>2, <2>3, <2>4, <2>5, <2>6, <2>7, <2>8, <2>9, <2>10
<1>. QED BY <1>2, EarlyStep

\* A commit with survivors leaves the request with ideas, whatever batches the
\* DELETE of this or of another open transaction has seen.
LEMMA CommitLeavesIdeas ==
    ASSUME TypeOK, NEW w \in Workers, Req(w) \in Requests, cands[w] # {}, Commit(w)
    PROVE  /\ ideas' \in [Requests -> SUBSET Batches]
           /\ saved' \in [Requests -> SUBSET Batches]
           /\ old' \in [Workers -> SUBSET Batches]
           /\ \A r \in Requests : ideas[r] # {} => ideas'[r] # {}
           /\ ideas'[Req(w)] # {}
<1>1. [by |-> w, ver |-> ver[w]] \in Batches
  BY DEF TypeOK, Batches
<1>2. Inserted(w) # {} /\ Inserted(w) \subseteq Batches
  BY <1>1 DEF Inserted
<1>. QED BY <1>2 DEF TypeOK, Commit

\* SaveIdeas' commit and the three signals that follow it.
LEMMA LateStagesKeepIInv ==
    ASSUME IInv, NEW w \in Workers,
           \/ SaveIdeasCommit(w) \/ SetStatusReady(w) \/ SetRequestStatusReady(w)
           \/ PublishIdeasReady(w)
    PROVE  IInv'
<1>1. Req(w) \in Requests
  BY DEF IInv, BusyHasJob, Messages, Req, SaveIdeasCommit, SetStatusReady, SetRequestStatusReady,
         PublishIdeasReady
<1>2. CASE SaveIdeasCommit(w)
  <2>1. cands[w] # {}
    BY <1>2 DEF IInv, SaveHasIdeas, SaveIdeasCommit
  <2>2. Commit(w) => /\ ideas' \in [Requests -> SUBSET Batches]
                     /\ saved' \in [Requests -> SUBSET Batches]
                     /\ old' \in [Workers -> SUBSET Batches]
                     /\ \A r \in Requests : ideas[r] # {} => ideas'[r] # {}
                     /\ ideas'[Req(w)] # {}
    BY <1>1, <2>1, CommitLeavesIdeas DEF IInv
  <2>3. /\ ideas' \in [Requests -> SUBSET Batches]
        /\ saved' \in [Requests -> SUBSET Batches]
        /\ old' \in [Workers -> SUBSET Batches]
        /\ \A r \in Requests : ideas[r] # {} => ideas'[r] # {}
        /\ \/ wpc' = [wpc EXCEPT ![w] = "ready"] /\ ideas'[Req(w)] # {}
           \/ wpc' = [wpc EXCEPT ![w] = "nak"]
        /\ faults' \in Nat
        /\ UNCHANGED <<requests, llmCache, announced, handlers, broker, job, ver, cands, closing>>
    BY <1>2, <2>2, FaultsStayNat DEF IInv, TypeOK, SaveIdeasCommit, Goto
  <2>4. TypeOK'
    BY <2>3 DEF IInv, TypeOK, WorkerStates, requests, handlers, broker
  <2>5. BusyHasJob' /\ SaveHasIdeas' /\ SignalsHaveIdeas'
    BY <1>2, <2>3 DEF IInv, TypeOK, BusyHasJob, SaveHasIdeas, SignalsHaveIdeas, SaveIdeasCommit, requests
  <2>6. PastSave'
    BY <1>2, <2>3 DEF IInv, TypeOK, PastSave, BusyHasJob, Messages, Req
  <2>. QED BY <2>4, <2>5, <2>6 DEF IInv
<1>3. ideas[Req(w)] # {} \/ SaveIdeasCommit(w)
  BY DEF IInv, PastSave, SetStatusReady, SetRequestStatusReady, PublishIdeasReady
<1>4. CASE ~SaveIdeasCommit(w)
  <2>. USE DEF IInv, TypeOK, requests, results, handlers, broker, locals, Goto
  <2>1. TypeOK'
    <3>1. wpc' \in [Workers -> WorkerStates]
      BY <1>4 DEF SetStatusReady, SetRequestStatusReady, PublishIdeasReady, WorkerStates
    <3>2. faults' \in Nat
      BY <1>4, FaultsStayNat DEF SetStatusReady, SetRequestStatusReady, PublishIdeasReady
    <3>3. /\ cacheStatus' \in [Requests -> Statuses]
          /\ dbStatus' \in [Requests -> Statuses]
          /\ announced' \subseteq Requests
      BY <1>1, <1>4 DEF SetStatusReady, SetRequestStatusReady, PublishIdeasReady, Statuses, Terminal
    <3>. QED BY <1>4, <3>1, <3>2, <3>3 DEF SetStatusReady, SetRequestStatusReady, PublishIdeasReady
  <2>2. /\ \A r \in Requests \ {Req(w)} :
              dbStatus'[r] = dbStatus[r] /\ cacheStatus'[r] = cacheStatus[r]
        /\ announced' \subseteq announced \cup {Req(w)}
        /\ UNCHANGED <<ideas, job, cands>>
        /\ wpc[w] # "idle"
        /\ wpc'[w] \notin {"delete", "commit"}
        /\ \A x \in Workers \ {w} : wpc'[x] = wpc[x]
    BY <1>4 DEF SetStatusReady, SetRequestStatusReady, PublishIdeasReady
  <2>3. BusyHasJob' /\ SaveHasIdeas' /\ SignalsHaveIdeas'
    BY <1>3, <1>4, <2>2 DEF BusyHasJob, SaveHasIdeas, SignalsHaveIdeas
  <2>4. PastSave'
    BY <1>3, <1>4, <2>2 DEF PastSave, Req
  <2>. QED BY <2>1, <2>3, <2>4
<1>. QED BY <1>2, <1>4

\* The inductive invariant holds in every reachable state.
THEOREM GenerationInvariant == Spec => []IInv
<1>1. Init => IInv
  BY InitIInv
<1>2. ASSUME IInv, [Next]_vars
      PROVE  IInv'
  <2>1. CASE UNCHANGED vars
    BY <1>2, <2>1 DEF vars, IInv, TypeOK, BusyHasJob, SaveHasIdeas, PastSave, SignalsHaveIdeas, Req
  <2>2. CASE Next
    BY <1>2, <2>2, HandlersKeepIInv, QueueKeepsIInv, AckWaitKeepsIInv, EarlyStagesKeepIInv,
       LateStagesKeepIInv DEF Next, WorkerStep, PipelineStep
  <2>. QED BY <1>2, <2>1, <2>2
<1>. QED BY <1>1, <1>2, PTL DEF Spec

\* The state of the Surprise service keeps its types.
THEOREM GenerationTypes == Spec => []TypeOK
BY GenerationInvariant, PTL DEF IInv

\* Whoever is told that a request is ready, by the cache, the row or the
\* IdeasReady event, finds ideas: under any interleaving of runs of the same
\* request, any redelivery, crash, shutdown and store failure.
THEOREM ReadyIsServed == Spec => []ReadyHasIdeas
<1>1. IInv => ReadyHasIdeas
  BY DEF IInv, SignalsHaveIdeas, ReadyHasIdeas, ReportedStatus
<1>. QED BY <1>1, GenerationInvariant, PTL

\* The stores, the queue and the workers agree in every behaviour.
THEOREM GenerationStaysConsistent == Spec => []GenerationConsistent
BY GenerationTypes, ReadyIsServed, PTL DEF GenerationConsistent

-----------------------------------------------------------------------------
(* The queue *)

\* The failures a settled row can be promised under: no store call of a worker
\* fails, no AckWait runs out on a worker that still has the message and no context
\* is cancelled.  Claude may fail, publishes and acks may be lost, processes die.
Calm == {"store", "redeliver", "shutdown"} \cap Faults = {}

\* The messages a worker has.
Hand(w) == inbox[w] \cup ({job[w]} \ {None})

\* The job that the latest submit or refinement of a request publishes.
Current(r) == [req |-> r, n |-> refinement[r]]

\* A message that is delivered is unacked, and one worker has it.
OneCopy == \A w \in Workers :
    /\ Hand(w) \subseteq stream \cap awaiting
    /\ job[w] \notin inbox[w]
    /\ \A x \in Workers : x # w => Hand(w) \cap Hand(x) = {}

\* The messages of a request are those its handlers published; while a handler is
\* on its way to publish, the current one is not among them.
JobsKnown == \A m \in stream :
    /\ dbStatus[m.req] # "none"
    /\ m.n <= refinement[m.req]
    /\ hpc[m.req] # "idle" => m.n < refinement[m.req]

\* A handler on its way has persisted the request and not yet enqueued it.
HandlersKnown == \A r \in Requests :
    hpc[r] # "idle" => r \in abandoned /\ dbStatus[r] # "none"

\* The invariant of the queue.
QueueInv == closing = {} /\ OneCopy /\ JobsKnown /\ HandlersKnown

\* The steps of Run between taking a message and acking it.
RunStep(w) ==
    \/ Load(w)
    \/ SetStatusRunning(w) \/ SetRequestStatusRunning(w)
    \/ CachedCandidates(w) \/ GenerateIdeas(w) \/ SetLLMCache(w)
    \/ ModerateValidateRank(w)
    \/ SaveIdeasDelete(w) \/ SaveIdeasCommit(w)
    \/ SetStatusReady(w) \/ SetRequestStatusReady(w) \/ PublishIdeasReady(w)
    \/ SetStatusFailed(w) \/ SetRequestStatusFailed(w)

\* The worker has written the outcome of its run to the row.
Wrote(w) == wpc[w] \in {"announce", "ack"}

\* Under calm faults the calls of a worker that lives work.
LEMMA CalmCalls ==
    ASSUME Calm, closing = {}, NEW w
    PROVE  /\ ~ Fails(w, "store")
           /\ ~ Fault("redeliver") /\ ~ Fault("shutdown") /\ ~ Fault("store")
BY DEF Calm, Fails, Fault

\* What a step of Run does to the queue and to the row.
LEMMA RunMoves ==
    ASSUME IInv, Calm, closing = {}, NEW w \in Workers, RunStep(w)
    PROVE  /\ UNCHANGED <<refinement, hpc, abandoned, stream, awaiting, inbox, job, closing>>
           /\ job[w] \in Messages /\ Req(w) \in Requests
           /\ wpc[w] # "idle" /\ wpc'[w] \notin {"idle", "load"}
           /\ \A x \in Workers \ {w} : wpc'[x] = wpc[x] /\ ver'[x] = ver[x]
           /\ \A r \in Requests : \/ dbStatus'[r] = dbStatus[r]
                                  \/ r = Req(w) /\ dbStatus'[r] \in {"running", "failed"}
                                  \/ r = Req(w) /\ dbStatus'[r] = "ready" /\ wpc[w] = "readydb"
           /\ \/ ~ Wrote(w) /\ ~ Wrote(w)'
              \/ ~ Wrote(w) /\ dbStatus'[Req(w)] = "failed"
              \/ ~ Wrote(w) /\ dbStatus'[Req(w)] = "ready" /\ wpc[w] = "readydb"
              \/ Wrote(w) /\ UNCHANGED dbStatus
           /\ ver'[w] = IF wpc[w] = "load" THEN refinement[Req(w)] ELSE ver[w]
<1>1. wpc[w] # "idle"
  BY DEF RunStep, Load, SetStatusRunning, SetRequestStatusRunning, CachedCandidates, GenerateIdeas,
         SetLLMCache, ModerateValidateRank, SaveIdeasDelete, SaveIdeasCommit, SetStatusReady,
         SetRequestStatusReady, PublishIdeasReady, SetStatusFailed, SetRequestStatusFailed,
         RowWrite, AfterRunning
<1>2. job[w] \in Messages /\ Req(w) \in Requests
  BY <1>1 DEF IInv, BusyHasJob, Messages, Req
<1>3. /\ wpc \in [Workers -> WorkerStates] /\ ver \in [Workers -> Versions]
      /\ dbStatus \in [Requests -> Statuses] /\ refinement \in [Requests -> Versions]
      /\ DOMAIN wpc = Workers /\ DOMAIN ver = Workers /\ DOMAIN dbStatus = Requests
  BY DEF IInv, TypeOK
<1>. USE CalmCalls DEF Goto, requests, results, handlers, broker, locals, Wrote, Terminal
<1>4. CASE Load(w)
  BY <1>2, <1>3, <1>4 DEF Load
<1>5. CASE SetStatusRunning(w)
  BY <1>2, <1>3, <1>5 DEF SetStatusRunning, RowWrite
<1>6. CASE SetRequestStatusRunning(w)
  BY <1>2, <1>3, <1>6 DEF SetRequestStatusRunning, AfterRunning
<1>7. CASE CachedCandidates(w)
  BY <1>2, <1>3, <1>7 DEF CachedCandidates
<1>8. CASE GenerateIdeas(w)
  BY <1>2, <1>3, <1>8 DEF GenerateIdeas
<1>9. CASE SetLLMCache(w)
  BY <1>2, <1>3, <1>9 DEF SetLLMCache
<1>10. CASE ModerateValidateRank(w)
  BY <1>2, <1>3, <1>10 DEF ModerateValidateRank, AfterModeration
<1>11. CASE SaveIdeasDelete(w)
  BY <1>2, <1>3, <1>11 DEF SaveIdeasDelete
<1>12. CASE SaveIdeasCommit(w)
  BY <1>2, <1>3, <1>12 DEF SaveIdeasCommit
<1>13. CASE SetStatusReady(w)
  BY <1>2, <1>3, <1>13 DEF SetStatusReady
<1>14. CASE SetRequestStatusReady(w)
  BY <1>2, <1>3, <1>14 DEF SetRequestStatusReady
<1>15. CASE PublishIdeasReady(w)
  BY <1>2, <1>3, <1>15 DEF PublishIdeasReady
<1>16. CASE SetStatusFailed(w)
  BY <1>2, <1>3, <1>16 DEF SetStatusFailed
<1>17. CASE SetRequestStatusFailed(w)
  BY <1>2, <1>3, <1>17 DEF SetRequestStatusFailed
<1>. QED
  BY <1>4, <1>5, <1>6, <1>7, <1>8, <1>9, <1>10, <1>11, <1>12, <1>13, <1>14, <1>15, <1>16, <1>17
  DEF RunStep

\* A row that is neither ready nor failed has a job to come: its handler did not
\* enqueue one, or one is unacked whose run has not yet written the outcome.
OrphanInv == \A r \in Requests :
    \/ dbStatus[r] \in Terminal \cup {"none"}
    \/ r \in abandoned
    \/ \E m \in stream : m.req = r /\ \A w \in Workers : job[w] = m => ~ Wrote(w)

\* The initial state.
LEMMA InitQueue == Init => QueueInv /\ OrphanInv
BY GenerationConstants
   DEF Init, QueueInv, OneCopy, JobsKnown, HandlersKnown, Hand, OrphanInv, Terminal

\* The handlers of the request path: a job they publish is one no worker has.
LEMMA HandlersKeepQueue ==
    ASSUME IInv, QueueInv, OrphanInv, NEW r \in Requests,
           \/ CreateRequest(r) \/ MarkRefinement(r) \/ HandlerStep(r) \/ HandlerCrash(r)
           \/ ExpireStatus(r) \/ \E b \in Batches : SaveIdea(r, b)
    PROVE  QueueInv' /\ OrphanInv'
<1>1. /\ dbStatus \in [Requests -> Statuses] /\ refinement \in [Requests -> Versions]
      /\ hpc \in [Requests -> {"idle", "setStatus", "publish"}] /\ abandoned \subseteq Requests
      /\ stream \subseteq Messages
      /\ Versions \subseteq Nat
  BY GenerationConstants DEF IInv, TypeOK, Versions
<1>2. \A m \in Messages : m.req \in Requests /\ m.n \in Nat
  BY <1>1 DEF Messages
<1>3. closing = {} /\ OneCopy /\ JobsKnown /\ HandlersKnown
  BY DEF QueueInv
<1>4. UNCHANGED <<closing, awaiting, inbox, job, wpc>>
  BY DEF CreateRequest, MarkRefinement, HandlerStep, HandlerSetStatus, PublishGenerationRequested,
         PublishGenerationFails, HandlerCrash, ExpireStatus, SaveIdea, broker, locals
<1>5. CASE CreateRequest(r) \/ MarkRefinement(r)
  <2>1. /\ dbStatus' = [dbStatus EXCEPT ![r] = "queued"]
        /\ hpc' = [hpc EXCEPT ![r] = "setStatus"]
        /\ abandoned' = abandoned \cup {r}
        /\ UNCHANGED stream
    BY <1>5 DEF CreateRequest, MarkRefinement, broker
  <2>2. OneCopy'
    BY <1>3, <1>4, <2>1 DEF OneCopy, Hand
  <2>3. HandlersKnown'
    BY <1>1, <1>3, <2>1 DEF HandlersKnown
  <2>4. JobsKnown'
    <3>1. CASE CreateRequest(r)
      BY <1>1, <1>2, <1>3, <2>1, <3>1 DEF CreateRequest, JobsKnown
    <3>2. CASE MarkRefinement(r)
      <4> SUFFICES ASSUME NEW m \in stream
                   PROVE  /\ dbStatus'[m.req] # "none"
                          /\ m.n <= refinement'[m.req]
                          /\ hpc'[m.req] # "idle" => m.n < refinement'[m.req]
        BY <2>1 DEF JobsKnown
      <4>1. m.req \in Requests /\ m.n \in Nat /\ refinement[m.req] \in Nat
        BY <1>1, <1>2
      <4>2. /\ m.n <= refinement[m.req] /\ dbStatus[m.req] # "none"
            /\ hpc[m.req] # "idle" => m.n < refinement[m.req]
        BY <1>3 DEF JobsKnown
      <4>3. refinement' = [refinement EXCEPT ![r] = refinement[r] + 1]
        BY <3>2 DEF MarkRefinement
      <4>4. CASE m.req = r
        <5>1. refinement'[m.req] = refinement[m.req] + 1 /\ dbStatus'[m.req] = "queued"
          BY <1>1, <2>1, <4>3, <4>4
        <5>. QED BY <4>1, <4>2, <5>1
      <4>5. CASE m.req # r
        <5>1. /\ refinement'[m.req] = refinement[m.req] /\ dbStatus'[m.req] = dbStatus[m.req]
              /\ hpc'[m.req] = hpc[m.req]
          BY <1>1, <2>1, <4>1, <4>3, <4>5
        <5>. QED BY <4>2, <5>1
      <4>. QED BY <4>4, <4>5
    <3>. QED BY <1>5, <3>1, <3>2
  <2>5. OrphanInv'
    BY <1>1, <1>4, <2>1 DEF OrphanInv, Wrote
  <2>. QED BY <1>3, <1>4, <2>2, <2>3, <2>4, <2>5 DEF QueueInv
<1>6. CASE PublishGenerationRequested(r) \/ PublishGenerationFails(r)
  <2>1. /\ hpc[r] = "publish" /\ hpc' = [hpc EXCEPT ![r] = "idle"]
        /\ UNCHANGED <<dbStatus, refinement>>
        /\ \/ stream' = stream \cup {Current(r)}
           \/ UNCHANGED stream /\ UNCHANGED abandoned
        /\ abandoned' = abandoned \ {r} \/ UNCHANGED abandoned
    BY <1>6 DEF PublishGenerationRequested, PublishGenerationFails, Current, requests, handlers
  <2>2. /\ Current(r) \in Messages /\ Current(r).req = r /\ Current(r).n = refinement[r]
    BY <1>1 DEF Current, Messages
  <2>3. Current(r) \notin stream
    <3> SUFFICES ASSUME Current(r) \in stream PROVE FALSE
      OBVIOUS
    <3>1. refinement[r] < refinement[r]
      BY <1>3, <2>1, <2>2 DEF JobsKnown
    <3>2. refinement[r] \in Nat
      BY <1>1
    <3>. QED BY <3>1, <3>2
  <2>4. OneCopy'
    BY <1>3, <1>4, <2>1 DEF OneCopy, Hand
  <2>5. HandlersKnown'
    BY <1>1, <1>3, <2>1 DEF HandlersKnown
  <2>6. JobsKnown'
    BY <1>1, <1>2, <1>3, <2>1, <2>2 DEF JobsKnown, HandlersKnown
  <2>7. \A w \in Workers : job[w] # Current(r)
    <3>1. \A w \in Workers : job[w] = None \/ job[w] \in stream
      BY <1>3 DEF OneCopy, Hand
    <3>. QED BY <2>2, <2>3, <3>1, GenerationConstants
  <2>8. OrphanInv'
    BY <1>4, <2>1, <2>2, <2>7 DEF OrphanInv, Wrote
  <2>. QED BY <1>3, <1>4, <2>4, <2>5, <2>6, <2>8 DEF QueueInv
<1>7. CASE \/ HandlerSetStatus(r) \/ HandlerCrash(r) \/ ExpireStatus(r)
           \/ \E b \in Batches : SaveIdea(r, b)
  <2>1. /\ UNCHANGED <<dbStatus, refinement, abandoned, stream>>
        /\ \A q \in Requests : hpc'[q] # "idle" => hpc[q] # "idle"
    BY <1>1, <1>7 DEF HandlerSetStatus, HandlerCrash, ExpireStatus, SaveIdea, requests, handlers, broker
  <2>2. OneCopy' /\ OrphanInv'
    BY <1>3, <1>4, <2>1 DEF OneCopy, Hand, OrphanInv, Wrote
  <2>3. HandlersKnown' /\ JobsKnown'
    BY <1>1, <1>2, <1>3, <2>1 DEF HandlersKnown, JobsKnown
  <2>. QED BY <1>3, <1>4, <2>2, <2>3 DEF QueueInv
<1>. QED BY <1>5, <1>6, <1>7 DEF HandlerStep

\* What the end of a callback and of a process does to the worker's hand.
LEMMA DoneHand ==
    ASSUME TypeOK, NEW w \in Workers, Done(w)
    PROVE  /\ job'[w] = None /\ wpc'[w] = "idle"
           /\ \A x \in Workers \ {w} : job'[x] = job[x] /\ wpc'[x] = wpc[x]
BY DEF TypeOK, Done, Goto

\* The queue: it delivers a message to one worker, and an ack removes a job whose
\* run has written its outcome.
LEMMA BrokerKeepsQueue ==
    ASSUME IInv, QueueInv, OrphanInv, Calm,
           \/ \E m \in Messages : \/ AckWaitExpires(m)
                                  \/ \E w \in Workers : Deliver(w, m) \/ Take(w, m)
           \/ \E w \in Workers : \/ Ack(w) \/ AckLost(w) \/ Nak(w)
                                 \/ WorkerCrash(w) \/ Shutdown(w) \/ Exit(w)
    PROVE  QueueInv' /\ OrphanInv'
<1>1. /\ inbox \in [Workers -> SUBSET Messages] /\ job \in [Workers -> Messages \cup {None}]
      /\ wpc \in [Workers -> WorkerStates] /\ stream \subseteq Messages
      /\ None \notin Messages
  BY GenerationConstants DEF IInv, TypeOK
<1>2. closing = {} /\ OneCopy /\ JobsKnown /\ HandlersKnown
  BY DEF QueueInv
<1>3. TypeOK
  BY DEF IInv
<1>4. ASSUME UNCHANGED <<dbStatus, refinement, hpc, abandoned>>, stream' \subseteq stream
      PROVE  JobsKnown' /\ HandlersKnown'
  BY <1>2, <1>4 DEF JobsKnown, HandlersKnown
<1>5. ASSUME NEW m \in Messages, AckWaitExpires(m)
      PROVE  QueueInv' /\ OrphanInv'
  <2>1. /\ UNCHANGED <<dbStatus, refinement, hpc, abandoned, stream, inbox, job, wpc, closing>>
        /\ awaiting' = awaiting \ {m}
        /\ \A w \in Workers : ~ HasCopy(w, m)
    BY <1>2, <1>5, CalmCalls DEF AckWaitExpires, requests, handlers, locals
  <2>2. OneCopy'
    BY <1>2, <2>1 DEF OneCopy, Hand, HasCopy
  <2>3. OrphanInv'
    BY <2>1 DEF OrphanInv, Wrote
  <2>. QED BY <1>2, <1>4, <2>1, <2>2, <2>3 DEF QueueInv
<1>6. ASSUME NEW m \in Messages, NEW w \in Workers, Deliver(w, m)
      PROVE  QueueInv' /\ OrphanInv'
  <2>1. /\ UNCHANGED <<dbStatus, refinement, hpc, abandoned, stream, job, wpc, closing>>
        /\ m \in stream \ awaiting
        /\ awaiting' = awaiting \cup {m}
        /\ inbox'[w] = inbox[w] \cup {m}
        /\ \A x \in Workers \ {w} : inbox'[x] = inbox[x]
    BY <1>1, <1>6 DEF Deliver, requests, handlers, locals
  <2>2. \A x \in Workers : m \notin Hand(x)
    BY <1>2, <2>1 DEF OneCopy
  <2>3. /\ Hand(w)' = Hand(w) \cup {m}
        /\ \A x \in Workers \ {w} : Hand(x)' = Hand(x)
        /\ job[w] # m
    BY <2>1, <2>2, <1>1 DEF Hand
  <2>4. OneCopy'
    BY <1>2, <2>1, <2>2, <2>3 DEF OneCopy
  <2>5. OrphanInv'
    BY <2>1 DEF OrphanInv, Wrote
  <2>. QED BY <1>2, <1>4, <2>1, <2>4, <2>5 DEF QueueInv
<1>7. ASSUME NEW m \in Messages, NEW w \in Workers, Take(w, m)
      PROVE  QueueInv' /\ OrphanInv'
  <2>1. /\ UNCHANGED <<dbStatus, refinement, hpc, abandoned, stream, awaiting, closing>>
        /\ m \in inbox[w]
        /\ inbox'[w] = inbox[w] \ {m} /\ job'[w] = m /\ wpc'[w] = "load"
        /\ \A x \in Workers \ {w} : inbox'[x] = inbox[x] /\ job'[x] = job[x] /\ wpc'[x] = wpc[x]
    BY <1>1, <1>7 DEF Take, Goto, requests, handlers
  <2>2. /\ Hand(w)' \subseteq Hand(w)
        /\ \A x \in Workers \ {w} : Hand(x)' = Hand(x)
    BY <2>1 DEF Hand
  <2>3. OneCopy'
    BY <1>2, <2>1, <2>2 DEF OneCopy
  <2>4. OrphanInv'
    BY <2>1 DEF OrphanInv, Wrote
  <2>. QED BY <1>2, <1>4, <2>1, <2>3, <2>4 DEF QueueInv
<1>8. ASSUME NEW w \in Workers, Ack(w) \/ AckLost(w) \/ Nak(w)
      PROVE  QueueInv' /\ OrphanInv'
  <2>1. /\ UNCHANGED <<dbStatus, refinement, hpc, abandoned, inbox, closing>>
        /\ stream' = stream \/ (stream' = stream \ {job[w]} /\ Wrote(w))
        /\ awaiting' = awaiting \/ awaiting' = awaiting \ {job[w]}
        /\ Done(w)
    BY <1>8 DEF Ack, AckLost, Nak, requests, handlers, broker, Wrote
  <2>2. /\ job'[w] = None /\ wpc'[w] = "idle"
        /\ \A x \in Workers \ {w} : job'[x] = job[x] /\ wpc'[x] = wpc[x]
    BY <1>3, <2>1, DoneHand
  <2>3. job[w] \in Messages
    <3>1. wpc[w] # "idle"
      BY <1>8 DEF Ack, AckLost, Nak
    <3>. QED BY <3>1 DEF IInv, BusyHasJob
  <2>4. /\ Hand(w)' = Hand(w) \ {job[w]}
        /\ \A x \in Workers \ {w} : Hand(x)' = Hand(x) /\ job[w] \notin Hand(x)
    BY <1>1, <1>2, <2>1, <2>2, <2>3 DEF Hand, OneCopy
  <2>5. None \notin inbox[w]
    BY <1>1
  <2>6. OneCopy'
    BY <1>2, <2>1, <2>2, <2>4, <2>5 DEF OneCopy
  <2>7. OrphanInv'
    <3> SUFFICES ASSUME NEW r \in Requests,
                        ~ (dbStatus[r] \in Terminal \cup {"none"}), r \notin abandoned
                 PROVE  \E m \in stream' : m.req = r /\ \A x \in Workers : job'[x] = m => ~ Wrote(x)'
      BY <2>1 DEF OrphanInv
    <3>1. PICK m \in stream : m.req = r /\ \A x \in Workers : job[x] = m => ~ Wrote(x)
      BY DEF OrphanInv
    <3>2. m \in stream'
      BY <2>1, <3>1
    <3>3. \A x \in Workers : job'[x] = m => ~ Wrote(x)'
      BY <2>2, <3>1 DEF Wrote
    <3>. QED BY <3>1, <3>2, <3>3
  <2>. QED BY <1>2, <1>4, <2>1, <2>6, <2>7 DEF QueueInv
<1>9. ASSUME NEW w \in Workers, WorkerCrash(w) \/ Shutdown(w) \/ Exit(w)
      PROVE  QueueInv' /\ OrphanInv'
  <2>1. Restart(w)
    BY <1>2, <1>9, CalmCalls DEF WorkerCrash, Shutdown, Exit
  <2>2. /\ UNCHANGED <<dbStatus, refinement, hpc, abandoned, stream, awaiting>>
        /\ closing' = {}
        /\ inbox'[w] = {}
        /\ \A x \in Workers \ {w} : inbox'[x] = inbox[x]
        /\ Done(w)
    BY <1>1, <1>2, <2>1 DEF Restart, requests, handlers
  <2>3. /\ job'[w] = None /\ wpc'[w] = "idle"
        /\ \A x \in Workers \ {w} : job'[x] = job[x] /\ wpc'[x] = wpc[x]
    BY <1>3, <2>2, DoneHand
  <2>4. /\ Hand(w)' = {}
        /\ \A x \in Workers \ {w} : Hand(x)' = Hand(x)
    BY <2>2, <2>3 DEF Hand
  <2>5. OneCopy'
    BY <1>2, <2>2, <2>3, <2>4 DEF OneCopy
  <2>6. OrphanInv'
    BY <2>2, <2>3 DEF OrphanInv, Wrote
  <2>. QED BY <1>4, <2>2, <2>5, <2>6 DEF QueueInv
<1>. QED BY <1>5, <1>6, <1>7, <1>8, <1>9

\* The steps of Run: whoever takes a row out of its final state has a job that is
\* not yet acked, and writes an outcome before the ack.
LEMMA RunKeepsQueue ==
    ASSUME IInv, QueueInv, OrphanInv, Calm, NEW w \in Workers, RunStep(w)
    PROVE  QueueInv' /\ OrphanInv'
<1>1. closing = {} /\ OneCopy /\ JobsKnown /\ HandlersKnown
  BY DEF QueueInv
<1>2. /\ UNCHANGED <<refinement, hpc, abandoned, stream, awaiting, inbox, job, closing>>
      /\ job[w] \in Messages /\ Req(w) \in Requests
      /\ wpc[w] # "idle" /\ wpc'[w] \notin {"idle", "load"}
      /\ \A x \in Workers \ {w} : wpc'[x] = wpc[x]
      /\ \A r \in Requests : \/ dbStatus'[r] = dbStatus[r]
                             \/ r = Req(w) /\ dbStatus'[r] \in {"running", "failed", "ready"}
      /\ \/ ~ Wrote(w) /\ ~ Wrote(w)'
         \/ ~ Wrote(w) /\ dbStatus'[Req(w)] \in Terminal
         \/ Wrote(w) /\ UNCHANGED dbStatus
  BY <1>1, RunMoves DEF Terminal
<1>3. stream \subseteq Messages /\ \A m \in Messages : m.req \in Requests
  BY DEF IInv, TypeOK, Messages
<1>4. QueueInv'
  <2>1. OneCopy'
    BY <1>1, <1>2 DEF OneCopy, Hand
  <2>2. \A r \in Requests : dbStatus[r] # "none" => dbStatus'[r] # "none"
    BY <1>2
  <2>3. JobsKnown' /\ HandlersKnown'
    BY <1>1, <1>2, <1>3, <2>2 DEF JobsKnown, HandlersKnown
  <2>. QED BY <1>1, <1>2, <2>1, <2>3 DEF QueueInv
<1>5. OrphanInv'
  <2> SUFFICES ASSUME NEW r \in Requests,
                      ~ (dbStatus'[r] \in Terminal \cup {"none"}), r \notin abandoned
               PROVE  \E m \in stream : m.req = r /\ \A x \in Workers : job[x] = m => ~ Wrote(x)'
    BY <1>2 DEF OrphanInv
  <2>1. CASE dbStatus'[r] = dbStatus[r]
    <3>1. PICK m \in stream : m.req = r /\ \A x \in Workers : job[x] = m => ~ Wrote(x)
      BY <2>1 DEF OrphanInv
    <3>2. ASSUME NEW x \in Workers, job[x] = m PROVE ~ Wrote(x)'
      <4>1. CASE x = w
        BY <1>2, <3>1, <3>2, <4>1 DEF Req
      <4>2. CASE x # w
        BY <1>2, <3>1, <3>2, <4>2 DEF Wrote
      <4>. QED BY <4>1, <4>2
    <3>. QED BY <3>1, <3>2
  <2>2. CASE dbStatus'[r] # dbStatus[r]
    <3>1. r = Req(w) /\ ~ Wrote(w)'
      BY <1>2, <2>2
    <3>2. job[w] \in stream /\ \A x \in Workers : job[x] = job[w] => x = w
      <4>1. job[w] # None
        BY <1>2, GenerationConstants
      <4>. QED BY <1>1, <4>1 DEF OneCopy, Hand
    <3>. QED BY <3>1, <3>2 DEF Req
  <2>. QED BY <2>1, <2>2
<1>. QED BY <1>4, <1>5

\* The invariants of the queue and of the rows hold in every reachable state.
LEMMA QueueInvariant ==
    ASSUME Calm
    PROVE  Spec => [](QueueInv /\ OrphanInv)
<1>1. Init => QueueInv /\ OrphanInv
  BY InitQueue
<1>2. ASSUME IInv, QueueInv /\ OrphanInv, [Next]_vars
      PROVE  (QueueInv /\ OrphanInv)'
  <2>1. CASE UNCHANGED vars
    BY <1>2, <2>1
    DEF vars, QueueInv, OneCopy, JobsKnown, HandlersKnown, Hand, OrphanInv, Wrote
  <2>2. CASE Next
    BY <1>2, <2>2, HandlersKeepQueue, BrokerKeepsQueue, RunKeepsQueue
    DEF Next, WorkerStep, PipelineStep, RunStep
  <2>. QED BY <1>2, <2>1, <2>2
<1>. QED BY <1>1, <1>2, GenerationInvariant, PTL DEF Spec

\* No acked job leaves a row queued or running: for any number of workers and
\* whatever Claude, the bus and the death of processes do.
THEOREM NoRowIsOrphaned ==
    ASSUME Calm
    PROVE  Spec => []NoOrphan
<1>1. OrphanInv => NoOrphan
  BY DEF OrphanInv, NoOrphan, Settled
<1>. QED BY <1>1, QueueInvariant, PTL

-----------------------------------------------------------------------------
(* One worker *)

\* One process runs the pipeline, as in docker-compose.yml.
OneWorker == \A w, x \in Workers : w = x

\* The ideas of a request are of one run, and between DELETE and COMMIT nothing is
\* added to those the DELETE saw.
RankInv ==
    /\ \A r \in Requests : \A b, c \in ideas[r] : b = c
    /\ \A w \in Workers : wpc[w] = "commit" => old[w] = ideas[Req(w)]

\* A commit that replaces all there is leaves the worker's own batch.
LEMMA CommitReplaces ==
    ASSUME TypeOK, NEW w \in Workers, Req(w) \in Requests, Commit(w), old[w] = ideas[Req(w)]
    PROVE  /\ ideas'[Req(w)] = Inserted(w)
           /\ \A r \in Requests \ {Req(w)} : ideas'[r] = ideas[r]
BY DEF TypeOK, Commit

\* Only SaveIdeas' DELETE brings a worker to its COMMIT, and only a COMMIT changes
\* the ideas.
LEMMA SaveMoves ==
    ASSUME IInv, NEW w \in Workers, RunStep(w)
    PROVE  /\ UNCHANGED job /\ job[w] \in Messages /\ Req(w) \in Requests
           /\ \/ UNCHANGED ideas
              \/ wpc[w] = "commit" /\ wpc'[w] \in {"ready", "nak"} /\ Commit(w)
           /\ wpc'[w] = "commit" => UNCHANGED ideas /\ old'[w] = ideas[Req(w)]
           /\ wpc[w] = "commit" => wpc'[w] \in {"ready", "nak"}
           /\ wpc'[w] = "ready" => wpc[w] = "commit" /\ Commit(w)
           /\ wpc'[w] = "readydb" => wpc[w] = "ready" /\ UNCHANGED ideas
<1>1. wpc[w] # "idle"
  BY DEF RunStep, Load, SetStatusRunning, SetRequestStatusRunning, CachedCandidates, GenerateIdeas,
         SetLLMCache, ModerateValidateRank, SaveIdeasDelete, SaveIdeasCommit, SetStatusReady,
         SetRequestStatusReady, PublishIdeasReady, SetStatusFailed, SetRequestStatusFailed,
         RowWrite, AfterRunning
<1>2. job[w] \in Messages /\ Req(w) \in Requests
  BY <1>1 DEF IInv, BusyHasJob, Messages, Req
<1>3. wpc \in [Workers -> WorkerStates] /\ old \in [Workers -> SUBSET Batches]
  BY DEF IInv, TypeOK
<1>. USE DEF Goto, results, locals
<1>4. CASE Load(w)
  BY <1>2, <1>3, <1>4 DEF Load
<1>5. CASE SetStatusRunning(w)
  BY <1>2, <1>3, <1>5 DEF SetStatusRunning, RowWrite
<1>6. CASE SetRequestStatusRunning(w)
  BY <1>2, <1>3, <1>6 DEF SetRequestStatusRunning, AfterRunning
<1>7. CASE CachedCandidates(w)
  BY <1>2, <1>3, <1>7 DEF CachedCandidates
<1>8. CASE GenerateIdeas(w)
  BY <1>2, <1>3, <1>8 DEF GenerateIdeas
<1>9. CASE SetLLMCache(w)
  BY <1>2, <1>3, <1>9 DEF SetLLMCache
<1>10. CASE ModerateValidateRank(w)
  BY <1>2, <1>3, <1>10 DEF ModerateValidateRank, AfterModeration
<1>11. CASE SaveIdeasDelete(w)
  BY <1>2, <1>3, <1>11 DEF SaveIdeasDelete, Deleted
<1>12. CASE SaveIdeasCommit(w)
  BY <1>2, <1>3, <1>12 DEF SaveIdeasCommit
<1>13. CASE SetStatusReady(w)
  BY <1>2, <1>3, <1>13 DEF SetStatusReady
<1>14. CASE SetRequestStatusReady(w)
  BY <1>2, <1>3, <1>14 DEF SetRequestStatusReady
<1>15. CASE PublishIdeasReady(w)
  BY <1>2, <1>3, <1>15 DEF PublishIdeasReady
<1>16. CASE SetStatusFailed(w)
  BY <1>2, <1>3, <1>16 DEF SetStatusFailed
<1>17. CASE SetRequestStatusFailed(w)
  BY <1>2, <1>3, <1>17 DEF SetRequestStatusFailed
<1>. QED
  BY <1>4, <1>5, <1>6, <1>7, <1>8, <1>9, <1>10, <1>11, <1>12, <1>13, <1>14, <1>15, <1>16, <1>17
  DEF RunStep

\* The steps of handlers, broker and process deaths leave the ideas alone, and bring
\* a worker nowhere but to the start or the end of a run.
LEMMA OthersMove ==
    ASSUME IInv, Next, \A w \in Workers : ~ RunStep(w)
    PROVE  /\ UNCHANGED ideas
           /\ \A w \in Workers :
               \/ wpc'[w] = wpc[w] /\ job'[w] = job[w] /\ old'[w] = old[w] /\ ver'[w] = ver[w]
               \/ wpc'[w] \in {"idle", "load"}
<1>1. /\ wpc \in [Workers -> WorkerStates] /\ job \in [Workers -> Messages \cup {None}]
      /\ old \in [Workers -> SUBSET Batches] /\ ver \in [Workers -> Versions]
  BY DEF IInv, TypeOK
<1>. USE DEF Goto, results, locals, Done, Restart
<1>2. ASSUME NEW r \in Requests,
             \/ CreateRequest(r) \/ MarkRefinement(r) \/ HandlerStep(r) \/ HandlerCrash(r)
             \/ ExpireStatus(r) \/ \E b \in Batches : SaveIdea(r, b)
      PROVE  UNCHANGED <<ideas, wpc, job, old, ver>>
  BY <1>2
  DEF CreateRequest, MarkRefinement, HandlerStep, HandlerSetStatus, PublishGenerationRequested,
      PublishGenerationFails, HandlerCrash, ExpireStatus, SaveIdea
<1>3. ASSUME NEW m \in Messages, AckWaitExpires(m) \/ \E w \in Workers : Deliver(w, m)
      PROVE  UNCHANGED <<ideas, wpc, job, old, ver>>
  BY <1>3 DEF AckWaitExpires, Deliver
<1>4. ASSUME NEW w \in Workers,
             \/ \E m \in Messages : Take(w, m)
             \/ Ack(w) \/ AckLost(w) \/ Nak(w) \/ WorkerCrash(w) \/ Shutdown(w) \/ Exit(w)
      PROVE  /\ UNCHANGED ideas
             /\ \A x \in Workers :
                 \/ /\ wpc'[x] = wpc[x] /\ job'[x] = job[x]
                    /\ old'[x] = old[x] /\ ver'[x] = ver[x]
                 \/ wpc'[x] \in {"idle", "load"}
  BY <1>1, <1>4 DEF Take, Ack, AckLost, Nak, WorkerCrash, Shutdown, Exit
<1>. QED
  BY <1>2, <1>3, <1>4 DEF Next, WorkerStep, PipelineStep, RunStep

\* With one worker the ideas are those of one run, under any faults.
LEMMA RankInvariant ==
    ASSUME OneWorker
    PROVE  Spec => []RankInv
<1>1. Init => RankInv
  BY DEF Init, RankInv
<1>2. ASSUME IInv, RankInv, [Next]_vars
      PROVE  RankInv'
  <2>1. CASE UNCHANGED vars
    BY <1>2, <2>1 DEF vars, RankInv, Req
  <2>2. ASSUME NEW w \in Workers, RunStep(w)
        PROVE  RankInv'
    <3>1. /\ UNCHANGED job /\ Req(w) \in Requests
          /\ \/ UNCHANGED ideas
             \/ wpc[w] = "commit" /\ wpc'[w] \in {"ready", "nak"} /\ Commit(w)
          /\ wpc'[w] = "commit" => UNCHANGED ideas /\ old'[w] = ideas[Req(w)]
      BY <1>2, <2>2, SaveMoves
    <3>2. \A x \in Workers : wpc'[x] = "commit" => old'[x] = ideas'[Req(x)']
      BY <3>1 DEF OneWorker, Req
    <3>3. CASE UNCHANGED ideas
      BY <1>2, <3>2, <3>3 DEF RankInv
    <3>4. CASE wpc[w] = "commit" /\ Commit(w)
      <4>1. /\ ideas'[Req(w)] = Inserted(w)
            /\ \A r \in Requests \ {Req(w)} : ideas'[r] = ideas[r]
        BY <1>2, <3>1, <3>4, CommitReplaces DEF IInv, RankInv
      <4>2. \A b, c \in Inserted(w) : b = c
        BY DEF Inserted
      <4>. QED BY <1>2, <3>2, <4>1, <4>2 DEF RankInv
    <3>. QED BY <3>1, <3>3, <3>4
  <2>3. CASE Next /\ \A w \in Workers : ~ RunStep(w)
    <3>1. /\ UNCHANGED ideas
          /\ \A w \in Workers : \/ wpc'[w] = wpc[w] /\ job'[w] = job[w] /\ old'[w] = old[w]
                                \/ wpc'[w] \in {"idle", "load"}
      BY <1>2, <2>3, OthersMove
    <3>. QED BY <1>2, <3>1 DEF RankInv, Req
  <2>. QED BY <1>2, <2>1, <2>2, <2>3
<1>. QED BY <1>1, <1>2, GenerationInvariant, PTL DEF Spec

\* GetIdeas never shows the rows of two runs mixed, as long as one worker runs the
\* pipeline: whatever fails, is redelivered or dies between DELETE and COMMIT.
THEOREM RankingIsSingle ==
    ASSUME OneWorker
    PROVE  Spec => []SingleRanking
<1>1. RankInv => SingleRanking
  <2> SUFFICES ASSUME RankInv, NEW r \in Requests PROVE Cardinality(ideas[r]) <= 1
    BY DEF SingleRanking
  <2>1. CASE ideas[r] = {}
    BY <2>1, FS_EmptySet
  <2>2. CASE ideas[r] # {}
    <3>1. PICK b : b \in ideas[r]
      BY <2>2
    <3>2. ideas[r] = {b}
      BY <3>1 DEF RankInv
    <3>3. Cardinality({b}) = 1
      BY FS_Singleton
    <3>. QED BY <3>2, <3>3
  <2>. QED BY <2>1, <2>2
<1>. QED BY <1>1, RankInvariant, PTL

-----------------------------------------------------------------------------
(* Refinements *)

\* A run of the current job, and one that the latest refinement does not have to
\* wait for, has read that refinement; what a run has committed it shows until it
\* has written its outcome.
ServedRuns == \A w \in Workers :
    /\ wpc[w] \notin {"idle", "load"} /\ job[w] = Current(Req(w)) => ver[w] = refinement[Req(w)]
    /\ wpc[w] \in {"ready", "readydb"} => \A b \in ideas[Req(w)] : b.ver = ver[w]

\* Either the current job is still to come or to write its outcome, or a ready row
\* has the ideas of the latest refinement and no run will replace them by older ones.
Ahead(r) ==
    /\ Current(r) \in stream
    /\ \A w \in Workers : job[w] = Current(r) => ~ Wrote(w)

Fresh(r) ==
    /\ dbStatus[r] = "ready" => \A b \in ideas[r] : b.ver = refinement[r]
    /\ \A w \in Workers : wpc[w] \notin {"idle", "load"} /\ Req(w) = r => ver[w] = refinement[r]

ServedInv ==
    /\ ServedRuns
    /\ \A r \in Requests : r \in abandoned \/ dbStatus[r] = "none" \/ Ahead(r) \/ Fresh(r)

\* The handlers of the request path: the job they publish is the current one.
LEMMA HandlersKeepServed ==
    ASSUME IInv, QueueInv, ServedInv, NEW r \in Requests,
           \/ CreateRequest(r) \/ MarkRefinement(r) \/ HandlerStep(r) \/ HandlerCrash(r)
           \/ ExpireStatus(r) \/ \E b \in Batches : SaveIdea(r, b)
    PROVE  ServedInv'
<1>1. /\ dbStatus \in [Requests -> Statuses] /\ refinement \in [Requests -> Versions]
      /\ stream \subseteq Messages /\ job \in [Workers -> Messages \cup {None}]
      /\ Versions \subseteq Nat
  BY GenerationConstants DEF IInv, TypeOK, Versions
<1>2. UNCHANGED <<ideas, wpc, job, ver>>
  BY DEF CreateRequest, MarkRefinement, HandlerStep, HandlerSetStatus, PublishGenerationRequested,
         PublishGenerationFails, HandlerCrash, ExpireStatus, SaveIdea, results, locals
<1>3. \A w \in Workers : wpc[w] # "idle" => /\ job[w] \in stream /\ Req(w) \in Requests
                                            /\ Req(w) = job[w].req
  <2>1. \A w \in Workers : wpc[w] # "idle" => job[w] \in Messages /\ job[w] # None
    BY GenerationConstants DEF IInv, BusyHasJob
  <2>. QED BY <2>1 DEF QueueInv, OneCopy, Hand, Messages, Req
<1>4. CASE CreateRequest(r) \/ MarkRefinement(r)
  <2>1. /\ \A q \in Requests \ {r} : dbStatus'[q] = dbStatus[q] /\ refinement'[q] = refinement[q]
        /\ abandoned' = abandoned \cup {r}
        /\ UNCHANGED stream
        /\ refinement'[r] = refinement[r] \/ refinement'[r] = refinement[r] + 1
    BY <1>1, <1>4 DEF CreateRequest, MarkRefinement, broker
  <2>2. ServedRuns'
    <3> SUFFICES ASSUME NEW w \in Workers, wpc[w] # "idle"
                 PROVE  /\ wpc[w] # "load" /\ job[w] = Current(Req(w))' => ver[w] = refinement'[Req(w)]
                        /\ wpc[w] \in {"ready", "readydb"} => \A b \in ideas[Req(w)] : b.ver = ver[w]
      BY <1>2 DEF ServedRuns, Req
    <3>0. /\ wpc[w] # "load" /\ job[w] = Current(Req(w)) => ver[w] = refinement[Req(w)]
          /\ wpc[w] \in {"ready", "readydb"} => \A b \in ideas[Req(w)] : b.ver = ver[w]
      BY DEF ServedInv, ServedRuns
    <3>1. CASE refinement'[Req(w)] = refinement[Req(w)]
      <4>1. Current(Req(w))' = Current(Req(w))
        BY <1>2, <3>1 DEF Current, Req
      <4>. QED BY <3>0, <3>1, <4>1
    <3>2. CASE refinement'[Req(w)] # refinement[Req(w)]
      <4>1. Req(w) = r /\ refinement'[Req(w)] = refinement[Req(w)] + 1
        BY <1>3, <2>1, <3>2
      <4>2. job[w].n <= refinement[Req(w)] /\ job[w].n \in Nat /\ refinement[Req(w)] \in Nat
        <5>1. job[w] \in stream /\ Req(w) = job[w].req /\ job[w] \in Messages /\ Req(w) \in Requests
          BY <1>1, <1>3
        <5>2. job[w].n \in Nat
          BY <1>1, <5>1 DEF Messages
        <5>. QED BY <1>1, <5>1, <5>2 DEF QueueInv, JobsKnown
      <4>3. Current(Req(w))'.n = refinement'[Req(w)]
        BY <1>2 DEF Current, Req
      <4>4. job[w] # Current(Req(w))'
        BY <4>1, <4>2, <4>3
      <4>. QED BY <3>0, <4>4
    <3>. QED BY <3>1, <3>2
  <2>3. ASSUME NEW q \in Requests
        PROVE  q \in abandoned' \/ dbStatus'[q] = "none" \/ Ahead(q)' \/ Fresh(q)'
    <3>1. CASE q = r
      BY <2>1, <3>1
    <3>2. CASE q # r
      <4>1. q \in abandoned \/ dbStatus[q] = "none" \/ Ahead(q) \/ Fresh(q)
        BY DEF ServedInv
      <4>. QED BY <1>2, <2>1, <3>2, <4>1 DEF Ahead, Fresh, Current, Wrote, Req
    <3>. QED BY <3>1, <3>2
  <2>. QED BY <2>2, <2>3 DEF ServedInv
<1>5. CASE PublishGenerationRequested(r) \/ PublishGenerationFails(r)
  <2>1. /\ hpc[r] = "publish"
        /\ UNCHANGED <<dbStatus, refinement>>
        /\ \/ stream' = stream \cup {Current(r)}
           \/ UNCHANGED stream /\ UNCHANGED abandoned
        /\ abandoned' = abandoned \ {r} \/ UNCHANGED abandoned
    BY <1>5 DEF PublishGenerationRequested, PublishGenerationFails, Current, requests, handlers
  <2>2. Current(r) \notin stream
    <3> SUFFICES ASSUME Current(r) \in stream PROVE FALSE
      OBVIOUS
    <3>1. refinement[r] < refinement[r]
      BY <2>1 DEF QueueInv, JobsKnown, Current
    <3>2. refinement[r] \in Nat
      BY <1>1
    <3>. QED BY <3>1, <3>2
  <2>3. \A w \in Workers : job[w] # Current(r)
    <3>1. \A w \in Workers : job[w] = None \/ job[w] \in stream
      BY DEF QueueInv, OneCopy, Hand
    <3>2. Current(r) \in Messages
      BY <1>1 DEF Current, Messages
    <3>. QED BY <2>2, <3>1, <3>2, GenerationConstants
  <2>4. ServedRuns'
    BY <1>2, <2>1 DEF ServedInv, ServedRuns, Current, Req
  <2>5. ASSUME NEW q \in Requests
        PROVE  q \in abandoned' \/ dbStatus'[q] = "none" \/ Ahead(q)' \/ Fresh(q)'
    <3>1. q \in abandoned \/ dbStatus[q] = "none" \/ Ahead(q) \/ Fresh(q)
      BY DEF ServedInv
    <3>2. CASE q = r
      <4>1. r \in abandoned
        BY <2>1 DEF QueueInv, HandlersKnown
      <4>2. r \in abandoned' \/ Current(r) \in stream'
        BY <2>1, <4>1
      <4>. QED BY <1>2, <2>1, <2>3, <3>2, <4>2 DEF Ahead, Current
    <3>3. CASE q # r
      BY <1>2, <2>1, <3>1, <3>3 DEF Ahead, Fresh, Current, Wrote, Req
    <3>. QED BY <3>2, <3>3
  <2>. QED BY <2>4, <2>5 DEF ServedInv
<1>6. CASE \/ HandlerSetStatus(r) \/ HandlerCrash(r) \/ ExpireStatus(r)
           \/ \E b \in Batches : SaveIdea(r, b)
  <2>1. UNCHANGED <<dbStatus, refinement, abandoned, stream>>
    BY <1>6 DEF HandlerSetStatus, HandlerCrash, ExpireStatus, SaveIdea, requests, handlers, broker
  <2>. QED BY <1>2, <2>1 DEF ServedInv, ServedRuns, Ahead, Fresh, Current, Wrote, Req
<1>. QED BY <1>4, <1>5, <1>6 DEF HandlerStep

\* The queue: an ack removes no job that has not written its outcome.
LEMMA BrokerKeepsServed ==
    ASSUME IInv, ServedInv, Next,
           \/ \E m \in Messages : \/ AckWaitExpires(m)
                                  \/ \E w \in Workers : Deliver(w, m) \/ Take(w, m)
           \/ \E w \in Workers : \/ Ack(w) \/ AckLost(w) \/ Nak(w)
                                 \/ WorkerCrash(w) \/ Shutdown(w) \/ Exit(w),
           \A w \in Workers : ~ RunStep(w)
    PROVE  ServedInv'
<1>1. /\ UNCHANGED ideas
      /\ \A w \in Workers : \/ wpc'[w] = wpc[w] /\ job'[w] = job[w] /\ ver'[w] = ver[w]
                            \/ wpc'[w] \in {"idle", "load"}
  BY OthersMove
<1>2. /\ UNCHANGED <<dbStatus, refinement, abandoned>>
      /\ \/ UNCHANGED stream
         \/ \E w \in Workers : Wrote(w) /\ stream' = stream \ {job[w]}
  BY DEF AckWaitExpires, Deliver, Take, Ack, AckLost, Nak, WorkerCrash, Shutdown, Exit, Restart,
         Wrote, requests, handlers, broker
<1>3. ServedRuns'
  BY <1>1, <1>2 DEF ServedInv, ServedRuns, Current, Req
<1>4. ASSUME NEW r \in Requests, Ahead(r) PROVE Ahead(r)'
  <2>1. Current(r)' = Current(r)
    BY <1>2 DEF Current
  <2>2. Current(r) \in stream'
    BY <1>2, <1>4 DEF Ahead
  <2>. QED BY <1>1, <1>4, <2>1, <2>2 DEF Ahead, Wrote
<1>5. ASSUME NEW r \in Requests, Fresh(r) PROVE Fresh(r)'
  BY <1>1, <1>2, <1>5 DEF Fresh, Req
<1>. QED BY <1>2, <1>3, <1>4, <1>5 DEF ServedInv

\* The steps of Run: an outcome that is written is that of the latest refinement, or
\* the job of that refinement is still to come.
LEMMA RunKeepsServed ==
    ASSUME IInv, QueueInv, RankInv, ServedInv, Calm, OneWorker, NEW w \in Workers, RunStep(w)
    PROVE  ServedInv'
<1>1. closing = {}
  BY DEF QueueInv
<1>0. PICK r \in Requests : r = Req(w)
  BY <1>1, RunMoves
<1>2. /\ UNCHANGED <<refinement, abandoned, stream, job>>
      /\ job[w] \in Messages /\ r \in Requests
      /\ wpc[w] # "idle" /\ wpc'[w] \notin {"idle", "load"}
      /\ \A q \in Requests : \/ dbStatus'[q] = dbStatus[q]
                             \/ q = r /\ dbStatus'[q] \in {"running", "failed"}
                             \/ q = r /\ dbStatus'[q] = "ready" /\ wpc[w] = "readydb"
      /\ \/ ~ Wrote(w) /\ ~ Wrote(w)'
         \/ ~ Wrote(w) /\ dbStatus'[r] = "failed"
         \/ ~ Wrote(w) /\ dbStatus'[r] = "ready" /\ wpc[w] = "readydb"
         \/ Wrote(w) /\ UNCHANGED dbStatus
      /\ ver'[w] = IF wpc[w] = "load" THEN refinement[r] ELSE ver[w]
  BY <1>0, <1>1, RunMoves
<1>3. /\ \/ UNCHANGED ideas
         \/ wpc[w] = "commit" /\ wpc'[w] \in {"ready", "nak"} /\ Commit(w)
      /\ wpc'[w] = "ready" => wpc[w] = "commit" /\ Commit(w)
      /\ wpc'[w] = "readydb" => wpc[w] = "ready" /\ UNCHANGED ideas
  BY SaveMoves
<1>4. /\ \A q \in Requests \ {r} : ideas'[q] = ideas[q]
      /\ wpc[w] = "commit" /\ Commit(w) => \A b \in ideas'[r] : b.ver = ver[w]
      /\ UNCHANGED ideas \/ (wpc[w] = "commit" /\ \A b \in ideas'[r] : b.ver = ver[w])
  <2>1. CASE wpc[w] = "commit" /\ Commit(w)
    <3>1. ideas'[r] = Inserted(w) /\ \A q \in Requests \ {r} : ideas'[q] = ideas[q]
      BY <1>0, <1>2, <2>1, CommitReplaces DEF IInv, RankInv
    <3>2. \A b \in Inserted(w) : b.ver = ver[w]
      BY DEF Inserted
    <3>. QED BY <2>1, <3>1, <3>2
  <2>2. CASE ~ (wpc[w] = "commit" /\ Commit(w))
    BY <1>3, <2>2
  <2>. QED BY <2>1, <2>2
<1>5. /\ Req(w)' = r /\ Current(r)' = Current(r)
      /\ \A q \in Requests : Current(q)' = Current(q)
      /\ \A x \in Workers : x = w
  BY <1>0, <1>2 DEF Req, Current, OneWorker
<1>6. /\ wpc[w] # "load" /\ job[w] = Current(r) => ver[w] = refinement[r]
      /\ wpc[w] \in {"ready", "readydb"} => \A b \in ideas[r] : b.ver = ver[w]
  BY <1>0, <1>2 DEF ServedInv, ServedRuns
<1>7. job[w] = Current(r) => ver'[w] = refinement[r]
  BY <1>2, <1>6
<1>8. ServedRuns'
  <2>1. wpc'[w] \in {"ready", "readydb"} => \A b \in ideas'[r] : b.ver = ver'[w]
    <3>1. CASE wpc'[w] = "ready"
      BY <1>2, <1>3, <1>4, <3>1
    <3>2. CASE wpc'[w] = "readydb"
      BY <1>2, <1>3, <1>6, <3>2
    <3>. QED BY <3>1, <3>2
  <2>. QED BY <1>2, <1>5, <1>7, <2>1 DEF ServedRuns
<1>9. ASSUME NEW q \in Requests
      PROVE  q \in abandoned' \/ dbStatus'[q] = "none" \/ Ahead(q)' \/ Fresh(q)'
  <2>0. q \in abandoned \/ dbStatus[q] = "none" \/ Ahead(q) \/ Fresh(q)
    BY DEF ServedInv
  <2>1. CASE q # r
    <3>1. dbStatus'[q] = dbStatus[q] /\ ideas'[q] = ideas[q]
      BY <1>2, <1>4, <2>1
    <3>2. job[w] # Current(q)
      BY <1>0, <2>1 DEF Current, Req
    <3>3. Ahead(q) => Ahead(q)'
      BY <1>2, <1>5, <3>2 DEF Ahead
    <3>4. Fresh(q)' \/ dbStatus'[q] = "none" \/ ~ Fresh(q)
      BY <1>0, <1>2, <1>5, <2>1, <3>1 DEF Fresh
    <3>. QED BY <1>2, <2>0, <3>1, <3>3, <3>4
  <2>2. CASE q = r
    <3>0. dbStatus[r] # "none"
      <4>1. job[w] # None
        BY <1>2, GenerationConstants
      <4>2. job[w] \in stream /\ r = job[w].req
        BY <1>0, <4>1 DEF QueueInv, OneCopy, Hand, Req
      <4>. QED BY <4>2 DEF QueueInv, JobsKnown
    <3>1. CASE r \in abandoned
      BY <1>2, <2>2, <3>1
    <3>2. CASE ver'[w] = refinement[r]
      <4>1. CASE Ahead(r) /\ job[w] # Current(r)
        <5>1. Ahead(r)'
          BY <1>2, <1>5, <4>1 DEF Ahead
        <5>. QED BY <2>2, <5>1
      <4>2. CASE dbStatus'[r] # "ready"
        <5>1. Fresh(r)'
          BY <1>2, <1>5, <3>2, <4>2 DEF Fresh
        <5>. QED BY <2>2, <5>1
      <4>3. CASE dbStatus'[r] = "ready" /\ (wpc[w] = "readydb" \/ ~ UNCHANGED ideas)
        <5>1. ver'[w] = ver[w]
          BY <1>2, <1>4, <4>3
        <5>2. \A b \in ideas'[r] : b.ver = refinement[r]
          BY <1>3, <1>4, <1>6, <3>2, <4>3, <5>1
        <5>3. Fresh(r)'
          BY <1>2, <1>5, <3>2, <5>2 DEF Fresh
        <5>. QED BY <2>2, <5>3
      <4>4. CASE dbStatus'[r] = "ready" /\ wpc[w] # "readydb" /\ UNCHANGED ideas
        <5>1. dbStatus[r] = "ready" /\ UNCHANGED ideas
          BY <1>2, <1>3, <4>4
        <5>2. CASE Fresh(r)
          <6>1. Fresh(r)'
            BY <1>2, <1>5, <3>2, <5>1, <5>2 DEF Fresh
          <6>. QED BY <2>2, <6>1
        <5>3. CASE Ahead(r) /\ job[w] = Current(r)
          <6>1. ~ Wrote(w)
            BY <5>3 DEF Ahead
          <6>2. ~ Wrote(w)' => Ahead(r)'
            BY <1>2, <1>5, <5>3 DEF Ahead
          <6>3. ~ Wrote(w)'
            BY <1>2, <4>4, <6>1
          <6>. QED BY <2>2, <6>2, <6>3
        <5>. QED BY <2>0, <2>2, <3>0, <3>1, <4>1, <5>2, <5>3
      <4>. QED BY <4>2, <4>3, <4>4
    <3>3. CASE ver'[w] # refinement[r] /\ r \notin abandoned
      <4>1. job[w] # Current(r) /\ wpc[w] # "load"
        BY <1>2, <1>7, <3>3
      <4>2. ~ Fresh(r)
        BY <1>0, <1>2, <3>3, <4>1 DEF Fresh
      <4>3. Ahead(r)
        BY <2>0, <2>2, <3>0, <3>3, <4>2
      <4>4. Ahead(r)'
        BY <1>2, <1>5, <4>1, <4>3 DEF Ahead
      <4>. QED BY <2>2, <4>4
    <3>. QED BY <3>1, <3>2, <3>3
  <2>. QED BY <2>1, <2>2
<1>. QED BY <1>8, <1>9 DEF ServedInv

\* The initial state.
LEMMA InitServed == Init => ServedInv
BY DEF Init, ServedInv, ServedRuns

\* When all the jobs of a ready request are settled, the ideas it shows were made
\* with its latest refinement: one worker, calm faults.
THEOREM RefinementsAreServed ==
    ASSUME Calm, OneWorker
    PROVE  Spec => []RefinementServed
<1>1. Init => ServedInv
  BY InitServed
<1>2. ASSUME IInv, QueueInv /\ OrphanInv, RankInv, ServedInv, [Next]_vars
      PROVE  ServedInv'
  <2>1. CASE UNCHANGED vars
    BY <1>2, <2>1 DEF vars, ServedInv, ServedRuns, Ahead, Fresh, Current, Wrote, Req
  <2>2. CASE \E w \in Workers : RunStep(w)
    BY <1>2, <2>2, RunKeepsServed
  <2>3. CASE Next /\ \A w \in Workers : ~ RunStep(w)
    BY <1>2, <2>3, HandlersKeepServed, BrokerKeepsServed
    DEF Next, WorkerStep, PipelineStep, RunStep
  <2>. QED BY <1>2, <2>1, <2>2, <2>3
<1>3. ServedInv => RefinementServed
  <2> SUFFICES ASSUME ServedInv, NEW r \in Requests, dbStatus[r] = "ready", Settled(r)
               PROVE  \A b \in ideas[r] : b.ver = refinement[r]
    BY DEF RefinementServed
  <2>1. r \notin abandoned /\ Current(r) \notin stream
    BY DEF Settled, Current
  <2>. QED BY <2>1 DEF ServedInv, Ahead, Fresh
<1>. QED BY <1>1, <1>2, <1>3, GenerationInvariant, QueueInvariant, RankInvariant, PTL DEF Spec
=============================================================================
