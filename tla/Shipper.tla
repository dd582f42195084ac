------------------------------ MODULE Shipper ------------------------------
(***************************************************************************)
(* logkit's shipper: the bounded queue that loggers offer records to, the  *)
(* single loop goroutine that owns the batch and the spool file, Flush,    *)
(* Close, and the log server's ingest.                                     *)
(*                                                                         *)
(* Records are numbered in the order in which they are logged.  All have   *)
(* the same size, so SpoolMax counts records where the code counts bytes.  *)
(* A POST is a step of its own, and loggers go on in the meantime; what    *)
(* the loop does to its file between two of them is one step.              *)
(*                                                                         *)
(* Three things may make a record arrive more than once, and MaxFaults     *)
(* bounds how often they happen: a POST that times out after the server    *)
(* has committed it, a rewrite of the spool that fails, and the death of   *)
(* the process.  A POST that fails without effect is not bounded.          *)
(***************************************************************************)
EXTENDS Naturals, Sequences, SequencesExt

CONSTANTS
    MaxRecords,     \* bound: records logged
    QueueSize,      \* Options.QueueSize
    BatchSize,      \* Options.BatchSize
    SpoolMax,       \* Options.SpoolMaxBytes, in records
    MaxFaults       \* bound: failures that may duplicate

\* withDefaults replaces what is not positive.
ASSUME ShipperConstants ==
    /\ MaxRecords \in Nat
    /\ QueueSize \in Nat \ {0}
    /\ BatchSize \in Nat \ {0}
    /\ SpoolMax \in Nat \ {0}
    /\ MaxFaults \in Nat

VARIABLES
    logged,     \* number of records logged
    queue,      \* the channel
    batch,      \* the loop's batch
    spool,      \* the spool file
    out,        \* what a send or a drain has still to post
    loop,       \* what the loop goroutine is doing
    cause,      \* what it will finish: a flush, a close or neither
    done,       \* the done channel is closed
    flush,      \* where the caller of Flush is
    covered,    \* the records logged when it called
    copies,     \* rows of each record in the server's table
    healthy,    \* once healthy, the server answers every POST in time
    excused,    \* history: records dropped, or lost with the process's memory
    faults      \* bound

vars == <<logged, queue, batch, spool, out, loop, cause, done, flush, covered,
          copies, healthy, excused, faults>>

Records == 1..MaxRecords

LoopStates == {"idle", "collect", "send", "drain", "stopped", "down"}

TypeOK ==
    /\ logged \in 0..MaxRecords
    /\ queue \in Seq(Records) /\ Len(queue) <= QueueSize
    /\ batch \in Seq(Records)
    /\ spool \in Seq(Records)
    /\ out \in Seq(Records)
    /\ loop \in LoopStates
    /\ cause \in {"none", "flush", "close"}
    /\ done \in BOOLEAN
    /\ flush \in {"none", "asking", "granted", "returned", "gaveUp"}
    /\ covered \in 0..MaxRecords
    /\ copies \in [Records -> Nat]
    /\ healthy \in BOOLEAN
    /\ excused \subseteq Records
    /\ faults \in 0..MaxFaults
    /\ loop = "idle" => Len(batch) < BatchSize /\ out = <<>> /\ cause = "none"
    /\ loop \in {"send", "drain"} => out # <<>>

\* The next chunk to post and what is left after it.
Chunk == SubSeq(out, 1, IF BatchSize < Len(out) THEN BatchSize ELSE Len(out))
Rest == SubSeq(out, Len(Chunk) + 1, Len(out))

\* Insert: the records of a chunk, in one transaction.
Ingest(c) == copies' = [r \in Records |-> IF r \in ToSet(c) THEN copies[r] + 1 ELSE copies[r]]

\* One of the failures that may duplicate.
Fault == faults < MaxFaults /\ faults' = faults + 1

-----------------------------------------------------------------------------
(* Callers *)

\* enqueue: a full queue drops the record.  Nothing stops it after Close.
Enqueue ==
    /\ loop # "down"
    /\ logged < MaxRecords
    /\ logged' = logged + 1
    /\ \/ /\ Len(queue) < QueueSize
          /\ queue' = Append(queue, logged + 1)
          /\ UNCHANGED excused
       \/ /\ Len(queue) = QueueSize
          /\ excused' = excused \cup {logged + 1}
          /\ UNCHANGED queue
    /\ UNCHANGED <<batch, spool, out, loop, cause, done, flush, covered, copies, healthy, faults>>

\* Flush asks the loop; at any time one caller does.
Flush ==
    /\ loop # "down"
    /\ flush \notin {"asking", "granted"}
    /\ flush' = "asking"
    /\ covered' = logged
    /\ UNCHANGED <<logged, queue, batch, spool, out, loop, cause, done, copies,
                   healthy, excused, faults>>

\* Its context ends, or it finds the shipper closed before it is served.
FlushGivesUp ==
    /\ flush \in {"asking", "granted"}
    /\ flush' = "gaveUp"
    /\ UNCHANGED <<logged, queue, batch, spool, out, loop, cause, done, covered, copies,
                   healthy, excused, faults>>

\* Close; its caller waits for the loop to stop or for its own context.
Close ==
    /\ loop \notin {"stopped", "down"}
    /\ ~ done
    /\ done' = TRUE
    /\ UNCHANGED <<logged, queue, batch, spool, out, loop, cause, flush, covered, copies,
                   healthy, excused, faults>>

-----------------------------------------------------------------------------
(* The loop: what it does when it has nothing more to post *)

\* A flush is answered, a close stops the loop.
Finish ==
    /\ loop' = IF cause = "close" THEN "stopped" ELSE "idle"
    /\ flush' = IF cause = "flush" /\ flush = "granted" THEN "returned" ELSE flush
    /\ cause' = "none"
    /\ out' = <<>>

\* drainSpool begins, with what the file f holds.
StartDrain(f) ==
    \/ /\ f = <<>>
       /\ Finish
    \/ /\ f # <<>>
       /\ loop' = "drain"
       /\ out' = f
       /\ UNCHANGED <<cause, flush>>

\* send has returned, and the file holds f: flush and close go on to the spool.
AfterSend(f) ==
    \/ cause = "none" /\ Finish
    \/ cause # "none" /\ StartDrain(f)

\* send begins.
StartSend(b) ==
    /\ loop' = "send"
    /\ out' = b
    /\ batch' = <<>>
    /\ UNCHANGED <<cause, flush>>

-----------------------------------------------------------------------------
(* The loop: its select *)

\* A record is received, and a full batch sent.
Receive ==
    /\ loop = "idle"
    /\ queue # <<>>
    /\ queue' = Tail(queue)
    /\ LET b == Append(batch, Head(queue))
       IN  \/ Len(b) >= BatchSize /\ StartSend(b)
           \/ Len(b) < BatchSize /\ batch' = b /\ UNCHANGED <<loop, out, cause, flush>>
    /\ UNCHANGED <<logged, spool, done, covered, copies, healthy, excused, faults>>

\* The flush ticker fires.
FlushTick ==
    /\ loop = "idle"
    /\ batch # <<>>
    /\ StartSend(batch)
    /\ UNCHANGED <<logged, queue, spool, done, covered, copies, healthy, excused, faults>>

\* The retry ticker fires.
RetryTick ==
    /\ loop = "idle"
    /\ spool # <<>>
    /\ StartDrain(spool)
    /\ UNCHANGED <<logged, queue, batch, spool, done, covered, copies, healthy, excused, faults>>

\* A flush is granted.
FlushRequest ==
    /\ loop = "idle"
    /\ flush = "asking"
    /\ flush' = "granted"
    /\ loop' = "collect"
    /\ cause' = "flush"
    /\ UNCHANGED <<logged, queue, batch, spool, out, done, covered, copies, healthy, excused, faults>>

\* Mutant: the loop stops only once it has nothing left to deliver.
DoneWhenIdle ==
    /\ loop = "idle"
    /\ done
    /\ queue = <<>> /\ batch = <<>> /\ spool = <<>>
    /\ loop' = "collect"
    /\ cause' = "close"
    /\ UNCHANGED <<logged, queue, batch, spool, out, done, flush, covered, copies, healthy,
                   excused, faults>>

\* The closed done channel is seen.
Done ==
    /\ loop = "idle"
    /\ done
    /\ loop' = "collect"
    /\ cause' = "close"
    /\ UNCHANGED <<logged, queue, batch, spool, out, done, flush, covered, copies, healthy,
                   excused, faults>>

\* drainQueue takes a record.
Collect ==
    /\ loop = "collect"
    /\ queue # <<>>
    /\ batch' = Append(batch, Head(queue))
    /\ queue' = Tail(queue)
    /\ UNCHANGED <<logged, spool, out, loop, cause, done, flush, covered, copies, healthy,
                   excused, faults>>

\* drainQueue finds the queue empty; what there is is sent, then the spool.
Collected ==
    /\ loop = "collect"
    /\ queue = <<>>
    /\ \/ batch # <<>> /\ StartSend(batch)
       \/ batch = <<>> /\ StartDrain(spool) /\ UNCHANGED batch
    /\ UNCHANGED <<logged, queue, spool, done, covered, copies, healthy, excused, faults>>

-----------------------------------------------------------------------------
(* The spool *)

\* Mutant: the cap is taken to be exceeded one record later.
CappedLate(f) == IF Len(f) > SpoolMax + 1 THEN SubSeq(f, Len(f) - SpoolMax, Len(f)) ELSE f

\* enforceCap drops the oldest records of a file that is too long.
Capped(f) == IF Len(f) > SpoolMax THEN SubSeq(f, Len(f) - SpoolMax + 1, Len(f)) ELSE f

\* Mutant: only the chunk that failed is spooled.
UnsentChunk == Chunk

\* A failed send spools the chunk that failed and all records after it.
Unsent == out

\* spoolAppend, and the cap.
SpoolAppend(f) ==
    /\ spool' = Capped(spool \o f)
    /\ excused' = excused \cup (ToSet(spool \o f) \ ToSet(Capped(spool \o f)))

-----------------------------------------------------------------------------
(* The loop: send *)

Posting(l) == loop = l /\ UNCHANGED <<logged, queue, batch, done, covered, healthy>>

\* A chunk is posted.
SendPosts ==
    /\ Posting("send")
    /\ Ingest(Chunk)
    /\ \/ Rest # <<>> /\ out' = Rest /\ UNCHANGED <<loop, cause, flush>>
       \/ Rest = <<>> /\ AfterSend(spool)
    /\ UNCHANGED <<spool, excused, faults>>

\* A POST fails without effect.
SendFails ==
    /\ Posting("send")
    /\ ~ healthy
    /\ SpoolAppend(Unsent)
    /\ AfterSend(spool')
    /\ UNCHANGED <<copies, faults>>

\* The file cannot be opened either: the records are dropped and counted.
SendFailsUnspooled ==
    /\ Posting("send")
    /\ ~ healthy
    /\ excused' = excused \cup ToSet(Unsent)
    /\ AfterSend(spool)
    /\ UNCHANGED <<spool, copies, faults>>

\* The POST times out after the server's commit.
SendTimesOut ==
    /\ Posting("send")
    /\ ~ healthy
    /\ Fault
    /\ Ingest(Chunk)
    /\ SpoolAppend(Unsent)
    /\ AfterSend(spool')

\* enforceCap cannot rewrite the file, which stays too long.
CapFails ==
    /\ Posting("send")
    /\ ~ healthy
    /\ Len(spool \o Unsent) > SpoolMax
    /\ Fault
    /\ spool' = spool \o Unsent
    /\ AfterSend(spool')
    /\ UNCHANGED <<copies, excused>>

-----------------------------------------------------------------------------
(* The loop: drainSpool *)

\* A chunk is posted; after the last one the file is removed.
DrainPosts ==
    /\ Posting("drain")
    /\ Ingest(Chunk)
    /\ \/ Rest # <<>> /\ out' = Rest /\ UNCHANGED <<spool, loop, cause, flush>>
       \/ Rest = <<>> /\ spool' = <<>> /\ Finish
    /\ UNCHANGED <<excused, faults>>

\* Mutant: after a failed chunk the file is left as it was.
KeepsAll == spool

\* What is left for the file after a failed chunk.
Keeps == out

\* A POST fails without effect; the file keeps what was not delivered.
DrainFails ==
    /\ Posting("drain")
    /\ ~ healthy
    /\ spool' = Keeps
    /\ Finish
    /\ UNCHANGED <<copies, excused, faults>>

\* The POST times out after the server's commit.
DrainTimesOut ==
    /\ Posting("drain")
    /\ ~ healthy
    /\ Fault
    /\ Ingest(Chunk)
    /\ spool' = Keeps
    /\ Finish
    /\ UNCHANGED excused

\* All chunks are posted or one fails, and the file cannot be rewritten.
RewriteFails ==
    /\ Posting("drain")
    /\ Fault
    /\ \/ ~ healthy /\ Keeps # spool /\ UNCHANGED copies
       \/ Rest = <<>> /\ Ingest(Chunk)
    /\ Finish
    /\ UNCHANGED <<spool, excused>>

-----------------------------------------------------------------------------
(* The process *)

\* Its memory is gone; the file stays.
Down ==
    /\ loop' = "down"
    /\ excused' = excused \cup ToSet(queue) \cup ToSet(batch)
                  \cup (IF loop = "send" THEN ToSet(out) ELSE {})
    /\ queue' = <<>> /\ batch' = <<>> /\ out' = <<>>
    /\ cause' = "none"
    /\ flush' = IF flush \in {"asking", "granted"} THEN "gaveUp" ELSE flush
    /\ UNCHANGED <<logged, spool, done, covered, healthy>>

\* The process ends after Close; records that came too late are lost.
Exit ==
    /\ loop = "stopped"
    /\ Down
    /\ UNCHANGED <<copies, faults>>

\* The process dies, or ends without waiting for Close.  A POST under way may
\* still be committed.
Crash ==
    /\ loop \notin {"stopped", "down"}
    /\ Fault
    /\ \/ UNCHANGED copies
       \/ loop \in {"send", "drain"} /\ Ingest(Chunk)
    /\ Down

\* newShipper in the next process of the service, on the same file.
Restart ==
    /\ loop = "down"
    /\ loop' = "idle"
    /\ done' = FALSE
    /\ UNCHANGED <<logged, queue, batch, spool, out, cause, flush, covered, copies, healthy,
                   excused, faults>>

\* The log server is well from now on.
Heal ==
    /\ ~ healthy
    /\ healthy' = TRUE
    /\ UNCHANGED <<logged, queue, batch, spool, out, loop, cause, done, flush, covered, copies,
                   excused, faults>>

-----------------------------------------------------------------------------
(* Specification *)

Init ==
    /\ logged = 0
    /\ queue = <<>> /\ batch = <<>> /\ spool = <<>> /\ out = <<>>
    /\ loop = "idle"
    /\ cause = "none"
    /\ done = FALSE
    /\ flush = "none"
    /\ covered = 0
    /\ copies = [r \in Records |-> 0]
    /\ healthy = FALSE
    /\ excused = {}
    /\ faults = 0

Post ==
    \/ SendPosts \/ SendFails \/ SendFailsUnspooled \/ SendTimesOut \/ CapFails
    \/ DrainPosts \/ DrainFails \/ DrainTimesOut \/ RewriteFails

Loop ==
    \/ Receive \/ FlushTick \/ RetryTick \/ FlushRequest \/ Done
    \/ Collect \/ Collected \/ Post

Next ==
    \/ Enqueue \/ Flush \/ FlushGivesUp \/ Close
    \/ Loop
    \/ Exit \/ Crash \/ Restart \/ Heal

\* The loop goes on, since every POST has a timeout and the tickers tick, and its
\* select, which picks at random among the ready cases, does not pass over a
\* closed done channel for ever.
Fairness == WF_vars(Loop) /\ SF_vars(Done)

Spec == Init /\ [][Next]_vars /\ Fairness

-----------------------------------------------------------------------------
(* Properties *)

\* "Records are spooled to disk and backfilled once the server returns.  Nothing
\* is lost": every record is in one of the shipper's places or at the server,
\* unless it was dropped by a full queue, the cap or an unusable spool, or was
\* in the memory of a process that ended.
Accounted ==
    \A r \in 1..logged :
        \/ r \in excused \cup ToSet(queue) \cup ToSet(batch) \cup ToSet(spool)
        \/ loop = "send" /\ r \in ToSet(out)
        \/ copies[r] > 0

\* The shipper's places agree: the queue keeps its capacity, a loop that posts has
\* something to post, and every record is somewhere.
ShipperConsistent == TypeOK /\ Accounted

\* A partial success makes progress: chunks that were delivered are not sent
\* again, so a record arrives twice only by a late answer, a failed rewrite or a
\* crash, and not more often than that.
DuplicatesExplained == \A r \in Records : copies[r] <= 1 + faults

\* "The spool can never fill the disk": the file is kept within its cap by
\* every path on which none of the bounded failures has happened.
SpoolBounded == Len(spool) > SpoolMax => faults > 0

\* "Flush synchronously drains the queue, sends any pending batch, and attempts a
\* spool drain": when it returns in time, all that was logged before the call is
\* at the server or on disk.
FlushIsCheckpoint ==
    flush = "returned" =>
        \A r \in 1..covered : copies[r] > 0 \/ r \in ToSet(spool) \cup excused

\* The file is within its cap, and holds what a Flush put there.
SpoolSafe == SpoolBounded /\ FlushIsCheckpoint

\* "Backfilled once the server returns": once the server is well, again and again
\* all that was logged so far has arrived, without another call, except what was
\* dropped, or the process has ended.
Delivered ==
    healthy ~> \/ loop \in {"stopped", "down"}
               \/ \A r \in 1..logged : copies[r] > 0 \/ r \in excused

\* Close stops the loop, however much is logged meanwhile and however the select
\* orders its cases.
CloseEnds == done ~> loop \in {"stopped", "down"}

\* The one goroutine neglects nothing: the backfill and the close both happen.
ShipperLive == Delivered /\ CloseEnds
=============================================================================
