------------------------------ MODULE LogStore ------------------------------
(***************************************************************************)
(* The log server's store and its reader: rows are ingested in             *)
(* transactions, pruned by age and queried newest first, and the log       *)
(* viewer loads a page and then tails it by polling for ids above its      *)
(* cursor.  A query and the use of its answer are two steps, with other    *)
(* queries, edits of the filter and other answers between them.            *)
(***************************************************************************)
EXTENDS Naturals, FiniteSets, FiniteSetsExt

CONSTANTS
    LogServices,    \* services that log
    All,            \* the empty filter
    Limit,          \* the limit of a query that names none
    MaxRows,        \* bound: rows ever ingested
    MaxFetches,     \* bound: queries under way at a time
    MaxLoads        \* bound: loads begun (edits of the filter and refreshes)

ASSUME LogStoreBounds ==
    /\ Limit \in Nat \ {0}
    /\ All \notin LogServices
    /\ MaxRows \in Nat /\ MaxFetches \in Nat

VARIABLES
    logs,       \* the logs table
    lastId,     \* the AUTOINCREMENT sequence
    filter,     \* the viewer's filter
    live,       \* live tail is on
    cursor,     \* cursorRef
    shown,      \* the rows in the table, by id
    fetches,    \* queries under way
    loads,      \* loads begun
    epoch,      \* history: loads whose answer was used
    since,      \* history: the cursor the last of them set
    overtaken,  \* history: an answer was used after a later load had been
    cut         \* history: an answer to the tail left out matching rows

logVars == <<logs, lastId, filter, live, cursor, shown, fetches, loads,
             epoch, since, overtaken, cut>>

Ids(rs) == {r.id : r \in rs}

\* max of the ids and a floor (nextAfter).
NextAfter(ids, current) == Max(ids \cup {current})

-----------------------------------------------------------------------------
(* Store *)

\* The id the next inserted row gets.
FreshId == lastId + 1

\* handleIngest and Insert: the batch is stored in one transaction or not at all.
\* A record may be old: a spool is shipped when the server is back.
HandleIngest ==
    /\ lastId < MaxRows
    /\ \E s \in LogServices, old \in BOOLEAN :
           logs' = logs \cup {[id |-> FreshId, service |-> s, old |-> old]}
    /\ lastId' = FreshId
    /\ UNCHANGED <<filter, live, cursor, shown, fetches, loads, epoch, since, overtaken, cut>>

\* runPruner: rows whose ts is before the cutoff go, whatever their id.
Prune ==
    /\ \E r \in logs : r.old
    /\ logs' = {r \in logs : ~r.old}
    /\ UNCHANGED <<lastId, filter, live, cursor, shown, fetches, loads, epoch, since, overtaken, cut>>

\* The where clause of Query.
Matching(f, after) == {r \in logs : (f = All \/ r.service = f) /\ r.id > after}

\* Query: the matching rows, highest id first, up to the limit.
Query(f, after) ==
    LET ids == Ids(Matching(f, after)) IN
    {i \in ids : Cardinality({j \in ids : j > i}) < Limit}

-----------------------------------------------------------------------------
(* Viewer: the single page app that the server serves *)

\* A query is sent; handleLogs answers it at some point before it is used.
Send(kind, f, after) ==
    fetches' = fetches \cup
        {[kind |-> kind, filter |-> f, after |-> after, load |-> loads', epoch |-> epoch,
          answer |-> {}, answered |-> FALSE]}

\* reload: the filter was edited, or Refresh was pressed.
Reload ==
    /\ loads < MaxLoads
    /\ Cardinality(fetches) < MaxFetches
    /\ loads' = loads + 1
    /\ filter' \in LogServices \cup {All}
    /\ Send("load", filter', 0)
    /\ UNCHANGED <<logs, lastId, live, cursor, shown, epoch, since, overtaken, cut>>

ToggleLive ==
    /\ live' = ~live
    /\ fetches' = {f \in fetches : live => f.kind = "load"}
    /\ UNCHANGED <<logs, lastId, filter, cursor, shown, loads, epoch, since, overtaken, cut>>

\* tick of the live tail, with the filter and the cursor of the moment.
TailTick ==
    /\ live
    /\ Cardinality(fetches) < MaxFetches
    /\ UNCHANGED loads
    /\ Send("tail", filter, cursor)
    /\ UNCHANGED <<logs, lastId, filter, live, cursor, shown, epoch, since, overtaken, cut>>

\* handleLogs: the query runs.
HandleLogs(f) ==
    /\ ~f.answered
    /\ fetches' = (fetches \ {f}) \cup
           {[f EXCEPT !.answered = TRUE, !.answer = Query(f.filter, f.after)]}
    /\ cut' = (cut \/ (f.kind = "tail" /\ Cardinality(Matching(f.filter, f.after)) > Limit))
    /\ UNCHANGED <<logs, lastId, filter, live, cursor, shown, loads, epoch, since, overtaken>>

\* The answer to a load replaces the table and the cursor.
UseLoad(f) ==
    /\ f.kind = "load" /\ f.answered
    /\ shown' = f.answer
    /\ cursor' = NextAfter(f.answer, 0)
    /\ since' = cursor'
    /\ fetches' = fetches \ {f}
    /\ epoch' = epoch + 1
    /\ overtaken' = (f.load # loads)
    /\ cut' = FALSE
    /\ UNCHANGED <<logs, lastId, filter, live, loads>>

\* Mutant: the answer to a tick replaces the table.
UseTailReplaces(f) ==
    /\ f.kind = "tail" /\ f.answered
    /\ shown' = f.answer
    /\ cursor' = NextAfter(f.answer, cursor)
    /\ fetches' = fetches \ {f}
    /\ overtaken' = (overtaken \/ f.epoch # epoch)
    /\ UNCHANGED <<logs, lastId, filter, live, loads, epoch, since, cut>>

\* The answer to a tick is merged into the table (mergeRows, far from its cap of
\* 5000 rows).
UseTail(f) ==
    /\ f.kind = "tail" /\ f.answered
    /\ shown' = shown \cup f.answer
    /\ cursor' = NextAfter(f.answer, cursor)
    /\ fetches' = fetches \ {f}
    /\ overtaken' = (overtaken \/ f.epoch # epoch)
    /\ UNCHANGED <<logs, lastId, filter, live, loads, epoch, since, cut>>

\* The query fails: a load empties the table, a tick changes nothing.
FetchFails(f) ==
    /\ shown' = IF f.kind = "load" THEN {} ELSE shown
    /\ overtaken' = (overtaken \/ f.kind = "load")
    /\ fetches' = fetches \ {f}
    /\ UNCHANGED <<logs, lastId, filter, live, cursor, loads, epoch, since, cut>>

-----------------------------------------------------------------------------
(* Specification *)

LogStoreInit ==
    /\ logs = {}
    /\ lastId = 0
    /\ filter = All
    /\ live = FALSE
    /\ cursor = 0
    /\ shown = {}
    /\ fetches = {}
    /\ loads = 0
    /\ epoch = 0
    /\ since = 0
    /\ overtaken = FALSE
    /\ cut = FALSE

Answering(f) == HandleLogs(f) \/ UseLoad(f) \/ UseTail(f)

LogStoreNext ==
    \/ HandleIngest \/ Prune \/ Reload \/ ToggleLive \/ TailTick
    \/ \E f \in fetches : Answering(f) \/ FetchFails(f)

LogStoreSpec == LogStoreInit /\ [][LogStoreNext]_logVars

-----------------------------------------------------------------------------
(* Properties *)

LogStoreTypeOK ==
    /\ logs \subseteq [id : 1..MaxRows, service : LogServices, old : BOOLEAN]
    /\ lastId \in 0..MaxRows
    /\ filter \in LogServices \cup {All}
    /\ cursor \in 0..lastId
    /\ since \in 0..lastId
    /\ shown \subseteq 1..lastId
    /\ Cardinality(fetches) <= MaxFetches

\* The live tail misses nothing behind its cursor: a stored row that matches the
\* filter and lies between the last load and the cursor is in the table, although
\* rows are pruned out of id order and answers come back in any order.  The two
\* exceptions are the code's: more than a page of rows between two ticks, and an
\* answer that a load of another filter overtook.
TailComplete ==
    ~overtaken /\ ~cut /\ (\A f \in fetches : f.kind = "tail") =>
        \A r \in Matching(filter, since) : r.id <= cursor => r.id \in shown

\* Store and viewer are in one of their states, and the tail has no gap.
LogStoreSafe == LogStoreTypeOK /\ TailComplete
=============================================================================
