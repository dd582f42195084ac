------------------------------ MODULE Catalog ------------------------------
(***************************************************************************)
(* The Catalog service: reads of the reference data (categories and budget *)
(* bands, holidays) through a Valkey cache that is filled by the reader    *)
(* that misses, and the inspiration corpus with its embeddings, whose      *)
(* upsert flushes that cache.                                              *)
(*                                                                         *)
(* A read is several steps: the GET, one query for each table, the SET.    *)
(* The tables of the reference data are edited in the database, not        *)
(* through the service, so no edit flushes the cache.  Every table is the  *)
(* number of its edits.                                                    *)
(***************************************************************************)
EXTENDS Naturals, FiniteSets

CONSTANTS
    Readers,        \* ListHolidays and GetCategories RPCs under way
    Editors,        \* UpsertInspiration RPCs under way
    Texts,          \* title and body of an inspiration
    ReferenceTTL,   \* ReferenceCacheTTL, in ticks
    Deadline,       \* ticks after which a caller's context ends (downstreamTimeout)
    MaxEdits,       \* bound: edits of each table
    NoText          \* no such inspiration

ASSUME CatalogConstants ==
    /\ ReferenceTTL \in Nat \ {0} /\ Deadline \in Nat
    /\ MaxEdits \in Nat
    /\ NoText \notin Texts

Tables == {"holidays", "categories", "bands"}

\* The keys of the cache, and the tables whose rows are under each of them.
CacheKeys == {"holidays", "categories"}
TablesOf(k) == IF k = "holidays" THEN {"holidays"} ELSE {"categories", "bands"}

VARIABLES
    table,      \* the edits each table has had
    superseded, \* history: ticks since each edition of a table was the last one
    entry,      \* the cache: an edition of each table, with ticks left; 0 is none
    reader,     \* where each read is, what it has read and how long it has taken
    editor,     \* where each upsert is, and its text
    corpus      \* the inspiration that is edited, with its embedding

catalogVars == <<table, superseded, entry, reader, editor, corpus>>

\* After this many ticks the age of an edition is not told apart.
OldCap == ReferenceTTL + Deadline + 1

NoEntry == [left |-> 0, of |-> [t \in Tables |-> 0]]
IdleReader == [at |-> "idle", key |-> "holidays", got |-> [t \in Tables |-> 0], took |-> 0]
IdleEditor == [at |-> "idle", text |-> NoText]

ReaderAt(r, a) == reader[r].at = a
EditorAt(w, a) == editor[w].at = a

-----------------------------------------------------------------------------
(* Reference reads *)

\* ListHolidays and GetCategories: cacheGet, where an error is a miss.
CacheGet(r, k) ==
    /\ ReaderAt(r, "idle") \/ ReaderAt(r, "answered")
    /\ \/ /\ entry[k].left > 0
          /\ reader' = [reader EXCEPT ![r] =
                           [at |-> "answered", key |-> k, got |-> entry[k].of, took |-> 0]]
       \/ reader' = [reader EXCEPT ![r] =
                        [at |-> IF k = "holidays" THEN "holidays" ELSE "categories",
                         key |-> k, got |-> NoEntry.of, took |-> 0]]
    /\ UNCHANGED <<table, superseded, entry, editor, corpus>>

\* The query of one table; GetCategories has two, with no transaction around them.
QueryTable(r, t, next) ==
    /\ ReaderAt(r, t)
    /\ reader' = [reader EXCEPT ![r].at = next, ![r].got[t] = table[t]]
    /\ UNCHANGED <<table, superseded, entry, editor, corpus>>

ListHolidays(r) == QueryTable(r, "holidays", "set")
GetCategories(r) == QueryTable(r, "categories", "bands") \/ QueryTable(r, "bands", "set")

\* A query fails, or the caller's context ends: the RPC answers with an error.
QueryFails(r) ==
    /\ reader[r].at \in Tables
    /\ reader' = [reader EXCEPT ![r] = IdleReader]
    /\ UNCHANGED <<table, superseded, entry, editor, corpus>>

\* Mutant: SET without EX; the entry outlives what the history tells apart.
CacheSetNoEX(r) ==
    /\ ReaderAt(r, "set")
    /\ entry' = [entry EXCEPT ![reader[r].key] = [left |-> OldCap + 1, of |-> reader[r].got]]
    /\ reader' = [reader EXCEPT ![r].at = "answered", ![r].took = 0]
    /\ UNCHANGED <<table, superseded, editor, corpus>>

\* cacheSet, whose error is only logged, and the answer.
CacheSet(r) ==
    /\ ReaderAt(r, "set")
    /\ \/ entry' = [entry EXCEPT ![reader[r].key] = [left |-> ReferenceTTL, of |-> reader[r].got]]
       \/ UNCHANGED entry
    /\ reader' = [reader EXCEPT ![r].at = "answered", ![r].took = 0]
    /\ UNCHANGED <<table, superseded, editor, corpus>>

\* The reference data is edited (by a migration or by hand).
EditTable(t) ==
    /\ table[t] < MaxEdits
    /\ table' = [table EXCEPT ![t] = @ + 1]
    /\ UNCHANGED <<superseded, entry, reader, editor, corpus>>

-----------------------------------------------------------------------------
(* The corpus *)

\* UpsertInspiration: a title and a body are required; the embedding is computed
\* first, by a service that may fail.
EmbedInspiration(w, x) ==
    /\ EditorAt(w, "idle")
    /\ editor' = [editor EXCEPT ![w] = [at |-> "upsert", text |-> x]]
    /\ UNCHANGED <<table, superseded, entry, reader, corpus>>

\* One statement inserts the row or replaces all of it, text and embedding.
UpsertInspiration(w) ==
    /\ EditorAt(w, "upsert")
    /\ corpus' = editor[w].text
    /\ editor' = [editor EXCEPT ![w] = [IdleEditor EXCEPT !.at = "invalidate"]]
    /\ UNCHANGED <<table, superseded, entry, reader>>

\* The upsert fails.
UpsertFails(w) ==
    /\ EditorAt(w, "upsert")
    /\ editor' = [editor EXCEPT ![w] = IdleEditor]
    /\ UNCHANGED <<table, superseded, entry, reader, corpus>>

\* Invalidate: SCAN and DEL until the cursor is 0; an error, after any of the
\* deletes, is only logged.
Invalidate(w) ==
    /\ EditorAt(w, "invalidate")
    /\ \E deleted \in SUBSET CacheKeys :
           entry' = [k \in CacheKeys |-> IF k \in deleted THEN NoEntry ELSE entry[k]]
    /\ editor' = [editor EXCEPT ![w] = IdleEditor]
    /\ UNCHANGED <<table, superseded, reader, corpus>>

-----------------------------------------------------------------------------
(* Specification *)

Fewer(n) == IF n = 0 THEN 0 ELSE n - 1

CatalogTick ==
    /\ \A r \in Readers : reader[r].at \in Tables \cup {"set"} => reader[r].took < Deadline
    /\ superseded' = [t \in Tables |-> [n \in 0..MaxEdits |->
                         IF n >= table[t] THEN 0
                         ELSE IF superseded[t][n] = OldCap THEN OldCap ELSE superseded[t][n] + 1]]
    /\ entry' = [k \in CacheKeys |->
                    IF entry[k].left <= 1 THEN NoEntry ELSE [entry[k] EXCEPT !.left = @ - 1]]
    /\ reader' = [r \in Readers |->
                     IF reader[r].at \in Tables \cup {"set"} THEN [reader[r] EXCEPT !.took = @ + 1]
                     ELSE IdleReader]
    /\ UNCHANGED <<table, editor, corpus>>

CatalogInit ==
    /\ table = [t \in Tables |-> 0]
    /\ superseded = [t \in Tables |-> [n \in 0..MaxEdits |-> 0]]
    /\ entry = [k \in CacheKeys |-> NoEntry]
    /\ reader = [r \in Readers |-> IdleReader]
    /\ editor = [w \in Editors |-> IdleEditor]
    /\ corpus = NoText

CatalogNext ==
    \/ CatalogTick
    \/ \E r \in Readers :
         \/ \E k \in CacheKeys : CacheGet(r, k)
         \/ ListHolidays(r) \/ GetCategories(r) \/ QueryFails(r) \/ CacheSet(r)
    \/ \E t \in Tables : EditTable(t)
    \/ \E w \in Editors :
         \/ \E x \in Texts : EmbedInspiration(w, x)
         \/ UpsertInspiration(w) \/ UpsertFails(w) \/ Invalidate(w)

CatalogSpec == CatalogInit /\ [][CatalogNext]_catalogVars

-----------------------------------------------------------------------------
(* Properties *)

CatalogTypeOK ==
    /\ table \in [Tables -> 0..MaxEdits]
    /\ \A k \in CacheKeys : entry[k].left \in 0..ReferenceTTL
    /\ \A r \in Readers : reader[r].took \in 0..Deadline

\* How stale an answer can be: what a reader is told of a table was the last
\* edition less long ago than the TTL of the cache and the deadline of the read
\* that filled it take together, also when that read wrote it after a flush.
StalenessBounded ==
    \A r \in Readers : ReaderAt(r, "answered") =>
        \A t \in TablesOf(reader[r].key) :
            superseded[t][reader[r].got[t]] < ReferenceTTL + Deadline

\* Cache, table and readers are in one of their states, and no answer is too old.
CatalogSafe == CatalogTypeOK /\ StalenessBounded
=============================================================================
