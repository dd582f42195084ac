--------------------------- MODULE ShipperProofs ---------------------------
(***************************************************************************)
(* Proofs about the log shipper, for any sizes of queue, batch and spool   *)
(* and any number of records and faults.                                   *)
(*                                                                         *)
(* The argument: the places where a record may be are nested sets, Stored  *)
(* (the server, the file, the excused), Kept (and what a send has in hand) *)
(* and Held (and queue and batch).  No step takes a record out of any of   *)
(* the three; for the step that empties the file this needs DrainInv: what *)
(* the file still holds and the drain has no longer to post has arrived.   *)
(*                                                                         *)
(* For the duplicates the places are told apart instead: a record is in    *)
(* one place at most and there once (Places), so what a POST delivers is   *)
(* not pending after it, and every pending record has arrived at most once *)
(* per fault (Counted).                                                    *)
(***************************************************************************)
EXTENDS Shipper, TLAPS

-----------------------------------------------------------------------------
(* Sequences and the sets of their elements *)

\* The elements of a sequence by their places.
LEMMA InSet ==
    ASSUME NEW S, NEW s \in Seq(S)
    PROVE  /\ \A i \in 1..Len(s) : s[i] \in ToSet(s)
           /\ \A x \in ToSet(s) : \E i \in 1..Len(s) : x = s[i]
           /\ ToSet(s) \subseteq S
<1>1. DOMAIN s = 1..Len(s) /\ \A i \in 1..Len(s) : s[i] \in S
  OBVIOUS
<1>2. QED
  BY <1>1, Zenon DEF ToSet

\* The empty sequence has no elements.
LEMMA EmptySet == ToSet(<<>>) = {}
  BY DEF ToSet

\* Taking the head off, as a receive from the queue does.
LEMMA TailSet ==
    ASSUME NEW S, NEW s \in Seq(S), s # <<>>
    PROVE  /\ Tail(s) \in Seq(S)
           /\ Head(s) \in S
           /\ Len(Tail(s)) = Len(s) - 1
           /\ ToSet(s) = {Head(s)} \cup ToSet(Tail(s))
<1>1. /\ Tail(s) \in Seq(S)
      /\ Head(s) \in S
      /\ Len(s) \in Nat \ {0}
      /\ Len(Tail(s)) = Len(s) - 1
      /\ Head(s) = s[1]
      /\ \A i \in 1..(Len(s) - 1) : Tail(s)[i] = s[i + 1]
  OBVIOUS
<1>2. ASSUME NEW x \in ToSet(s) PROVE x \in {Head(s)} \cup ToSet(Tail(s))
  <2>1. PICK i \in 1..Len(s) : x = s[i]
    BY InSet
  <2>2. CASE i = 1
    BY <2>1, <2>2, <1>1
  <2>3. CASE i # 1
    <3>1. i - 1 \in 1..Len(Tail(s)) /\ x = Tail(s)[i - 1]
      BY <2>1, <2>3, <1>1
    <3>2. QED
      BY <3>1, <1>1, InSet
  <2>4. QED
    BY <2>2, <2>3
<1>3. ASSUME NEW x \in ToSet(Tail(s)) PROVE x \in ToSet(s)
  <2> DEFINE t == Tail(s)
  <2>0. t \in Seq(S)
    BY <1>1
  <2> HIDE DEF t
  <2>1. PICK i \in 1..Len(t) : x = t[i]
    <3>1. x \in ToSet(t)
      BY DEF t
    <3>2. QED
      BY <3>1, <2>0, InSet
  <2>2. i + 1 \in 1..Len(s) /\ x = s[i + 1]
    BY <2>1, <1>1 DEF t
  <2>3. QED
    BY <2>2, InSet
<1>4. Head(s) \in ToSet(s)
  BY <1>1, InSet
<1>5. QED
  BY <1>1, <1>2, <1>3, <1>4

\* Appending a sequence, as spoolAppend does.
LEMMA ConcatSet ==
    ASSUME NEW S, NEW s \in Seq(S), NEW t \in Seq(S)
    PROVE  /\ s \o t \in Seq(S)
           /\ Len(s \o t) = Len(s) + Len(t)
           /\ ToSet(s \o t) = ToSet(s) \cup ToSet(t)
<1>1. s \o t \in Seq(S) /\ Len(s \o t) = Len(s) + Len(t)
  OBVIOUS
<1>2. ASSUME NEW x \in ToSet(s \o t) PROVE x \in ToSet(s) \cup ToSet(t)
  <2>1. PICK i \in 1..(Len(s) + Len(t)) : x = (s \o t)[i]
    BY <1>1, InSet
  <2>2. CASE i <= Len(s)
    <3>1. i \in 1..Len(s) /\ x = s[i]
      BY <2>1, <2>2
    <3>2. QED
      BY <3>1, InSet
  <2>3. CASE i > Len(s)
    <3>1. i - Len(s) \in 1..Len(t) /\ x = t[i - Len(s)]
      BY <2>1, <2>3
    <3>2. QED
      BY <3>1, InSet
  <2>4. QED
    BY <2>2, <2>3
<1>3. ASSUME NEW x \in ToSet(s) PROVE x \in ToSet(s \o t)
  <2>1. PICK i \in 1..Len(s) : x = s[i]
    BY InSet
  <2>2. i \in 1..Len(s \o t) /\ x = (s \o t)[i]
    BY <2>1, <1>1
  <2>3. QED
    BY <2>2, <1>1, InSet
<1>4. ASSUME NEW x \in ToSet(t) PROVE x \in ToSet(s \o t)
  <2>1. PICK i \in 1..Len(t) : x = t[i]
    BY InSet
  <2>2. Len(s) + i \in 1..Len(s \o t) /\ x = (s \o t)[Len(s) + i]
    BY <2>1, <1>1
  <2>3. QED
    BY <2>2, <1>1, InSet
<1>5. QED
  BY <1>1, <1>2, <1>3, <1>4

\* Appending a record.
LEMMA AppendSet ==
    ASSUME NEW S, NEW s \in Seq(S), NEW e \in S
    PROVE  /\ Append(s, e) \in Seq(S)
           /\ Len(Append(s, e)) = Len(s) + 1
           /\ ToSet(Append(s, e)) = ToSet(s) \cup {e}
<1>1. Append(s, e) = s \o <<e>> /\ <<e>> \in Seq(S) /\ Len(<<e>>) = 1
  OBVIOUS
<1>2. ToSet(<<e>>) = {e}
  BY DEF ToSet
<1>3. /\ s \o <<e>> \in Seq(S)
      /\ Len(s \o <<e>>) = Len(s) + Len(<<e>>)
      /\ ToSet(s \o <<e>>) = ToSet(s) \cup ToSet(<<e>>)
  <2> DEFINE t == <<e>>
  <2>1. t \in Seq(S)
    BY <1>1
  <2> HIDE DEF t
  <2>2. s \o t \in Seq(S) /\ Len(s \o t) = Len(s) + Len(t) /\ ToSet(s \o t) = ToSet(s) \cup ToSet(t)
    BY <2>1, ConcatSet
  <2>3. QED
    BY <2>2 DEF t
<1>4. QED
  BY <1>1, <1>2, <1>3, Zenon

\* Cutting a sequence in two loses nothing.
LEMMA SplitSet ==
    ASSUME NEW S, NEW s \in Seq(S), NEW n \in 0..Len(s)
    PROVE  /\ SubSeq(s, 1, n) \in Seq(S)
           /\ Len(SubSeq(s, 1, n)) = n
           /\ SubSeq(s, n + 1, Len(s)) \in Seq(S)
           /\ Len(SubSeq(s, n + 1, Len(s))) = Len(s) - n
           /\ ToSet(s) \subseteq ToSet(SubSeq(s, 1, n)) \cup ToSet(SubSeq(s, n + 1, Len(s)))
<1> DEFINE a == SubSeq(s, 1, n)
           b == SubSeq(s, n + 1, Len(s))
<1>1. /\ a \in Seq(S) /\ Len(a) = n
      /\ b \in Seq(S) /\ Len(b) = Len(s) - n
      /\ \A i \in 1..n : a[i] = s[i]
      /\ \A i \in 1..(Len(s) - n) : b[i] = s[n + i]
  OBVIOUS
<1> HIDE DEF a, b
<1>2. ASSUME NEW x \in ToSet(s) PROVE x \in ToSet(a) \cup ToSet(b)
  <2>1. PICK i \in 1..Len(s) : x = s[i]
    BY InSet
  <2>2. CASE i <= n
    <3>1. i \in 1..Len(a) /\ x = a[i]
      BY <2>1, <2>2, <1>1
    <3>2. QED
      BY <3>1, <1>1, InSet
  <2>3. CASE i > n
    <3>1. i - n \in 1..Len(b) /\ x = b[i - n]
      BY <2>1, <2>3, <1>1
    <3>2. QED
      BY <3>1, <1>1, InSet
  <2>4. QED
    BY <2>2, <2>3
<1>3. QED
  BY <1>1, <1>2 DEF a, b

-----------------------------------------------------------------------------
(* The helpers of the loop *)

\* A chunk and the rest are all that was to be posted.
LEMMA ChunkRest ==
    ASSUME TypeOK
    PROVE  /\ Chunk \in Seq(Records)
           /\ Rest \in Seq(Records)
           /\ Len(Rest) <= Len(out)
           /\ ToSet(out) \subseteq ToSet(Chunk) \cup ToSet(Rest)
<1>1. out \in Seq(Records) /\ Len(out) \in Nat
  BY DEF TypeOK
<1>2. PICK n \in 0..Len(out) : n = IF BatchSize < Len(out) THEN BatchSize ELSE Len(out)
  BY <1>1, ShipperConstants
<1>3. Chunk = SubSeq(out, 1, n)
  BY <1>2 DEF Chunk
<1>4. Chunk \in Seq(Records) /\ Len(Chunk) = n
  BY <1>1, <1>3, SplitSet
<1>5. Rest = SubSeq(out, n + 1, Len(out))
  BY <1>4 DEF Rest
<1>6. Len(Rest) = Len(out) - n
  BY <1>1, <1>5, SplitSet
<1>7. QED
  BY <1>1, <1>3, <1>5, <1>6, SplitSet

\* enforceCap brings the file within its cap.
LEMMA CappedFits ==
    ASSUME NEW f \in Seq(Records)
    PROVE  /\ Capped(f) \in Seq(Records)
           /\ Len(Capped(f)) <= SpoolMax
<1>1. CASE Len(f) > SpoolMax
  <2>0. Len(f) \in Nat
    OBVIOUS
  <2>1. PICK n \in 0..Len(f) : n = Len(f) - SpoolMax
    <3>1. SpoolMax \in Nat
      BY ShipperConstants
    <3>2. Len(f) - SpoolMax \in 0..Len(f)
      BY <1>1, <2>0, <3>1
    <3> QED BY <3>2
  <2>2. Capped(f) = SubSeq(f, n + 1, Len(f))
    BY <2>1, <1>1 DEF Capped
  <2>3. SubSeq(f, n + 1, Len(f)) \in Seq(Records) /\ Len(SubSeq(f, n + 1, Len(f))) = Len(f) - n
    BY SplitSet
  <2>4. QED
    BY <2>1, <2>2, <2>3, ShipperConstants
<1>2. CASE ~ (Len(f) > SpoolMax)
  BY <1>2, ShipperConstants DEF Capped
<1>3. QED
  BY <1>1, <1>2

\* spoolAppend keeps every record, in the file or among the excused.
LEMMA SpoolAppended ==
    ASSUME TypeOK, NEW f \in Seq(Records), SpoolAppend(f)
    PROVE  /\ spool' \in Seq(Records)
           /\ Len(spool') <= SpoolMax
           /\ excused' \subseteq Records
           /\ excused \subseteq excused'
           /\ ToSet(spool) \cup ToSet(f) \subseteq ToSet(spool') \cup excused'
<1>1. spool \in Seq(Records) /\ excused \subseteq Records
  BY DEF TypeOK
<1>2. spool \o f \in Seq(Records) /\ ToSet(spool \o f) = ToSet(spool) \cup ToSet(f)
  BY <1>1, ConcatSet
<1>3. ToSet(spool \o f) \subseteq Records
  BY <1>2, InSet
<1>4. Capped(spool \o f) \in Seq(Records) /\ Len(Capped(spool \o f)) <= SpoolMax
  BY <1>2, CappedFits
<1>5. QED
  BY <1>1, <1>2, <1>3, <1>4, Zenon DEF SpoolAppend

\* A chunk the server ingests has arrived, and what had arrived stays.
LEMMA Ingested ==
    ASSUME TypeOK, NEW c, Ingest(c)
    PROVE  /\ copies' \in [Records -> Nat]
           /\ \A r \in Records : copies[r] > 0 => copies'[r] > 0
           /\ \A r \in Records : r \in ToSet(c) => copies'[r] > 0
  BY DEF TypeOK, Ingest

\* What a step that may ingest and may count a fault leaves of the two counters.
LEMMA CountsTyped ==
    ASSUME TypeOK, UNCHANGED copies \/ Ingest(Chunk), UNCHANGED faults \/ Fault
    PROVE  copies' \in [Records -> Nat] /\ faults' \in 0..MaxFaults
<1>1. copies' \in [Records -> Nat]
  <2>1. CASE UNCHANGED copies
    BY <2>1 DEF TypeOK
  <2>2. CASE Ingest(Chunk)
    BY <2>2, Ingested
  <2> QED BY <2>1, <2>2
<1>2. faults' \in 0..MaxFaults
  BY ShipperConstants DEF TypeOK, Fault
<1> QED BY <1>1, <1>2

-----------------------------------------------------------------------------
(* Types *)

\* What the loop holds in each of its states.
LoopInv ==
    /\ loop \in {"send", "drain"} => Len(batch) < BatchSize
    /\ loop \in {"stopped", "down"} => cause = "none" /\ out = <<>>
    /\ loop = "down" => batch = <<>> /\ queue = <<>>
    /\ covered <= logged

\* The inductive form of TypeOK.
Inv1 == TypeOK /\ LoopInv

\* The loop is idle or stopped after a Finish,
LEMMA FinishTypes ==
    ASSUME Inv1, Finish
    PROVE  /\ out' = <<>> /\ out' \in Seq(Records)
           /\ loop' \in {"idle", "stopped"}
           /\ cause' = "none"
           /\ flush' \in {"none", "asking", "granted", "returned", "gaveUp"}
  BY DEF Inv1, TypeOK, Finish

\* and is posting the file or has nothing to post after a StartDrain
LEMMA StartDrainTypes ==
    ASSUME Inv1, NEW f \in Seq(Records), StartDrain(f)
    PROVE  /\ out' \in Seq(Records)
           /\ loop' \in {"idle", "stopped", "drain"}
           /\ cause' \in {"none", "flush", "close"}
           /\ loop' # "drain" => out' = <<>> /\ cause' = "none"
           /\ loop' = "drain" => out' # <<>>
           /\ flush' \in {"none", "asking", "granted", "returned", "gaveUp"}
<1>1. CASE f = <<>> /\ Finish
  BY <1>1, FinishTypes
<1>2. CASE f # <<>> /\ loop' = "drain" /\ out' = f /\ UNCHANGED <<cause, flush>>
  BY <1>2 DEF Inv1, TypeOK
<1>3. QED
  BY <1>1, <1>2 DEF StartDrain

\* or an AfterSend.
LEMMA AfterSendTypes ==
    ASSUME Inv1, NEW f \in Seq(Records), AfterSend(f)
    PROVE  /\ out' \in Seq(Records)
           /\ loop' \in {"idle", "stopped", "drain"}
           /\ cause' \in {"none", "flush", "close"}
           /\ loop' # "drain" => out' = <<>> /\ cause' = "none"
           /\ loop' = "drain" => out' # <<>>
           /\ flush' \in {"none", "asking", "granted", "returned", "gaveUp"}
<1>1. CASE cause = "none" /\ Finish
  BY <1>1, FinishTypes
<1>2. CASE cause # "none" /\ StartDrain(f)
  BY <1>2, StartDrainTypes
<1>3. QED
  BY <1>1, <1>2 DEF AfterSend

\* TypeOK is inductive together with LoopInv.
LEMMA Types == Spec => []Inv1
<1>1. Init => Inv1
  <2>1. <<>> \in Seq(Records) /\ Len(<<>>) = 0
    OBVIOUS
  <2>2. ASSUME Init PROVE TypeOK
    <3>1. copies \in [Records -> Nat]
      BY <2>2 DEF Init
    <3>2. logged \in 0..MaxRecords /\ covered \in 0..MaxRecords /\ faults \in 0..MaxFaults
      BY <2>2, ShipperConstants DEF Init
    <3>3. /\ queue \in Seq(Records) /\ batch \in Seq(Records)
          /\ spool \in Seq(Records) /\ out \in Seq(Records)
          /\ Len(queue) <= QueueSize /\ Len(batch) < BatchSize
      BY <2>1, <2>2, ShipperConstants DEF Init
    <3>4. /\ loop = "idle" /\ cause = "none" /\ out = <<>> /\ flush = "none"
          /\ done \in BOOLEAN /\ healthy \in BOOLEAN /\ excused \subseteq Records
      BY <2>2 DEF Init
    <3>5. QED
      BY <3>1, <3>2, <3>3, <3>4 DEF TypeOK, LoopStates
  <2>3. ASSUME Init PROVE LoopInv
    BY <2>3 DEF Init, LoopInv
  <2>4. QED
    BY <2>2, <2>3 DEF Inv1
<1>2. Inv1 /\ [Next]_vars => Inv1'
  <2> SUFFICES ASSUME Inv1, [Next]_vars PROVE Inv1'
    OBVIOUS
  <2> USE ShipperConstants DEF Inv1, TypeOK, LoopInv, LoopStates
  <2>1. CASE Enqueue
    <3>1. logged + 1 \in Records
      BY <2>1 DEF Enqueue, Records
    <3>2. Append(queue, logged + 1) \in Seq(Records) /\ Len(Append(queue, logged + 1)) = Len(queue) + 1
      BY <3>1, AppendSet
    <3>3. logged' \in 0..MaxRecords /\ covered <= logged'
      BY <2>1 DEF Enqueue
    <3>4. /\ queue' \in Seq(Records) /\ Len(queue') <= QueueSize
          /\ excused' \subseteq Records
      <4>1. CASE Len(queue) < QueueSize /\ queue' = Append(queue, logged + 1) /\ UNCHANGED excused
        BY <4>1, <3>2
      <4>2. CASE excused' = excused \cup {logged + 1} /\ UNCHANGED queue
        BY <4>2, <3>1
      <4>3. QED
        BY <2>1, <4>1, <4>2 DEF Enqueue
    <3>5. QED
      BY <2>1, <3>3, <3>4 DEF Enqueue
  <2>2. CASE Flush
    BY <2>2 DEF Flush
  <2>3. CASE FlushGivesUp
    BY <2>3 DEF FlushGivesUp
  <2>4. CASE Close
    BY <2>4 DEF Close
  <2>5. CASE Receive
    <3> DEFINE b == Append(batch, Head(queue))
    <3>1. /\ Tail(queue) \in Seq(Records) /\ Head(queue) \in Records
          /\ Len(Tail(queue)) = Len(queue) - 1
      BY <2>5, TailSet DEF Receive
    <3>2. b \in Seq(Records) /\ Len(b) = Len(batch) + 1
      BY <3>1, AppendSet
    <3> HIDE DEF b
    <3>3. CASE Len(b) >= BatchSize /\ StartSend(b)
      <4>1. b # <<>> /\ Len(<<>>) = 0 /\ <<>> \in Seq(Records)
        BY <3>2
      <4>2. QED
        BY <2>5, <3>1, <3>2, <3>3, <4>1 DEF Receive, StartSend
    <3>4. CASE Len(b) < BatchSize /\ batch' = b /\ UNCHANGED <<loop, out, cause, flush>>
      BY <2>5, <3>1, <3>2, <3>4 DEF Receive
    <3>5. QED
      BY <2>5, <3>3, <3>4 DEF Receive, b
  <2>6. CASE FlushTick
    BY <2>6 DEF FlushTick, StartSend
  <2>7. CASE RetryTick
    BY <2>7, StartDrainTypes DEF RetryTick
  <2>8. CASE FlushRequest
    BY <2>8 DEF FlushRequest
  <2>9. CASE Done
    BY <2>9 DEF Done
  <2>10. CASE Collect
    <3>1. /\ Tail(queue) \in Seq(Records) /\ Head(queue) \in Records
          /\ Len(Tail(queue)) = Len(queue) - 1
      BY <2>10, TailSet DEF Collect
    <3>2. Append(batch, Head(queue)) \in Seq(Records)
      BY <3>1, AppendSet
    <3>3. QED
      BY <2>10, <3>1, <3>2 DEF Collect
  <2>11. CASE Collected
    <3>1. CASE batch # <<>> /\ StartSend(batch)
      BY <2>11, <3>1 DEF Collected, StartSend
    <3>2. CASE batch = <<>> /\ StartDrain(spool) /\ UNCHANGED batch
      BY <2>11, <3>2, StartDrainTypes DEF Collected
    <3>3. QED
      BY <2>11, <3>1, <3>2 DEF Collected
  <2>12. CASE Posting("send") /\ Post
    <3>1. CASE SendPosts
      <4>1. copies' \in [Records -> Nat]
        BY <3>1, Ingested DEF SendPosts
      <4>2. CASE Rest # <<>> /\ out' = Rest /\ UNCHANGED <<loop, cause, flush>>
        BY <3>1, <4>1, <4>2, ChunkRest DEF SendPosts, Posting
      <4>3. CASE AfterSend(spool)
        BY <3>1, <4>1, <4>3, AfterSendTypes DEF SendPosts, Posting
      <4>4. QED
        BY <3>1, <4>2, <4>3 DEF SendPosts
    <3>2. CASE SendFails \/ SendTimesOut
      <4>1. spool' \in Seq(Records) /\ excused' \subseteq Records
        BY <3>2, SpoolAppended DEF SendFails, SendTimesOut, Unsent
      <4>2. copies' \in [Records -> Nat] /\ faults' \in 0..MaxFaults
        <5>1. UNCHANGED copies \/ Ingest(Chunk)
          BY <3>2 DEF SendFails, SendTimesOut
        <5>2. UNCHANGED faults \/ Fault
          BY <3>2 DEF SendFails, SendTimesOut
        <5> QED BY <5>1, <5>2, CountsTyped
      <4>3. AfterSend(spool') /\ Posting("send")
        BY <3>2 DEF SendFails, SendTimesOut
      <4>4. QED
        BY <4>1, <4>2, <4>3, AfterSendTypes DEF Posting
    <3>3. CASE SendFailsUnspooled
      <4>1. ToSet(out) \subseteq Records
        BY InSet
      <4>2. QED
        BY <3>3, <4>1, AfterSendTypes DEF SendFailsUnspooled, Posting, Unsent
    <3>4. CASE CapFails
      <4>1. spool' \in Seq(Records)
        BY <3>4, ConcatSet DEF CapFails, Unsent
      <4>2. QED
        <5>1. AfterSend(spool') /\ Posting("send") /\ UNCHANGED <<copies, excused>>
          BY <3>4 DEF CapFails
        <5>2. faults' \in 0..MaxFaults
          BY <3>4 DEF CapFails, Fault
        <5>3. QED
          BY <4>1, <5>1, <5>2, AfterSendTypes DEF Posting
    <3>5. CASE Posting("drain")
      BY <2>12, <3>5 DEF Posting
    <3>6. QED
      BY <2>12, <3>1, <3>2, <3>3, <3>4, <3>5
      DEF Post, DrainPosts, DrainFails, DrainTimesOut, RewriteFails
  <2>13. CASE Posting("drain") /\ Post
    <3>1. CASE DrainPosts
      <4>1. copies' \in [Records -> Nat]
        BY <3>1, Ingested DEF DrainPosts
      <4>2. CASE Rest # <<>> /\ out' = Rest /\ UNCHANGED <<spool, loop, cause, flush>>
        BY <3>1, <4>1, <4>2, ChunkRest DEF DrainPosts, Posting
      <4>3. CASE spool' = <<>> /\ Finish
        BY <3>1, <4>1, <4>3, FinishTypes DEF DrainPosts, Posting
      <4>4. QED
        BY <3>1, <4>2, <4>3 DEF DrainPosts
    <3>2. CASE DrainFails \/ DrainTimesOut \/ RewriteFails
      <4>1. spool' \in Seq(Records) /\ UNCHANGED excused
        BY <3>2 DEF DrainFails, DrainTimesOut, RewriteFails, Keeps
      <4>2. copies' \in [Records -> Nat] /\ faults' \in 0..MaxFaults
        <5>1. UNCHANGED copies \/ Ingest(Chunk)
          BY <3>2 DEF DrainFails, DrainTimesOut, RewriteFails
        <5>2. UNCHANGED faults \/ Fault
          BY <3>2 DEF DrainFails, DrainTimesOut, RewriteFails
        <5>3. QED
          BY <5>1, <5>2, CountsTyped
      <4>3. Finish /\ Posting("drain")
        BY <3>2 DEF DrainFails, DrainTimesOut, RewriteFails
      <4>4. QED
        BY <4>1, <4>2, <4>3, FinishTypes DEF Posting
    <3>3. CASE Posting("send")
      BY <2>13, <3>3 DEF Posting
    <3>4. QED
      BY <2>13, <3>1, <3>2, <3>3
      DEF Post, SendPosts, SendFails, SendFailsUnspooled, SendTimesOut, CapFails
  <2>14. CASE Exit \/ Crash
    <3>1. Down
      BY <2>14 DEF Exit, Crash
    <3>2. ToSet(queue) \subseteq Records /\ ToSet(batch) \subseteq Records /\ ToSet(out) \subseteq Records
      BY InSet
    <3>3. excused' \subseteq Records
      BY <3>1, <3>2 DEF Down
    <3>4. copies' \in [Records -> Nat] /\ faults' \in 0..MaxFaults
      <4>1. UNCHANGED copies \/ Ingest(Chunk)
        BY <2>14 DEF Exit, Crash
      <4>2. UNCHANGED faults \/ Fault
        BY <2>14 DEF Exit, Crash
      <4>3. QED
        BY <4>1, <4>2, CountsTyped
    <3>5. /\ queue' \in Seq(Records) /\ Len(queue') <= QueueSize
          /\ batch' \in Seq(Records) /\ out' \in Seq(Records)
          /\ queue' = <<>> /\ batch' = <<>> /\ out' = <<>>
      BY <3>1 DEF Down
    <3>6. loop' = "down" /\ cause' = "none" /\ UNCHANGED <<logged, spool, done, covered, healthy>>
      BY <3>1 DEF Down
    <3>7. flush' \in {"none", "asking", "granted", "returned", "gaveUp"}
      BY <3>1 DEF Down
    <3>8. QED
      BY <3>3, <3>4, <3>5, <3>6, <3>7
  <2>15. CASE Restart
    <3>1. batch = <<>>
      BY <2>15 DEF Restart
    <3>2. Len(batch) = 0
      BY <3>1
    <3>3. Len(batch) < BatchSize /\ out = <<>> /\ cause = "none"
      BY <2>15, <3>2 DEF Restart
    <3>4. /\ loop' = "idle" /\ done' = FALSE
          /\ UNCHANGED <<logged, queue, batch, spool, out, cause, flush, covered, copies,
                         healthy, excused, faults>>
      BY <2>15 DEF Restart
    <3>5. QED
      BY <3>3, <3>4
  <2>16. CASE Heal
    BY <2>16 DEF Heal
  <2>17. CASE UNCHANGED vars
    BY <2>17 DEF vars
  <2>18. Post => Posting("send") \/ Posting("drain")
    BY DEF Post, SendPosts, SendFails, SendFailsUnspooled, SendTimesOut, CapFails,
           DrainPosts, DrainFails, DrainTimesOut, RewriteFails
  <2>19. QED
    BY <2>1, <2>2, <2>3, <2>4, <2>5, <2>6, <2>7, <2>8, <2>9, <2>10, <2>11, <2>12, <2>13,
       <2>14, <2>15, <2>16, <2>17, <2>18 DEF Next, Loop
<1>3. QED
  BY <1>1, <1>2, PTL DEF Spec

-----------------------------------------------------------------------------
(* Where records are *)

\* Records with a row at the server.
Arrived == {r \in Records : copies[r] > 0}
Stored == Arrived \cup excused \cup ToSet(spool)
Kept == Stored \cup (IF loop = "send" THEN ToSet(out) ELSE {})
Held == Kept \cup ToSet(queue) \cup ToSet(batch)

\* What the file holds while it is drained is still to be posted or has arrived.
DrainInv ==
    loop = "drain" => /\ ToSet(spool) \subseteq ToSet(out) \cup Arrived
                      /\ Len(out) <= Len(spool)

\* Ingested, in terms of Arrived.
LEMMA IngestArrives ==
    ASSUME TypeOK, NEW c, Ingest(c)
    PROVE  /\ Arrived \subseteq Arrived'
           /\ ToSet(c) \cap Records \subseteq Arrived'
  BY Ingested DEF Arrived

\* Where the loop is after a Finish,
LEMMA FinishLoop ==
    ASSUME Finish
    PROVE  loop' \notin {"send", "drain"} /\ out' = <<>>
  BY DEF Finish

\* a StartDrain
LEMMA StartDrainLoop ==
    ASSUME NEW f, StartDrain(f)
    PROVE  /\ loop' # "send"
           /\ loop' = "drain" => out' = f
  BY FinishLoop DEF StartDrain

\* and an AfterSend.
LEMMA AfterSendLoop ==
    ASSUME NEW f, AfterSend(f)
    PROVE  /\ loop' # "send"
           /\ loop' = "drain" => out' = f
  BY FinishLoop, StartDrainLoop DEF AfterSend

\* No step loses a record from any of the three sets.
LEMMA Conserved ==
    ASSUME Inv1, DrainInv, [Next]_vars
    PROVE  /\ Stored \subseteq Stored'
           /\ Kept \subseteq Kept'
           /\ Held \subseteq Held'
           /\ DrainInv'
<1> USE DEF Inv1
<1>0. /\ queue \in Seq(Records) /\ batch \in Seq(Records)
      /\ spool \in Seq(Records) /\ out \in Seq(Records)
  BY DEF TypeOK
<1>s. ToSet(out) \subseteq Records /\ ToSet(spool) \subseteq Records
  BY <1>0, InSet
<1>a. Arrived \subseteq Arrived' \/ ~ UNCHANGED copies
  BY DEF Arrived
<1>1. CASE Enqueue
  <2>1. ToSet(queue) \subseteq ToSet(queue')
    <3>1. logged \in 0..MaxRecords /\ logged < MaxRecords
      BY <1>1 DEF Enqueue, TypeOK
    <3>2. logged + 1 \in Records
      BY <3>1, ShipperConstants DEF Records
    <3>3. ToSet(Append(queue, logged + 1)) = ToSet(queue) \cup {logged + 1}
      BY <1>0, <3>2, AppendSet
    <3>4. queue' = Append(queue, logged + 1) \/ queue' = queue
      BY <1>1 DEF Enqueue
    <3>5. QED
      BY <3>3, <3>4
  <2>2. QED
    BY <1>1, <2>1, <1>a DEF Enqueue, Stored, Kept, Held, DrainInv
<1>2. CASE Flush \/ FlushGivesUp \/ Close \/ Heal \/ UNCHANGED vars
  <2>1. UNCHANGED <<queue, batch, spool, out, loop, copies, excused>>
    BY <1>2 DEF Flush, FlushGivesUp, Close, Heal, vars
  <2>2. QED
    BY <2>1 DEF Arrived, Stored, Kept, Held, DrainInv
<1>3. CASE Receive
  <2> DEFINE b == Append(batch, Head(queue))
  <2>1. ToSet(queue) = {Head(queue)} \cup ToSet(Tail(queue)) /\ Head(queue) \in Records
    BY <1>0, <1>3, TailSet DEF Receive
  <2>2. ToSet(b) = ToSet(batch) \cup {Head(queue)}
    BY <1>0, <2>1, AppendSet
  <2> HIDE DEF b
  <2>3. /\ UNCHANGED <<spool, copies, excused>> /\ loop = "idle" /\ loop' # "drain"
        /\ queue' = Tail(queue)
        /\ (loop' = "send" /\ out' = b) \/ batch' = b
    BY <1>3 DEF Receive, StartSend, b
  <2>4. QED
    BY <2>1, <2>2, <2>3 DEF Arrived, Stored, Kept, Held, DrainInv
<1>4. CASE FlushTick
  BY <1>4 DEF FlushTick, StartSend, Arrived, Stored, Kept, Held, DrainInv
<1>5. CASE RetryTick
  <2>1. /\ UNCHANGED <<queue, batch, spool, copies, excused>>
        /\ loop = "idle" /\ loop' # "send"
        /\ loop' = "drain" => out' = spool
    BY <1>5, StartDrainLoop DEF RetryTick
  <2>2. Len(spool) <= Len(spool)
    BY <1>0
  <2>3. QED
    BY <2>1, <2>2 DEF Arrived, Stored, Kept, Held, DrainInv
<1>6. CASE FlushRequest \/ Done \/ Restart
  <2>1. /\ UNCHANGED <<queue, batch, spool, out, copies, excused>>
        /\ loop \in {"idle", "down"} /\ loop' \in {"collect", "idle"}
    BY <1>6 DEF FlushRequest, Done, Restart
  <2>2. QED
    BY <2>1 DEF Arrived, Stored, Kept, Held, DrainInv
<1>7. CASE Collect
  <2>1. ToSet(queue) = {Head(queue)} \cup ToSet(Tail(queue)) /\ Head(queue) \in Records
    BY <1>0, <1>7, TailSet DEF Collect
  <2>2. ToSet(Append(batch, Head(queue))) = ToSet(batch) \cup {Head(queue)}
    BY <1>0, <2>1, AppendSet
  <2>3. QED
    BY <1>7, <2>1, <2>2 DEF Collect, Arrived, Stored, Kept, Held, DrainInv
<1>8. CASE Collected
  <2>1. CASE batch # <<>> /\ StartSend(batch)
    BY <1>8, <2>1 DEF Collected, StartSend, Arrived, Stored, Kept, Held, DrainInv
  <2>2. CASE batch = <<>> /\ StartDrain(spool) /\ UNCHANGED batch
    <3>1. /\ UNCHANGED <<queue, batch, spool, copies, excused>>
          /\ loop = "collect" /\ loop' # "send"
          /\ loop' = "drain" => out' = spool
      BY <1>8, <2>2, StartDrainLoop DEF Collected
    <3>2. Len(spool) <= Len(spool)
      BY <1>0
    <3>3. QED
      BY <3>1, <3>2 DEF Arrived, Stored, Kept, Held, DrainInv
  <2>3. QED
    BY <1>8, <2>1, <2>2 DEF Collected
<1>9. CASE SendPosts
  <2>1. Arrived \subseteq Arrived' /\ ToSet(Chunk) \subseteq Arrived'
    <3>1. ToSet(Chunk) \subseteq Records
      BY ChunkRest, InSet
    <3>2. QED
      BY <1>9, <3>1, IngestArrives DEF SendPosts
  <2>2. UNCHANGED <<queue, batch, spool, excused>> /\ loop = "send"
    BY <1>9 DEF SendPosts, Posting
  <2>3. CASE Rest # <<>> /\ out' = Rest /\ UNCHANGED <<loop, cause, flush>>
    BY <2>1, <2>2, <2>3, ChunkRest DEF Stored, Kept, Held, DrainInv
  <2>4. CASE Rest = <<>> /\ AfterSend(spool)
    <3>1. ToSet(out) \subseteq Arrived'
      BY <2>1, <2>4, ChunkRest, EmptySet
    <3>2. loop' # "send" /\ (loop' = "drain" => out' = spool)
      BY <2>4, AfterSendLoop
    <3>3. Len(spool) <= Len(spool)
      BY <1>0
    <3>4. QED
      BY <2>1, <2>2, <3>1, <3>2, <3>3 DEF Stored, Kept, Held, DrainInv
  <2>5. QED
    BY <1>9, <2>3, <2>4 DEF SendPosts
<1>10. CASE SendFails \/ SendFailsUnspooled \/ SendTimesOut \/ CapFails
  <2>1. UNCHANGED <<queue, batch>> /\ loop = "send"
    BY <1>10 DEF SendFails, SendFailsUnspooled, SendTimesOut, CapFails, Posting
  <2>2. Arrived \subseteq Arrived'
    <3>1. UNCHANGED copies \/ Ingest(Chunk)
      BY <1>10 DEF SendFails, SendFailsUnspooled, SendTimesOut, CapFails
    <3>2. QED
      BY <3>1, <1>a, IngestArrives
  <2>3. /\ spool' \in Seq(Records)
        /\ ToSet(spool) \cup ToSet(out) \cup excused \subseteq ToSet(spool') \cup excused'
    <3>1. CASE SendFails \/ SendTimesOut
      BY <3>1, <1>0, SpoolAppended DEF SendFails, SendTimesOut, Unsent
    <3>2. CASE SendFailsUnspooled
      BY <3>2, <1>0 DEF SendFailsUnspooled, Unsent
    <3>3. CASE CapFails
      BY <3>3, <1>0, ConcatSet DEF CapFails, Unsent
    <3>4. QED
      BY <1>10, <3>1, <3>2, <3>3
  <2>4. loop' # "send" /\ (loop' = "drain" => out' = spool')
    BY <1>10, AfterSendLoop DEF SendFails, SendFailsUnspooled, SendTimesOut, CapFails
  <2>5. Len(spool') <= Len(spool')
    BY <2>3
  <2>6. QED
    BY <2>1, <2>2, <2>3, <2>4, <2>5 DEF Stored, Kept, Held, DrainInv
<1>11. CASE DrainPosts
  <2>1. Arrived \subseteq Arrived' /\ ToSet(Chunk) \subseteq Arrived'
    <3>1. ToSet(Chunk) \subseteq Records
      BY ChunkRest, InSet
    <3>2. QED
      BY <1>11, <3>1, IngestArrives DEF DrainPosts
  <2>2. UNCHANGED <<queue, batch, excused>> /\ loop = "drain"
    BY <1>11 DEF DrainPosts, Posting
  <2>3. CASE Rest # <<>> /\ out' = Rest /\ UNCHANGED <<spool, loop, cause, flush>>
    <3>1. Len(Rest) <= Len(out) /\ Len(Rest) \in Nat /\ Len(out) \in Nat /\ Len(spool) \in Nat
      BY <1>0, ChunkRest
    <3>2. QED
      BY <2>1, <2>2, <2>3, <3>1, ChunkRest DEF Stored, Kept, Held, DrainInv
  <2>4. CASE Rest = <<>> /\ spool' = <<>> /\ Finish
    <3>1. ToSet(spool) \subseteq Arrived'
      BY <2>1, <2>2, <2>4, ChunkRest, EmptySet DEF DrainInv
    <3>2. QED
      BY <2>1, <2>2, <2>4, <3>1, FinishLoop DEF Stored, Kept, Held, DrainInv
  <2>5. QED
    BY <1>11, <2>3, <2>4 DEF DrainPosts
<1>12. CASE DrainFails \/ DrainTimesOut \/ RewriteFails
  <2>1. UNCHANGED <<queue, batch, excused>> /\ loop = "drain" /\ loop' \notin {"send", "drain"}
    BY <1>12, FinishLoop DEF DrainFails, DrainTimesOut, RewriteFails, Posting
  <2>2. Arrived \subseteq Arrived'
    <3>1. UNCHANGED copies \/ Ingest(Chunk)
      BY <1>12 DEF DrainFails, DrainTimesOut, RewriteFails
    <3>2. QED
      BY <3>1, <1>a, IngestArrives
  <2>3. spool' = out \/ spool' = spool
    BY <1>12 DEF DrainFails, DrainTimesOut, RewriteFails, Keeps
  <2>4. QED
    BY <2>1, <2>2, <2>3 DEF Stored, Kept, Held, DrainInv
<1>13. CASE Exit \/ Crash
  <2>1. Down
    BY <1>13 DEF Exit, Crash
  <2>2. Arrived \subseteq Arrived'
    <3>1. UNCHANGED copies \/ Ingest(Chunk)
      BY <1>13 DEF Exit, Crash
    <3>2. QED
      BY <3>1, <1>a, IngestArrives
  <2>3. QED
    BY <2>1, <2>2 DEF Down, Stored, Kept, Held, DrainInv
<1>14. QED
  BY <1>1, <1>2, <1>3, <1>4, <1>5, <1>6, <1>7, <1>8, <1>9, <1>10, <1>11, <1>12, <1>13
  DEF Next, Loop, Post

-----------------------------------------------------------------------------
(* The invariant *)

\* While a granted flush posts, all that it covers has left queue and batch.
Checkpoint ==
    /\ flush = "granted" => cause = "flush"
    /\ flush = "granted" /\ loop \in {"send", "drain"} => 1..covered \subseteq Kept
    /\ flush = "returned" => 1..covered \subseteq Stored

\* Every record is held, and a flush covers what it promised to cover.
Inv2 ==
    /\ DrainInv
    /\ 1..logged \subseteq Held
    /\ Checkpoint

\* Every record logged is held.
LEMMA LoggedHeld ==
    ASSUME Inv1, Inv2, [Next]_vars
    PROVE  1..logged' \subseteq Held'
<1>1. Held \subseteq Held' /\ 1..logged \subseteq Held /\ logged \in 0..MaxRecords
  BY Conserved DEF Inv1, Inv2, TypeOK
<1>2. CASE Enqueue
  <2>1. logged' = logged + 1 /\ logged < MaxRecords
    BY <1>2 DEF Enqueue
  <2>2. logged + 1 \in Records /\ queue \in Seq(Records)
    BY <1>1, <2>1, ShipperConstants DEF Records, Inv1, TypeOK
  <2>3. ToSet(Append(queue, logged + 1)) = ToSet(queue) \cup {logged + 1}
    BY <2>2, AppendSet
  <2>4. queue' = Append(queue, logged + 1) \/ logged + 1 \in excused'
    BY <1>2 DEF Enqueue
  <2>5. logged + 1 \in Held'
    BY <2>3, <2>4 DEF Held, Kept, Stored
  <2>6. 1..(logged + 1) = 1..logged \cup {logged + 1}
    BY <1>1
  <2>7. QED
    BY <1>1, <2>1, <2>5, <2>6
<1>3. CASE ~ Enqueue
  <2>1. UNCHANGED logged
    BY <1>3
    DEF Next, Loop, Post, Flush, FlushGivesUp, Close, Receive, FlushTick, RetryTick, FlushRequest,
        Done, Collect, Collected, SendPosts, SendFails, SendFailsUnspooled, SendTimesOut,
        CapFails, DrainPosts, DrainFails, DrainTimesOut, RewriteFails, Posting, Exit, Crash,
        Down, Restart, Heal, vars
  <2>2. QED
    BY <1>1, <2>1
<1>4. QED
  BY <1>2, <1>3

\* What becomes of a flush at a Finish,
LEMMA FinishFlush ==
    ASSUME Finish, flush = "granted" => cause = "flush"
    PROVE  /\ flush' # "granted"
           /\ flush' = "returned" => flush \in {"returned", "granted"}
  BY DEF Finish

\* a StartDrain
LEMMA StartDrainFlush ==
    ASSUME NEW f, StartDrain(f), flush = "granted" => cause = "flush"
    PROVE  /\ flush' = "granted" => flush = "granted" /\ cause' = "flush"
           /\ flush' = "returned" => flush = "returned" \/ (flush = "granted" /\ loop' # "send")
<1>1. CASE Finish
  BY <1>1, FinishFlush, FinishLoop
<1>2. CASE UNCHANGED <<cause, flush>>
  BY <1>2
<1>3. QED
  BY <1>1, <1>2 DEF StartDrain

\* and any POST.
LEMMA PostFlush ==
    ASSUME Post, flush = "granted" => cause = "flush"
    PROVE  /\ loop \in {"send", "drain"} /\ UNCHANGED <<covered, logged>>
           /\ flush' = "granted" => flush = "granted" /\ cause' = "flush"
           /\ flush' = "returned" => flush = "returned" \/ (flush = "granted" /\ loop' # "send")
<1>1. loop \in {"send", "drain"} /\ UNCHANGED <<covered, logged>>
  BY DEF Post, SendPosts, SendFails, SendFailsUnspooled, SendTimesOut, CapFails,
         DrainPosts, DrainFails, DrainTimesOut, RewriteFails, Posting
<1>2. \/ UNCHANGED <<cause, flush>>
      \/ Finish
      \/ \E f : StartDrain(f)
  BY DEF Post, SendPosts, SendFails, SendFailsUnspooled, SendTimesOut, CapFails,
         DrainPosts, DrainFails, DrainTimesOut, RewriteFails, AfterSend
<1>3. CASE UNCHANGED <<cause, flush>>
  BY <1>1, <1>3
<1>4. CASE Finish
  BY <1>1, <1>4, FinishFlush, FinishLoop
<1>5. CASE \E f : StartDrain(f)
  BY <1>1, <1>5, StartDrainFlush
<1>6. QED
  BY <1>2, <1>3, <1>4, <1>5

\* A flush covers what was logged before it.
LEMMA FlushCovered ==
    ASSUME Inv1, Inv2, [Next]_vars
    PROVE  Checkpoint'
<1>0. /\ Stored \subseteq Stored' /\ Kept \subseteq Kept' /\ Held \subseteq Held'
      /\ 1..logged \subseteq Held
      /\ Checkpoint
  BY Conserved DEF Inv2
<1>1. loop = "idle" => cause = "none"
  BY DEF Inv1, TypeOK
<1>2. covered \in Nat /\ logged \in Nat /\ covered <= logged
  BY DEF Inv1, TypeOK, LoopInv
<1>3. loop' # "send" => Kept' = Stored'
  BY DEF Kept
<1>4. flush = "granted" => loop # "idle" /\ cause = "flush"
  BY <1>0, <1>1 DEF Checkpoint
<1>5. CASE Post
  <2>1. /\ loop \in {"send", "drain"} /\ UNCHANGED <<covered, logged>>
        /\ flush' = "granted" => flush = "granted" /\ cause' = "flush"
        /\ flush' = "returned" => flush = "returned" \/ (flush = "granted" /\ loop' # "send")
    BY <1>4, <1>5, PostFlush
  <2>2. QED
    BY <1>0, <1>3, <2>1 DEF Checkpoint
<1>6. CASE Collected
  <2>1. 1..covered \subseteq Held' /\ UNCHANGED <<covered, logged, queue>> /\ queue = <<>>
    BY <1>0, <1>2, <1>6 DEF Collected
  <2>2. batch' = <<>>
    BY <1>6 DEF Collected, StartSend
  <2>3. 1..covered \subseteq Kept'
    BY <2>1, <2>2, EmptySet DEF Held
  <2>4. CASE StartSend(batch)
    BY <1>0, <1>4, <2>1, <2>3, <2>4 DEF StartSend, Checkpoint
  <2>5. CASE StartDrain(spool)
    <3>1. /\ flush' = "granted" => flush = "granted" /\ cause' = "flush"
          /\ flush' = "returned" => flush = "returned" \/ (flush = "granted" /\ loop' # "send")
      BY <1>4, <2>5, StartDrainFlush
    <3>2. QED
      BY <1>0, <1>3, <2>1, <2>3, <3>1 DEF Checkpoint
  <2>6. QED
    BY <1>6, <2>4, <2>5 DEF Collected
<1>7. CASE Flush
  BY <1>7 DEF Flush, Checkpoint
<1>8. CASE FlushRequest
  BY <1>8 DEF FlushRequest, Checkpoint
<1>9. CASE RetryTick
  <2>1. flush # "granted" /\ UNCHANGED covered
    BY <1>4, <1>9 DEF RetryTick
  <2>2. flush' = "granted" \/ flush' = "returned" => flush' = flush
    BY <1>4, <1>9, <2>1, StartDrainFlush DEF RetryTick
  <2>3. QED
    BY <1>0, <2>1, <2>2 DEF Checkpoint
<1>10. CASE Receive \/ FlushTick \/ Done
  <2>1. loop = "idle" /\ UNCHANGED <<covered, flush>>
    BY <1>10 DEF Receive, FlushTick, Done, StartSend
  <2>2. QED
    BY <1>0, <1>4, <2>1 DEF Checkpoint
<1>11. CASE Enqueue \/ Close \/ Heal \/ Collect \/ UNCHANGED vars
  <2>1. UNCHANGED <<covered, flush, cause, loop>>
    BY <1>11 DEF Enqueue, Close, Heal, Collect, vars
  <2>2. QED
    BY <1>0, <2>1 DEF Checkpoint
<1>12. CASE FlushGivesUp \/ Exit \/ Crash
  <2>1. flush' # "granted" /\ UNCHANGED covered /\ (flush' = "returned" => flush = "returned")
    BY <1>12 DEF FlushGivesUp, Exit, Crash, Down
  <2>2. QED
    BY <1>0, <2>1 DEF Checkpoint
<1>13. CASE Restart
  BY <1>0, <1>13 DEF Restart, Checkpoint
<1>14. QED
  BY <1>5, <1>6, <1>7, <1>8, <1>9, <1>10, <1>11, <1>12, <1>13 DEF Next, Loop

\* Inv2 is inductive relative to Inv1.
LEMMA RecordsKept == Spec => []Inv2
<1>1. Init => Inv2
  <2> SUFFICES ASSUME Init PROVE Inv2
    OBVIOUS
  <2>1. 1..logged = {}
    BY DEF Init
  <2>2. QED
    BY <2>1 DEF Init, Inv2, DrainInv, Checkpoint
<1>2. Inv1 /\ Inv2 /\ [Next]_vars => Inv2'
  BY Conserved, LoggedHeld, FlushCovered DEF Inv2
<1>3. QED
  BY <1>1, <1>2, Types, PTL DEF Spec

-----------------------------------------------------------------------------
(* Duplicates: sequences without repetition *)

\* No element of the sequence occurs twice.
Once(s) == \A i, j \in 1..Len(s) : s[i] = s[j] => i = j

\* The empty sequence repeats nothing.
LEMMA EmptyOnce == Once(<<>>)
  BY DEF Once

\* The head that is taken off does not come again.
LEMMA TailOnce ==
    ASSUME NEW S, NEW s \in Seq(S), s # <<>>, Once(s)
    PROVE  Once(Tail(s)) /\ Head(s) \notin ToSet(Tail(s))
<1> DEFINE t == Tail(s)
<1>1. /\ t \in Seq(S)
      /\ Len(s) \in Nat \ {0}
      /\ Len(t) = Len(s) - 1
      /\ Head(s) = s[1]
      /\ \A i \in 1..(Len(s) - 1) : t[i] = s[i + 1]
  OBVIOUS
<1> HIDE DEF t
<1>2. Once(t)
  <2> SUFFICES ASSUME NEW i \in 1..Len(t), NEW j \in 1..Len(t), t[i] = t[j]
               PROVE  i = j
    BY DEF Once
  <2>1. i + 1 \in 1..Len(s) /\ j + 1 \in 1..Len(s) /\ s[i + 1] = s[j + 1]
    BY <1>1
  <2>2. i + 1 = j + 1
    BY <2>1 DEF Once
  <2>3. QED
    BY <2>2
<1>3. ASSUME Head(s) \in ToSet(t) PROVE FALSE
  <2>1. PICK i \in 1..Len(t) : Head(s) = t[i]
    BY <1>1, <1>3, InSet
  <2>2. i + 1 \in 1..Len(s) /\ 1 \in 1..Len(s) /\ s[i + 1] = s[1]
    BY <1>1, <2>1
  <2>3. i + 1 = 1
    BY <2>2 DEF Once
  <2>4. QED
    BY <2>3
<1>4. QED
  BY <1>2, <1>3 DEF t

\* Two sequences with nothing in common, one after the other.
LEMMA ConcatOnce ==
    ASSUME NEW S, NEW s \in Seq(S), NEW t \in Seq(S), Once(s), Once(t),
           ToSet(s) \cap ToSet(t) = {}
    PROVE  Once(s \o t)
<1> DEFINE u == s \o t
<1>1. /\ Len(u) = Len(s) + Len(t) /\ Len(s) \in Nat /\ Len(t) \in Nat
      /\ \A i \in 1..Len(u) : u[i] = IF i <= Len(s) THEN s[i] ELSE t[i - Len(s)]
  OBVIOUS
<1> HIDE DEF u
<1>2. ASSUME NEW i \in 1..Len(u), NEW j \in 1..Len(u), i <= Len(s), ~ (j <= Len(s))
      PROVE  u[i] # u[j]
  <2>1. /\ i \in 1..Len(s) /\ j - Len(s) \in 1..Len(t)
        /\ u[i] = s[i] /\ u[j] = t[j - Len(s)]
    BY <1>1, <1>2
  <2>2. u[i] \in ToSet(s) /\ u[j] \in ToSet(t)
    BY <2>1, InSet
  <2>3. QED
    BY <2>2
<1>3. ASSUME NEW i \in 1..Len(u), NEW j \in 1..Len(u), u[i] = u[j]
      PROVE  i = j
  <2>1. CASE i <= Len(s) /\ j <= Len(s)
    <3>1. i \in 1..Len(s) /\ j \in 1..Len(s) /\ s[i] = s[j]
      BY <1>1, <1>3, <2>1
    <3>2. QED
      BY <3>1 DEF Once
  <2>2. CASE ~ (i <= Len(s)) /\ ~ (j <= Len(s))
    <3>1. /\ i - Len(s) \in 1..Len(t) /\ j - Len(s) \in 1..Len(t)
          /\ t[i - Len(s)] = t[j - Len(s)]
      BY <1>1, <1>3, <2>2
    <3>2. i - Len(s) = j - Len(s)
      BY <3>1 DEF Once
    <3>3. QED
      BY <3>2, <1>1
  <2>3. QED
    BY <1>2, <1>3, <2>1, <2>2
<1>4. QED
  BY <1>3 DEF Once, u

\* A new element at the end.
LEMMA AppendOnce ==
    ASSUME NEW S, NEW s \in Seq(S), NEW e \in S, Once(s), e \notin ToSet(s)
    PROVE  Once(Append(s, e))
<1> DEFINE t == <<e>>
<1>1. t \in Seq(S) /\ Append(s, e) = s \o t
  OBVIOUS
<1>2. Once(t)
  BY DEF Once
<1>3. ToSet(t) = {e}
  BY DEF ToSet
<1> HIDE DEF t
<1>4. ToSet(s) \cap ToSet(t) = {}
  BY <1>3
<1>5. Once(s \o t)
  BY <1>1, <1>2, <1>4, ConcatOnce
<1>6. QED
  BY <1>1, <1>5

\* The two parts of such a sequence have nothing in common.
LEMMA SplitOnce ==
    ASSUME NEW S, NEW s \in Seq(S), NEW n \in 0..Len(s), Once(s)
    PROVE  /\ Once(SubSeq(s, n + 1, Len(s)))
           /\ ToSet(SubSeq(s, 1, n)) \subseteq ToSet(s)
           /\ ToSet(SubSeq(s, n + 1, Len(s))) \subseteq ToSet(s)
           /\ ToSet(SubSeq(s, 1, n)) \cap ToSet(SubSeq(s, n + 1, Len(s))) = {}
<1> DEFINE a == SubSeq(s, 1, n)
           b == SubSeq(s, n + 1, Len(s))
<1>1. /\ a \in Seq(S) /\ Len(a) = n
      /\ b \in Seq(S) /\ Len(b) = Len(s) - n
      /\ Len(s) \in Nat
      /\ \A i \in 1..n : a[i] = s[i]
      /\ \A i \in 1..(Len(s) - n) : b[i] = s[n + i]
  OBVIOUS
<1> HIDE DEF a, b
<1>2. Once(b)
  <2> SUFFICES ASSUME NEW i \in 1..Len(b), NEW j \in 1..Len(b), b[i] = b[j]
               PROVE  i = j
    BY DEF Once
  <2>1. n + i \in 1..Len(s) /\ n + j \in 1..Len(s) /\ s[n + i] = s[n + j]
    BY <1>1
  <2>2. n + i = n + j
    BY <2>1 DEF Once
  <2>3. QED
    BY <2>2, <1>1
<1>3. ASSUME NEW x \in ToSet(a) PROVE \E i \in 1..n : x = s[i]
  <2>1. PICK i \in 1..Len(a) : x = a[i]
    BY <1>1, InSet
  <2>2. QED
    BY <1>1, <2>1
<1>4. ASSUME NEW x \in ToSet(b) PROVE \E i \in (n + 1)..Len(s) : x = s[i]
  <2>1. PICK i \in 1..Len(b) : x = b[i]
    BY <1>1, InSet
  <2>2. n + i \in (n + 1)..Len(s) /\ x = s[n + i]
    BY <1>1, <2>1
  <2>3. QED
    BY <2>2
<1>5. ToSet(a) \subseteq ToSet(s) /\ ToSet(b) \subseteq ToSet(s)
  <2>1. 1..n \subseteq 1..Len(s) /\ (n + 1)..Len(s) \subseteq 1..Len(s)
    BY <1>1
  <2>2. QED
    BY <1>3, <1>4, <2>1, InSet
<1>6. ASSUME NEW x \in ToSet(a), x \in ToSet(b) PROVE FALSE
  <2>1. PICK i \in 1..n : x = s[i]
    BY <1>3
  <2>2. PICK j \in (n + 1)..Len(s) : x = s[j]
    BY <1>4, <1>6
  <2>3. i \in 1..Len(s) /\ j \in 1..Len(s) /\ s[i] = s[j]
    BY <1>1, <2>1, <2>2
  <2>4. i = j
    BY <2>3 DEF Once
  <2>5. QED
    BY <2>4
<1>7. QED
  BY <1>2, <1>5, <1>6 DEF a, b

\* What is posted and what is left after it have nothing in common.
LEMMA ChunkOnce ==
    ASSUME TypeOK, Once(out)
    PROVE  /\ Once(Rest)
           /\ ToSet(Chunk) \subseteq ToSet(out)
           /\ ToSet(Rest) \subseteq ToSet(out)
           /\ ToSet(Chunk) \cap ToSet(Rest) = {}
<1>1. out \in Seq(Records) /\ Len(out) \in Nat
  BY DEF TypeOK
<1>2. PICK n \in 0..Len(out) : n = IF BatchSize < Len(out) THEN BatchSize ELSE Len(out)
  BY <1>1, ShipperConstants
<1>3. Chunk = SubSeq(out, 1, n)
  BY <1>2 DEF Chunk
<1>4. Len(Chunk) = n
  BY <1>1, <1>3, SplitSet
<1>5. Rest = SubSeq(out, n + 1, Len(out))
  BY <1>4 DEF Rest
<1>6. QED
  BY <1>1, <1>3, <1>5, SplitOnce

\* The cap repeats nothing and adds nothing.
LEMMA CappedOnce ==
    ASSUME NEW f \in Seq(Records), Once(f)
    PROVE  Once(Capped(f)) /\ ToSet(Capped(f)) \subseteq ToSet(f)
<1>1. CASE Len(f) > SpoolMax
  <2>0. Len(f) \in Nat
    OBVIOUS
  <2>1. PICK n \in 0..Len(f) : n = Len(f) - SpoolMax
    <3>1. SpoolMax \in Nat
      BY ShipperConstants
    <3>2. Len(f) - SpoolMax \in 0..Len(f)
      BY <2>0, <1>1, <3>1, SMT
    <3>3. QED
      BY <3>2, Zenon
  <2>2. Capped(f) = SubSeq(f, n + 1, Len(f))
    BY <2>1, <1>1 DEF Capped
  <2>3. /\ Once(SubSeq(f, n + 1, Len(f)))
        /\ ToSet(SubSeq(f, n + 1, Len(f))) \subseteq ToSet(f)
    BY SplitOnce
  <2>4. QED
    BY <2>2, <2>3, Zenon
<1>2. CASE ~ (Len(f) > SpoolMax)
  BY <1>2 DEF Capped
<1>3. QED
  BY <1>1, <1>2

-----------------------------------------------------------------------------
(* Duplicates: the invariant *)

\* A record is in one place at most, and there once; while the file is drained,
\* what the drain has in hand is in the file as well.
Places ==
    /\ Once(queue) /\ Once(batch) /\ Once(spool) /\ Once(out)
    /\ ToSet(queue) \cap ToSet(batch) = {}
    /\ ToSet(queue) \cap ToSet(spool) = {}
    /\ ToSet(batch) \cap ToSet(spool) = {}
    /\ loop = "send" => ToSet(out) \cap (ToSet(queue) \cup ToSet(batch) \cup ToSet(spool)) = {}
    /\ loop = "drain" => ToSet(out) \subseteq ToSet(spool)
    /\ loop \notin {"send", "drain"} => out = <<>>
    /\ ToSet(queue) \cup ToSet(batch) \cup ToSet(spool) \cup ToSet(out) \subseteq 1..logged

\* What will be posted, if nothing more goes wrong.
Pending ==
    ToSet(queue) \cup ToSet(batch) \cup ToSet(out)
    \cup (IF loop = "drain" THEN {} ELSE ToSet(spool))

\* A record still to be posted has arrived once per fault at most.
Counted ==
    /\ \A r \in Records : copies[r] <= 1 + faults
    /\ \A r \in Pending : copies[r] <= faults
    /\ \A r \in Records : r > logged => copies[r] = 0

\* The inductive form of DuplicatesExplained.
Inv3 == Places /\ Counted

\* What keeps Counted: a fault, which pays for one more copy of anything, or a step
\* after which nothing that it delivered is pending.
LEMMA CountedKept ==
    ASSUME Inv1, Inv3, Inv1', Places',
           logged <= logged',
           UNCHANGED faults \/ Fault,
           UNCHANGED copies \/ (loop \in {"send", "drain"} /\ Ingest(Chunk)),
           UNCHANGED faults =>
               \A r \in Pending' : /\ r \in Pending \/ copies[r] = 0
                                   /\ UNCHANGED copies \/ r \notin ToSet(Chunk)
    PROVE  Counted'
<1>1. /\ faults \in Nat /\ faults' \in Nat /\ logged \in Nat /\ logged' \in Nat
      /\ copies \in [Records -> Nat] /\ copies' \in [Records -> Nat]
      /\ Records \subseteq Nat
  <2>1. /\ logged \in 0..MaxRecords /\ faults \in 0..MaxFaults /\ copies \in [Records -> Nat]
        /\ logged' \in 0..MaxRecords /\ faults' \in 0..MaxFaults /\ copies' \in [Records -> Nat]
    BY Zenon DEF Inv1, TypeOK
  <2>2. QED
    BY <2>1, ShipperConstants DEF Records
<1>2. ToSet(Chunk) \subseteq ToSet(out) /\ ToSet(out) \subseteq 1..logged /\ ToSet(out) \subseteq Pending
  <2>1. TypeOK /\ Once(out) /\ ToSet(out) \subseteq 1..logged
    BY DEF Inv1, Inv3, Places
  <2>2. ToSet(Chunk) \subseteq ToSet(out)
    BY <2>1, ChunkOnce
  <2>3. QED
    BY <2>1, <2>2 DEF Pending
<1>3. Pending' \subseteq Records
  <2>1. /\ ToSet(queue') \subseteq Records /\ ToSet(batch') \subseteq Records
        /\ ToSet(spool') \subseteq Records /\ ToSet(out') \subseteq Records
    <3>1. /\ queue' \in Seq(Records) /\ batch' \in Seq(Records)
          /\ spool' \in Seq(Records) /\ out' \in Seq(Records)
      BY DEF Inv1, TypeOK
    <3>2. QED
      BY <3>1, InSet
  <2>2. QED
    BY <2>1 DEF Pending
<1>4. /\ \A r \in Records : copies[r] <= 1 + faults
      /\ \A r \in Pending : copies[r] <= faults
      /\ \A r \in Records : r > logged => copies[r] = 0
  BY DEF Inv3, Counted
<1>5. ASSUME NEW r \in Records
      PROVE  /\ copies'[r] \in {copies[r], copies[r] + 1}
             /\ r \notin ToSet(Chunk) => copies'[r] = copies[r]
             /\ UNCHANGED copies => copies'[r] = copies[r]
  BY <1>1 DEF Ingest
<1>6. ASSUME NEW r \in Records
      PROVE  copies'[r] <= 1 + faults /\ (r > logged => copies'[r] = 0)
  <2>1. CASE r \in ToSet(Chunk)
    <3>1. copies[r] <= faults /\ ~ (r > logged)
      BY <1>1, <1>2, <1>4, <2>1
    <3>2. QED
      BY <1>1, <1>5, <3>1
  <2>2. CASE r \notin ToSet(Chunk)
    BY <1>1, <1>4, <1>5, <2>2
  <2>3. QED
    BY <2>1, <2>2
<1>7. ASSUME NEW r \in Pending' PROVE copies'[r] <= faults'
  <2>0. r \in Records
    BY <1>3
  <2>1. CASE Fault
    BY <1>1, <1>6, <2>0, <2>1 DEF Fault
  <2>2. CASE UNCHANGED faults
    <3>1. copies'[r] = copies[r]
      BY <1>5, <2>0, <2>2
    <3>2. r \in Pending \/ copies[r] = 0
      BY <2>2
    <3>3. QED
      BY <1>1, <1>4, <2>0, <2>2, <3>1, <3>2
  <2>3. QED
    BY <2>1, <2>2
<1>8. ASSUME NEW r \in Records PROVE copies'[r] <= 1 + faults' /\ (r > logged' => copies'[r] = 0)
  BY <1>1, <1>6 DEF Fault
<1>9. QED
  BY <1>7, <1>8 DEF Counted, Records

\* A step without a fault leaves nothing pending that it delivered, and makes
\* nothing pending but a new record.
NothingTwice ==
    UNCHANGED faults =>
        \A r \in Pending' : /\ r \in Pending \/ copies[r] = 0
                            /\ UNCHANGED copies \/ r \notin ToSet(Chunk)

\* The steps between the queue, the batch and a post that begins.
LEMMA PlacesOfLoop ==
    ASSUME Inv1, Inv3,
           Enqueue \/ Receive \/ FlushTick \/ RetryTick \/ Collect \/ Collected
    PROVE  Places' /\ NothingTwice
<1>0. /\ queue \in Seq(Records) /\ batch \in Seq(Records)
      /\ spool \in Seq(Records) /\ out \in Seq(Records)
  BY DEF Inv1, TypeOK
<1>1. Places
  BY DEF Inv3
<1> USE EmptySet, EmptyOnce
<1>2. CASE Enqueue
  <2>1. logged \in 0..MaxRecords /\ logged < MaxRecords /\ logged' = logged + 1
    BY <1>2 DEF Enqueue, Inv1, TypeOK
  <2>2. logged + 1 \in Records /\ 1..logged \subseteq 1..logged' /\ logged + 1 \in 1..logged'
        /\ logged + 1 \notin 1..logged /\ logged + 1 > logged
    BY <2>1, ShipperConstants DEF Records
  <2>3. copies[logged + 1] = 0
    BY <2>2 DEF Inv3, Counted
  <2>4. /\ ToSet(Append(queue, logged + 1)) = ToSet(queue) \cup {logged + 1}
        /\ Once(Append(queue, logged + 1))
    <3>1. logged + 1 \notin ToSet(queue)
      BY <1>1, <2>2 DEF Places
    <3>2. QED
      BY <1>0, <1>1, <2>2, <3>1, AppendSet, AppendOnce DEF Places
  <2>5. queue' = Append(queue, logged + 1) \/ queue' = queue
    BY <1>2 DEF Enqueue
  <2>6. Once(queue') /\ ToSet(queue') \subseteq ToSet(queue) \cup {logged + 1}
    BY <1>1, <2>4, <2>5 DEF Places
  <2>7. UNCHANGED <<batch, spool, out, loop, copies, faults>>
    BY <1>2 DEF Enqueue
  <2>8. QED
    BY <1>1, <2>2, <2>3, <2>6, <2>7 DEF Places, Pending, NothingTwice
<1>3. CASE Receive \/ Collect
  <2> DEFINE b == Append(batch, Head(queue))
             q == Tail(queue)
  <2>1. queue # <<>>
    BY <1>3 DEF Receive, Collect
  <2>2. /\ ToSet(queue) = {Head(queue)} \cup ToSet(q) /\ Head(queue) \in Records
        /\ Once(q) /\ Head(queue) \notin ToSet(q)
    BY <1>0, <1>1, <2>1, TailSet, TailOnce DEF Places
  <2>3. ToSet(b) = ToSet(batch) \cup {Head(queue)} /\ Once(b)
    <3>1. Head(queue) \notin ToSet(batch)
      BY <1>1, <2>2 DEF Places
    <3>2. QED
      BY <1>0, <1>1, <2>2, <3>1, AppendSet, AppendOnce DEF Places
  <2>4. /\ UNCHANGED <<logged, spool, copies, faults>>
        /\ loop \in {"idle", "collect"}
        /\ queue' = q
        /\ \/ loop' = "send" /\ out' = b /\ batch' = <<>>
           \/ batch' = b /\ UNCHANGED <<loop, out>>
    BY <1>3 DEF Receive, Collect, StartSend
  <2> HIDE DEF b, q
  <2>5. out = <<>>
    BY <1>1, <2>4 DEF Places
  <2>6. CASE loop' = "send" /\ out' = b /\ batch' = <<>>
    BY <1>1, <2>2, <2>3, <2>4, <2>5, <2>6 DEF Places, Pending, NothingTwice
  <2>7. CASE batch' = b /\ UNCHANGED <<loop, out>>
    BY <1>1, <2>2, <2>3, <2>4, <2>5, <2>7 DEF Places, Pending, NothingTwice
  <2>8. QED
    BY <2>4, <2>6, <2>7
<1>4. CASE FlushTick \/ Collected \/ RetryTick
  <2>1. /\ UNCHANGED <<logged, queue, spool, copies, faults>>
        /\ loop \in {"idle", "collect"}
        /\ StartSend(batch) \/ (StartDrain(spool) /\ UNCHANGED batch)
    BY <1>4 DEF FlushTick, Collected, RetryTick
  <2>2. CASE StartSend(batch)
    BY <1>1, <2>1, <2>2 DEF StartSend, Places, Pending, NothingTwice
  <2>3. CASE StartDrain(spool) /\ UNCHANGED batch
    <3>1. /\ loop' # "send" /\ (loop' = "drain" => out' = spool)
          /\ loop' # "drain" => out' = <<>>
      BY <1>0, <2>3, StartDrainLoop, StartDrainTypes
    <3>2. QED
      BY <1>1, <2>1, <2>3, <3>1 DEF Places, Pending, NothingTwice
  <2>4. QED
    BY <2>1, <2>2, <2>3
<1>5. QED
  BY <1>2, <1>3, <1>4

\* The steps that post.
LEMMA PlacesOfPost ==
    ASSUME Inv1, Inv3, Post
    PROVE  Places' /\ NothingTwice
<1>0. /\ queue \in Seq(Records) /\ batch \in Seq(Records)
      /\ spool \in Seq(Records) /\ out \in Seq(Records)
      /\ TypeOK
  BY DEF Inv1, TypeOK
<1>1. Places
  BY DEF Inv3
<1>2. /\ Once(Rest)
      /\ ToSet(Chunk) \subseteq ToSet(out)
      /\ ToSet(Rest) \subseteq ToSet(out)
      /\ ToSet(Chunk) \cap ToSet(Rest) = {}
  BY <1>0, <1>1, ChunkOnce DEF Places
<1> USE EmptySet, EmptyOnce
<1>3. CASE SendPosts
  <2>1. UNCHANGED <<logged, queue, batch, spool, faults>> /\ loop = "send"
    BY <1>3 DEF SendPosts, Posting
  <2>2. CASE out' = Rest /\ UNCHANGED loop
    BY <1>1, <1>2, <2>1, <2>2 DEF Places, Pending, NothingTwice
  <2>3. CASE AfterSend(spool)
    <3>1. /\ loop' # "send" /\ (loop' = "drain" => out' = spool)
          /\ loop' # "drain" => out' = <<>>
      BY <1>0, <2>3, AfterSendLoop, AfterSendTypes
    <3>2. QED
      BY <1>1, <1>2, <2>1, <3>1 DEF Places, Pending, NothingTwice
  <2>4. QED
    BY <1>3, <2>2, <2>3 DEF SendPosts
<1>4. CASE SendFails \/ SendFailsUnspooled \/ SendTimesOut \/ CapFails
  <2>1. UNCHANGED <<logged, queue, batch>> /\ loop = "send" /\ (UNCHANGED faults => UNCHANGED copies)
    <3>1. UNCHANGED <<logged, queue, batch>> /\ loop = "send"
      BY <1>4 DEF SendFails, SendFailsUnspooled, SendTimesOut, CapFails, Posting
    <3>2. UNCHANGED copies \/ Fault
      BY <1>4 DEF SendFails, SendFailsUnspooled, SendTimesOut, CapFails
    <3>3. Fault => faults' # faults
      BY <1>0 DEF Fault, TypeOK
    <3>4. QED
      BY <3>1, <3>2, <3>3
  <2>2. /\ spool \o out \in Seq(Records)
        /\ ToSet(spool \o out) = ToSet(spool) \cup ToSet(out)
        /\ Once(spool \o out)
    <3>1. ToSet(spool) \cap ToSet(out) = {}
      BY <1>1, <2>1 DEF Places
    <3>2. QED
      BY <1>0, <1>1, <3>1, ConcatSet, ConcatOnce DEF Places
  <2>3. /\ Capped(spool \o out) \in Seq(Records)
        /\ Once(Capped(spool \o out))
        /\ ToSet(Capped(spool \o out)) \subseteq ToSet(spool \o out)
    BY <2>2, CappedFits, CappedOnce
  <2>4. spool' = spool \/ spool' = spool \o out \/ spool' = Capped(spool \o out)
    BY <1>4 DEF SendFails, SendFailsUnspooled, SendTimesOut, CapFails, SpoolAppend, Unsent
  <2>5. /\ spool' \in Seq(Records) /\ Once(spool')
        /\ ToSet(spool') \subseteq ToSet(spool) \cup ToSet(out)
    BY <1>0, <1>1, <2>2, <2>3, <2>4 DEF Places
  <2>6. AfterSend(spool')
    <3>1. SendFailsUnspooled => AfterSend(spool) /\ spool' = spool
      BY DEF SendFailsUnspooled
    <3>2. AfterSend(spool) /\ spool' = spool => AfterSend(spool')
      BY DEF AfterSend, StartDrain
    <3>3. QED
      BY <1>4, <3>1, <3>2 DEF SendFails, SendTimesOut, CapFails
  <2>7. /\ loop' # "send" /\ (loop' = "drain" => out' = spool')
        /\ loop' # "drain" => out' = <<>>
    BY <2>5, <2>6, AfterSendLoop, AfterSendTypes
  <2>8. Places'
    BY <1>1, <2>1, <2>5, <2>7 DEF Places
  <2>9. NothingTwice
    BY <2>1, <2>5, <2>7 DEF Pending, NothingTwice
  <2>10. QED
    BY <2>8, <2>9
<1>5. CASE DrainPosts
  <2>1. UNCHANGED <<logged, queue, batch, faults>> /\ loop = "drain"
    BY <1>5 DEF DrainPosts, Posting
  <2>2. CASE out' = Rest /\ UNCHANGED <<spool, loop>>
    BY <1>1, <1>2, <2>1, <2>2 DEF Places, Pending, NothingTwice
  <2>3. CASE spool' = <<>> /\ Finish
    <3>1. loop' \notin {"send", "drain"} /\ out' = <<>>
      BY <2>3, FinishLoop
    <3>2. QED
      BY <1>1, <1>2, <2>1, <2>3, <3>1 DEF Places, Pending, NothingTwice
  <2>4. QED
    BY <1>5, <2>2, <2>3 DEF DrainPosts
<1>6. CASE DrainFails \/ DrainTimesOut \/ RewriteFails
  <2>1. /\ UNCHANGED <<logged, queue, batch>> /\ loop = "drain"
        /\ loop' \notin {"send", "drain"} /\ out' = <<>>
    BY <1>6, FinishLoop DEF DrainFails, DrainTimesOut, RewriteFails, Posting
  <2>2. /\ spool' = out \/ spool' = spool
        /\ UNCHANGED faults => spool' = out /\ UNCHANGED copies
    <3>1. Fault => faults' # faults
      BY <1>0 DEF Fault, TypeOK
    <3>2. QED
      BY <1>6, <3>1 DEF DrainFails, DrainTimesOut, RewriteFails, Keeps
  <2>3. QED
    BY <1>1, <2>1, <2>2 DEF Places, Pending, NothingTwice
<1>7. QED
  BY <1>3, <1>4, <1>5, <1>6 DEF Post

\* No step puts a record into a second place.
LEMMA PlacesKept ==
    ASSUME Inv1, Inv3, [Next]_vars
    PROVE  Places' /\ NothingTwice
<1>1. Places
  BY DEF Inv3
<1>2. CASE Flush \/ FlushGivesUp \/ Close \/ FlushRequest \/ Done \/ Restart \/ Heal \/ UNCHANGED vars
  <2>1. /\ UNCHANGED <<logged, queue, batch, spool, out, copies, faults>>
        /\ \/ UNCHANGED loop
           \/ loop \notin {"send", "drain"} /\ loop' \notin {"send", "drain"}
    BY <1>2 DEF Flush, FlushGivesUp, Close, FlushRequest, Done, Restart, Heal, vars
  <2>2. QED
    BY <1>1, <2>1 DEF Places, Pending, NothingTwice
<1>3. CASE Exit \/ Crash
  <2>1. Down
    BY <1>3 DEF Exit, Crash
  <2>2. UNCHANGED faults => UNCHANGED copies /\ loop # "drain"
    <3>1. Fault => faults' # faults
      BY DEF Fault, Inv1, TypeOK
    <3>2. QED
      BY <1>3, <3>1 DEF Exit, Crash
  <2>3. QED
    BY <1>1, <2>1, <2>2, EmptySet, EmptyOnce DEF Down, Places, Pending, NothingTwice
<1>4. QED
  BY <1>2, <1>3, PlacesOfLoop, PlacesOfPost DEF Next, Loop

\* Faults, rows and the number of records move as CountedKept asks.
LEMMA CountsMove ==
    ASSUME Inv1, [Next]_vars
    PROVE  /\ UNCHANGED faults \/ Fault
           /\ UNCHANGED copies \/ (loop \in {"send", "drain"} /\ Ingest(Chunk))
           /\ logged <= logged'
<1>1. UNCHANGED faults \/ Fault
  BY DEF Next, Loop, Post, Enqueue, Flush, FlushGivesUp, Close, Receive, FlushTick, RetryTick,
         FlushRequest, Done, Collect, Collected, SendPosts, SendFails, SendFailsUnspooled,
         SendTimesOut, CapFails, DrainPosts, DrainFails, DrainTimesOut, RewriteFails, Exit,
         Crash, Restart, Heal, vars
<1>2. UNCHANGED copies \/ (loop \in {"send", "drain"} /\ Ingest(Chunk))
  BY DEF Next, Loop, Post, Enqueue, Flush, FlushGivesUp, Close, Receive, FlushTick, RetryTick,
         FlushRequest, Done, Collect, Collected, SendPosts, SendFails, SendFailsUnspooled,
         SendTimesOut, CapFails, DrainPosts, DrainFails, DrainTimesOut, RewriteFails, Posting,
         Exit, Crash, Restart, Heal, vars
<1>3. UNCHANGED logged \/ logged' = logged + 1
  BY DEF Next, Loop, Post, Enqueue, Flush, FlushGivesUp, Close, Receive, FlushTick, RetryTick,
         FlushRequest, Done, Collect, Collected, SendPosts, SendFails, SendFailsUnspooled,
         SendTimesOut, CapFails, DrainPosts, DrainFails, DrainTimesOut, RewriteFails, Posting,
         Exit, Crash, Down, Restart, Heal, vars
<1>4. logged \in Nat
  BY DEF Inv1, TypeOK
<1>5. QED
  BY <1>1, <1>2, <1>3, <1>4

-----------------------------------------------------------------------------
(* Theorems *)

\* The queue, the batch, the spool and the loop keep their types: the queue never
\* exceeds its capacity, and a loop that is posting has something to post.
THEOREM ShipperTypes == Spec => []TypeOK
<1>1. Inv1 => TypeOK
  BY DEF Inv1
<1>2. QED
  BY <1>1, Types, PTL

\* No record disappears: it is in a place of the shipper, at the server, or was
\* dropped or lost with a process.
THEOREM NothingUnaccounted == Spec => []Accounted
<1>1. Inv1 /\ Inv2 => Accounted
  BY DEF Inv1, Inv2, TypeOK, Accounted, Held, Kept, Stored, Arrived
<1>2. QED
  BY <1>1, Types, RecordsKept, PTL

\* What was logged before a Flush that returned is at the server or on disk.
THEOREM FlushCheckpoints == Spec => []FlushIsCheckpoint
<1>1. Inv1 /\ Inv2 => FlushIsCheckpoint
  BY DEF Inv1, Inv2, TypeOK, Checkpoint, FlushIsCheckpoint, Stored, Arrived
<1>2. QED
  BY <1>1, Types, RecordsKept, PTL

\* The spool file stays within its cap as long as none of the bounded failures
\* has happened.
THEOREM SpoolStaysBounded == Spec => []SpoolBounded
<1>1. Init => SpoolBounded
  BY ShipperConstants DEF Init, SpoolBounded
<1>2. Inv1 /\ Inv2 /\ SpoolBounded /\ [Next]_vars => SpoolBounded'
  <2> SUFFICES ASSUME Inv1, Inv2, SpoolBounded, [Next]_vars PROVE SpoolBounded'
    OBVIOUS
  <2>0. /\ faults \in Nat /\ SpoolMax \in Nat
        /\ spool \in Seq(Records) /\ out \in Seq(Records)
    BY ShipperConstants DEF Inv1, TypeOK
  <2>1. CASE Fault
    BY <2>0, <2>1 DEF Fault, SpoolBounded
  <2>2. CASE SendFails
    <3>1. Len(spool') <= SpoolMax /\ spool' \in Seq(Records)
      BY <2>0, <2>2, SpoolAppended DEF SendFails, Unsent, Inv1
    <3>2. QED
      BY <2>0, <3>1 DEF SpoolBounded
  <2>3. CASE DrainPosts
    <3>1. CASE UNCHANGED spool
      BY <2>3, <3>1 DEF DrainPosts, SpoolBounded
    <3>2. CASE spool' = <<>>
      <4>1. Len(spool') = 0
        BY <3>2
      <4>2. QED
        BY <2>0, <4>1 DEF SpoolBounded
    <3>3. QED
      BY <2>3, <3>1, <3>2 DEF DrainPosts
  <2>4. CASE DrainFails
    <3>1. spool' = out /\ Len(out) <= Len(spool) /\ UNCHANGED faults
      BY <2>4 DEF DrainFails, Keeps, Posting, Inv2, DrainInv
    <3>2. QED
      BY <2>0, <3>1 DEF SpoolBounded
  <2>5. CASE \/ Enqueue \/ Flush \/ FlushGivesUp \/ Close \/ Receive \/ FlushTick \/ RetryTick
             \/ FlushRequest \/ Done \/ Collect \/ Collected \/ SendPosts \/ SendFailsUnspooled
             \/ Exit \/ Restart \/ Heal \/ UNCHANGED vars
    <3>1. UNCHANGED <<spool, faults>>
      BY <2>5
      DEF Enqueue, Flush, FlushGivesUp, Close, Receive, FlushTick, RetryTick, FlushRequest, Done,
          Collect, Collected, SendPosts, SendFailsUnspooled, Exit, Down, Restart, Heal, vars
    <3>2. QED
      BY <3>1 DEF SpoolBounded
  <2>6. SendTimesOut \/ CapFails \/ DrainTimesOut \/ RewriteFails \/ Crash => Fault
    BY DEF SendTimesOut, CapFails, DrainTimesOut, RewriteFails, Crash
  <2>7. QED
    BY <2>1, <2>2, <2>3, <2>4, <2>5, <2>6 DEF Next, Loop, Post
<1>3. QED
  BY <1>1, <1>2, Types, RecordsKept, PTL DEF Spec

\* A partial success makes progress: a record arrives twice only by a late answer, a
\* failed rewrite of the spool or the death of the process, and not more often.
THEOREM DuplicatesStayExplained == Spec => []DuplicatesExplained
<1>1. Init => Inv3
  <2> SUFFICES ASSUME Init PROVE Inv3
    OBVIOUS
  <2>1. Places
    BY EmptySet, EmptyOnce DEF Init, Places
  <2>2. Counted
    BY EmptySet DEF Init, Counted, Pending
  <2>3. QED
    BY <2>1, <2>2 DEF Inv3
<1>2. Inv1 /\ Inv1' /\ Inv3 /\ [Next]_vars => Inv3'
  <2> SUFFICES ASSUME Inv1, Inv1', Inv3, [Next]_vars PROVE Inv3'
    OBVIOUS
  <2>1. Places' /\ NothingTwice
    BY PlacesKept
  <2>2. Counted'
    BY <2>1, CountsMove, CountedKept DEF NothingTwice
  <2>3. QED
    BY <2>1, <2>2 DEF Inv3
<1>3. Inv3 => DuplicatesExplained
  BY DEF Inv3, Counted, DuplicatesExplained
<1>4. QED
  BY <1>1, <1>2, <1>3, Types, PTL DEF Spec

\* The shipper's places agree in every behaviour.
THEOREM ShipperStaysConsistent == Spec => []ShipperConsistent
BY ShipperTypes, NothingUnaccounted, PTL DEF ShipperConsistent

\* The spool file keeps its cap and what a Flush put there.
THEOREM SpoolStaysSafe == Spec => []SpoolSafe
BY SpoolStaysBounded, FlushCheckpoints, PTL DEF SpoolSafe
=============================================================================
