-------------------------- MODULE EventStoreProofs --------------------------
(***************************************************************************)
(* What holds of the decision log for every number of rows and readers and *)
(* every size of queue and batch: the types, the accounting of the queue's *)
(* unfinished tasks and of the rows it drops, the order of the log, the    *)
(* freshness of what a flushed reader sees, what close() waits for, and    *)
(* that the store implements the abstract log.                             *)
(***************************************************************************)
EXTENDS EventStore, FiniteSetTheorems, TLAPS

(***************************************************************************)
(* The inductive invariant.  TypeOK and UnfinishedMatches lean on each     *)
(* other: unfinished stays a natural number because every task_done() has  *)
(* work that owes it.  WriterShape says which of batch, owed and stopping  *)
(* a writer stage uses, and Handed that only rows whose record() returned  *)
(* are in flight or awaited by a reader, so that a row which has left the  *)
(* queue and the batch never comes back.                                   *)
(***************************************************************************)
Done == {q \in Row : rec[q] = "done"}

WriterShape ==
  /\ wpc # "ack" => owed = 0
  /\ wpc = "ack" => owed > 0
  /\ wpc \notin {"fill", "write"} <=> batch = <<>>
  /\ stopping => wpc \in {"write", "ack", "stopped"}

Handed ==
  /\ InFlight \subseteq Done
  /\ \A r \in Reader : due[r] \subseteq Done

\* With async_writes=False there is no writer thread and the queue stays empty.
SyncIdle ==
  ~Async => /\ queue = <<>> /\ wpc = "none" /\ cpc \in {"open", "closed"}
            /\ \A q \in Row : rec[q] \in {"idle", "put", "done", "raised"}

IInv == TypeOK /\ WriterShape /\ UnfinishedMatches /\ Handed /\ FlushFresh /\ SyncIdle

-----------------------------------------------------------------------------
(* Sequences: what appending to and taking from the queue do to its range. *)

\* The empty queue holds nothing.
LEMMA RangeEmpty == Range(<<>>) = {}
  BY DEF Range

\* Appending adds exactly the new entry.
LEMMA RangeAppend ==
  ASSUME NEW S, NEW s \in Seq(S), NEW x \in S
  PROVE  /\ Append(s, x) \in Seq(S)
         /\ Len(Append(s, x)) = Len(s) + 1
         /\ Range(Append(s, x)) = Range(s) \union {x}
<1>1. /\ Append(s, x) \in Seq(S)
      /\ Len(Append(s, x)) = Len(s) + 1
      /\ \A i \in 1 .. Len(s) : Append(s, x)[i] = s[i]
      /\ Append(s, x)[Len(s) + 1] = x
  OBVIOUS
<1>2. DOMAIN Append(s, x) = DOMAIN s \union {Len(s) + 1}
  BY <1>1
<1> QED
  BY <1>1, <1>2 DEF Range

\* Taking removes one occurrence of the head and nothing else.
LEMMA RangeTail ==
  ASSUME NEW S, NEW s \in Seq(S), s # <<>>
  PROVE  /\ Head(s) \in S
         /\ Tail(s) \in Seq(S)
         /\ Len(Tail(s)) = Len(s) - 1
         /\ Range(s) = {Head(s)} \union Range(Tail(s))
<1>1. /\ Len(s) \in Nat /\ Len(s) > 0
      /\ Head(s) = s[1] /\ Head(s) \in S
      /\ Tail(s) \in Seq(S) /\ Len(Tail(s)) = Len(s) - 1
      /\ \A i \in 1 .. Len(s) - 1 : Tail(s)[i] = s[i + 1]
  OBVIOUS
<1>2. ASSUME NEW i \in DOMAIN s PROVE s[i] \in {Head(s)} \union Range(Tail(s))
  <2>1. CASE i = 1
    BY <1>1, <2>1
  <2>2. CASE i # 1
    <3>1. i - 1 \in 1 .. Len(s) - 1 /\ i = (i - 1) + 1
      BY <1>1, <2>2
    <3>2. i - 1 \in DOMAIN Tail(s)
      BY <1>1, <3>1
    <3>3. s[i] = Tail(s)[i - 1]
      BY <1>1, <3>1
    <3> QED
      BY <3>2, <3>3 DEF Range
  <2> QED
    BY <2>1, <2>2
<1>3. ASSUME NEW i \in DOMAIN Tail(s) PROVE Tail(s)[i] \in Range(s)
  <2>1. i \in 1 .. Len(s) - 1 /\ i + 1 \in DOMAIN s
    BY <1>1
  <2> QED
    BY <1>1, <2>1 DEF Range
<1>4. Head(s) \in Range(s)
  BY <1>1 DEF Range
<1> QED
  BY <1>1, <1>2, <1>3, <1>4 DEF Range

\* One sequence after another: its length, its entries and its range.
LEMMA EndToEnd ==
  ASSUME NEW S, NEW b \in Seq(S), NEW s \in Seq(S)
  PROVE  /\ b \o s \in Seq(S) /\ Len(b \o s) = Len(b) + Len(s)
         /\ \A i \in 1 .. Len(b) : (b \o s)[i] = b[i]
         /\ Range(b \o s) = Range(b) \union Range(s)
<1>1. /\ b \o s \in Seq(S) /\ Len(b \o s) = Len(b) + Len(s)
      /\ Len(b) \in Nat /\ Len(s) \in Nat
      /\ \A i \in 1 .. Len(b) : (b \o s)[i] = b[i]
      /\ \A i \in 1 .. Len(s) : (b \o s)[Len(b) + i] = s[i]
  OBVIOUS
<1>2. DOMAIN (b \o s) = 1 .. Len(b) + Len(s) /\ DOMAIN b = 1 .. Len(b) /\ DOMAIN s = 1 .. Len(s)
  BY <1>1
<1>3. ASSUME NEW i \in DOMAIN (b \o s) PROVE (b \o s)[i] \in Range(b) \union Range(s)
  <2>1. CASE i \in 1 .. Len(b)
    BY <1>1, <1>2, <2>1 DEF Range
  <2>2. CASE i \notin 1 .. Len(b)
    <3>1. i - Len(b) \in 1 .. Len(s) /\ i = Len(b) + (i - Len(b))
      BY <1>1, <1>2, <2>2
    <3>2. (b \o s)[i] = s[i - Len(b)]
      BY <1>1, <3>1
    <3> QED
      BY <1>2, <3>1, <3>2 DEF Range
  <2> QED
    BY <2>1, <2>2
<1>4. ASSUME NEW i \in DOMAIN b PROVE b[i] \in Range(b \o s)
  <2>1. i \in DOMAIN (b \o s) /\ (b \o s)[i] = b[i]
    BY <1>1, <1>2
  <2> QED
    BY <2>1 DEF Range
<1>5. ASSUME NEW i \in DOMAIN s PROVE s[i] \in Range(b \o s)
  <2>1. Len(b) + i \in DOMAIN (b \o s) /\ (b \o s)[Len(b) + i] = s[i]
    BY <1>1, <1>2
  <2> QED
    BY <2>1 DEF Range
<1> QED
  BY <1>1, <1>3, <1>4, <1>5 DEF Range

-----------------------------------------------------------------------------
(* Sequences whose entries stand in an order: R is the set of pairs that may *)
(* stand in a sequence the first before the second.                          *)

Sorted(s, R) == \A i, j \in DOMAIN s : i < j => <<s[i], s[j]>> \in R

\* An entry that may follow all the others may be appended.
LEMMA SortedAppend ==
  ASSUME NEW S, NEW s \in Seq(S), NEW x \in S, NEW R, Sorted(s, R),
         \A y \in Range(s) : <<y, x>> \in R
  PROVE  Sorted(Append(s, x), R)
<1> DEFINE t == Append(s, x)
<1>1. Len(s) \in Nat OBVIOUS
<1>2. DOMAIN s = 1 .. Len(s) /\ DOMAIN t = 1 .. Len(s) + 1 OBVIOUS
<1>3. t[Len(s) + 1] = x /\ \A i \in 1 .. Len(s) : t[i] = s[i] OBVIOUS
<1> HIDE DEF t
<1> SUFFICES ASSUME NEW i \in DOMAIN t, NEW j \in DOMAIN t, i < j PROVE <<t[i], t[j]>> \in R
  BY DEF Sorted, t
<1>4. i \in 1 .. Len(s) /\ i \in DOMAIN s BY <1>1, <1>2
<1>5. CASE j = Len(s) + 1
  <2>1. t[i] \in Range(s) BY <1>3, <1>4 DEF Range
  <2> QED BY <1>3, <1>5, <2>1
<1>6. CASE j # Len(s) + 1
  <2>1. j \in 1 .. Len(s) /\ j \in DOMAIN s BY <1>1, <1>2, <1>6
  <2> QED BY <1>3, <1>4, <2>1 DEF Sorted
<1> QED BY <1>5, <1>6

\* What is left when the head is taken is in order, and may follow the head.
LEMMA SortedTail ==
  ASSUME NEW S, NEW s \in Seq(S), s # <<>>, NEW R, Sorted(s, R)
  PROVE  Sorted(Tail(s), R) /\ \A y \in Range(Tail(s)) : <<Head(s), y>> \in R
<1> DEFINE t == Tail(s)
<1>1. Len(s) \in Nat /\ Len(s) > 0 OBVIOUS
<1>2. DOMAIN s = 1 .. Len(s) /\ DOMAIN t = 1 .. Len(s) - 1 OBVIOUS
<1>3. Head(s) = s[1] /\ \A i \in 1 .. Len(s) - 1 : t[i] = s[i + 1] OBVIOUS
<1> HIDE DEF t
<1>4. \A i \in DOMAIN t : i + 1 \in DOMAIN s /\ t[i] = s[i + 1] /\ 1 < i + 1 /\ i \in Nat BY <1>1, <1>2, <1>3
<1>5. 1 \in DOMAIN s BY <1>1, <1>2
<1>6. Sorted(t, R)
  <2> SUFFICES ASSUME NEW i \in DOMAIN t, NEW j \in DOMAIN t, i < j PROVE <<t[i], t[j]>> \in R BY DEF Sorted
  <2>1. i + 1 < j + 1 BY <1>4
  <2> QED BY <1>4, <2>1 DEF Sorted
<1>7. \A y \in Range(t) : <<Head(s), y>> \in R BY <1>3, <1>4, <1>5 DEF Range, Sorted
<1> QED BY <1>6, <1>7 DEF t

\* Two ordered sequences, one of which may follow the other.
LEMMA SortedEndToEnd ==
  ASSUME NEW S, NEW b \in Seq(S), NEW s \in Seq(S), NEW R, Sorted(b, R), Sorted(s, R),
         \A x \in Range(b), y \in Range(s) : <<x, y>> \in R
  PROVE  Sorted(b \o s, R)
<1> DEFINE t == b \o s
<1>1. Len(b) \in Nat /\ Len(s) \in Nat OBVIOUS
<1>2. DOMAIN b = 1 .. Len(b) /\ DOMAIN s = 1 .. Len(s) /\ DOMAIN t = 1 .. Len(b) + Len(s) OBVIOUS
<1>3. (\A i \in 1 .. Len(b) : t[i] = b[i]) /\ \A i \in 1 .. Len(s) : t[Len(b) + i] = s[i] OBVIOUS
<1> HIDE DEF t
<1> SUFFICES ASSUME NEW i \in DOMAIN t, NEW j \in DOMAIN t, i < j PROVE <<t[i], t[j]>> \in R
  BY DEF Sorted, t
<1>4. i \in Nat /\ j \in Nat /\ 1 <= i /\ j <= Len(b) + Len(s) BY <1>1, <1>2
<1>5. CASE j <= Len(b)
  <2>1. i \in 1 .. Len(b) /\ j \in 1 .. Len(b) BY <1>1, <1>4, <1>5
  <2> QED BY <1>2, <1>3, <2>1 DEF Sorted
<1>6. CASE i <= Len(b) /\ Len(b) < j
  <2>1. i \in 1 .. Len(b) /\ j - Len(b) \in 1 .. Len(s) /\ j = Len(b) + (j - Len(b)) BY <1>1, <1>4, <1>6
  <2>2. t[i] = b[i] /\ t[j] = s[j - Len(b)] BY <1>3, <2>1
  <2> QED BY <1>2, <2>1, <2>2 DEF Range
<1>7. CASE Len(b) < i
  <2>0. j \in Nat /\ i < j /\ Len(b) < j /\ i <= Len(b) + Len(s) BY <1>1, <1>4, <1>7
  <2>a. i - Len(b) \in 1 .. Len(s) /\ i = Len(b) + (i - Len(b)) BY <1>1, <1>4, <1>7, <2>0
  <2>b. j - Len(b) \in 1 .. Len(s) /\ j = Len(b) + (j - Len(b)) BY <1>1, <1>4, <1>7, <2>0
  <2>c. i - Len(b) < j - Len(b) BY <1>1, <1>4, <2>0
  <2>1. /\ i - Len(b) \in 1 .. Len(s) /\ i = Len(b) + (i - Len(b))
        /\ j - Len(b) \in 1 .. Len(s) /\ j = Len(b) + (j - Len(b))
        /\ i - Len(b) < j - Len(b)
    BY <2>a, <2>b, <2>c
  <2>2. t[i] = s[i - Len(b)] /\ t[j] = s[j - Len(b)] BY <1>3, <2>1
  <2> QED BY <1>2, <2>1, <2>2 DEF Sorted
<1> QED BY <1>1, <1>4, <1>5, <1>6, <1>7

\* The order of the entries may be stated by another relation that has them.
LEMMA SortedIn ==
  ASSUME NEW s, NEW R, NEW Q, Sorted(s, R), \A x, y \in Range(s) : <<x, y>> \in R => <<x, y>> \in Q
  PROVE  Sorted(s, Q)
  BY DEF Sorted, Range

LEMMA SortedEmpty == ASSUME NEW R PROVE Sorted(<<>>, R)
  BY DEF Sorted

-----------------------------------------------------------------------------
(* The evictions not yet acknowledged, as a set that loses and gains rows. *)

\* The count of unacknowledged evictions is a natural number.
LEMMA AckingFinite == IsFiniteSet(Acking) /\ Cardinality(Acking) \in Nat
<1>1. Acking \subseteq Row
  BY DEF Acking
<1> QED
  BY <1>1, StoreAssumption, FS_Subset, FS_CardinalityType DEF StoreAssumption

\* A record() call that moves changes that count only at the stage "ack".
LEMMA AckingMoves ==
  ASSUME TypeOK, NEW q \in Row, NEW from, NEW to, from # to, MoveRecord(q, from, to)
  PROVE  /\ from # "ack" /\ to # "ack" => Acking' = Acking
         /\ to = "ack" => Cardinality(Acking') = Cardinality(Acking) + 1
         /\ from = "ack" => Cardinality(Acking') = Cardinality(Acking) - 1
                            /\ Cardinality(Acking) > 0
<1>1. rec' = [rec EXCEPT ![q] = to] /\ rec[q] = from /\ rec \in [Row -> RecordStage]
  BY DEF MoveRecord, TypeOK
<1>2. CASE from # "ack" /\ to # "ack"
  BY <1>1, <1>2 DEF Acking
<1>3. CASE to = "ack"
  <2>1. Acking' = Acking \union {q} /\ q \notin Acking
    BY <1>1, <1>3 DEF Acking
  <2> QED
    BY <1>3, <2>1, AckingFinite, FS_AddElement
<1>4. CASE from = "ack"
  <2>1. Acking' = Acking \ {q} /\ q \in Acking
    BY <1>1, <1>4 DEF Acking
  <2>2. Cardinality(Acking) # 0
    BY <2>1, AckingFinite, FS_EmptySet
  <2> QED
    BY <1>4, <2>1, <2>2, AckingFinite, FS_RemoveElement
<1> QED
  BY <1>2, <1>3, <1>4

\* What is in flight is what the queue and the batch hold, bar the sentinel.
LEMMA InFlightRows ==
  ASSUME TypeOK PROVE InFlight \subseteq Row
<1>1. Range(queue) \subseteq Item /\ Range(batch) \subseteq Row
  BY DEF TypeOK, Range
<1> QED
  BY <1>1 DEF InFlight, Queued, Item

-----------------------------------------------------------------------------
\* The invariant holds when the store has just been built, in either mode.
THEOREM InitIInv == Init => IInv
<1> SUFFICES ASSUME Init PROVE IInv
  OBVIOUS
<1>1. Acking = {} /\ Cardinality(Acking) = 0
  BY FS_EmptySet DEF Init, Acking
<1>2. TypeOK
  <2>1. queue \in Seq(Item) /\ db \in Seq(Row) /\ batch \in Seq(Row)
    BY DEF Init
  <2>2. Len(queue) <= QueueLimit /\ Len(batch) <= BatchSize
    BY StoreAssumption DEF Init, StoreAssumption
  <2>3. wpc \in WriterStage
    BY DEF Init, WriterStage
  <2> QED
    BY <2>1, <2>2, <2>3 DEF Init, TypeOK, RecordStage, ReaderStage, CloseStage, Queries
<1>3. InFlight = {}
  BY RangeEmpty DEF Init, InFlight, Queued
<1>4. WriterShape
  BY StoreAssumption DEF StoreAssumption, Init, WriterShape
<1>5. UnfinishedMatches
  BY <1>1 DEF Init, UnfinishedMatches
<1>6. Handed /\ FlushFresh
  BY <1>3 DEF Init, Handed, FlushFresh
<1>7. SyncIdle
  BY DEF Init, SyncIdle, Async
<1> QED
  BY <1>2, <1>4, <1>5, <1>6, <1>7 DEF IInv

-----------------------------------------------------------------------------
(* What the methods of the queue do to the types and to what is in flight. *)

\* put_nowait of a row: one more entry, one more unfinished task.
LEMMA PutEffect ==
  ASSUME TypeOK, NEW item \in Item, Put(item)
  PROVE  /\ queue' \in Seq(Item) /\ Len(queue') = Len(queue) + 1 /\ Len(queue') <= QueueLimit
         /\ unfinished' = unfinished + 1
         /\ Range(queue') = Range(queue) \union {item}
<1>1. queue \in Seq(Item) /\ QueueLimit \in Nat
  BY StoreAssumption DEF TypeOK, StoreAssumption
<1>2. queue' = Append(queue, item) /\ unfinished' = unfinished + 1 /\ Len(queue) < QueueLimit
  BY DEF Put, HasRoom
<1> QED
  BY <1>1, <1>2, RangeAppend

\* get_nowait: the head leaves, the unfinished count stays.
LEMMA TakeEffect ==
  ASSUME TypeOK, Take
  PROVE  /\ queue' \in Seq(Item) /\ Len(queue') = Len(queue) - 1 /\ Len(queue') <= QueueLimit
         /\ Head(queue) \in Item
         /\ unfinished' = unfinished
         /\ Range(queue) = {Head(queue)} \union Range(queue')
<1>1. queue \in Seq(Item) /\ QueueLimit \in Nat /\ Len(queue) <= QueueLimit
  BY StoreAssumption DEF TypeOK, StoreAssumption
<1>2. queue # <<>> /\ queue' = Tail(queue) /\ unfinished' = unfinished
  BY DEF Take
<1>3. Len(queue) \in Nat
  BY <1>1
<1> QED
  BY <1>1, <1>2, <1>3, RangeTail

\* As long as nothing new is in flight and nobody's record() is undone, a reader
\* that was fresh stays fresh.
LEMMA StaysFresh ==
  ASSUME Handed, FlushFresh, UNCHANGED <<rpc, due>>, InFlight' \subseteq InFlight, Done \subseteq Done'
  PROVE  Handed' /\ FlushFresh'
  BY DEF Handed, FlushFresh

\* A row handed over now was awaited by no reader.
LEMMA NewRowIsFresh ==
  ASSUME Handed, FlushFresh, UNCHANGED <<rpc, due>>, NEW q \in Row,
         q \notin Done, Done' = Done \union {q}, InFlight' = InFlight \union {q}
  PROVE  Handed' /\ FlushFresh'
  BY DEF Handed, FlushFresh

-----------------------------------------------------------------------------
(* The synchronous store never touches the queue. *)

\* No step of record(), of the writer or of close() wakes the queue of a store
\* that has no writer thread.
LEMMA SyncKept ==
  ASSUME IInv,
         \/ \E q \in Row : Begin(q) \/ RecordStep(q)
         \/ WriterStep
         \/ CloseStep
  PROVE  SyncIdle'
<1>a. wpc' = "none" => wpc = "none"
  BY DEF Begin, RecordStep, RecordSync, RecordPut, RecordFull, RecordShed, RecordNothingToShed, RecordShedAck,
         RecordShedCount, RecordRetry, RecordRefused, RecordRefusedCount, WriterStep, WriterStart, WriterGet,
         WriterFill, WriterFilled, WriterWrite, WriterAck, CloseStep, CloseBegin, ClosePut, CloseJoin, writerVars
<1> SUFFICES ASSUME wpc = "none" PROVE SyncIdle'
  BY <1>a DEF SyncIdle, Async
<1>1. /\ queue = <<>> /\ wpc = "none" /\ cpc \in {"open", "closed"}
      /\ \A q \in Row : rec[q] \in {"idle", "put", "done", "raised"}
      /\ rec \in [Row -> RecordStage]
  BY DEF IInv, SyncIdle, TypeOK, Async
<1>2. CASE \E q \in Row : Begin(q) \/ RecordStep(q)
  <2>1. PICK q \in Row : Begin(q) \/ RecordSync(q)
    BY <1>1, <1>2 DEF RecordStep, RecordPut, RecordFull, RecordShed, RecordNothingToShed, RecordShedAck,
         RecordShedCount, RecordRetry, RecordRefused, RecordRefusedCount, MoveRecord, Async
  <2> QED
    BY <1>1, <2>1 DEF Begin, RecordSync, MoveRecord, SyncIdle, queueVars, writerVars, closeVars
<1>3. ~WriterStep
  BY <1>1 DEF WriterStep, WriterStart, WriterGet, WriterFill, WriterFilled, WriterWrite, WriterAck
<1>4. CASE CloseStep
  <2>1. cpc' = "closed" /\ UNCHANGED <<queueVars, writerVars, rec>>
    BY <1>1, <1>4 DEF CloseStep, CloseBegin, ClosePut, CloseJoin, Async
  <2> QED
    BY <1>1, <2>1 DEF SyncIdle, queueVars, writerVars
<1> QED
  BY <1>2, <1>3, <1>4

-----------------------------------------------------------------------------
(* The invariant is preserved by every step of record(). *)

\* Every step of record(), the shedding of another row included, keeps the
\* invariant.
LEMMA RecordKeepsIInv ==
  ASSUME IInv, NEW q \in Row, RecordStep(q) \/ Begin(q)
  PROVE  IInv'
<1> USE DEF IInv
<1>s. SyncIdle'
  BY SyncKept
<1>t. TypeOK
  OBVIOUS
<1>r. rec \in [Row -> RecordStage]
  BY DEF TypeOK
<1>u. Len(queue) \in Nat /\ Len(batch) \in Nat /\ owed \in Nat /\ unfinished \in Nat /\ dropped \in Nat
      /\ evicted \in Nat /\ Cardinality(Acking) \in Nat
  BY AckingFinite DEF TypeOK
<1>1. CASE Begin(q)
  <2>1. MoveRecord(q, "idle", "put")
    BY <1>1 DEF Begin
  <2>2. Acking' = Acking /\ Done' = Done /\ InFlight' = InFlight
    BY <1>1, <1>t, <1>r, <2>1, AckingMoves DEF Begin, MoveRecord, Done, InFlight, Queued, queueVars, writerVars
  <2>3. TypeOK'
    BY <1>1, <2>1, <1>r DEF TypeOK, Begin, MoveRecord, RecordStage, queueVars, writerVars, readerVars, dropVars, tableVars, closeVars
  <2>4. WriterShape' /\ UnfinishedMatches'
    BY <1>1, <2>2 DEF Begin, WriterShape, UnfinishedMatches, queueVars, writerVars
  <2> QED
    BY <1>1, <2>2, <2>3, <2>4, <1>s, StaysFresh DEF Begin, readerVars
<1>2. CASE RecordSync(q)
  <2>1. PICK to \in {"done", "raised"} : MoveRecord(q, "put", to)
    BY <1>2 DEF RecordSync
  <2>2. Acking' = Acking /\ Done \subseteq Done' /\ InFlight' = InFlight
    BY <1>2, <1>t, <1>r, <2>1, AckingMoves DEF RecordSync, MoveRecord, Done, InFlight, Queued, queueVars, writerVars
  <2>3. db' \in Seq(Row)
    <3>1. db' = db \/ db' = Append(db, q)
      BY <1>2 DEF RecordSync
    <3>2. db \in Seq(Row)
      BY <1>t DEF TypeOK
    <3> QED
      BY <3>1, <3>2
  <2>4. TypeOK'
    BY <1>2, <2>1, <2>3, <1>r DEF TypeOK, RecordSync, MoveRecord, RecordStage, queueVars, writerVars, readerVars, dropVars, closeVars
  <2>5. WriterShape' /\ UnfinishedMatches'
    BY <1>2, <2>2 DEF RecordSync, WriterShape, UnfinishedMatches, queueVars, writerVars
  <2> QED
    BY <1>2, <2>2, <2>4, <2>5, <1>s, StaysFresh DEF RecordSync, readerVars
<1>3. CASE RecordPut(q) \/ RecordRetry(q)
  <2>1. PICK from \in {"put", "retry"} : MoveRecord(q, from, "done")
    BY <1>3 DEF RecordPut, RecordRetry
  <2>2. Put(q) /\ q \in Item /\ UNCHANGED <<writerVars, readerVars, dropVars, tableVars, before, closeVars>>
    BY <1>3 DEF RecordPut, RecordRetry, Item
  <2>3. /\ queue' \in Seq(Item) /\ Len(queue') = Len(queue) + 1 /\ Len(queue') <= QueueLimit
        /\ unfinished' = unfinished + 1
        /\ Range(queue') = Range(queue) \union {q}
    BY <1>t, <2>2, PutEffect
  <2>4. Acking' = Acking /\ q \notin Done /\ Done' = Done \union {q}
    <3>1. Acking' = Acking
      BY <1>t, <2>1, AckingMoves
    <3>2. rec[q] # "done" /\ rec' = [rec EXCEPT ![q] = "done"]
      BY <2>1 DEF MoveRecord
    <3> QED
      BY <1>r, <3>1, <3>2 DEF Done
  <2>5. InFlight' = InFlight \union {q}
    BY <2>2, <2>3, StoreAssumption DEF InFlight, Queued, writerVars, StoreAssumption
  <2>6. TypeOK'
    BY <2>1, <2>2, <2>3, <1>r, <1>u DEF TypeOK, MoveRecord, RecordStage, writerVars, readerVars, dropVars, tableVars, closeVars
  <2>7. WriterShape' /\ UnfinishedMatches'
    BY <2>2, <2>3, <2>4, <1>u DEF WriterShape, UnfinishedMatches, writerVars
  <2> QED
    BY <2>2, <2>4, <2>5, <2>6, <2>7, <1>s, NewRowIsFresh DEF readerVars
<1>4. CASE RecordFull(q) \/ RecordNothingToShed(q)
  <2>1. PICK from \in {"put", "full"}, to \in {"full", "retry"} : from # to /\ MoveRecord(q, from, to)
    BY <1>4 DEF RecordFull, RecordNothingToShed
  <2>2. UNCHANGED <<queueVars, writerVars, readerVars, dropVars, tableVars, before, closeVars>>
    BY <1>4 DEF RecordFull, RecordNothingToShed
  <2>3. Acking' = Acking /\ Done \subseteq Done' /\ InFlight' = InFlight
    BY <1>t, <1>r, <2>1, <2>2, AckingMoves DEF MoveRecord, Done, InFlight, Queued, queueVars, writerVars
  <2>4. TypeOK'
    BY <2>1, <2>2, <1>r DEF TypeOK, MoveRecord, RecordStage, queueVars, writerVars, readerVars, dropVars, tableVars, closeVars
  <2>5. WriterShape' /\ UnfinishedMatches'
    BY <2>2, <2>3 DEF WriterShape, UnfinishedMatches, queueVars, writerVars
  <2> QED
    BY <2>2, <2>3, <2>4, <2>5, <1>s, StaysFresh DEF readerVars
<1>5. CASE RecordShed(q)
  <2>1. MoveRecord(q, "full", "ack") /\ Take /\ UNCHANGED <<dropped, writerVars, readerVars, tableVars, before, closeVars>>
    BY <1>5 DEF RecordShed
  <2>2. /\ queue' \in Seq(Item) /\ Len(queue') = Len(queue) - 1 /\ Len(queue') <= QueueLimit
        /\ Head(queue) \in Item
        /\ unfinished' = unfinished
        /\ Range(queue) = {Head(queue)} \union Range(queue')
    BY <1>t, <2>1, TakeEffect
  <2>3. Cardinality(Acking') = Cardinality(Acking) + 1
    BY <1>t, <2>1, AckingMoves
  <2>4. Done' = Done /\ InFlight' \subseteq InFlight
    BY <1>r, <2>1, <2>2 DEF MoveRecord, Done, InFlight, Queued, writerVars
  <2>5. shed' \subseteq Row /\ evicted' \in Nat
    BY <1>5, <1>t, <1>u, <2>2 DEF RecordShed, TypeOK, Item
  <2>6. TypeOK'
    BY <2>1, <2>2, <2>5, <1>r DEF TypeOK, MoveRecord, RecordStage, writerVars, readerVars, tableVars, closeVars
  <2>7. WriterShape' /\ UnfinishedMatches'
    BY <2>1, <2>2, <2>3, <1>u DEF WriterShape, UnfinishedMatches, writerVars
  <2> QED
    BY <2>1, <2>4, <2>6, <2>7, <1>s, StaysFresh DEF readerVars
<1>6. CASE RecordShedAck(q)
  <2>1. MoveRecord(q, "ack", "count") /\ TaskDone /\ UNCHANGED <<writerVars, readerVars, dropVars, tableVars, before, closeVars>>
    BY <1>6 DEF RecordShedAck
  <2>2. Cardinality(Acking') = Cardinality(Acking) - 1 /\ Cardinality(Acking) > 0
    BY <1>t, <2>1, AckingMoves
  <2>3. queue' = queue /\ unfinished' = unfinished - 1
    BY <2>1 DEF TaskDone
  <2>4. unfinished > 0
    BY <2>2, <1>u DEF UnfinishedMatches
  <2>5. Done' = Done /\ InFlight' = InFlight
    BY <1>r, <2>1, <2>3 DEF MoveRecord, Done, InFlight, Queued, writerVars
  <2>6. TypeOK'
    BY <2>1, <2>3, <2>4, <1>r, <1>u DEF TypeOK, MoveRecord, RecordStage, writerVars, readerVars, dropVars, tableVars, closeVars
  <2>7. WriterShape' /\ UnfinishedMatches'
    BY <2>1, <2>2, <2>3, <1>u DEF WriterShape, UnfinishedMatches, writerVars
  <2> QED
    BY <2>1, <2>5, <2>6, <2>7, <1>s, StaysFresh DEF readerVars
<1>7. CASE RecordShedCount(q) \/ RecordRefused(q) \/ RecordRefusedCount(q)
  <2>1. PICK from \in {"count", "retry", "refused"}, to \in {"retry", "refused", "done"} :
          from # to /\ MoveRecord(q, from, to)
    BY <1>7 DEF RecordShedCount, RecordRefused, RecordRefusedCount
  <2>2. /\ UNCHANGED <<queueVars, evicted, writerVars, readerVars, tableVars, before, closeVars>>
        /\ dropped' \in {dropped, dropped + 1} /\ shed' \in {shed, shed \union {q}}
    BY <1>7 DEF RecordShedCount, RecordRefused, RecordRefusedCount
  <2>3. Acking' = Acking /\ Done \subseteq Done' /\ InFlight' = InFlight
    BY <1>t, <1>r, <2>1, <2>2, AckingMoves DEF MoveRecord, Done, InFlight, Queued, queueVars, writerVars
  <2>4. TypeOK'
    BY <2>1, <2>2, <1>r, <1>u DEF TypeOK, MoveRecord, RecordStage, queueVars, writerVars, readerVars, tableVars, closeVars
  <2>5. WriterShape' /\ UnfinishedMatches'
    BY <2>2, <2>3 DEF WriterShape, UnfinishedMatches, queueVars, writerVars
  <2> QED
    BY <2>2, <2>3, <2>4, <2>5, <1>s, StaysFresh DEF readerVars
<1> QED
  BY <1>1, <1>2, <1>3, <1>4, <1>5, <1>6, <1>7 DEF RecordStep

-----------------------------------------------------------------------------
(* The invariant is preserved by every step of the writer. *)

\* Every step of _drain() keeps the invariant, a failed transaction included.
LEMMA WriterKeepsIInv ==
  ASSUME IInv, WriterStep
  PROVE  IInv'
<1> USE DEF IInv
<1>s. SyncIdle'
  BY SyncKept
<1>t. TypeOK
  OBVIOUS
<1>u. Len(queue) \in Nat /\ Len(batch) \in Nat /\ owed \in Nat /\ unfinished \in Nat
      /\ Cardinality(Acking) \in Nat /\ BatchSize \in Nat \ {0}
  BY AckingFinite, StoreAssumption DEF TypeOK, StoreAssumption
<1>w. UNCHANGED <<readerVars, dropVars, rec, before, closeVars>>
  BY DEF WriterStep, WriterStart, WriterGet, WriterFill, WriterFilled, WriterWrite, WriterAck, tableVars
<1>a. Acking' = Acking /\ Done' = Done
  BY <1>w DEF Acking, Done
<1>f. ASSUME InFlight' \subseteq InFlight PROVE Handed' /\ FlushFresh'
  BY <1>w, <1>a, <1>f, StaysFresh DEF readerVars
<1>1. CASE WriterStart \/ WriterFilled
  <2>1. UNCHANGED <<queueVars, batch, owed, stopping, tableVars>> /\ wpc' \in {"get", "dead", "write"}
        /\ wpc # "ack" /\ (wpc' # "write" => wpc = "starting")
    BY <1>1 DEF WriterStart, WriterFilled
  <2>2. InFlight' \subseteq InFlight
    BY <2>1 DEF InFlight, Queued, queueVars
  <2>3. TypeOK'
    BY <1>w, <2>1 DEF TypeOK, WriterStage, queueVars, tableVars, readerVars, dropVars, closeVars
  <2>4. WriterShape'
    BY <1>1, <2>1 DEF WriterShape, WriterStart, WriterFilled
  <2>5. UnfinishedMatches'
    BY <1>1, <1>a, <2>1 DEF WriterShape, UnfinishedMatches, WriterStart, WriterFilled, queueVars
  <2> QED
    BY <1>f, <1>s, <2>2, <2>3, <2>4, <2>5
<1>2. CASE WriterGet
  <2>1. Take /\ wpc = "get" /\ UNCHANGED tableVars /\ batch = <<>> /\ owed = 0 /\ ~stopping
    BY <1>2, <1>t DEF WriterGet, WriterShape, TypeOK
  <2>2. /\ queue' \in Seq(Item) /\ Len(queue') = Len(queue) - 1 /\ Len(queue') <= QueueLimit
        /\ Head(queue) \in Item /\ unfinished' = unfinished
        /\ Range(queue) = {Head(queue)} \union Range(queue')
    BY <1>t, <2>1, TakeEffect
  <2>3. CASE Head(queue) = Shutdown
    <3>1. wpc' = "ack" /\ owed' = 1 /\ stopping' = TRUE /\ batch' = batch
      BY <1>2, <2>3 DEF WriterGet
    <3>2. InFlight' \subseteq InFlight
      BY <2>2, <3>1 DEF InFlight, Queued
    <3>3. TypeOK'
      BY <1>w, <2>1, <2>2, <3>1 DEF TypeOK, WriterStage, tableVars, readerVars, dropVars, closeVars
    <3>4. WriterShape' /\ UnfinishedMatches'
      BY <1>a, <1>u, <2>1, <2>2, <3>1 DEF WriterShape, UnfinishedMatches
    <3> QED
      BY <1>f, <1>s, <3>2, <3>3, <3>4
  <2>4. CASE Head(queue) # Shutdown
    <3>1. wpc' = "fill" /\ batch' = <<Head(queue)>> /\ UNCHANGED <<owed, stopping>> /\ Head(queue) \in Row
      BY <1>2, <2>2, <2>4 DEF WriterGet, Item
    <3>2. batch' \in Seq(Row) /\ Len(batch') = 1 /\ Range(batch') = Range(batch) \union {Head(queue)}
      BY <2>1, <3>1 DEF Range
    <3>3. InFlight' \subseteq InFlight
      BY <2>2, <2>4, <3>2 DEF InFlight, Queued
    <3>4. TypeOK'
      BY <1>w, <1>u, <2>1, <2>2, <3>1, <3>2 DEF TypeOK, WriterStage, tableVars, readerVars, dropVars, closeVars
    <3>5. Len(batch) = 0
      BY <2>1
    <3>6. WriterShape' /\ UnfinishedMatches'
      BY <1>a, <1>u, <2>1, <2>2, <3>1, <3>2, <3>5 DEF WriterShape, UnfinishedMatches
    <3> QED
      BY <1>f, <1>s, <3>3, <3>4, <3>6
  <2> QED
    BY <2>3, <2>4
<1>3. CASE WriterFill
  <2>1. Take /\ wpc = "fill" /\ UNCHANGED <<tableVars, owed>> /\ owed = 0 /\ ~stopping /\ Len(batch) < BatchSize
    BY <1>3, <1>t DEF WriterFill, WriterShape, TypeOK
  <2>2. /\ queue' \in Seq(Item) /\ Len(queue') = Len(queue) - 1 /\ Len(queue') <= QueueLimit
        /\ Head(queue) \in Item /\ unfinished' = unfinished
        /\ Range(queue) = {Head(queue)} \union Range(queue')
    BY <1>t, <2>1, TakeEffect
  <2>3. CASE Head(queue) = Shutdown
    <3>1. wpc' = "write" /\ stopping' = TRUE /\ batch' = batch
      BY <1>3, <2>3 DEF WriterFill
    <3>2. InFlight' \subseteq InFlight
      BY <2>2, <3>1 DEF InFlight, Queued
    <3>3. TypeOK'
      BY <1>w, <2>1, <2>2, <3>1 DEF TypeOK, WriterStage, tableVars, readerVars, dropVars, closeVars
    <3>4. WriterShape' /\ UnfinishedMatches'
      BY <1>a, <1>u, <2>1, <2>2, <3>1 DEF WriterShape, UnfinishedMatches
    <3> QED
      BY <1>f, <1>s, <3>2, <3>3, <3>4
  <2>4. CASE Head(queue) # Shutdown
    <3>1. batch' = Append(batch, Head(queue)) /\ UNCHANGED <<wpc, stopping>> /\ Head(queue) \in Row
      BY <1>3, <2>2, <2>4 DEF WriterFill, Item
    <3>2. batch' \in Seq(Row) /\ Len(batch') = Len(batch) + 1 /\ Range(batch') = Range(batch) \union {Head(queue)}
      BY <1>t, <3>1, RangeAppend DEF TypeOK
    <3>3. InFlight' \subseteq InFlight
      BY <2>2, <2>4, <3>2 DEF InFlight, Queued
    <3>6. batch' # <<>>
      BY <1>u, <3>2
    <3>4. TypeOK'
      BY <1>w, <1>u, <2>1, <2>2, <3>1, <3>2 DEF TypeOK, tableVars, readerVars, dropVars, closeVars
    <3>5. WriterShape'
      BY <2>1, <3>1, <3>6 DEF WriterShape
    <3>7. UnfinishedMatches'
      BY <1>a, <1>u, <2>1, <2>2, <3>1, <3>2 DEF UnfinishedMatches
    <3> QED
      BY <1>f, <1>s, <3>3, <3>4, <3>5, <3>7
  <2> QED
    BY <2>3, <2>4
<1>4. CASE WriterWrite
  <2>1. wpc = "write" /\ wpc' = "ack" /\ owed = 0 /\ owed' = Owing /\ batch' = <<>> /\ UNCHANGED <<queueVars, stopping, cleared>>
    BY <1>4 DEF WriterWrite, WriterShape
  <2>2. InFlight' \subseteq InFlight
    BY <2>1, RangeEmpty DEF InFlight, Queued, queueVars
  <2>3. db' \in Seq(Row) /\ lost' \subseteq Row
    <3>1. db \in Seq(Row) /\ batch \in Seq(Row) /\ lost \subseteq Row
      BY <1>t DEF TypeOK
    <3>2. db \o batch \in Seq(Row) /\ Range(batch) \subseteq Row
      BY <3>1 DEF Range
    <3> QED
      BY <1>4, <3>1, <3>2 DEF WriterWrite
  <2>4. Owing \in Nat /\ Owing > 0
    <3>1. batch \in Seq(Row) /\ batch # <<>>
      BY <1>t, <2>1 DEF TypeOK, WriterShape
    <3>2. Len(batch) > 0
      BY <3>1
    <3> QED
      BY <1>u, <3>2 DEF Owing
  <2>5. TypeOK'
    BY <1>w, <1>u, <2>1, <2>3, <2>4 DEF TypeOK, WriterStage, queueVars, readerVars, dropVars, closeVars
  <2>6. WriterShape' /\ UnfinishedMatches'
    BY <1>a, <1>u, <2>1, <2>4 DEF WriterShape, UnfinishedMatches, Owing, queueVars
  <2> QED
    BY <1>f, <1>s, <2>2, <2>5, <2>6
<1>5. CASE WriterAck
  <2>1. /\ wpc = "ack" /\ owed > 0 /\ queue' = queue /\ unfinished' = unfinished - 1 /\ owed' = owed - 1
        /\ wpc' = (IF owed > 1 THEN "ack" ELSE IF stopping THEN "stopped" ELSE "get")
        /\ UNCHANGED <<batch, stopping, tableVars>> /\ batch = <<>>
    BY <1>5 DEF WriterAck, TaskDone, WriterShape
  <2>2. InFlight' \subseteq InFlight
    BY <2>1 DEF InFlight, Queued
  <2>3. unfinished > 0
    BY <1>u, <2>1 DEF UnfinishedMatches
  <2>4. TypeOK'
    BY <1>w, <1>u, <2>1, <2>3 DEF TypeOK, WriterStage, readerVars, dropVars, closeVars, tableVars
  <2>5. WriterShape' /\ UnfinishedMatches'
    BY <1>a, <1>u, <2>1, <2>3 DEF WriterShape, UnfinishedMatches
  <2> QED
    BY <1>f, <1>s, <2>2, <2>4, <2>5
<1> QED
  BY <1>1, <1>2, <1>3, <1>4, <1>5 DEF WriterStep

-----------------------------------------------------------------------------
(* Readers and close(). *)

\* When join() returns, nothing is in flight: this is where the accounting of
\* unfinished tasks pays for the freshness of the reader.
LEMMA FlushedIsSettled ==
  ASSUME IInv, FlushReady PROVE InFlight = {}
<1>1. Len(queue) \in Nat /\ Len(batch) \in Nat /\ owed \in Nat /\ Cardinality(Acking) \in Nat
      /\ queue \in Seq(Item) /\ batch \in Seq(Row)
  BY AckingFinite DEF IInv, TypeOK
<1>2. queue = <<>> /\ batch = <<>>
  <2>1. CASE Async
    <3>1. Len(queue) = 0 /\ Len(batch) = 0
      BY <1>1, <2>1 DEF IInv, UnfinishedMatches, FlushReady
    <3> QED
      BY <1>1, <3>1
  <2>2. CASE ~Async
    BY <2>2 DEF IInv, SyncIdle, WriterShape
  <2> QED
    BY <2>1, <2>2
<1> QED
  BY <1>2, RangeEmpty DEF InFlight, Queued

\* Every step of a reader keeps the invariant; clear() is one of them.
LEMMA ReaderKeepsIInv ==
  ASSUME IInv, NEW r \in Reader, ReadStep(r) \/ \E query \in Queries : ReadBegin(r, query)
  PROVE  IInv'
<1> USE DEF IInv
<1>1. /\ UNCHANGED <<queueVars, writerVars, dropVars, rec, before, closeVars>>
      /\ db' \in Seq(Row) /\ lost' = lost /\ cleared' \subseteq Row
  <2>1. db \in Seq(Row) /\ cleared \subseteq Row /\ Range(db) \subseteq Row
    BY DEF TypeOK, Range
  <2>2. CASE Clear(r)
    BY <2>1, <2>2 DEF Clear, ReadEnd
  <2>3. CASE (\E query \in Queries : ReadBegin(r, query)) \/ ReadFlushed(r) \/ ReadCounts(r)
    BY <2>1, <2>3 DEF ReadBegin, ReadFlushed, ReadCounts, tableVars
  <2>4. CASE ReadEvents(r) \/ ReadTotal(r)
    BY <2>1, <2>4 DEF ReadEvents, ReadTotal, ReadEnd, tableVars
  <2> QED
    BY <2>2, <2>3, <2>4 DEF ReadStep
<1>2. InFlight' = InFlight /\ Acking' = Acking /\ Done' = Done /\ InFlight \subseteq Row
  BY <1>1, InFlightRows DEF InFlight, Queued, Acking, Done, queueVars, writerVars
<1>3. /\ rpc' \in [Reader -> ReaderStage] /\ asked' \in [Reader -> Queries]
      /\ due' \in [Reader -> SUBSET Row]
  <2>1. /\ rpc \in [Reader -> ReaderStage] /\ asked \in [Reader -> Queries]
        /\ due \in [Reader -> SUBSET Row]
        /\ Range(db) \subseteq Row
    BY DEF TypeOK, Range
  <2>2. CASE \E query \in Queries : ReadBegin(r, query)
    BY <1>2, <2>1, <2>2 DEF ReadBegin, MoveReader, ReaderStage
  <2>3. CASE ReadFlushed(r) \/ ReadCounts(r)
    BY <2>1, <2>3 DEF ReadFlushed, ReadCounts, MoveReader, ReaderStage
  <2>4. CASE ReadEvents(r) \/ ReadTotal(r) \/ Clear(r)
    BY <2>1, <2>4 DEF ReadEvents, ReadTotal, Clear, ReadEnd, MoveReader, ReaderStage, Queries
  <2> QED
    BY <2>2, <2>3, <2>4 DEF ReadStep
<1>4. TypeOK'
  BY <1>1, <1>3 DEF TypeOK, queueVars, writerVars, dropVars, closeVars
<1>5. WriterShape' /\ UnfinishedMatches' /\ SyncIdle'
  BY <1>1, <1>2 DEF WriterShape, UnfinishedMatches, SyncIdle, Async, queueVars, writerVars, closeVars
<1>6. Handed' /\ FlushFresh'
  <2>1. rpc \in [Reader -> ReaderStage] /\ due \in [Reader -> SUBSET Row]
    BY DEF TypeOK
  <2>2. CASE \E query \in Queries : ReadBegin(r, query)
    BY <1>2, <2>1, <2>2 DEF ReadBegin, MoveReader, Handed, FlushFresh
  <2>3. CASE ReadFlushed(r)
    BY <1>2, <2>1, <2>3, FlushedIsSettled DEF ReadFlushed, MoveReader, Handed, FlushFresh
  <2>4. CASE ReadCounts(r)
    BY <1>2, <2>1, <2>4 DEF ReadCounts, MoveReader, Handed, FlushFresh
  <2>5. CASE ReadEvents(r) \/ ReadTotal(r) \/ Clear(r)
    BY <1>2, <2>1, <2>5 DEF ReadEvents, ReadTotal, Clear, ReadEnd, MoveReader, Handed, FlushFresh
  <2> QED
    BY <2>2, <2>3, <2>4, <2>5 DEF ReadStep
<1> QED
  BY <1>4, <1>5, <1>6

\* Every step of close() keeps the invariant.
LEMMA CloseKeepsIInv ==
  ASSUME IInv, CloseStep PROVE IInv'
<1> USE DEF IInv
<1>1. SyncIdle'
  BY SyncKept
<1>2. UNCHANGED <<writerVars, readerVars, dropVars, tableVars, rec, before>>
      /\ cpc' \in CloseStage /\ closeDue' \subseteq Row
  BY InFlightRows DEF CloseStep, CloseBegin, ClosePut, CloseJoin, CloseStage, TypeOK
<1>3. Acking' = Acking /\ Done' = Done
  BY <1>2 DEF Acking, Done
<1>4. CASE UNCHANGED queueVars
  <2>1. InFlight' = InFlight
    BY <1>2, <1>4 DEF InFlight, Queued, queueVars, writerVars
  <2>2. TypeOK' /\ WriterShape' /\ UnfinishedMatches'
    BY <1>2, <1>3, <1>4 DEF TypeOK, WriterShape, UnfinishedMatches, queueVars, writerVars, readerVars, dropVars, tableVars
  <2> QED
    BY <1>1, <1>2, <1>3, <2>1, <2>2, StaysFresh DEF readerVars
<1>5. CASE ClosePut
  <2>1. /\ queue' \in Seq(Item) /\ Len(queue') = Len(queue) + 1 /\ Len(queue') <= QueueLimit
        /\ unfinished' = unfinished + 1
        /\ Range(queue') = Range(queue) \union {Shutdown}
    BY <1>5, PutEffect DEF ClosePut, Item
  <2>2. InFlight' = InFlight
    BY <1>2, <2>1 DEF InFlight, Queued, writerVars
  <2>3. Len(queue) \in Nat /\ Len(batch) \in Nat /\ owed \in Nat /\ unfinished \in Nat /\ Cardinality(Acking) \in Nat
    BY AckingFinite DEF TypeOK
  <2>4. TypeOK'
    BY <1>2, <2>1, <2>3 DEF TypeOK, writerVars, readerVars, dropVars, tableVars
  <2>5. WriterShape' /\ UnfinishedMatches'
    BY <1>2, <1>3, <2>1, <2>3 DEF WriterShape, UnfinishedMatches, writerVars
  <2> QED
    BY <1>1, <1>2, <1>3, <2>2, <2>4, <2>5, StaysFresh DEF readerVars
<1> QED
  BY <1>4, <1>5 DEF CloseStep, CloseBegin, CloseJoin

-----------------------------------------------------------------------------
(* The theorems. *)

\* Every step of the store keeps the invariant.
LEMMA StepKeepsIInv == IInv /\ [Next]_vars => IInv'
<1> SUFFICES ASSUME IInv, [Next]_vars PROVE IInv'
  OBVIOUS
<1>1. CASE UNCHANGED vars
  BY <1>1 DEF vars, queueVars, writerVars, readerVars, dropVars, tableVars, closeVars, IInv, TypeOK, WriterShape,
     UnfinishedMatches, Acking, Handed, Done, InFlight, Queued, FlushFresh, SyncIdle, Async
<1> QED
  BY <1>1, RecordKeepsIInv, WriterKeepsIInv, ReaderKeepsIInv, CloseKeepsIInv DEF Next

\* The invariant holds in every state the store can reach.
THEOREM Invariant == Spec => []IInv
  BY InitIInv, StepKeepsIInv, PTL DEF Spec

\* Every variable keeps its type and the queue its bound: however fast rows
\* arrive, record() never lets the queue outgrow QUEUE_LIMIT.
THEOREM TypeCorrect == Spec => []TypeOK
  BY Invariant, PTL DEF IInv

\* join() counts exactly the work still owed a task_done(), whatever the
\* interleaving of record() calls, the writer and close().
THEOREM UnfinishedIsOwed == Spec => []UnfinishedMatches
  BY Invariant, PTL DEF IInv

\* A reader past its flush has nothing outstanding from before the flush.
THEOREM FlushedReadersAreFresh == Spec => []FlushFresh
  BY Invariant, PTL DEF IInv

-----------------------------------------------------------------------------
(***************************************************************************)
(* The second invariant: the line of rows.  The table, then the batch,     *)
(* then the queue are one line, oldest first, that rows join at its end.   *)
(* MayFollow(x, y) says that y may stand behind x in it: they differ, the  *)
(* record() of y had not returned before that of x began, and what stands  *)
(* behind close()'s sentinel was not outstanding when it was queued.  A    *)
(* row handed over is in the line or gone, for one reason (Accounted).     *)
(* What a history variable awaits was handed over (Earlier), which is why  *)
(* a row that joins the line may follow all that are in it.                *)
(***************************************************************************)
HandedOver == {q \in Row : rec[q] \in {"refused", "done"}}
Gone == lost \union cleared \union shed
Line == Range(db) \union InFlight

MayFollow ==
  {p \in Item \X Item : /\ p[2] # p[1]
                        /\ p[1] \in Row => p[2] \notin before[p[1]]
                        /\ p[1] = Shutdown => p[2] \notin closeDue}

InOrder ==
  /\ Sorted(db, MayFollow) /\ Sorted(batch, MayFollow) /\ Sorted(queue, MayFollow)
  /\ Range(db) \X Range(batch) \subseteq MayFollow
  /\ Range(db) \X Range(queue) \subseteq MayFollow
  /\ Range(batch) \X Range(queue) \subseteq MayFollow

Accounted ==
  /\ Line \intersect Gone = {}
  /\ lost \intersect cleared = {} /\ lost \intersect shed = {} /\ cleared \intersect shed = {}
  /\ Line \union Gone = HandedOver

Earlier ==
  /\ \A q \in Row : before[q] \subseteq Done
  /\ closeDue \subseteq Done

\* The one sentinel: not queued before close() queues it; when the writer has
\* taken it, nothing that was outstanding then is queued.
Sentinel ==
  /\ cpc \in {"open", "put"} => closeDue = {} /\ Shutdown \notin Range(queue) /\ ~stopping
  /\ stopping => closeDue \intersect Range(queue) = {}
  /\ wpc = "stopped" => stopping

LineInv == InOrder /\ Accounted /\ Earlier /\ Sentinel

\* Where the entries of the line come from.
LEMMA LineTypes ==
  ASSUME TypeOK
  PROVE  /\ Range(db) \subseteq Row /\ Range(batch) \subseteq Row /\ Range(queue) \subseteq Item
         /\ Row \subseteq Item /\ Shutdown \in Item /\ Shutdown \notin Row
         /\ Queued = Range(queue) \ {Shutdown} /\ Queued \subseteq Row
<1>1. Range(db) \subseteq Row /\ Range(batch) \subseteq Row /\ Range(queue) \subseteq Item
  BY DEF TypeOK, Range
<1> QED BY <1>1, StoreAssumption DEF StoreAssumption, Queued, Item

\* The three parts of the line have no entry in common.
LEMMA PartsDiffer ==
  ASSUME InOrder
  PROVE  /\ Range(db) \intersect Range(batch) = {}
         /\ Range(db) \intersect Range(queue) = {}
         /\ Range(batch) \intersect Range(queue) = {}
<1>1. ASSUME NEW A, NEW B, A \X B \subseteq MayFollow PROVE A \intersect B = {}
  <2> SUFFICES ASSUME NEW x \in A, x \in B PROVE FALSE OBVIOUS
  <2>1. <<x, x>> \in MayFollow BY <1>1
  <2> QED BY <2>1 DEF MayFollow
<1> QED BY <1>1 DEF InOrder

\* A step that leaves the line, and what is gone, where they are.
LEMMA LineStays ==
  ASSUME TypeOK, LineInv,
         UNCHANGED <<queue, batch, stopping, shed, tableVars, closeDue>>,
         HandedOver' = HandedOver, Done \subseteq Done',
         \A x \in Row : before'[x] = before[x] \/ (x \notin HandedOver /\ before'[x] \subseteq Done'),
         cpc' \in {"open", "put"} => cpc \in {"open", "put"},
         wpc' = "stopped" => wpc = "stopped" \/ stopping
  PROVE  LineInv'
<1> USE DEF LineInv, tableVars
<1>1. Line' = Line /\ Gone' = Gone BY DEF Line, Gone, InFlight, Queued
<1>2. \A x \in Item, y \in Item : x \in Line \union {Shutdown} /\ <<x, y>> \in MayFollow => <<x, y>> \in MayFollow'
  <2>1. \A x \in Row : x \in Line => before'[x] = before[x] BY DEF Accounted
  <2>2. Shutdown \notin Row BY LineTypes
  <2> QED BY <2>1, <2>2 DEF MayFollow
<1>3. /\ Range(db) \subseteq Line /\ Range(batch) \subseteq Line /\ Range(queue) \subseteq Line \union {Shutdown}
      /\ Range(db) \subseteq Item /\ Range(batch) \subseteq Item /\ Range(queue) \subseteq Item
  BY LineTypes DEF Line, InFlight
<1>4. InOrder'
  <2>1. Sorted(db, MayFollow') /\ Sorted(batch, MayFollow') /\ Sorted(queue, MayFollow')
    <3>1. Sorted(db, MayFollow') BY <1>2, <1>3, SortedIn DEF InOrder
    <3>2. Sorted(batch, MayFollow') BY <1>2, <1>3, SortedIn DEF InOrder
    <3>3. Sorted(queue, MayFollow') BY <1>2, <1>3, SortedIn DEF InOrder
    <3> QED BY <3>1, <3>2, <3>3
  <2>2. /\ Range(db) \X Range(batch) \subseteq MayFollow'
        /\ Range(db) \X Range(queue) \subseteq MayFollow'
        /\ Range(batch) \X Range(queue) \subseteq MayFollow'
    BY <1>2, <1>3 DEF InOrder
  <2> QED BY <2>1, <2>2 DEF InOrder
<1>5. Accounted' BY <1>1 DEF Accounted
<1>6. Earlier' BY DEF Earlier
<1>7. Sentinel' BY DEF Sentinel
<1> QED BY <1>4, <1>5, <1>6, <1>7

\* A row whose record() returns joins the line at its end.
LEMMA RowJoins ==
  ASSUME TypeOK, LineInv, NEW q \in Row, q \notin HandedOver, Put(q),
         UNCHANGED <<writerVars, shed, tableVars, closeVars, before>>,
         HandedOver' = HandedOver \union {q}, Done' = Done \union {q}
  PROVE  LineInv'
<1> USE DEF LineInv, tableVars, writerVars, closeVars
<1>0. q \in Item BY DEF Item
<1>1. queue' = Append(queue, q) /\ Range(queue') = Range(queue) \union {q} /\ queue \in Seq(Item)
  BY <1>0, PutEffect DEF Put, TypeOK
<1>2. MayFollow' = MayFollow BY DEF MayFollow
<1>3. q \notin Done /\ q \notin Line /\ q \notin Gone BY DEF Accounted, Done, HandedOver
<1>4. \A x \in Line \union Range(queue) : <<x, q>> \in MayFollow
  <2> SUFFICES ASSUME NEW x \in Line \union Range(queue) PROVE <<x, q>> \in MayFollow OBVIOUS
  <2>1. x # q /\ x \in Item BY <1>3, LineTypes DEF Line, InFlight, Queued
  <2>2. (x \in Row => q \notin before[x]) /\ q \notin closeDue BY <1>3 DEF Earlier
  <2> QED BY <1>0, <2>1, <2>2 DEF MayFollow
<1>5. InOrder'
  <2>1. Sorted(queue', MayFollow) BY <1>0, <1>1, <1>4, SortedAppend DEF InOrder
  <2> QED BY <1>1, <1>2, <1>4, <2>1 DEF InOrder, Line, InFlight
<1>6. Line' = Line \union {q} /\ Gone' = Gone
  BY <1>1, LineTypes DEF Line, InFlight, Queued, Gone
<1>7. Accounted' BY <1>3, <1>6 DEF Accounted
<1>8. Earlier' BY DEF Earlier
<1>9. Sentinel' BY <1>1, <1>3, LineTypes DEF Sentinel, Earlier
<1> QED BY <1>5, <1>7, <1>8, <1>9

\* A row that is refused, at the end of its record(), is gone at once.
LEMMA RowRefused ==
  ASSUME TypeOK, LineInv, NEW q \in Row, q \notin HandedOver,
         UNCHANGED <<queue, writerVars, tableVars, closeVars, before>>,
         shed' = shed \union {q},
         HandedOver' = HandedOver \union {q}, Done' = Done
  PROVE  LineInv'
<1> USE DEF LineInv, tableVars, writerVars, closeVars
<1>1. MayFollow' = MayFollow BY DEF MayFollow
<1>2. Line' = Line /\ Gone' = Gone \union {q} BY DEF Line, InFlight, Queued, Gone
<1>3. q \notin Line /\ q \notin Gone BY DEF Accounted
<1>4. Accounted' BY <1>2, <1>3 DEF Accounted, Gone
<1> QED BY <1>1, <1>4 DEF InOrder, Earlier, Sentinel

\* Without a writer thread the row is inserted before record() returns.
LEMMA RowWritten ==
  ASSUME TypeOK, LineInv, NEW q \in Row, q \notin HandedOver,
         batch = <<>>, queue = <<>>, db' = Append(db, q),
         UNCHANGED <<queue, writerVars, shed, lost, cleared, closeVars, before>>,
         HandedOver' = HandedOver \union {q}, Done' = Done \union {q}
  PROVE  LineInv'
<1> USE DEF LineInv, writerVars, closeVars
<1>0. q \in Item BY DEF Item
<1>1. db \in Seq(Item) /\ Range(db') = Range(db) \union {q}
  <2>1. db \in Seq(Row) /\ db \in Seq(Item) BY DEF TypeOK, Item
  <2> QED BY <2>1, RangeAppend
<1>2. MayFollow' = MayFollow BY DEF MayFollow
<1>3. q \notin Done /\ q \notin Line /\ q \notin Gone BY DEF Accounted, Done, HandedOver
<1>4. \A x \in Range(db) : <<x, q>> \in MayFollow
  <2> SUFFICES ASSUME NEW x \in Range(db) PROVE <<x, q>> \in MayFollow OBVIOUS
  <2>1. x # q /\ x \in Item /\ x # Shutdown BY <1>3, LineTypes DEF Line
  <2>2. x \in Row => q \notin before[x] BY <1>3 DEF Earlier
  <2> QED BY <1>0, <2>1, <2>2 DEF MayFollow
<1>5. Range(batch) = {} /\ Range(queue) = {} BY RangeEmpty
<1>6. InOrder'
  <2>1. Sorted(db', MayFollow) BY <1>0, <1>1, <1>4, SortedAppend DEF InOrder
  <2> QED BY <1>2, <1>5, <2>1 DEF InOrder
<1>7. Line' = Line \union {q} /\ Gone' = Gone BY <1>1 DEF Line, InFlight, Queued, Gone
<1>8. Accounted' BY <1>3, <1>7 DEF Accounted
<1>9. Earlier' /\ Sentinel' BY DEF Earlier, Sentinel
<1> QED BY <1>6, <1>8, <1>9

\* The oldest entry of the queue leaves it: what follows is still in order,
\* and the entry itself is no longer queued.
LEMMA HeadLeaves ==
  ASSUME TypeOK, LineInv, Take, UNCHANGED <<before, closeDue>>
  PROVE  /\ MayFollow' = MayFollow
         /\ Sorted(queue', MayFollow)
         /\ Range(queue) = {Head(queue)} \union Range(queue')
         /\ \A y \in Range(queue') : <<Head(queue), y>> \in MayFollow
         /\ Head(queue) \notin Range(queue') /\ Head(queue) \in Item
         /\ Head(queue) # Shutdown => Head(queue) \in Queued /\ Queued' = Queued \ {Head(queue)}
         /\ Head(queue) = Shutdown => Queued' = Queued /\ closeDue \intersect Range(queue') = {}
<1>1. queue # <<>> /\ queue' = Tail(queue) /\ queue \in Seq(Item) BY DEF Take, TypeOK
<1>2. Range(queue) = {Head(queue)} \union Range(queue') /\ Head(queue) \in Item BY TakeEffect
<1>3. Sorted(queue', MayFollow) /\ \A y \in Range(queue') : <<Head(queue), y>> \in MayFollow
  BY <1>1, SortedTail DEF LineInv, InOrder
<1>4. MayFollow' = MayFollow BY DEF MayFollow
<1>5. Head(queue) \notin Range(queue') BY <1>3 DEF MayFollow
<1>6. Head(queue) = Shutdown => closeDue \intersect Range(queue') = {} BY <1>3 DEF MayFollow
<1> QED BY <1>2, <1>3, <1>4, <1>5, <1>6 DEF Queued

\* The oldest entry of the queue is evicted, the sentinel or a row.
LEMMA HeadShed ==
  ASSUME TypeOK, LineInv, Take,
         shed' = shed \union ({Head(queue)} \ {Shutdown}),
         UNCHANGED <<writerVars, tableVars, closeVars, before>>,
         HandedOver' = HandedOver, Done' = Done
  PROVE  LineInv'
<1> USE DEF LineInv, tableVars, writerVars, closeVars
<1> DEFINE h == Head(queue)
<1>1. /\ MayFollow' = MayFollow
      /\ Sorted(queue', MayFollow)
      /\ Range(queue) = {h} \union Range(queue') /\ h \notin Range(queue')
      /\ h # Shutdown => h \in Queued /\ Queued' = Queued \ {h}
      /\ h = Shutdown => Queued' = Queued
  BY HeadLeaves
<1> HIDE DEF h
<1>2. InOrder' BY <1>1 DEF InOrder
<1>3. Accounted'
  <2>1. CASE h = Shutdown
    <3>1. Line' = Line /\ shed' = shed BY <1>1, <2>1 DEF Line, InFlight, h
    <3> QED BY <3>1 DEF Accounted, Gone
  <2>2. CASE h # Shutdown
    <3>1. shed' = shed \union {h} /\ h \in Line /\ h \notin Gone BY <1>1, <2>2 DEF Line, InFlight, Accounted, h
    <3>2. h \notin Range(db) /\ h \notin Range(batch)
      <4>1. h \in Range(queue) BY <1>1
      <4> QED BY <4>1, PartsDiffer
    <3>3. Line' = Line \ {h} BY <1>1, <2>2, <3>2 DEF Line, InFlight
    <3> QED BY <3>1, <3>3 DEF Accounted, Gone
  <2> QED BY <2>1, <2>2
<1>4. Earlier' /\ Sentinel' BY <1>1 DEF Earlier, Sentinel
<1> QED BY <1>2, <1>3, <1>4

-----------------------------------------------------------------------------
(* The writer and the line. *)

\* The writer takes the sentinel: nothing it waited for is behind it.
LEMMA SentinelTaken ==
  ASSUME TypeOK, LineInv, Take, Head(queue) = Shutdown, stopping' = TRUE, batch' = batch, wpc' # "stopped",
         UNCHANGED <<rec, shed, tableVars, closeVars, before>>
  PROVE  LineInv'
<1> USE DEF LineInv, tableVars, closeVars
<1>1. /\ MayFollow' = MayFollow
      /\ Sorted(queue', MayFollow)
      /\ Range(queue) = {Shutdown} \union Range(queue')
      /\ Queued' = Queued /\ closeDue \intersect Range(queue') = {}
  BY HeadLeaves
<1>2. InOrder' BY <1>1 DEF InOrder
<1>3. Accounted' BY <1>1 DEF Accounted, Line, InFlight, Gone, HandedOver
<1>4. Sentinel' BY <1>1 DEF Sentinel
<1> QED BY <1>2, <1>3, <1>4 DEF Earlier, Done

\* The writer takes a row: it stands last in the batch, before all the queue.
LEMMA RowTaken ==
  ASSUME TypeOK, LineInv, Take, Head(queue) # Shutdown, batch' = Append(batch, Head(queue)),
         UNCHANGED <<rec, shed, stopping, tableVars, closeVars, before>>, wpc' # "stopped"
  PROVE  LineInv'
<1> USE DEF LineInv, tableVars, closeVars
<1> DEFINE h == Head(queue)
<1>1. /\ MayFollow' = MayFollow
      /\ Sorted(queue', MayFollow)
      /\ Range(queue) = {h} \union Range(queue') /\ h \notin Range(queue') /\ h \in Item
      /\ \A y \in Range(queue') : <<h, y>> \in MayFollow
      /\ h \in Queued /\ Queued' = Queued \ {h}
  BY HeadLeaves
<1>2. batch \in Seq(Item) BY DEF TypeOK, Item
<1>3. batch' = Append(batch, h) /\ Range(batch') = Range(batch) \union {h} BY <1>1, <1>2, RangeAppend
<1> HIDE DEF h
<1>4. \A x \in Range(batch) \union Range(db) : <<x, h>> \in MayFollow BY <1>1 DEF InOrder
<1>5. Sorted(batch', MayFollow) BY <1>1, <1>2, <1>3, <1>4, SortedAppend DEF InOrder
<1>6. InOrder' BY <1>1, <1>3, <1>4, <1>5 DEF InOrder
<1>7. Line' = Line BY <1>1, <1>3 DEF Line, InFlight
<1>8. Accounted' BY <1>7 DEF Accounted, Gone, HandedOver
<1>9. Sentinel' BY <1>1 DEF Sentinel
<1> QED BY <1>6, <1>8, <1>9 DEF Earlier, Done

\* The batch is written behind the table, or lost with its transaction.
LEMMA BatchWritten ==
  ASSUME TypeOK, LineInv, batch' = <<>>, wpc' # "stopped",
         \/ db' = db \o batch /\ UNCHANGED lost
         \/ lost' = lost \union Range(batch) /\ UNCHANGED db,
         UNCHANGED <<rec, queue, stopping, shed, cleared, closeVars, before>>
  PROVE  LineInv'
<1> USE DEF LineInv, closeVars
<1>0. db \in Seq(Item) /\ batch \in Seq(Item) BY DEF TypeOK, Item
<1>1. MayFollow' = MayFollow BY DEF MayFollow
<1>2. Range(batch') = {} /\ Sorted(batch', MayFollow) BY RangeEmpty, SortedEmpty
<1>3. Queued' = Queued BY DEF Queued
<1>4. CASE db' = db \o batch /\ UNCHANGED lost
  <2>1. Range(db') = Range(db) \union Range(batch) BY <1>0, <1>4, EndToEnd
  <2>2. Sorted(db', MayFollow)
    <3>1. \A x \in Range(db), y \in Range(batch) : <<x, y>> \in MayFollow BY DEF InOrder
    <3> QED BY <1>0, <1>4, <3>1, SortedEndToEnd DEF InOrder
  <2>3. InOrder' BY <1>1, <1>2, <2>1, <2>2 DEF InOrder
  <2>4. Line' = Line /\ Gone' = Gone BY <1>2, <1>3, <1>4, <2>1 DEF Line, InFlight, Gone
  <2> QED BY <1>4, <2>3, <2>4 DEF Accounted, HandedOver, Earlier, Done, Sentinel
<1>5. CASE lost' = lost \union Range(batch) /\ UNCHANGED db
  <2>1. InOrder' BY <1>1, <1>2, <1>5 DEF InOrder
  <2>2. Range(batch) \intersect (Range(db) \union Queued) = {} BY PartsDiffer DEF Queued
  <2>3. Line' = Line \ Range(batch) /\ Gone' = Gone \union Range(batch) /\ Range(batch) \subseteq Line
    BY <1>2, <1>3, <1>5, <2>2 DEF Line, InFlight, Gone
  <2>4. Accounted' BY <1>5, <2>3 DEF Accounted, Gone, HandedOver
  <2> QED BY <2>1, <2>4 DEF Earlier, Done, Sentinel
<1> QED BY <1>4, <1>5

\* clear() empties the table.
LEMMA TableCleared ==
  ASSUME TypeOK, LineInv, db' = <<>>, cleared' = cleared \union Range(db),
         UNCHANGED <<rec, queue, batch, stopping, wpc, shed, lost, closeVars, before>>
  PROVE  LineInv'
<1> USE DEF LineInv, closeVars
<1>1. MayFollow' = MayFollow BY DEF MayFollow
<1>2. Range(db') = {} /\ Sorted(db', MayFollow) BY RangeEmpty, SortedEmpty
<1>3. InOrder' BY <1>1, <1>2 DEF InOrder
<1>4. InFlight' = InFlight BY DEF Queued, InFlight
<1>5. Range(db) \intersect InFlight = {} BY PartsDiffer DEF Queued, InFlight
<1>6. Line' = Line \ Range(db) /\ Gone' = Gone \union Range(db) /\ Range(db) \subseteq Line
  BY <1>2, <1>4, <1>5 DEF Line, Gone
<1>7. Accounted' BY <1>6 DEF Accounted, Gone, HandedOver
<1> QED BY <1>3, <1>7 DEF Earlier, Done, Sentinel

\* close() queues the sentinel behind everything that is outstanding.
LEMMA SentinelQueued ==
  ASSUME TypeOK, Handed, LineInv, ClosePut
  PROVE  LineInv'
<1> USE DEF LineInv, tableVars, writerVars, dropVars
<1>0. closeDue = {} /\ Shutdown \notin Range(queue) /\ ~stopping BY DEF ClosePut, Sentinel
<1>1. queue' = Append(queue, Shutdown) /\ Range(queue') = Range(queue) \union {Shutdown} /\ queue \in Seq(Item)
      /\ Shutdown \in Item /\ Shutdown \notin Row
  BY LineTypes, PutEffect DEF ClosePut, Put, TypeOK
<1>2. /\ UNCHANGED <<batch, wpc, stopping, db, lost, cleared, shed, rec, before>>
      /\ cpc' = "join" /\ closeDue' = InFlight
  BY DEF ClosePut
<1>3. \A x \in Item \ {Shutdown}, y \in Item : <<x, y>> \in MayFollow => <<x, y>> \in MayFollow'
  BY <1>2 DEF MayFollow
<1>4. \A x \in Item \ {Shutdown} : <<x, Shutdown>> \in MayFollow'
  <2> SUFFICES ASSUME NEW x \in Item \ {Shutdown} PROVE <<x, Shutdown>> \in MayFollow' OBVIOUS
  <2>1. x \in Row => Shutdown \notin before'[x] BY <1>1, <1>2 DEF Earlier, Done
  <2> QED BY <1>1, <2>1 DEF MayFollow
<1>5. Range(db) \subseteq Item \ {Shutdown} /\ Range(batch) \subseteq Item \ {Shutdown}
      /\ Range(queue) \subseteq Item \ {Shutdown}
  BY <1>0, LineTypes
<1>6. InOrder'
  <2>1. Sorted(db, MayFollow') BY <1>3, <1>5, SortedIn DEF InOrder
  <2>2. Sorted(batch, MayFollow') BY <1>3, <1>5, SortedIn DEF InOrder
  <2>3. Sorted(queue, MayFollow') BY <1>3, <1>5, SortedIn DEF InOrder
  <2>4. Sorted(queue', MayFollow') BY <1>1, <1>4, <1>5, <2>3, SortedAppend
  <2>5. /\ Range(db) \X Range(batch) \subseteq MayFollow'
        /\ Range(db) \X Range(queue) \subseteq MayFollow'
        /\ Range(batch) \X Range(queue) \subseteq MayFollow'
    BY <1>3, <1>5 DEF InOrder
  <2>6. /\ Range(db) \X Range(queue') \subseteq MayFollow'
        /\ Range(batch) \X Range(queue') \subseteq MayFollow'
    BY <1>1, <1>4, <1>5, <2>5
  <2> QED BY <1>2, <2>1, <2>2, <2>4, <2>5, <2>6 DEF InOrder
<1>7. InFlight' = InFlight BY <1>1, <1>2 DEF InFlight, Queued
<1>8. Accounted' BY <1>2, <1>7 DEF Accounted, Line, Gone, HandedOver
<1>9. Earlier' BY <1>2 DEF Earlier, Done, Handed
<1>10. Sentinel' BY <1>0, <1>2 DEF Sentinel
<1> QED BY <1>6, <1>8, <1>9, <1>10

-----------------------------------------------------------------------------
(* Every step keeps the line. *)

\* When a record() call moves, its row is handed over at the latest when it
\* returns, and once.
LEMMA HandedMoves ==
  ASSUME TypeOK, NEW q \in Row, NEW from, NEW to, MoveRecord(q, from, to)
  PROVE  /\ {from, to} \intersect {"refused", "done"} = {} => HandedOver' = HandedOver /\ Done' = Done
         /\ from \notin {"refused", "done"} /\ to = "done" =>
              q \notin HandedOver /\ HandedOver' = HandedOver \union {q} /\ Done' = Done \union {q}
         /\ from \notin {"refused", "done"} /\ to = "refused" =>
              q \notin HandedOver /\ HandedOver' = HandedOver \union {q} /\ Done' = Done
         /\ from = "refused" /\ to = "done" => HandedOver' = HandedOver /\ Done \subseteq Done'
<1>1. rec \in [Row -> RecordStage] /\ rec[q] = from /\ rec' = [rec EXCEPT ![q] = to]
  BY DEF TypeOK, MoveRecord
<1>2. \A p \in Row : rec'[p] = IF p = q THEN to ELSE rec[p] BY <1>1
<1> QED BY <1>1, <1>2 DEF HandedOver, Done

\* store.py:95-132: what record() does to the line.
LEMMA RecordKeepsLine ==
  ASSUME IInv, LineInv, NEW q \in Row, RecordStep(q) \/ Begin(q)
  PROVE  LineInv'
<1> USE DEF queueVars, writerVars, dropVars, tableVars, closeVars
<1>0. TypeOK /\ WriterShape /\ SyncIdle BY DEF IInv
<1>1. ASSUME NEW from, NEW to, MoveRecord(q, from, to),
             {from, to} \intersect {"refused", "done"} = {} \/ (from = "refused" /\ to = "done"),
             UNCHANGED <<queue, writerVars, shed, tableVars, before, closeVars>>
      PROVE  LineInv'
  <2>1. HandedOver' = HandedOver /\ Done \subseteq Done' BY <1>0, <1>1, HandedMoves
  <2> QED BY <1>0, <1>1, <2>1, LineStays
<1>2. CASE Begin(q)
  <2>1. MoveRecord(q, "idle", "put") BY <1>2 DEF Begin
  <2>2. HandedOver' = HandedOver /\ Done' = Done BY <1>0, <2>1, HandedMoves
  <2>3. q \notin HandedOver BY <2>1 DEF MoveRecord, HandedOver
  <2>4. \A x \in Row : before'[x] = before[x] \/ (x \notin HandedOver /\ before'[x] \subseteq Done')
    <3>1. before \in [Row -> SUBSET Row] /\ before' = [before EXCEPT ![q] = Done]
      BY <1>0, <1>2 DEF Begin, TypeOK, Done
    <3> QED BY <2>2, <2>3, <3>1
  <2> QED BY <1>0, <1>2, <2>2, <2>4, LineStays DEF Begin
<1>3. CASE RecordSync(q)
  <2>1. queue = <<>> /\ batch = <<>> BY <1>0, <1>3 DEF RecordSync, SyncIdle, WriterShape
  <2>2. CASE MoveRecord(q, "put", "done") /\ db' = Append(db, q)
    <3>1. q \notin HandedOver /\ HandedOver' = HandedOver \union {q} /\ Done' = Done \union {q}
      BY <1>0, <2>2, HandedMoves
    <3> QED BY <1>0, <1>3, <2>1, <2>2, <3>1, RowWritten DEF RecordSync
  <2>3. CASE MoveRecord(q, "put", "raised") /\ db' = db BY <1>1, <1>3, <2>3 DEF RecordSync
  <2> QED BY <1>3, <2>2, <2>3 DEF RecordSync
<1>4. CASE RecordPut(q) \/ RecordRetry(q)
  <2>1. PICK from \in {"put", "retry"} : MoveRecord(q, from, "done") BY <1>4 DEF RecordPut, RecordRetry
  <2>2. q \notin HandedOver /\ HandedOver' = HandedOver \union {q} /\ Done' = Done \union {q}
    BY <1>0, <2>1, HandedMoves
  <2> QED BY <1>0, <1>4, <2>2, RowJoins DEF RecordPut, RecordRetry
<1>5. CASE RecordShed(q)
  <2>1. HandedOver' = HandedOver /\ Done' = Done BY <1>0, <1>5, HandedMoves DEF RecordShed
  <2>2. shed' = shed \union ({Head(queue)} \ {Shutdown}) BY <1>5 DEF RecordShed
  <2> QED BY <1>0, <1>5, <2>1, <2>2, HeadShed DEF RecordShed
<1>6. CASE RecordRefused(q)
  <2>1. MoveRecord(q, "retry", "refused") BY <1>6 DEF RecordRefused
  <2>2. q \notin HandedOver /\ HandedOver' = HandedOver \union {q} /\ Done' = Done
    BY <1>0, <2>1, HandedMoves
  <2> QED BY <1>0, <1>6, <2>2, RowRefused DEF RecordRefused
<1>7. CASE RecordFull(q) BY <1>1, <1>7 DEF RecordFull
<1>8. CASE RecordNothingToShed(q) BY <1>1, <1>8 DEF RecordNothingToShed
<1>9. CASE RecordShedAck(q) BY <1>1, <1>9 DEF RecordShedAck, TaskDone
<1>10. CASE RecordShedCount(q) BY <1>1, <1>10 DEF RecordShedCount
<1>11. CASE RecordRefusedCount(q) BY <1>1, <1>11 DEF RecordRefusedCount
<1> QED BY <1>2, <1>3, <1>4, <1>5, <1>6, <1>7, <1>8, <1>9, <1>10, <1>11 DEF RecordStep

\* A step that is no record() call's and moves nothing in the line.
LEMMA OthersKeepLine ==
  ASSUME TypeOK, LineInv,
         UNCHANGED <<queue, batch, stopping, shed, tableVars, rec, before, closeDue>>,
         cpc' \in {"open", "put"} => cpc \in {"open", "put"},
         wpc' = "stopped" => wpc = "stopped" \/ stopping
  PROVE  LineInv'
<1>1. HandedOver' = HandedOver /\ Done' = Done BY DEF HandedOver, Done
<1> QED BY <1>1, LineStays

\* store.py:145-183: what the writer does to it.
LEMMA WriterKeepsLine ==
  ASSUME IInv, LineInv, WriterStep
  PROVE  LineInv'
<1> USE DEF queueVars, writerVars, dropVars, tableVars, closeVars
<1>0. TypeOK /\ WriterShape BY DEF IInv
<1>1. CASE WriterStart \/ WriterFilled BY <1>0, <1>1, OthersKeepLine DEF WriterStart, WriterFilled
<1>2. CASE WriterAck
  <2>1. wpc' = "stopped" => stopping BY <1>2 DEF WriterAck
  <2> QED BY <1>0, <1>2, <2>1, OthersKeepLine DEF WriterAck, TaskDone
<1>3. CASE WriterGet \/ WriterFill
  <2>1. CASE Head(queue) = Shutdown BY <1>0, <1>3, <2>1, SentinelTaken DEF WriterGet, WriterFill
  <2>2. CASE Head(queue) # Shutdown
    <3>1. batch' = Append(batch, Head(queue))
      <4>1. CASE WriterGet
        <5>1. batch = <<>> /\ batch' = <<Head(queue)>> BY <1>0, <2>2, <4>1 DEF WriterGet, WriterShape
        <5> QED BY <5>1
      <4>2. CASE WriterFill BY <2>2, <4>2 DEF WriterFill
      <4> QED BY <1>3, <4>1, <4>2
    <3>2. wpc' # "stopped" /\ UNCHANGED stopping BY <1>3, <2>2 DEF WriterGet, WriterFill
    <3> QED BY <1>0, <1>3, <2>2, <3>1, <3>2, RowTaken DEF WriterGet, WriterFill
  <2> QED BY <2>1, <2>2
<1>4. CASE WriterWrite BY <1>0, <1>4, BatchWritten DEF WriterWrite
<1> QED BY <1>1, <1>2, <1>3, <1>4 DEF WriterStep

LEMMA LineKept == IInv /\ LineInv /\ [Next]_vars => LineInv'
<1> SUFFICES ASSUME IInv, LineInv, [Next]_vars PROVE LineInv' OBVIOUS
<1> USE DEF queueVars, writerVars, dropVars, tableVars, closeVars
<1>0. TypeOK /\ Handed BY DEF IInv
<1>1. ASSUME NEW r \in Reader, (\E query \in Queries : ReadBegin(r, query)) \/ ReadStep(r) PROVE LineInv'
  <2>1. CASE Clear(r) BY <1>0, <2>1, TableCleared DEF Clear, ReadEnd
  <2>2. CASE ~Clear(r)
    BY <1>0, <1>1, <2>2, OthersKeepLine
    DEF ReadBegin, ReadStep, ReadFlushed, ReadEvents, ReadCounts, ReadTotal, ReadEnd
  <2> QED BY <2>1, <2>2
<1>2. CASE ClosePut BY <1>0, <1>2, SentinelQueued
<1>3. CASE CloseBegin \/ CloseJoin BY <1>0, <1>3, OthersKeepLine DEF CloseBegin, CloseJoin
<1>4. CASE UNCHANGED vars BY <1>0, <1>4, OthersKeepLine DEF vars
<1> QED BY <1>1, <1>2, <1>3, <1>4, RecordKeepsLine, WriterKeepsLine DEF Next, CloseStep

LEMMA LineBegins == Init => LineInv
<1> SUFFICES ASSUME Init PROVE LineInv OBVIOUS
<1>1. Range(db) = {} /\ Range(queue) = {} /\ Range(batch) = {} BY RangeEmpty DEF Init
<1>2. InOrder BY <1>1, SortedEmpty DEF Init, InOrder
<1>3. Accounted BY <1>1 DEF Init, Accounted, Line, Gone, InFlight, Queued, HandedOver
<1>4. Earlier /\ Sentinel BY <1>1 DEF Init, Earlier, Sentinel
<1> QED BY <1>2, <1>3, <1>4 DEF LineInv

-----------------------------------------------------------------------------
(* The drop counter. *)

Uncounted == {q \in Row : rec[q] \in {"ack", "count", "refused"}}

LEMMA UncountedMoves ==
  ASSUME TypeOK, NEW q \in Row, NEW from, NEW to, MoveRecord(q, from, to)
  PROVE  /\ Cardinality(Uncounted) \in Nat
         /\ (from \in {"ack", "count", "refused"} <=> to \in {"ack", "count", "refused"}) => Uncounted' = Uncounted
         /\ from \notin {"ack", "count", "refused"} /\ to \in {"ack", "count", "refused"} =>
              Cardinality(Uncounted') = Cardinality(Uncounted) + 1
         /\ from \in {"ack", "count", "refused"} /\ to \notin {"ack", "count", "refused"} =>
              Cardinality(Uncounted') = Cardinality(Uncounted) - 1
<1> DEFINE Stage == {"ack", "count", "refused"}
<1> HIDE DEF Stage
<1>1. rec' = [rec EXCEPT ![q] = to] /\ rec[q] = from /\ rec \in [Row -> RecordStage]
  BY DEF MoveRecord, TypeOK
<1>2. Uncounted = {p \in Row : rec[p] \in Stage} /\ Uncounted' = {p \in Row : rec'[p] \in Stage}
  BY DEF Uncounted, Stage
<1>3. IsFiniteSet(Uncounted) /\ Cardinality(Uncounted) \in Nat
  BY StoreAssumption, FS_Subset, FS_CardinalityType DEF StoreAssumption, Uncounted
<1>4. CASE from \in Stage <=> to \in Stage BY <1>1, <1>2, <1>3, <1>4 DEF Stage
<1>5. CASE from \notin Stage /\ to \in Stage
  <2>1. Uncounted' = Uncounted \union {q} /\ q \notin Uncounted BY <1>1, <1>2, <1>5
  <2> QED BY <1>3, <1>5, <2>1, FS_AddElement DEF Stage
<1>6. CASE from \in Stage /\ to \notin Stage
  <2>1. Uncounted' = Uncounted \ {q} /\ q \in Uncounted BY <1>1, <1>2, <1>6
  <2> QED BY <1>3, <1>6, <2>1, FS_RemoveElement DEF Stage
<1> QED BY <1>4, <1>5, <1>6 DEF Stage

LEMMA ShedGrows ==
  ASSUME TypeOK
  PROVE  /\ Cardinality(shed) \in Nat
         /\ \A q \in Row : q \notin shed => Cardinality(shed \union {q}) = Cardinality(shed) + 1
<1>1. IsFiniteSet(shed) BY StoreAssumption, FS_Subset DEF StoreAssumption, TypeOK
<1> QED BY <1>1, FS_CardinalityType, FS_AddElement

\* store.py:118-132: the counter and what it runs behind by.
LEMMA DropsKept == IInv /\ LineInv /\ DropsCounted /\ [Next]_vars => DropsCounted'
<1> SUFFICES ASSUME IInv, LineInv, DropsCounted, [Next]_vars PROVE DropsCounted' OBVIOUS
<1> USE DEF dropVars
<1>0. TypeOK BY DEF IInv
<1>d. dropped + Cardinality(Uncounted) = Cardinality(shed) + evicted BY DEF DropsCounted, Uncounted
<1>g. DropsCounted' <=> dropped' + Cardinality(Uncounted') = Cardinality(shed') + evicted'
  BY DEF DropsCounted, Uncounted
<1>n. dropped \in Nat /\ evicted \in Nat BY <1>0 DEF TypeOK
<1>1. ASSUME NEW q \in Row, Begin(q) \/ RecordStep(q) PROVE DropsCounted'
  <2>1. ASSUME NEW from \in {"idle", "put", "full", "retry"},
               NEW to \in {"put", "full", "retry", "done", "raised"},
               MoveRecord(q, from, to), UNCHANGED dropVars
        PROVE  DropsCounted'
    <3>1. Uncounted' = Uncounted BY <1>0, <2>1, UncountedMoves
    <3> QED BY <1>d, <1>g, <2>1, <3>1
  <2>2. CASE RecordShed(q)
    <3>1. MoveRecord(q, "full", "ack") /\ dropped' = dropped BY <2>2 DEF RecordShed
    <3>2. Cardinality(Uncounted) \in Nat /\ Cardinality(Uncounted') = Cardinality(Uncounted) + 1
      BY <1>0, <3>1, UncountedMoves
    <3>3. CASE Head(queue) = Shutdown
      <4>1. evicted' = evicted + 1 /\ shed' = shed BY <2>2, <3>3 DEF RecordShed
      <4> QED BY <1>0, <1>d, <1>g, <1>n, <3>1, <3>2, <4>1, ShedGrows
    <3>4. CASE Head(queue) # Shutdown
      <4>1. evicted' = evicted /\ shed' = shed \union {Head(queue)} BY <2>2, <3>4 DEF RecordShed
      <4>2. Head(queue) \in Queued
        BY <1>0, <2>2, <3>4, TakeEffect DEF RecordShed, Queued
      <4>3. Head(queue) \in Row /\ Head(queue) \notin shed
        BY <1>0, <4>2, LineTypes DEF LineInv, Accounted, Line, InFlight, Gone
      <4>4. Cardinality(shed) \in Nat /\ Cardinality(shed') = Cardinality(shed) + 1
        BY <1>0, <4>1, <4>3, ShedGrows
      <4> QED BY <1>d, <1>g, <1>n, <3>1, <3>2, <4>1, <4>4
    <3> QED BY <3>3, <3>4
  <2>3. CASE RecordRefused(q)
    <3>1. MoveRecord(q, "retry", "refused") /\ dropped' = dropped /\ evicted' = evicted /\ shed' = shed \union {q}
      BY <2>3 DEF RecordRefused
    <3>2. Cardinality(Uncounted) \in Nat /\ Cardinality(Uncounted') = Cardinality(Uncounted) + 1
      BY <1>0, <3>1, UncountedMoves
    <3>3. q \notin shed BY <3>1 DEF MoveRecord, LineInv, Accounted, HandedOver, Gone
    <3>4. Cardinality(shed) \in Nat /\ Cardinality(shed') = Cardinality(shed) + 1
      BY <1>0, <3>1, <3>3, ShedGrows
    <3> QED BY <1>d, <1>g, <1>n, <3>1, <3>2, <3>4
  <2>4. CASE RecordShedAck(q)
    <3>1. MoveRecord(q, "ack", "count") /\ UNCHANGED dropVars BY <2>4 DEF RecordShedAck
    <3>2. Uncounted' = Uncounted BY <1>0, <3>1, UncountedMoves
    <3> QED BY <1>d, <1>g, <3>1, <3>2
  <2>5. CASE RecordShedCount(q) \/ RecordRefusedCount(q)
    <3>1. PICK from \in {"count", "refused"}, to \in {"retry", "done"} : MoveRecord(q, from, to)
      BY <2>5 DEF RecordShedCount, RecordRefusedCount
    <3>2. Cardinality(Uncounted) \in Nat /\ Cardinality(Uncounted') = Cardinality(Uncounted) - 1
      BY <1>0, <3>1, UncountedMoves
    <3>3. dropped' = dropped + 1 /\ evicted' = evicted /\ shed' = shed
      BY <2>5 DEF RecordShedCount, RecordRefusedCount
    <3> QED BY <1>0, <1>d, <1>g, <1>n, <3>2, <3>3, ShedGrows
  <2>6. CASE Begin(q) BY <2>1, <2>6 DEF Begin
  <2>7. CASE RecordSync(q) BY <2>1, <2>7 DEF RecordSync
  <2>8. CASE RecordPut(q) BY <2>1, <2>8 DEF RecordPut
  <2>9. CASE RecordFull(q) BY <2>1, <2>9 DEF RecordFull
  <2>10. CASE RecordNothingToShed(q) BY <2>1, <2>10 DEF RecordNothingToShed
  <2>11. CASE RecordRetry(q) BY <2>1, <2>11 DEF RecordRetry
  <2> QED BY <1>1, <2>2, <2>3, <2>4, <2>5, <2>6, <2>7, <2>8, <2>9, <2>10, <2>11 DEF RecordStep
<1>2. ASSUME UNCHANGED <<rec, dropVars>> PROVE DropsCounted' BY <1>2 DEF DropsCounted
<1>3. CASE WriterStep
  BY <1>2, <1>3 DEF WriterStep, WriterStart, WriterGet, WriterFill, WriterFilled, WriterWrite, WriterAck
<1>4. ASSUME NEW r \in Reader, (\E query \in Queries : ReadBegin(r, query)) \/ ReadStep(r) PROVE DropsCounted'
  BY <1>2, <1>4 DEF ReadBegin, ReadStep, ReadFlushed, ReadEvents, ReadCounts, ReadTotal, Clear, ReadEnd
<1>5. CASE CloseStep BY <1>2, <1>5 DEF CloseStep, CloseBegin, ClosePut, CloseJoin
<1>6. CASE UNCHANGED vars BY <1>2, <1>6 DEF vars
<1> QED BY <1>1, <1>3, <1>4, <1>5, <1>6 DEF Next

-----------------------------------------------------------------------------
(* Where a row is. *)

\* An ordered sequence has a row at one position at most.
LEMMA OnePosition ==
  ASSUME NEW s, NEW S, s \in Seq(S), Sorted(s, MayFollow), NEW q
  PROVE  /\ q \notin Range(s) => {j \in DOMAIN s : s[j] = q} = {}
         /\ q \in Range(s) => \E i : {j \in DOMAIN s : s[j] = q} = {i}
<1>1. ASSUME q \in Range(s) PROVE \E i : {j \in DOMAIN s : s[j] = q} = {i}
  <2>1. PICK i \in DOMAIN s : s[i] = q BY <1>1 DEF Range
  <2>2. ASSUME NEW j \in DOMAIN s, s[j] = q, j # i PROVE FALSE
    <3>1. i < j \/ j < i BY <2>2
    <3>2. <<q, q>> \in MayFollow BY <2>1, <2>2, <3>1 DEF Sorted
    <3> QED BY <3>2 DEF MayFollow
  <2>3. {j \in DOMAIN s : s[j] = q} = {i} BY <2>1, <2>2
  <2> QED BY <2>3
<1>2. q \notin Range(s) => {j \in DOMAIN s : s[j] = q} = {} BY DEF Range
<1> QED BY <1>1, <1>2

\* A row that was handed over has one place, another has none.
LEMMA EachInPlace == IInv /\ LineInv => InOnePlace
<1> SUFFICES ASSUME IInv, LineInv, NEW q \in Row
             PROVE  Cardinality(Places(q)) = IF rec[q] \in {"refused", "done"} THEN 1 ELSE 0
  BY DEF InOnePlace
<1>0. TypeOK BY DEF IInv
<1> DEFINE Q == {i \in DOMAIN queue : queue[i] = q}
           B == {i \in DOMAIN batch : batch[i] = q}
           D == {i \in DOMAIN db : db[i] = q}
           G == {t \in {1, 2, 3} : q \in <<lost, cleared, shed>>[t]}
<1>1. q \notin Range(queue) => Q = {} BY <1>0, OnePosition DEF TypeOK, LineInv, InOrder
<1>2. q \notin Range(batch) => B = {} BY <1>0, OnePosition DEF TypeOK, LineInv, InOrder
<1>3. q \notin Range(db) => D = {} BY <1>0, OnePosition DEF TypeOK, LineInv, InOrder
<1>4. q \in Range(queue) => \E i : Q = {i} BY <1>0, OnePosition DEF TypeOK, LineInv, InOrder
<1>5. q \in Range(batch) => \E i : B = {i} BY <1>0, OnePosition DEF TypeOK, LineInv, InOrder
<1>6. q \in Range(db) => \E i : D = {i} BY <1>0, OnePosition DEF TypeOK, LineInv, InOrder
<1>7. q \notin Gone => G = {}
  <2>1. \A t \in {1, 2, 3} : <<lost, cleared, shed>>[t] \in {lost, cleared, shed} OBVIOUS
  <2> QED BY <2>1 DEF Gone
<1>8. q \in Gone => \E t : G = {t}
  <2>1. q \in lost => G = {1} BY DEF LineInv, Accounted
  <2>2. q \in cleared => G = {2} BY DEF LineInv, Accounted
  <2>3. q \in shed => G = {3} BY DEF LineInv, Accounted
  <2> QED BY <2>1, <2>2, <2>3 DEF Gone
<1>9. Places(q) = {q} \X ({<<"queue", i>> : i \in Q} \union {<<"batch", i>> : i \in B}
                          \union {<<"db", i>> : i \in D} \union {<<"gone", t>> : t \in G})
  BY DEF Places
<1> HIDE DEF Q, B, D, G
<1>10. q \in Queued <=> q \in Range(queue) BY <1>0, LineTypes
<1>11. ASSUME NEW p, Places(q) = {p} PROVE Cardinality(Places(q)) = 1 BY <1>11, FS_Singleton
<1>12. CASE rec[q] \notin {"refused", "done"}
  <2>1. q \notin Line /\ q \notin Gone BY <1>12 DEF LineInv, Accounted, HandedOver
  <2>2. q \notin Range(queue) /\ q \notin Range(batch) /\ q \notin Range(db) BY <1>10, <2>1 DEF Line, InFlight
  <2>3. Q = {} /\ B = {} /\ D = {} /\ G = {} BY <1>1, <1>2, <1>3, <1>7, <2>1, <2>2
  <2>4. Places(q) = {} BY <1>9, <2>3
  <2> QED BY <1>12, <2>4, FS_EmptySet
<1>13. CASE rec[q] \in {"refused", "done"}
  <2>0. q \in Line \/ q \in Gone BY <1>13 DEF LineInv, Accounted, HandedOver
  <2>1. CASE q \in Range(queue)
    <3>1. q \notin Range(batch) /\ q \notin Range(db) BY <2>1, PartsDiffer DEF LineInv
    <3>2. q \notin Gone BY <1>10, <2>1 DEF LineInv, Accounted, Line, InFlight
    <3>3. PICK i : Q = {i} BY <1>4, <2>1
    <3>4. B = {} /\ D = {} /\ G = {} BY <1>2, <1>3, <1>7, <3>1, <3>2
    <3>5. Places(q) = {<<q, <<"queue", i>>>>} BY <1>9, <3>3, <3>4
    <3> QED BY <1>11, <1>13, <3>5
  <2>2. CASE q \in Range(batch)
    <3>1. q \notin Range(queue) /\ q \notin Range(db) BY <2>2, PartsDiffer DEF LineInv
    <3>2. q \notin Gone BY <2>2 DEF LineInv, Accounted, Line, InFlight
    <3>3. PICK i : B = {i} BY <1>5, <2>2
    <3>4. Q = {} /\ D = {} /\ G = {} BY <1>1, <1>3, <1>7, <3>1, <3>2
    <3>5. Places(q) = {<<q, <<"batch", i>>>>} BY <1>9, <3>3, <3>4
    <3> QED BY <1>11, <1>13, <3>5
  <2>3. CASE q \in Range(db)
    <3>1. q \notin Range(queue) /\ q \notin Range(batch) BY <2>3, PartsDiffer DEF LineInv
    <3>2. q \notin Gone BY <2>3 DEF LineInv, Accounted, Line
    <3>3. PICK i : D = {i} BY <1>6, <2>3
    <3>4. Q = {} /\ B = {} /\ G = {} BY <1>1, <1>2, <1>7, <3>1, <3>2
    <3>5. Places(q) = {<<q, <<"db", i>>>>} BY <1>9, <3>3, <3>4
    <3> QED BY <1>11, <1>13, <3>5
  <2>4. CASE q \in Gone
    <3>1. q \notin Line BY <2>4 DEF LineInv, Accounted
    <3>2. q \notin Range(queue) /\ q \notin Range(batch) /\ q \notin Range(db) BY <1>10, <3>1 DEF Line, InFlight
    <3>3. PICK t : G = {t} BY <1>8, <2>4
    <3>4. Q = {} /\ B = {} /\ D = {} BY <1>1, <1>2, <1>3, <3>2
    <3>5. Places(q) = {<<q, <<"gone", t>>>>} BY <1>9, <3>3, <3>4
    <3> QED BY <1>11, <1>13, <3>5
  <2> QED BY <1>10, <2>0, <2>1, <2>2, <2>3, <2>4 DEF Line, InFlight
<1> QED BY <1>12, <1>13

-----------------------------------------------------------------------------
(* The theorems about the rows. *)

\* The line of rows, in every state the store can reach.
THEOREM LineInvariant == Spec => []LineInv
  BY Invariant, LineBegins, LineKept, PTL DEF Spec

\* store.py:95-193 and 282-286: no interleaving of record() calls, the writer,
\* clear() and failed transactions duplicates a row that was handed over or loses track of
\* it.
THEOREM RowsInOnePlace == Spec => []InOnePlace
  BY Invariant, LineInvariant, EachInPlace, PTL

\* store.py:118-132: every row shed, and every sentinel, is counted.
THEOREM ShedIsCounted == Spec => []DropsCounted
<1>1. Init => DropsCounted
  <2> SUFFICES ASSUME Init PROVE DropsCounted OBVIOUS
  <2>1. Uncounted = {} /\ shed = {} /\ dropped = 0 /\ evicted = 0 BY DEF Init, Uncounted
  <2>2. Cardinality({}) = 0 BY FS_EmptySet
  <2> QED BY <2>1, <2>2 DEF DropsCounted, Uncounted
<1> QED BY <1>1, Invariant, LineInvariant, DropsKept, PTL DEF Spec

\* store.py:95-183: if one record() returned before another began, their rows
\* are not logged the other way round.
THEOREM LoggedInOrder == Spec => []LogInOrder
<1>1. IInv /\ LineInv => LogInOrder
  <2> SUFFICES ASSUME IInv, LineInv, NEW i \in DOMAIN db, NEW j \in DOMAIN db, i < j
               PROVE  db[j] \notin before[db[i]]
    BY DEF LogInOrder
  <2>1. <<db[i], db[j]>> \in MayFollow BY DEF LineInv, InOrder, Sorted
  <2>2. db[i] \in Row BY DEF IInv, TypeOK
  <2> QED BY <2>1, <2>2 DEF MayFollow
<1> QED BY <1>1, Invariant, LineInvariant, PTL

\* store.py:145-175 and 190-193: a writer that stopped has dealt with what was
\* outstanding when close() queued its sentinel, even if the sentinel was not
\* the last entry.
THEOREM CloseHasDrained == Spec => []CloseDrains
<1>1. IInv /\ LineInv => CloseDrains
  <2> SUFFICES ASSUME IInv, LineInv, wpc = "stopped" PROVE closeDue \intersect InFlight = {}
    BY DEF CloseDrains
  <2>1. closeDue \intersect Range(queue) = {} BY DEF LineInv, Sentinel
  <2>2. Range(batch) = {} BY RangeEmpty DEF IInv, WriterShape
  <2> QED BY <2>1, <2>2 DEF InFlight, Queued
<1> QED BY <1>1, Invariant, LineInvariant, PTL

-----------------------------------------------------------------------------
(***************************************************************************)
(* The store of store.py implements the abstract log of DecisionLog, for   *)
(* every number of rows and readers and every size of queue and batch:     *)
(* what is pending is the writer's batch followed by the queue, and each   *)
(* step of a thread is a step of the abstract log or hidden from it.       *)
(***************************************************************************)

-----------------------------------------------------------------------------
(* Two sequences end to end: the batch and the queue. *)

\* An entry appended to the queue is the newest that is pending.
LEMMA AppendAtEnd ==
  ASSUME NEW S, NEW b \in Seq(S), NEW s \in Seq(S), NEW x \in S
  PROVE  b \o Append(s, x) = Append(b \o s, x)
  OBVIOUS

\* The head of the queue moves to the end of the batch: the order is the same.
LEMMA HeadMoves ==
  ASSUME NEW S, NEW b \in Seq(S), NEW s \in Seq(S), s # <<>>
  PROVE  Append(b, Head(s)) \o Tail(s) = b \o s
  OBVIOUS

\* The batch leaves: it is the oldest of what is pending, the queue the rest.
LEMMA BatchLeaves ==
  ASSUME NEW S, NEW b \in Seq(S), NEW s \in Seq(S)
  PROVE  /\ SubSeq(b \o s, 1, Len(b)) = b
         /\ SubSeq(b \o s, Len(b) + 1, Len(b \o s)) = s
<1>1. /\ b \o s \in Seq(S) /\ Len(b \o s) = Len(b) + Len(s)
      /\ Len(b) \in Nat /\ Len(s) \in Nat
      /\ \A i \in 1 .. Len(b) : (b \o s)[i] = b[i]
      /\ \A i \in 1 .. Len(s) : (b \o s)[Len(b) + i] = s[i]
  OBVIOUS
<1>2. SubSeq(b \o s, 1, Len(b)) = b
  <2> DEFINE c == SubSeq(b \o s, 1, Len(b))
  <2>1. c \in Seq(S) /\ Len(c) = Len(b) /\ \A i \in 1 .. Len(b) : c[i] = (b \o s)[i]
    BY <1>1
  <2> HIDE DEF c
  <2>2. c = b
    BY <1>1, <2>1
  <2> QED
    BY <2>2 DEF c
<1>3. SubSeq(b \o s, Len(b) + 1, Len(b \o s)) = s
  <2> DEFINE c == SubSeq(b \o s, Len(b) + 1, Len(b \o s))
  <2>1. c \in Seq(S) /\ Len(c) = Len(s) /\ \A i \in 1 .. Len(s) : c[i] = (b \o s)[Len(b) + i]
    BY <1>1
  <2> HIDE DEF c
  <2>2. c = s
    BY <1>1, <2>1
  <2> QED
    BY <2>2 DEF c
<1> QED
  BY <1>2, <1>3

\* The head of the queue is evicted: it is the entry after the batch.
LEMMA HeadRemoved ==
  ASSUME NEW S, NEW b \in Seq(S), NEW s \in Seq(S), s # <<>>
  PROVE  /\ Len(b) + 1 \in DOMAIN (b \o s)
         /\ (b \o s)[Len(b) + 1] = Head(s)
         /\ RemoveAt(b \o s, Len(b) + 1) = b \o Tail(s)
<1> DEFINE h == Head(s)
           t == Tail(s)
           c == Append(b, h)
<1>1. h \in S /\ t \in Seq(S) /\ c \in Seq(S) /\ Len(c) = Len(b) + 1 /\ c[Len(b) + 1] = h
      /\ Len(b) \in Nat /\ Len(t) \in Nat
  OBVIOUS
<1>2. c \o t = b \o s
  BY HeadMoves
<1>3. SubSeq(c \o t, Len(c) + 1, Len(c \o t)) = t
  <2> HIDE DEF c, t, h
  <2> QED
    BY <1>1, BatchLeaves
<1>4. Len(c \o t) = Len(c) + Len(t) /\ (c \o t)[Len(b) + 1] = h
  <2> HIDE DEF c, t, h
  <2>1. /\ Len(c \o t) = Len(c) + Len(t)
        /\ \A i \in 1 .. Len(c) : (c \o t)[i] = c[i]
    BY <1>1, EndToEnd
  <2>2. Len(b) + 1 \in 1 .. Len(c)
    BY <1>1
  <2> QED
    BY <1>1, <2>1, <2>2
<1>5. SubSeq(b \o s, 1, Len(b)) = b
  BY BatchLeaves
<1>6. c \o t \in Seq(S)
  BY <1>1
<1> HIDE DEF c, t, h
<1>7. RemoveAt(b \o s, Len(b) + 1) = b \o t
  <2>1. (Len(b) + 1) - 1 = Len(b) /\ (Len(b) + 1) + 1 = Len(c) + 1
    BY <1>1
  <2> QED
    BY <1>2, <1>3, <1>5, <2>1 DEF RemoveAt
<1>8. Len(b) + 1 \in DOMAIN (b \o s)
  <2>1. DOMAIN (c \o t) = 1 .. Len(c \o t)
    BY <1>6
  <2>2. Len(b) + 1 \in 1 .. Len(c \o t)
    BY <1>1, <1>4
  <2> QED
    BY <1>2, <2>1, <2>2
<1> QED
  BY <1>2, <1>4, <1>7, <1>8 DEF h, t

-----------------------------------------------------------------------------
(* What the abstract log sees of the store. *)

\* The entries pending, the rows among them and what an eviction leaves: the
\* operators DecisionLog applies are those EventStore uses.
LEMMA SeenPending ==
  ASSUME TypeOK
  PROVE  /\ batch \in Seq(Item) /\ queue \in Seq(Item)
         /\ batch \o queue \in Seq(Item)
         /\ Len(batch \o queue) = Len(batch) + Len(queue)
         /\ Log!PendingRows = InFlight
<1>1. batch \in Seq(Item) /\ queue \in Seq(Item) /\ batch \in Seq(Row)
  BY DEF TypeOK, Item
<1>2. /\ batch \o queue \in Seq(Item)
      /\ Len(batch \o queue) = Len(batch) + Len(queue)
      /\ Range(batch \o queue) = Range(batch) \union Range(queue)
  BY <1>1, EndToEnd
<1>3. Shutdown \notin Range(batch)
  BY <1>1, StoreAssumption DEF Range, StoreAssumption
<1>4. Log!PendingRows = Range(batch \o queue) \ {Shutdown}
  BY DEF Log!PendingRows, Log!Range, Range
<1> QED
  BY <1>1, <1>2, <1>3, <1>4 DEF InFlight, Queued

\* A record() call leaves the rows not handed over when it queues, refuses or
\* raises, and only then.
LEMMA SeenRecord ==
  ASSUME TypeOK, NEW q \in Row, NEW from, NEW to, MoveRecord(q, from, to),
         from \in {"idle", "put", "full", "ack", "count", "retry"}
  PROVE  /\ q \in NotHandedOver
         /\ to \in {"idle", "put", "full", "ack", "count", "retry"} =>
              NotHandedOver' = NotHandedOver /\ Raised' = Raised
         /\ to \in {"done", "refused"} =>
              NotHandedOver' = NotHandedOver \ {q} /\ Raised' = Raised
         /\ to = "raised" =>
              NotHandedOver' = NotHandedOver \ {q} /\ Raised' = Raised \union {q}
<1>1. rec \in [Row -> RecordStage] /\ rec[q] = from /\ rec' = [rec EXCEPT ![q] = to]
  BY DEF TypeOK, MoveRecord
<1>2. \A p \in Row : rec'[p] = IF p = q THEN to ELSE rec[p]
  BY <1>1
<1> QED
  BY <1>1, <1>2 DEF NotHandedOver, Raised

-----------------------------------------------------------------------------
(* Initial states and steps. *)

\* A store just built is an empty abstract log.
LEMMA InitImplements == Init => Log!Init
<1> SUFFICES ASSUME Init PROVE Log!Init
  OBVIOUS
<1>1. NotHandedOver = Row /\ Raised = {}
  BY DEF Init, NotHandedOver, Raised
<1>2. batch \o queue = <<>>
  <2>1. batch = <<>> /\ queue = <<>>
    BY DEF Init
  <2> QED
    BY <2>1
<1>3. {r \in Reader : rpc[r] # "idle"} = {}
  BY DEF Init
<1> QED
  BY <1>1, <1>2, <1>3 DEF Init, Log!Init

\* A row enters the queue.
LEMMA AcceptImplements ==
  ASSUME IInv, NEW q \in Row, NEW from, MoveRecord(q, from, "done"), Put(q),
         from \in {"idle", "put", "full", "ack", "count", "retry"},
         UNCHANGED <<writerVars, readerVars, dropVars, tableVars>>
  PROVE  Log!Accept(q)
<1>1. TypeOK
  BY DEF IInv
<1>2. q \in NotHandedOver /\ NotHandedOver' = NotHandedOver \ {q} /\ Raised' = Raised
  BY <1>1, SeenRecord
<1>3. (batch \o queue)' = Append(batch \o queue, q)
  <2>1. batch' = batch /\ queue' = Append(queue, q) /\ q \in Item
    BY DEF writerVars, Put, Item
  <2> QED
    BY <1>1, <2>1, SeenPending, AppendAtEnd
<1>4. Len(batch \o queue) < QueueLimit + BatchSize
  <2>1. Len(queue) < QueueLimit /\ Len(batch) <= BatchSize /\ Len(queue) \in Nat /\ Len(batch) \in Nat
    BY <1>1 DEF Put, HasRoom, TypeOK
  <2>2. QueueLimit \in Nat /\ BatchSize \in Nat
    BY StoreAssumption DEF StoreAssumption
  <2> QED
    BY <1>1, <2>1, <2>2, SeenPending
<1> QED
  BY <1>2, <1>3, <1>4 DEF Log!Accept, readerVars, dropVars, tableVars

\* A step that moves no row and no entry, and no reader in or out of a query,
\* is hidden from the abstract log.
LEMMA HiddenStep ==
  ASSUME NotHandedOver' = NotHandedOver, Raised' = Raised,
         batch' = batch, queue' = queue,
         UNCHANGED <<tableVars, shed, due>>,
         \A r \in Reader : rpc'[r] = "idle" <=> rpc[r] = "idle"
  PROVE  UNCHANGED Log!vars
  BY DEF Log!vars, tableVars

\* The oldest entry of the queue goes, to the history of evictions or nowhere.
LEMMA DiscardImplements ==
  ASSUME TypeOK, Take, batch' = batch,
         NotHandedOver' = NotHandedOver, Raised' = Raised,
         shed' = shed \union ({Head(queue)} \ {Shutdown}),
         UNCHANGED <<readerVars, tableVars>>
  PROVE  \E i \in DOMAIN (batch \o queue) : Log!Discard(i)
<1>1. queue # <<>> /\ queue' = Tail(queue)
  BY DEF Take
<1>2. /\ Len(batch) + 1 \in DOMAIN (batch \o queue)
      /\ (batch \o queue)[Len(batch) + 1] = Head(queue)
      /\ RemoveAt(batch \o queue, Len(batch) + 1) = batch \o Tail(queue)
  BY <1>1, SeenPending, HeadRemoved
<1>3. Log!RemoveAt(batch \o queue, Len(batch) + 1) = batch \o Tail(queue)
  BY <1>2 DEF Log!RemoveAt, RemoveAt
<1>4. (batch \o queue)' = batch \o Tail(queue)
  BY <1>1
<1>5. Log!Discard(Len(batch) + 1)
  BY <1>2, <1>3, <1>4 DEF Log!Discard, readerVars, tableVars
<1> QED
  BY <1>2, <1>5

\* Every step of record() is accepting, refusing, writing through or discarding
\* an entry, or is hidden.
LEMMA RecordImplements ==
  ASSUME IInv, NEW q \in Row, Begin(q) \/ RecordStep(q)
  PROVE  [Log!Next]_(Log!vars)
<1> USE DEF writerVars, readerVars, dropVars, tableVars, queueVars
<1>1. TypeOK /\ WriterShape /\ SyncIdle
  BY DEF IInv
<1> DEFINE Undecided == {"idle", "put", "full", "ack", "count", "retry"}
<1>2. ASSUME NEW from \in Undecided, NEW to \in Undecided, MoveRecord(q, from, to),
             UNCHANGED <<batch, queue, readerVars, tableVars, shed>>
      PROVE  UNCHANGED Log!vars
  <2>1. NotHandedOver' = NotHandedOver /\ Raised' = Raised
    BY <1>1, <1>2, SeenRecord
  <2> QED
    BY <1>2, <2>1, HiddenStep
<1>3. CASE Begin(q)
  BY <1>2, <1>3 DEF Begin
<1>4. CASE RecordSync(q)
  <2>1. batch \o queue = <<>> /\ (batch \o queue)' = batch \o queue
    <3>1. queue = <<>> /\ batch = <<>> /\ queue' = queue /\ batch' = batch
      BY <1>1, <1>4 DEF RecordSync, SyncIdle, WriterShape
    <3> QED
      BY <3>1
  <2>2. CASE MoveRecord(q, "put", "done") /\ db' = Append(db, q)
    <3>1. q \in NotHandedOver /\ NotHandedOver' = NotHandedOver \ {q} /\ Raised' = Raised
      BY <1>1, <2>2, SeenRecord
    <3>2. Log!Through(q)
      BY <1>4, <2>1, <2>2, <3>1 DEF RecordSync, Log!Through
    <3> QED
      BY <3>2 DEF Log!Next
  <2>3. CASE MoveRecord(q, "put", "raised") /\ db' = db
    <3>1. q \in NotHandedOver /\ NotHandedOver' = NotHandedOver \ {q}
          /\ Raised' = Raised \union {q}
      BY <1>1, <2>3, SeenRecord
    <3>2. Log!Refuse(q)
      BY <1>4, <2>1, <2>3, <3>1 DEF RecordSync, Log!Refuse
    <3> QED
      BY <3>2 DEF Log!Next
  <2> QED
    BY <1>4, <2>2, <2>3 DEF RecordSync
<1>5. CASE RecordPut(q)
  <2>1. Log!Accept(q)
    BY <1>5, AcceptImplements DEF RecordPut
  <2> QED
    BY <2>1 DEF Log!Next
<1>6. CASE RecordFull(q)
  BY <1>2, <1>6 DEF RecordFull
<1>7. CASE RecordShed(q)
  <2>1. NotHandedOver' = NotHandedOver /\ Raised' = Raised
    BY <1>1, <1>7, SeenRecord DEF RecordShed
  <2>2. shed' = shed \union ({Head(queue)} \ {Shutdown})
    BY <1>7 DEF RecordShed
  <2>3. \E i \in DOMAIN (batch \o queue) : Log!Discard(i)
    BY <1>1, <1>7, <2>1, <2>2, DiscardImplements DEF RecordShed
  <2> QED
    BY <2>3 DEF Log!Next
<1>8. CASE RecordNothingToShed(q)
  BY <1>2, <1>8 DEF RecordNothingToShed
<1>9. CASE RecordShedAck(q)
  BY <1>2, <1>9 DEF RecordShedAck, TaskDone
<1>10. CASE RecordShedCount(q)
  BY <1>2, <1>10 DEF RecordShedCount
<1>11. CASE RecordRetry(q)
  <2>1. Log!Accept(q)
    BY <1>11, AcceptImplements DEF RecordRetry
  <2> QED
    BY <2>1 DEF Log!Next
<1>12. CASE RecordRefused(q)
  <2>1. q \in NotHandedOver /\ NotHandedOver' = NotHandedOver \ {q} /\ Raised' = Raised
    BY <1>1, <1>12, SeenRecord DEF RecordRefused
  <2>2. Log!Refuse(q)
    BY <1>12, <2>1 DEF RecordRefused, Log!Refuse
  <2> QED
    BY <2>2 DEF Log!Next
<1>13. CASE RecordRefusedCount(q)
  <2>1. NotHandedOver' = NotHandedOver /\ Raised' = Raised
    BY <1>1, <1>13 DEF RecordRefusedCount, MoveRecord, TypeOK, NotHandedOver, Raised
  <2> QED
    BY <1>13, <2>1, HiddenStep DEF RecordRefusedCount
<1> QED
  BY <1>3, <1>4, <1>5, <1>6, <1>7, <1>8, <1>9, <1>10, <1>11, <1>12, <1>13 DEF RecordStep

\* Every step of the writer lands or loses a batch, discards the sentinel, or
\* is hidden.
LEMMA WriterImplements ==
  ASSUME IInv, WriterStep
  PROVE  [Log!Next]_(Log!vars)
<1> USE DEF writerVars, readerVars, dropVars, tableVars, queueVars
<1>1. TypeOK /\ WriterShape
  BY DEF IInv
<1>2. ASSUME rec' = rec PROVE NotHandedOver' = NotHandedOver /\ Raised' = Raised
  BY <1>2 DEF NotHandedOver, Raised
<1>3. CASE WriterStart \/ WriterFilled \/ WriterAck
  BY <1>2, <1>3, HiddenStep DEF WriterStart, WriterFilled, WriterAck, TaskDone
<1>4. CASE WriterGet \/ WriterFill
  <2>1. Take /\ UNCHANGED <<rec, shed, readerVars, tableVars>>
    BY <1>4 DEF WriterGet, WriterFill
  <2>2. NotHandedOver' = NotHandedOver /\ Raised' = Raised
    BY <1>2, <2>1
  <2>3. CASE Head(queue) = Shutdown
    <3>1. batch' = batch
      BY <1>4, <2>3 DEF WriterGet, WriterFill
    <3>2. \E i \in DOMAIN (batch \o queue) : Log!Discard(i)
      BY <1>1, <2>1, <2>2, <2>3, <3>1, DiscardImplements
    <3> QED
      BY <3>2 DEF Log!Next
  <2>4. CASE Head(queue) # Shutdown
    <3>1. queue # <<>> /\ queue' = Tail(queue)
      BY <2>1 DEF Take
    <3>2. batch' = Append(batch, Head(queue))
      <4>1. CASE WriterGet
        <5>1. batch = <<>> /\ batch' = <<Head(queue)>>
          BY <1>1, <2>4, <4>1 DEF WriterGet, WriterShape
        <5> QED
          BY <5>1
      <4>2. CASE WriterFill
        BY <2>4, <4>2 DEF WriterFill
      <4> QED
        BY <1>4, <4>1, <4>2
    <3>3. (batch \o queue)' = batch \o queue
      BY <1>1, <3>1, <3>2, SeenPending, HeadMoves
    <3> QED
      BY <2>1, <2>2, <3>3 DEF Log!vars
  <2> QED
    BY <2>3, <2>4
<1>5. CASE WriterWrite
  <2>1. NotHandedOver' = NotHandedOver /\ Raised' = Raised
    BY <1>2, <1>5 DEF WriterWrite
  <2>2. /\ SubSeq(batch \o queue, 1, Len(batch)) = batch
        /\ SubSeq(batch \o queue, Len(batch) + 1, Len(batch \o queue)) = queue
    BY <1>1, SeenPending, BatchLeaves
  <2>3. batch \in Seq(Row) /\ batch # <<>> /\ Len(batch) <= BatchSize
    BY <1>1, <1>5 DEF TypeOK, WriterShape, WriterWrite
  <2>4. Shutdown \notin Log!Range(batch) /\ Log!Range(batch) = Range(batch)
    BY <2>3, StoreAssumption DEF Log!Range, Range, StoreAssumption
  <2>5. (batch \o queue)' = queue
    <3>1. batch' = <<>> /\ queue' = queue /\ queue \in Seq(Item)
      BY <1>1, <1>5 DEF WriterWrite, TypeOK
    <3> QED
      BY <3>1
  <2>6. Log!Leave(Len(batch))
    BY <1>5, <2>1, <2>2, <2>4, <2>5 DEF WriterWrite, Log!Leave
  <2>7. Log!Land(Len(batch)) \/ Log!Lose(Len(batch))
    BY <1>5, <2>1, <2>2, <2>4, <2>6 DEF WriterWrite, Log!Land, Log!Lose
  <2>8. Len(batch) \in DOMAIN (batch \o queue) /\ Len(batch) <= BatchSize
    <3>1. Len(batch) \in Nat \ {0} /\ Len(queue) \in Nat
      BY <1>1, <2>3 DEF TypeOK
    <3>2. DOMAIN (batch \o queue) = 1 .. Len(batch) + Len(queue)
      BY <1>1, SeenPending
    <3> QED
      BY <2>3, <3>1, <3>2
  <2> QED
    BY <2>7, <2>8 DEF Log!Next
<1> QED
  BY <1>3, <1>4, <1>5 DEF WriterStep

\* A reader asks when it begins to flush and is answered by its last query,
\* when what it awaited is no longer pending: that is FlushFresh.
LEMMA ReaderImplements ==
  ASSUME IInv, NEW r \in Reader,
         (\E query \in Queries : ReadBegin(r, query)) \/ ReadStep(r)
  PROVE  [Log!Next]_(Log!vars)
<1> USE DEF writerVars, readerVars, dropVars, tableVars, queueVars
<1> DEFINE Asking == {p \in Reader : rpc[p] # "idle"}
<1>1. TypeOK /\ FlushFresh
  BY DEF IInv
<1>2. /\ UNCHANGED <<rec, batch, queue, shed, lost>>
      /\ NotHandedOver' = NotHandedOver /\ Raised' = Raised
      /\ (batch \o queue)' = batch \o queue
  <2>1. UNCHANGED <<rec, batch, queue, shed, lost>>
    BY DEF ReadBegin, ReadStep, ReadFlushed, ReadEvents, ReadCounts, ReadTotal, Clear, ReadEnd
  <2> QED
    BY <2>1 DEF NotHandedOver, Raised
<1>3. CASE \E query \in Queries : ReadBegin(r, query)
  <2>1. r \notin Asking /\ Asking' = Asking \union {r}
    BY <1>1, <1>3 DEF ReadBegin, MoveReader, TypeOK
  <2>2. Log!Ask(r)
    BY <1>1, <1>2, <1>3, <2>1, SeenPending DEF ReadBegin, Log!Ask
  <2> QED
    BY <2>2 DEF Log!Next
<1>4. CASE ReadFlushed(r) \/ ReadCounts(r)
  <2>1. \A p \in Reader : rpc'[p] = "idle" <=> rpc[p] = "idle"
    BY <1>1, <1>4 DEF ReadFlushed, ReadCounts, MoveReader, TypeOK
  <2> QED
    BY <1>2, <1>4, <2>1, HiddenStep DEF ReadFlushed, ReadCounts
<1>5. ASSUME NEW from \in {"select", "total"}, ReadEnd(r, from) PROVE Log!Answered(r)
  <2>1. r \in Asking /\ Asking' = Asking \ {r}
    BY <1>1, <1>5 DEF ReadEnd, MoveReader, TypeOK
  <2>2. due[r] \intersect Log!PendingRows = {}
    BY <1>1, <1>5, SeenPending DEF ReadEnd, MoveReader, FlushFresh
  <2> QED
    BY <1>2, <1>5, <2>1, <2>2 DEF ReadEnd, Log!Answered
<1>6. CASE ReadEvents(r) \/ ReadTotal(r)
  <2>1. Log!Answer(r)
    BY <1>2, <1>5, <1>6 DEF ReadEvents, ReadTotal, Log!Answer
  <2> QED
    BY <2>1 DEF Log!Next
<1>7. CASE Clear(r)
  <2>1. Log!Range(db) = Range(db)
    BY DEF Log!Range, Range
  <2>2. Log!Erase(r)
    BY <1>2, <1>5, <1>7, <2>1 DEF Clear, Log!Erase
  <2> QED
    BY <2>2 DEF Log!Next
<1> QED
  BY <1>3, <1>4, <1>6, <1>7 DEF ReadStep

\* close() queues the sentinel, or is hidden.
LEMMA CloseImplements ==
  ASSUME IInv, CloseStep
  PROVE  [Log!Next]_(Log!vars)
<1> USE DEF writerVars, readerVars, dropVars, tableVars, queueVars
<1>1. TypeOK
  BY DEF IInv
<1>2. NotHandedOver' = NotHandedOver /\ Raised' = Raised
  <2>1. rec' = rec
    BY DEF CloseStep, CloseBegin, ClosePut, CloseJoin
  <2> QED
    BY <2>1 DEF NotHandedOver, Raised
<1>3. CASE CloseBegin \/ CloseJoin
  BY <1>2, <1>3, HiddenStep DEF CloseBegin, CloseJoin
<1>4. CASE ClosePut
  <2>1. batch' = batch /\ queue' = Append(queue, Shutdown) /\ Shutdown \in Item
        /\ Len(queue) < QueueLimit
    BY <1>4 DEF ClosePut, Put, HasRoom, Item
  <2>2. (batch \o queue)' = Append(batch \o queue, Shutdown)
    BY <1>1, <2>1, SeenPending, AppendAtEnd
  <2>3. Len(batch \o queue) < QueueLimit + BatchSize
    <3>1. Len(batch) <= BatchSize /\ Len(queue) \in Nat /\ Len(batch) \in Nat
      BY <1>1 DEF TypeOK
    <3>2. QueueLimit \in Nat /\ BatchSize \in Nat
      BY StoreAssumption DEF StoreAssumption
    <3> QED
      BY <1>1, <2>1, <3>1, <3>2, SeenPending
  <2>4. Log!AcceptMark
    BY <1>2, <1>4, <2>2, <2>3 DEF ClosePut, Log!AcceptMark
  <2> QED
    BY <2>4 DEF Log!Next
<1> QED
  BY <1>3, <1>4 DEF CloseStep

\* Every step of the store is a step of the abstract log or changes nothing
\* the abstract log knows of.
LEMMA StepImplements == IInv /\ [Next]_vars => [Log!Next]_(Log!vars)
<1> SUFFICES ASSUME IInv, [Next]_vars PROVE [Log!Next]_(Log!vars)
  OBVIOUS
<1>1. CASE UNCHANGED vars
  <2>1. NotHandedOver' = NotHandedOver /\ Raised' = Raised
    BY <1>1 DEF vars, NotHandedOver, Raised
  <2> QED
    BY <1>1, <2>1, HiddenStep
    DEF vars, queueVars, writerVars, readerVars, dropVars, tableVars, closeVars
<1>2. CASE Next
  BY <1>2, RecordImplements, WriterImplements, ReaderImplements, CloseImplements DEF Next
<1> QED
  BY <1>1, <1>2

\* record(), _drain(), the readers and close() implement the abstract log: rows
\* land in the order they were accepted, each at most once and in whole
\* batches; a row not landed was shed, refused, lost, erased or raised; and a
\* reader's query runs only when nothing it found pending still is.
THEOREM Implementation == Spec => ImplementsDecisionLog
<1> QED
  BY InitImplements, StepImplements, Invariant, PTL
  DEF Spec, ImplementsDecisionLog, Log!Spec
=============================================================================
