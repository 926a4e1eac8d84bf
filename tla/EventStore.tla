------------------------------ MODULE EventStore ------------------------------
(***************************************************************************)
(* The decision log of dns_manager/store.py.                               *)
(*                                                                         *)
(* Every answer the resolver gives is one row.  A resolver thread hands    *)
(* its row to record(), which never touches the disk: the row goes into a  *)
(* bounded queue, and when the queue is full the oldest entry is shed to   *)
(* make room.  One writer thread drains the queue in batches; readers      *)
(* (API threads) first join the queue and then query the database; close() *)
(* sends a sentinel through the same queue.                                *)
(*                                                                         *)
(* One step of the model is one access to the queue (each of its methods   *)
(* runs under the queue's own mutex), to the drop counter (under           *)
(* _counter_lock), or one database transaction.                            *)
(***************************************************************************)
EXTENDS Integers, FiniteSets, Functions, SequencesExt

CONSTANTS
  Row,          \* the decisions to log, each handed over by its own resolver thread
  Reader,       \* API threads that query the log
  QueueLimit,   \* QUEUE_LIMIT, 10 000 in the code
  BatchSize,    \* BATCH_SIZE, 128 in the code
  AsyncWrites,  \* the values of __init__'s async_writes to consider
  SqliteFails,  \* whether sqlite may raise (disk full, database locked)
  MayClose,     \* whether close() is called
  Shutdown      \* the _SHUTDOWN sentinel

ASSUME StoreAssumption ==
  /\ IsFiniteSet(Row)
  /\ QueueLimit \in Nat \ {0}
  /\ BatchSize \in Nat \ {0}
  /\ AsyncWrites \subseteq BOOLEAN /\ {SqliteFails, MayClose} \subseteq BOOLEAN
  /\ Shutdown \notin Row

VARIABLES
  queue,       \* _queue: rows and at most one sentinel, oldest first
  unfinished,  \* unfinished_tasks of the queue: what join() waits for
  dropped,     \* _dropped
  db,          \* the dns_events table in id order
  rec,         \* where the record() call of each row stands
  wpc,         \* where the writer thread stands
  batch,       \* the writer's batch
  owed,        \* task_done() calls the writer still owes for its batch
  stopping,    \* the writer has taken the sentinel
  rpc,         \* where each reader stands
  asked,       \* the query each reader runs
  cpc,         \* where close() stands
  shed,        \* history: rows evicted from the queue or refused by it
  evicted,     \* history: how many sentinels were evicted
  lost,        \* history: rows rolled back by a failed write
  cleared,     \* history: rows deleted by clear()
  due,         \* history: rows outstanding when each reader began to flush
  closeDue,    \* history: rows outstanding when close() queued the sentinel
  before       \* history: rows whose record() had returned when this one began

queueVars  == <<queue, unfinished>>
writerVars == <<wpc, batch, owed, stopping>>
readerVars == <<rpc, asked, due>>
dropVars   == <<dropped, shed, evicted>>
tableVars  == <<db, lost, cleared>>
closeVars  == <<cpc, closeDue>>
vars == <<queueVars, writerVars, readerVars, dropVars, tableVars, rec, before, closeVars>>

-----------------------------------------------------------------------------
(* Where a row can be. *)

Item == Row \union {Shutdown}
Queued == Range(queue) \ {Shutdown}
InFlight == Queued \union Range(batch)
Acking == {q \in Row : rec[q] = "ack"}

Queries == {"events", "summary", "clear"}
RecordStage == {"idle", "put", "full", "ack", "count", "retry", "refused", "done", "raised"}
WriterStage == {"none", "starting", "get", "fill", "write", "ack", "stopped", "dead"}
ReaderStage == {"idle", "flush", "select", "total"}
CloseStage == {"open", "put", "join", "closed"}

\* _async: a writer thread was started.
Async == wpc # "none"
WriterAlive == wpc \notin {"none", "stopped", "dead"}

Init ==
  /\ queue = <<>> /\ unfinished = 0
  /\ dropped = 0 /\ shed = {} /\ evicted = 0
  /\ db = <<>> /\ lost = {} /\ cleared = {}
  /\ rec = [q \in Row |-> "idle"]
  /\ before = [q \in Row |-> {}]
  /\ \E async \in AsyncWrites : wpc = IF async THEN "starting" ELSE "none"
  /\ batch = <<>> /\ owed = 0 /\ stopping = FALSE
  /\ rpc = [r \in Reader |-> "idle"]
  /\ asked = [r \in Reader |-> "events"]
  /\ due = [r \in Reader |-> {}]
  /\ cpc = "open" /\ closeDue = {}

-----------------------------------------------------------------------------
(* queue.Queue: put_nowait, get_nowait and task_done. *)

\* Mutant: the bound tested with <= lets one entry too many in.
HasRoomOffByOne == Len(queue) <= QueueLimit

HasRoom == Len(queue) < QueueLimit

\* Mutant: the newest entry goes to the end the writer takes from.
PutFirst(item) ==
  /\ HasRoom
  /\ queue' = <<item>> \o queue
  /\ unfinished' = unfinished + 1

Put(item) ==
  /\ HasRoom
  /\ queue' = Append(queue, item)
  /\ unfinished' = unfinished + 1

Take ==
  /\ queue # <<>>
  /\ queue' = Tail(queue)
  /\ UNCHANGED unfinished

TaskDone ==
  /\ unfinished' = unfinished - 1
  /\ UNCHANGED queue

-----------------------------------------------------------------------------
(* record(): one resolver thread per row. *)

MoveRecord(q, from, to) ==
  /\ rec[q] = from
  /\ rec' = [rec EXCEPT ![q] = to]

Begin(q) ==
  /\ MoveRecord(q, "idle", "put")
  /\ before' = [before EXCEPT ![q] = {p \in Row : rec[p] = "done"}]
  /\ UNCHANGED <<queueVars, writerVars, readerVars, dropVars, tableVars, closeVars>>

\* async_writes=False: the row is inserted before record() returns.
RecordSync(q) ==
  /\ ~Async
  /\ \/ /\ MoveRecord(q, "put", "done")
        /\ db' = Append(db, q)
     \/ /\ SqliteFails
        /\ MoveRecord(q, "put", "raised")
        /\ UNCHANGED db
  /\ UNCHANGED <<queueVars, writerVars, readerVars, dropVars, lost, cleared, before, closeVars>>

RecordPut(q) ==
  /\ Async
  /\ MoveRecord(q, "put", "done")
  /\ Put(q)
  /\ UNCHANGED <<writerVars, readerVars, dropVars, tableVars, before, closeVars>>

\* Mutant: a blocking put(), which waits for the writer to make room.
RecordFullWaits(q) ==
  /\ Async /\ ~HasRoom
  /\ MoveRecord(q, "put", "put")
  /\ UNCHANGED <<queueVars, writerVars, readerVars, dropVars, tableVars, before, closeVars>>

RecordFull(q) ==
  /\ Async /\ ~HasRoom
  /\ MoveRecord(q, "put", "full")
  /\ UNCHANGED <<queueVars, writerVars, readerVars, dropVars, tableVars, before, closeVars>>

\* The oldest entry goes, whatever it is: a row, or the sentinel of close().
RecordShed(q) ==
  /\ MoveRecord(q, "full", "ack")
  /\ Take
  /\ IF Head(queue) = Shutdown
     THEN evicted' = evicted + 1 /\ UNCHANGED shed
     ELSE shed' = shed \union {Head(queue)} /\ UNCHANGED evicted
  /\ UNCHANGED <<dropped, writerVars, readerVars, tableVars, before, closeVars>>

\* The writer emptied the queue first.
RecordNothingToShed(q) ==
  /\ queue = <<>>
  /\ MoveRecord(q, "full", "retry")
  /\ UNCHANGED <<queueVars, writerVars, readerVars, dropVars, tableVars, before, closeVars>>

\* Mutant: the task_done() of an evicted entry is forgotten.
RecordShedForgetsAck(q) ==
  /\ MoveRecord(q, "ack", "count")
  /\ UNCHANGED <<queueVars, writerVars, readerVars, dropVars, tableVars, before, closeVars>>

RecordShedAck(q) ==
  /\ MoveRecord(q, "ack", "count")
  /\ TaskDone
  /\ UNCHANGED <<writerVars, readerVars, dropVars, tableVars, before, closeVars>>

RecordShedCount(q) ==
  /\ MoveRecord(q, "count", "retry")
  /\ dropped' = dropped + 1
  /\ UNCHANGED <<queueVars, shed, evicted, writerVars, readerVars, tableVars, before, closeVars>>

RecordRetry(q) ==
  /\ MoveRecord(q, "retry", "done")
  /\ Put(q)
  /\ UNCHANGED <<writerVars, readerVars, dropVars, tableVars, before, closeVars>>

\* Another thread took the room this one made: its own row is the one dropped.
RecordRefused(q) ==
  /\ ~HasRoom
  /\ MoveRecord(q, "retry", "refused")
  /\ shed' = shed \union {q}
  /\ UNCHANGED <<queueVars, dropped, evicted, writerVars, readerVars, tableVars, before, closeVars>>

\* Mutant: the second queue.Full is passed over without _note_drop().
RecordRefusedUncounted(q) ==
  /\ MoveRecord(q, "refused", "done")
  /\ UNCHANGED <<queueVars, dropVars, writerVars, readerVars, tableVars, before, closeVars>>

RecordRefusedCount(q) ==
  /\ MoveRecord(q, "refused", "done")
  /\ dropped' = dropped + 1
  /\ UNCHANGED <<queueVars, shed, evicted, writerVars, readerVars, tableVars, before, closeVars>>

RecordStep(q) ==
  \/ RecordSync(q) \/ RecordPut(q) \/ RecordFull(q)
  \/ RecordShed(q) \/ RecordNothingToShed(q) \/ RecordShedAck(q) \/ RecordShedCount(q)
  \/ RecordRetry(q) \/ RecordRefused(q) \/ RecordRefusedCount(q)

-----------------------------------------------------------------------------
(* _drain(): the writer thread. *)

\* connect() and the two PRAGMAs run outside any handler: an error there ends
\* the thread.
WriterStart ==
  /\ wpc = "starting"
  /\ \/ wpc' = "get"
     \/ SqliteFails /\ wpc' = "dead"
  /\ UNCHANGED <<queueVars, batch, owed, stopping, readerVars, dropVars, tableVars, rec, before, closeVars>>

\* The blocking get() of an idle writer.
WriterGet ==
  /\ wpc = "get"
  /\ Take
  /\ IF Head(queue) = Shutdown
     THEN wpc' = "ack" /\ owed' = 1 /\ stopping' = TRUE /\ UNCHANGED batch
     ELSE wpc' = "fill" /\ batch' = <<Head(queue)>> /\ UNCHANGED <<owed, stopping>>
  /\ UNCHANGED <<readerVars, dropVars, tableVars, rec, before, closeVars>>

\* Mutant: on the sentinel the writer acknowledges its batch without writing it.
WriterFillForgetsBatch ==
  /\ wpc = "fill" /\ Len(batch) < BatchSize
  /\ Take
  /\ IF Head(queue) = Shutdown
     THEN wpc' = "ack" /\ stopping' = TRUE /\ owed' = Len(batch) + 1 /\ batch' = <<>>
     ELSE batch' = Append(batch, Head(queue)) /\ UNCHANGED <<wpc, stopping, owed>>
  /\ UNCHANGED <<readerVars, dropVars, tableVars, rec, before, closeVars>>

\* Mutant: on the sentinel the writer returns with its batch still in hand.
WriterFillAbandons ==
  /\ wpc = "fill" /\ Len(batch) < BatchSize
  /\ Take
  /\ IF Head(queue) = Shutdown
     THEN wpc' = "stopped" /\ stopping' = TRUE /\ UNCHANGED batch
     ELSE batch' = Append(batch, Head(queue)) /\ UNCHANGED <<wpc, stopping>>
  /\ UNCHANGED <<owed, readerVars, dropVars, tableVars, rec, before, closeVars>>

WriterFill ==
  /\ wpc = "fill" /\ Len(batch) < BatchSize
  /\ Take
  /\ IF Head(queue) = Shutdown
     THEN wpc' = "write" /\ stopping' = TRUE /\ UNCHANGED batch
     ELSE batch' = Append(batch, Head(queue)) /\ UNCHANGED <<wpc, stopping>>
  /\ UNCHANGED <<owed, readerVars, dropVars, tableVars, rec, before, closeVars>>

WriterFilled ==
  /\ wpc = "fill"
  /\ Len(batch) >= BatchSize \/ queue = <<>>
  /\ wpc' = "write"
  /\ UNCHANGED <<queueVars, batch, owed, stopping, readerVars, dropVars, tableVars, rec, before, closeVars>>

\* Mutant: the sentinel met while filling a batch is not acknowledged.
OwingRowsOnly == Len(batch)

\* task_done() is owed for every row of the batch and for the sentinel.
Owing == Len(batch) + (IF stopping THEN 1 ELSE 0)

\* _write(): one transaction for the batch; sqlite3.Error is swallowed.
WriterWrite ==
  /\ wpc = "write"
  /\ \/ db' = db \o batch /\ UNCHANGED lost
     \/ SqliteFails /\ lost' = lost \union Range(batch) /\ UNCHANGED db
  /\ wpc' = "ack" /\ owed' = Owing /\ batch' = <<>>
  /\ UNCHANGED <<queueVars, stopping, readerVars, dropVars, cleared, rec, before, closeVars>>

WriterAck ==
  /\ wpc = "ack" /\ owed > 0
  /\ TaskDone
  /\ owed' = owed - 1
  /\ wpc' = IF owed > 1 THEN "ack" ELSE IF stopping THEN "stopped" ELSE "get"
  /\ UNCHANGED <<batch, stopping, readerVars, dropVars, tableVars, rec, before, closeVars>>

WriterStep == WriterStart \/ WriterGet \/ WriterFill \/ WriterFilled \/ WriterWrite \/ WriterAck

-----------------------------------------------------------------------------
(* Readers: events(), summary(), agent_activity() and clear(). *)

MoveReader(r, from, to) ==
  /\ rpc[r] = from
  /\ rpc' = [rpc EXCEPT ![r] = to]

ReadBegin(r, query) ==
  /\ MoveReader(r, "idle", "flush")
  /\ asked' = [asked EXCEPT ![r] = query]
  /\ due' = [due EXCEPT ![r] = InFlight]
  /\ UNCHANGED <<queueVars, writerVars, dropVars, tableVars, rec, before, closeVars>>

\* Mutant: the reader does not flush.
FlushSkipped == TRUE

\* Mutant: the reader waits for an empty queue instead of joining it.
FlushQueueEmpty == Async => queue = <<>>

\* flush(): join() returns once no put item still lacks its task_done().
FlushReady == Async => unfinished = 0

ReadFlushed(r) ==
  /\ FlushReady
  /\ MoveReader(r, "flush", "select")
  /\ UNCHANGED <<asked, due, queueVars, writerVars, dropVars, tableVars, rec, before, closeVars>>

ReadEnd(r, from) ==
  /\ MoveReader(r, from, "idle")
  /\ asked' = [asked EXCEPT ![r] = "events"]
  /\ due' = [due EXCEPT ![r] = {}]
  /\ UNCHANGED <<queueVars, writerVars, dropVars, rec, before, closeVars>>

\* events() and agent_activity(): one SELECT.
ReadEvents(r) ==
  /\ asked[r] = "events"
  /\ ReadEnd(r, "select")
  /\ UNCHANGED tableVars

\* summary() runs two SELECTs, each on its own snapshot of the table.
ReadCounts(r) ==
  /\ asked[r] = "summary"
  /\ MoveReader(r, "select", "total")
  /\ UNCHANGED <<asked, due, queueVars, writerVars, dropVars, tableVars, rec, before, closeVars>>

ReadTotal(r) ==
  /\ ReadEnd(r, "total")
  /\ UNCHANGED tableVars

Clear(r) ==
  /\ asked[r] = "clear"
  /\ ReadEnd(r, "select")
  /\ cleared' = cleared \union Range(db)
  /\ db' = <<>>
  /\ UNCHANGED lost

ReadStep(r) == ReadFlushed(r) \/ ReadEvents(r) \/ ReadCounts(r) \/ ReadTotal(r) \/ Clear(r)

-----------------------------------------------------------------------------
(* close(), called by a test or at interpreter exit. *)

CloseBegin ==
  /\ MayClose /\ cpc = "open"
  /\ cpc' = IF Async /\ WriterAlive THEN "put" ELSE "closed"
  /\ UNCHANGED <<queueVars, writerVars, readerVars, dropVars, tableVars, rec, before, closeDue>>

ClosePut ==
  /\ cpc = "put"
  /\ Put(Shutdown)
  /\ cpc' = "join"
  /\ closeDue' = InFlight
  /\ UNCHANGED <<writerVars, readerVars, dropVars, tableVars, rec, before>>

\* join(timeout=5) returns when the writer is gone or when the time is up.
CloseJoin ==
  /\ cpc = "join"
  /\ cpc' = "closed"
  /\ UNCHANGED <<queueVars, writerVars, readerVars, dropVars, tableVars, rec, before, closeDue>>

CloseStep == CloseBegin \/ ClosePut \/ CloseJoin

-----------------------------------------------------------------------------
Next ==
  \/ \E q \in Row : Begin(q) \/ RecordStep(q)
  \/ WriterStep
  \/ \E r \in Reader : (\E query \in Queries : ReadBegin(r, query)) \/ ReadStep(r)
  \/ CloseStep

Spec == Init /\ [][Next]_vars

-----------------------------------------------------------------------------
(* Traffic that need not end. *)

\* A resolver thread whose row has left the queue and the batch answers again.
\* Its next row goes by the name of the last one, of which nothing is kept.
RecordAgain(q) ==
  /\ q \notin InFlight
  /\ rec[q] \in {"done", "raised"}
  /\ rec' = [rec EXCEPT ![q] = "idle"]
  /\ db' = SelectSeq(db, LAMBDA p : p # q)
  /\ lost' = lost \ {q} /\ cleared' = cleared \ {q} /\ shed' = shed \ {q}
  /\ dropped' = 0
  /\ due' = [r \in Reader |-> due[r] \ {q}]
  /\ closeDue' = closeDue \ {q}
  /\ before' = [p \in Row |-> before[p] \ {q}]
  /\ UNCHANGED <<queueVars, writerVars, rpc, asked, evicted, cpc>>

TrafficNext == Next \/ \E q \in Row : RecordAgain(q)

\* The threads of the process are scheduled.  No fairness is asked of new
\* calls, nor of the disk: the writer may die of an error and never step again.
TrafficSpec ==
  /\ Init /\ [][TrafficNext]_vars
  /\ \A q \in Row : WF_vars(RecordStep(q))
  /\ WF_vars(WriterStep)
  /\ \A r \in Reader : WF_vars(ReadStep(r))

-----------------------------------------------------------------------------
(* Properties. *)

\* The kinds of values the variables hold.  The queue never outgrows its limit.
TypeOK ==
  /\ queue \in Seq(Item) /\ Len(queue) <= QueueLimit
  /\ unfinished \in Nat /\ dropped \in Nat
  /\ db \in Seq(Row)
  /\ rec \in [Row -> RecordStage]
  /\ wpc \in WriterStage
  /\ batch \in Seq(Row) /\ Len(batch) <= BatchSize
  /\ owed \in Nat /\ stopping \in BOOLEAN
  /\ rpc \in [Reader -> ReaderStage]
  /\ asked \in [Reader -> Queries]
  /\ cpc \in CloseStage
  /\ shed \subseteq Row /\ lost \subseteq Row /\ cleared \subseteq Row
  /\ evicted \in Nat
  /\ due \in [Reader -> SUBSET Row] /\ closeDue \subseteq Row
  /\ before \in [Row -> SUBSET Row]

\* The queue's unfinished_tasks is exactly the work that still owes a
\* task_done(): what is queued, what the writer holds, and what a record()
\* call has evicted and not yet acknowledged.  One task_done() too many would
\* release join() early, one too few would block every reader for ever.
UnfinishedMatches ==
  unfinished = Len(queue) + Cardinality(Acking)
               + Len(batch) + owed + (IF wpc = "write" /\ stopping THEN 1 ELSE 0)

\* A row handed over is in exactly one place: queued, in the writer's batch,
\* in the table, or gone for a reason the model names.  No interleaving of
\* record() calls and the writer duplicates one or makes one vanish.
Places(q) == {q} \X
  ({<<"queue", i>> : i \in {j \in DOMAIN queue : queue[j] = q}}
   \union {<<"batch", i>> : i \in {j \in DOMAIN batch : batch[j] = q}}
   \union {<<"db", i>> : i \in {j \in DOMAIN db : db[j] = q}}
   \union {<<"gone", s>> : s \in {t \in {1, 2, 3} : q \in <<lost, cleared, shed>>[t]}})

InOnePlace ==
  \A q \in Row :
    Cardinality(Places(q)) = IF rec[q] \in {"refused", "done"} THEN 1 ELSE 0

\* README.md:107, "every shed line is counted": the drop counter runs behind
\* the evictions only by those whose _note_drop() is still to come.
DropsCounted ==
  dropped + Cardinality({q \in Row : rec[q] \in {"ack", "count", "refused"}})
    = Cardinality(shed) + evicted

\* README.md:377, "readers flush the queue first": when a reader gets to its
\* query, nothing that was outstanding when it began to flush is still in
\* flight, although other threads kept recording and shedding meanwhile.
FlushFresh ==
  \A r \in Reader : rpc[r] \in {"select", "total"} =>
    due[r] \intersect InFlight = {}

\* If one answer's record() returned before another's began, the log never
\* shows them the other way round.
LogInOrder ==
  \A i, j \in DOMAIN db : i < j => db[j] \notin before[db[i]]

\* When the writer has stopped, everything that was outstanding when close()
\* queued its sentinel has left the queue and the batch.
CloseDrains == wpc = "stopped" => closeDue \intersect InFlight = {}

\* store.py:14, "A DNS answer must not wait on disk": record() returns even if
\* the writer has died or the store is closed, and the queue is full for good.
RecordReturns == \A q \in Row : rec[q] = "put" ~> rec[q] \in {"done", "raised"}

Recording == \E q \in Row : rec[q] \notin {"idle", "done", "raised"}

\* Every flush() ends, whatever is shed meanwhile and whatever transactions
\* fail, however many rows are recorded, unless the writer died at its start, the
\* store is being closed, or rows keep coming for ever: join() returns only if it
\* finds nothing unfinished, so a reader may starve under traffic without end.
FlushReturns ==
  \A r \in Reader :
    \/ []<>Recording
    \/ rpc[r] # "idle" ~> rpc[r] = "idle" \/ wpc = "dead" \/ cpc # "open"

\* tests/test_resources.py:38, "every decision is either written, still queued,
\* or counted as shed", at the moments when the write path is idle.
EveryRowAccounted ==
  (unfinished = 0 /\ cleared = {} /\ \A q \in Row : rec[q] \in {"idle", "put", "done"}) =>
    Len(db) + dropped = Cardinality({q \in Row : rec[q] = "done"})

-----------------------------------------------------------------------------
(* The refinement of DecisionLog. *)

NotHandedOver == {q \in Row : rec[q] \in {"idle", "put", "full", "ack", "count", "retry"}}
Raised == {q \in Row : rec[q] = "raised"}

Log == INSTANCE DecisionLog WITH
  Mark <- Shutdown,
  Capacity <- QueueLimit + BatchSize,
  Chunk <- BatchSize,
  new <- NotHandedOver,
  pending <- batch \o queue,
  log <- db,
  gone <- shed \union lost \union cleared \union Raised,
  asking <- {r \in Reader : rpc[r] # "idle"},
  awaited <- due

\* Every step of the store's threads is a step of the abstract log, or changes
\* nothing it knows of: rows land in the order they were accepted, whole
\* batches at a time, each once, and nobody is answered before what was pending
\* at the request has left, whatever is shed, lost or erased meanwhile.
ImplementsDecisionLog == Log!Spec

=============================================================================
