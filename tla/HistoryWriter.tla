---------------------------- MODULE HistoryWriter ----------------------------
(***************************************************************************)
(* The background writer of app/history.py and the locks it meets: the     *)
(* event loop hands rows and deferred database calls to one thread, which  *)
(* writes what is queued in one transaction (db.core.batch).  A deferred   *)
(* call may save settings (config.update_token_account), for which it      *)
(* needs the settings lock; the loop saves settings under the same lock.   *)
(* stop() and flush() run in threads of their own.  A step of the worker   *)
(* is one item; SQLite lets one connection write at a time.                *)
(***************************************************************************)
EXTENDS Naturals, Sequences, SequencesExt

CONSTANTS
    MaxRows,      \* bound: rows and calls handed over
    QueueMax,     \* QUEUE_MAX
    BatchMax      \* BATCH_MAX

Marker == 0
Row == 1 .. MaxRows

VARIABLES
    rows,         \* rows handed over so far, in this order
    settings,     \* those that are calls that save settings
    queue,        \* _q
    running,      \* _running
    idle,         \* the _idle event
    worker,       \* where the worker thread is
    hand,         \* the items of its batch it has not run
    txn,          \* the rows of its open transaction
    batch,        \* all items of its batch
    disk,         \* the rows in the database
    reported,     \* rows an error line or a counter tells of
    dbLock,       \* who holds SQLite's write lock
    cfgLock,      \* whether the loop holds config._lock
    loop,         \* what the event loop is doing: "ready", "put", "wait" (for a full queue), "save"
    stopping,     \* stop(): "no", "joining", "ended"
    stopAt,       \* history: rows queued so far when stop() was called
    flush,        \* history: rows under way when flush() began, {} when it has not
    flushed       \* flush() found the writer idle

vars == <<rows, settings, queue, running, idle, worker, hand, txn, batch, disk, reported,
          dbLock, cfgLock, loop, stopping, stopAt, flush, flushed>>
workerVars == <<worker, hand, txn, batch>>
stopVars == <<running, stopping, stopAt>>
flushVars == <<flush, flushed>>

TypeOK ==
    /\ rows \in 0 .. MaxRows /\ settings \subseteq Row
    /\ queue \in Seq(Row \cup {Marker}) /\ Len(queue) <= QueueMax
    /\ running \in BOOLEAN /\ idle \in BOOLEAN
    /\ worker \in {"get", "batch", "retry", "look", "mark", "end"}
    /\ \A s \in {hand, txn, batch, disk} : s \in Seq(Row)
    /\ reported \subseteq Row
    /\ dbLock \in {"free", "worker"} /\ cfgLock \in BOOLEAN
    /\ loop \in {"ready", "put", "wait", "save"}
    /\ stopping \in {"no", "joining", "ended"} /\ stopAt \in 0 .. MaxRows
    /\ flush \subseteq Row /\ flushed \in BOOLEAN
    /\ dbLock = "worker" <=> txn # <<>>
    /\ cfgLock <=> loop = "save"

Init ==
    /\ rows = 0 /\ settings = {} /\ queue = <<>>
    /\ running = TRUE /\ idle = TRUE
    /\ worker = "get" /\ hand = <<>> /\ txn = <<>> /\ batch = <<>>
    /\ disk = <<>> /\ reported = {}
    /\ dbLock = "free" /\ cfgLock = FALSE
    /\ loop = "ready" /\ stopping = "no" /\ stopAt = 0
    /\ flush = {} /\ flushed = FALSE
------------------------------------------------------------------------------
(* The event loop                                                          *)

Full == Len(queue) >= QueueMax

\* record_signal, record_order or defer found the writer running.
Hand ==
    /\ loop = "ready" /\ running /\ rows < MaxRows
    /\ rows' = rows + 1
    /\ settings' \in {settings, settings \cup {rows + 1}}
    /\ idle' = FALSE
    /\ loop' = "put"
    /\ UNCHANGED <<queue, workerVars, disk, reported, dbLock, cfgLock, stopVars, flushVars>>

\* _q.put.  A row a full queue has no room for is counted and dropped; a
\* deferred call waits, and the loop with it.
Put ==
    /\ loop \in {"put", "wait"}
    /\ IF ~Full
         THEN queue' = Append(queue, rows) /\ loop' = "ready" /\ UNCHANGED reported
         ELSE \/ /\ loop = "put" /\ rows \notin settings
                 /\ reported' = reported \cup {rows} /\ loop' = "ready" /\ UNCHANGED queue
              \/ loop = "put" /\ loop' = "wait" /\ UNCHANGED <<queue, reported>>
    /\ UNCHANGED <<rows, settings, idle, workerVars, disk, dbLock, cfgLock, stopVars, flushVars>>

\* The writer is not running: the row is written at once, or fails and is logged.
WriteInline ==
    /\ loop = "ready" /\ ~running /\ rows < MaxRows
    /\ rows' = rows + 1
    /\ \/ dbLock = "free" /\ disk' = Append(disk, rows + 1) /\ UNCHANGED reported
       \/ reported' = reported \cup {rows + 1} /\ UNCHANGED disk
    /\ UNCHANGED <<settings, queue, idle, workerVars, dbLock, cfgLock, loop, stopVars, flushVars>>

\* config.update: the settings lock, then the database.
SaveBegins ==
    /\ loop = "ready" /\ ~cfgLock
    /\ cfgLock' = TRUE /\ loop' = "save"
    /\ UNCHANGED <<rows, settings, queue, idle, workerVars, disk, reported, dbLock, stopVars, flushVars>>

\* It is written, or the busy handler gives up on the writer's transaction.
SaveEnds ==
    /\ loop = "save"
    /\ cfgLock' = FALSE /\ loop' = "ready"
    /\ UNCHANGED <<rows, settings, queue, idle, workerVars, disk, reported, dbLock, stopVars, flushVars>>
------------------------------------------------------------------------------
(* The worker thread                                                       *)

\* What one drain takes: up to BatchMax items, none from the stop marker on.
Drain ==
    LET stops == {i \in 1 .. Len(queue) : queue[i] = Marker}
        room == IF Len(queue) < BatchMax THEN Len(queue) ELSE BatchMax
    IN CHOOSE n \in 0 .. room :
           /\ \A i \in 1 .. n : i \notin stops
           /\ n = room \/ n + 1 \in stops

Get ==
    /\ worker = "get" /\ queue # <<>>
    /\ IF Head(queue) = Marker
         THEN /\ idle' = TRUE /\ worker' = "end"
              /\ queue' = Tail(queue)
              /\ UNCHANGED <<hand, batch>>
         ELSE /\ idle' = FALSE /\ worker' = "batch"
              /\ hand' = SubSeq(queue, 1, Drain) /\ batch' = hand'
              /\ queue' = SubSeq(queue, Drain + 1, Len(queue))
    /\ UNCHANGED <<rows, settings, txn, disk, reported, dbLock, cfgLock, loop, stopVars, flushVars>>

\* Fault: the flag ends the worker whatever is queued.
EndsAtOnce ==
    /\ worker = "get" /\ ~running
    /\ worker' = "end" /\ idle' = TRUE
    /\ UNCHANGED <<rows, settings, queue, hand, txn, batch, disk, reported, dbLock, cfgLock, loop, stopVars, flushVars>>

\* Nothing is queued and stop() was called without room for its marker.
Ends ==
    /\ worker = "get" /\ queue = <<>> /\ ~running
    /\ worker' = "end" /\ idle' = TRUE
    /\ UNCHANGED <<rows, settings, queue, hand, txn, batch, disk, reported, dbLock, cfgLock, loop, stopVars, flushVars>>

\* An item that saves settings waits for the settings lock, without a timeout.
Blocked == hand # <<>> /\ Head(hand) \in settings /\ cfgLock

\* _run_one in the batch: written in its transaction, or failed and logged.
RunItem ==
    /\ worker = "batch" /\ hand # <<>> /\ ~Blocked
    /\ \/ /\ txn' = Append(txn, Head(hand)) /\ dbLock' = "worker"
          /\ UNCHANGED reported
       \/ reported' = reported \cup {Head(hand)} /\ UNCHANGED <<txn, dbLock>>
    /\ hand' = Tail(hand)
    /\ UNCHANGED <<rows, settings, queue, idle, worker, batch, disk, cfgLock, loop, stopVars, flushVars>>

Commit ==
    /\ worker = "batch" /\ hand = <<>>
    /\ disk' = disk \o txn
    /\ txn' = <<>> /\ dbLock' = "free" /\ batch' = <<>>
    /\ worker' = "look"
    /\ UNCHANGED <<rows, settings, queue, idle, hand, reported, cfgLock, loop, stopVars, flushVars>>

\* Fault: a failed batch is not rolled back.
CommitFailsKept ==
    /\ worker = "batch" /\ hand = <<>> /\ txn # <<>>
    /\ disk' = disk \o txn
    /\ txn' = <<>> /\ dbLock' = "free"
    /\ hand' = batch /\ worker' = "retry"
    /\ UNCHANGED <<rows, settings, queue, idle, batch, reported, cfgLock, loop, stopVars, flushVars>>

\* The commit fails: the transaction is rolled back, all of it is run again.
CommitFails ==
    /\ worker = "batch" /\ hand = <<>> /\ txn # <<>>
    /\ txn' = <<>> /\ dbLock' = "free"
    /\ hand' = batch /\ worker' = "retry"
    /\ UNCHANGED <<rows, settings, queue, idle, batch, disk, reported, cfgLock, loop, stopVars, flushVars>>

\* One by one, each in a transaction of its own.
Retry ==
    /\ worker = "retry" /\ hand # <<>> /\ ~Blocked
    /\ \/ disk' = Append(disk, Head(hand)) /\ UNCHANGED reported
       \/ reported' = reported \cup {Head(hand)} /\ UNCHANGED disk
    /\ hand' = Tail(hand)
    /\ UNCHANGED <<rows, settings, queue, idle, worker, txn, batch, dbLock, cfgLock, loop, stopVars, flushVars>>

Retried ==
    /\ worker = "retry" /\ hand = <<>>
    /\ worker' = "look" /\ batch' = <<>>
    /\ UNCHANGED <<rows, settings, queue, idle, hand, txn, disk, reported, dbLock, cfgLock, loop, stopVars, flushVars>>

\* _q.empty(), and then _idle.set(): the loop may queue a row in between.
Look ==
    /\ worker = "look"
    /\ worker' = IF queue = <<>> THEN "mark" ELSE "get"
    /\ UNCHANGED <<rows, settings, queue, idle, hand, txn, batch, disk, reported, dbLock, cfgLock, loop, stopVars, flushVars>>

Mark ==
    /\ worker = "mark"
    /\ idle' = TRUE /\ worker' = "get"
    /\ UNCHANGED <<rows, settings, queue, hand, txn, batch, disk, reported, dbLock, cfgLock, loop, stopVars, flushVars>>
------------------------------------------------------------------------------
(* stop() and flush()                                                      *)

Stop ==
    /\ stopping = "no"
    /\ running' = FALSE /\ stopping' = "joining" 
    /\ stopAt' = IF loop \in {"put", "wait"} THEN rows - 1 ELSE rows
    /\ queue' = IF Full THEN queue ELSE Append(queue, Marker)
    /\ UNCHANGED <<rows, settings, idle, workerVars, disk, reported, dbLock, cfgLock, loop, flushVars>>

\* The worker ended or the join timed out; what is still queued is reported.
Stopped ==
    /\ stopping = "joining"
    /\ stopping' = "ended"
    /\ reported' = reported \cup (Range(queue) \ {Marker})
    /\ UNCHANGED <<rows, settings, queue, running, idle, workerVars, disk, dbLock, cfgLock, loop, stopAt, flushVars>>

\* flush() with something under way.
FlushBegins ==
    /\ running /\ flush = {} /\ loop = "ready"
    /\ flush' = (Range(queue) \cup Range(batch)) \ (Range(disk) \cup reported)
    /\ flush' # {}
    /\ UNCHANGED <<rows, settings, queue, idle, workerVars, disk, reported, dbLock, cfgLock, loop, stopVars, flushed>>

FlushEnds ==
    /\ flush # {} /\ ~flushed /\ idle
    /\ flushed' = TRUE
    /\ UNCHANGED <<rows, settings, queue, idle, workerVars, disk, reported, dbLock, cfgLock, loop, stopVars, flush>>

Loop == Hand \/ Put \/ WriteInline \/ SaveBegins \/ SaveEnds
Worker == Get \/ Ends \/ RunItem \/ Commit \/ CommitFails \/ Retry \/ Retried \/ Look \/ Mark
Next == Loop \/ Worker \/ Stop \/ Stopped \/ FlushBegins \/ FlushEnds

Spec == Init /\ [][Next]_vars
------------------------------------------------------------------------------
(* Properties                                                              *)

\* "Nothing is lost silently": when the writer has ended, every row handed over
\* before stop() is in the database or was reported, with batches that failed
\* and were retried, a full queue and a stop without room for its marker.
NothingLost ==
    worker = "end" =>
        \A r \in 1 .. stopAt : r \in Range(disk) \cup reported

\* Rows land in the order they were handed over, each once, although a failed
\* batch runs twice; what stop() found the loop writing inline aside.
RowsInOrder ==
    LET landed == {i \in 1 .. Len(disk) : stopping = "no" \/ disk[i] <= stopAt}
    IN \A i, j \in landed : i < j => disk[i] < disk[j]

\* flush() "blocks until every queued write has landed" (history.py:146).
FlushedIsWritten == flushed => flush \subseteq Range(disk) \cup reported

\* The batch was made so that it does not stall the loop's own settings writes
\* (db/core.py:128-131): never do the loop and the writer wait for each other.
SavesDoNotStall == ~(loop = "save" /\ dbLock = "worker" /\ worker = "batch" /\ Blocked)
==============================================================================
