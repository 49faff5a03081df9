---------------------------- MODULE VoteJournal -----------------------------
(***************************************************************************)
(* The journal of accepted votes (vote/journal.py) and the life of the API *)
(* process around it (main.py). With ASYNC (VOTE_ASYNC=true) a vote is put *)
(* on a bounded queue and one worker writes batches of the queue to the    *)
(* table vote; without it every vote is written at once by its handler.    *)
(***************************************************************************)
EXTENDS PollStore

CONSTANTS
    ASYNC,                  \* VOTE_ASYNC
    JOURNAL_QUEUE_SIZE,     \* capacity of the queue (10000)
    JOURNAL_BATCH_SIZE      \* most rows of one INSERT (1000)

ASSUME AsyncAssumption == ASYNC \in BOOLEAN
ASSUME QueueAssumption ==
    JOURNAL_QUEUE_SIZE \in Nat \ {0} /\ JOURNAL_BATCH_SIZE \in Nat \ {0}

VARIABLES
    api,            \* the process: up, draining, closing, down or crashed
    queue,          \* asyncio.Queue of the journal
    unfinished,     \* its count of puts without a task_done
    worker,         \* the task _run: none, idle, collecting or writing
    batch,          \* the events the worker holds
    lost            \* history: events that will never be written

journalVars == <<api, queue, unfinished, worker, batch, lost>>

JournalTypeOK ==
    /\ api \in {"up", "draining", "closing", "down", "crashed"}
    /\ queue \in Seq(VoteEvent)
    /\ unfinished \in Nat
    /\ worker \in {"none", "idle", "collecting", "writing"}
    /\ batch \in Seq(VoteEvent)
    /\ lost \subseteq VoteEvent

\* A process just started. init_journal starts the worker only when the
\* journal is asynchronous.
JournalInit ==
    /\ api = "up"
    /\ queue = <<>>
    /\ unfinished = 0
    /\ worker = IF ASYNC THEN "idle" ELSE "none"
    /\ batch = <<>>
    /\ lost = {}

-----------------------------------------------------------------------------
\* Operations called by the handlers

\* Mutant: the event bypasses the count that join() waits on.
EnqueueUncounted(event) ==
    \/ Len(queue) < JOURNAL_QUEUE_SIZE /\ queue' = Append(queue, event)
          /\ UNCHANGED <<unfinished, lost>>
    \/ Len(queue) = JOURNAL_QUEUE_SIZE /\ lost' = lost \cup {event}
          /\ UNCHANGED <<queue, unfinished>>

\* enqueue: put_nowait, or a line in the log when the queue is full.
Enqueue(event) ==
    \/ /\ Len(queue) < JOURNAL_QUEUE_SIZE
       /\ queue' = Append(queue, event)
       /\ unfinished' = unfinished + 1
       /\ UNCHANGED lost
    \/ /\ Len(queue) = JOURNAL_QUEUE_SIZE
       /\ lost' = lost \cup {event}
       /\ UNCHANGED <<queue, unfinished>>

\* _write_batch: one INSERT in one transaction. It fails when the database
\* does, and as a whole when one row breaks the foreign key. An INSERT that
\* commits and whose reply is lost is the first disjunct: all that differs is
\* a line in the log.
WriteBatch(events) ==
    \/ /\ ForeignKeyHolds(events)
       /\ vote' = InsertOnConflictDoNothing(vote, events)
       /\ UNCHANGED lost
    \/ /\ lost' = lost \cup Range(events)
       /\ UNCHANGED vote

-----------------------------------------------------------------------------
\* The worker: _run and _next_batch

\* Mutant: each get() starts the batch anew.
WorkerTakeOne ==
    /\ worker \in {"idle", "collecting"}
    /\ queue # <<>>
    /\ batch' = <<Head(queue)>>
    /\ queue' = Tail(queue)
    /\ worker' = "collecting"
    /\ UNCHANGED <<storeVars, api, unfinished, lost>>

\* queue.get(): the first event of a batch is waited for without limit, the
\* others until the batch is full or the flush interval is over.
WorkerTake ==
    /\ worker \in {"idle", "collecting"}
    /\ queue # <<>>
    /\ Len(batch) < JOURNAL_BATCH_SIZE
    /\ batch' = Append(batch, Head(queue))
    /\ queue' = Tail(queue)
    /\ worker' = "collecting"
    /\ UNCHANGED <<storeVars, api, unfinished, lost>>

\* Mutant: no flush interval, only full batches are written.
WorkerFlushFull ==
    /\ worker = "collecting"
    /\ Len(batch) = JOURNAL_BATCH_SIZE
    /\ worker' = "writing"
    /\ UNCHANGED <<storeVars, api, queue, unfinished, batch, lost>>

\* The flush interval may end after any event of the batch.
WorkerFlush ==
    /\ worker = "collecting"
    /\ worker' = "writing"
    /\ UNCHANGED <<storeVars, api, queue, unfinished, batch, lost>>

\* Mutant: task_done only after an INSERT that worked.
WorkerWriteDoneOnSuccess ==
    /\ worker = "writing"
    /\ WriteBatch(batch)
    /\ batch' = <<>>
    /\ unfinished' = IF lost' = lost THEN unfinished - Len(batch) ELSE unfinished
    /\ worker' = "idle"
    /\ UNCHANGED <<now, question, question_option, cache, dedup, counters,
                   api, queue>>

\* task_done for every event of the batch, whether the INSERT failed or not.
WorkerWrite ==
    /\ worker = "writing"
    /\ WriteBatch(batch)
    /\ batch' = <<>>
    /\ unfinished' = unfinished - Len(batch)
    /\ worker' = "idle"
    /\ UNCHANGED <<now, question, question_option, cache, dedup, counters,
                   api, queue>>

WorkerNext == WorkerTake \/ WorkerFlush \/ WorkerWrite

-----------------------------------------------------------------------------
\* The process

\* SIGTERM: the server takes no new request and finishes those it has.
ApiShutdown ==
    /\ api = "up"
    /\ api' = "draining"
    /\ UNCHANGED <<storeVars, queue, unfinished, worker, batch, lost>>

\* Mutant: close() waits for an empty queue instead of join().
QueueIsEmpty == queue = <<>>

\* VoteJournal.close in the lifespan's finally: join waits until no put is
\* unfinished, then the worker is cancelled, with whatever it may hold.
JoinReturns == worker = "none" \/ unfinished = 0

JournalClose ==
    /\ api = "closing"
    /\ JoinReturns
    /\ api' = "down"
    /\ worker' = "none"
    /\ lost' = lost \cup Range(queue) \cup Range(batch)
    /\ queue' = <<>>
    /\ batch' = <<>>
    /\ unfinished' = 0
    /\ UNCHANGED storeVars

\* A new process, with a journal of its own.
ApiStart ==
    /\ api \in {"down", "crashed"}
    /\ api' = "up"
    /\ queue' = <<>>
    /\ unfinished' = 0
    /\ worker' = IF ASYNC THEN "idle" ELSE "none"
    /\ batch' = <<>>
    /\ UNCHANGED <<storeVars, lost>>

\* The process dies: the queue and the worker's batch were only in memory.
JournalCrash ==
    /\ api \in {"up", "draining", "closing"}
    /\ api' = "crashed"
    /\ worker' = "none"
    /\ queue' = <<>>
    /\ batch' = <<>>
    /\ unfinished' = 0
=============================================================================
