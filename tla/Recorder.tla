------------------------------ MODULE Recorder ------------------------------
(***************************************************************************)
(* The SQLite recorder: the handle the reducer owns (storage/mod.rs,       *)
(* Recorder) and the writer thread behind it (writer_loop), joined by one  *)
(* bounded queue.                                                          *)
(*                                                                         *)
(* A batch of rows is the number of its offer (record is called for batch  *)
(* 1, then 2, ...); what the rows say is not modelled here.  The commit of *)
(* a batch and the addition to the written counter are two steps, as they  *)
(* are in the code: the UI reads the counter in between.                   *)
(*                                                                         *)
(* Definitions named X_Fault are not part of the specification: each is X  *)
(* with a plausible bug, kept to show that a property would notice it.     *)
(***************************************************************************)
EXTENDS Naturals, Sequences, FiniteSets

CONSTANTS
  QueueCapacity,  \* QUEUE_CAPACITY: messages the queue holds
  MaxBatches      \* bound: batches the reducer ever offers

ASSUME QueueCapacityAssumption == QueueCapacity \in Nat \ {0}
ASSUME MaxBatchesAssumption == MaxBatches \in Nat

VARIABLES
  client,      \* where the owner of the Recorder is
  offered,     \* batches passed to record() so far
  dropped,     \* Recorder.dropped
  queue,       \* the sync_channel: batches, then perhaps Shutdown
  writer,      \* where writer_loop is
  held,        \* the batch the writer took from the queue, or NoBatch
  flushing,    \* the main loop has ended, the final drain runs
  cleanupDue,  \* last_cleanup.elapsed() >= CLEANUP_EVERY
  attempted,   \* history: the batches write_batch was called with, in order
  stored,      \* batches whose transaction committed
  written      \* Recorder.written, counted in batches

clientVars == <<client, offered, dropped>>
writerVars == <<writer, held, flushing, cleanupDue, attempted, stored, written>>
vars == <<clientVars, queue, writerVars>>

NoBatch == 0
Batch == 1 .. MaxBatches
Shutdown == MaxBatches + 1         \* Msg::Shutdown, told apart from batches
Msg == Batch \cup {Shutdown}

\* open: record() may be called; sending: in tx.send(Msg::Shutdown);
\* joining: in t.join(); dropping: Drop runs after shutdown(); closed.
ClientState == {"open", "sending", "joining", "dropping", "closed"}

\* receiving: in rx.recv(); writing: in write_batch; counting: committed, the
\* counter not yet raised; cleaning: at the retention test; draining: in the
\* try_recv loop that follows the main loop.
WriterState == {"receiving", "writing", "counting", "cleaning", "draining",
                "stopped"}

\* last_cleanup is backdated by CLEANUP_EVERY, so the first batch triggers a
\* pass; checked_sub may fail on a machine that booted minutes ago, and then
\* the first pass waits.
Init ==
  /\ client = "open"
  /\ offered = 0
  /\ dropped = 0
  /\ queue = <<>>
  /\ writer = "receiving"
  /\ held = NoBatch
  /\ flushing = FALSE
  /\ cleanupDue \in BOOLEAN
  /\ attempted = <<>>
  /\ stored = {}
  /\ written = 0

-----------------------------------------------------------------------------
(* The owner.  The receiver lives in the writer thread: once that thread   *)
(* has ended, every send fails.                                            *)

Connected == writer # "stopped"

HasRoom_Fault == TRUE                             \* an unbounded channel
HasRoom == Len(queue) < QueueCapacity

Enqueue_Fault(m) == queue' = <<m>> \o queue       \* a stack, not a queue
Enqueue(m) == queue' = Append(queue, m)

CountDrop_Fault == UNCHANGED dropped              \* `let _ = try_send(..)`
CountDrop == dropped' = dropped + 1

MayRecord_Fault == client # "closed"              \* shutdown(&self), not (self)
MayRecord == client = "open"

\* Recorder::record: try_send; a full or disconnected queue drops the batch.
Record ==
  /\ MayRecord
  /\ offered < MaxBatches
  /\ offered' = offered + 1
  /\ \/ Connected /\ HasRoom /\ Enqueue(offered + 1) /\ UNCHANGED dropped
     \/ ~ (Connected /\ HasRoom) /\ CountDrop /\ UNCHANGED queue
  /\ UNCHANGED <<client, writerVars>>

\* Recorder::shutdown, or Drop alone when run() returns early with an error.
BeginShutdown ==
  /\ client = "open"
  /\ client' = "sending"
  /\ UNCHANGED <<offered, dropped, queue, writerVars>>

\* tx.send(Msg::Shutdown) blocks while the queue is full; it fails at once
\* when the receiver is gone, and the result is ignored.
SendShutdown(from, to) ==
  /\ client = from
  /\ \/ Connected /\ HasRoom /\ Enqueue(Shutdown)
     \/ ~ Connected /\ UNCHANGED queue
  /\ client' = to
  /\ UNCHANGED <<offered, dropped, writerVars>>

ThreadEnded == writer = "stopped"

\* t.join() returns when the thread has ended; shutdown() then drops self.
Join ==
  /\ client = "joining"
  /\ ThreadEnded
  /\ client' = "dropping"
  /\ UNCHANGED <<offered, dropped, queue, writerVars>>

\* shutdown() sends and joins; Drop::drop, run as it returns, sends again and
\* finds no thread to join.
ClientStep ==
  \/ SendShutdown("sending", "joining")
  \/ Join
  \/ SendShutdown("dropping", "closed")

-----------------------------------------------------------------------------
(* The writer thread.                                                      *)

\* rx.recv(): a batch is taken to write_batch, anything else ends the loop.
Receive ==
  /\ writer = "receiving"
  /\ queue # <<>>
  /\ queue' = Tail(queue)
  /\ \/ /\ Head(queue) \in Batch
        /\ writer' = "writing"
        /\ held' = Head(queue)
        /\ UNCHANGED flushing
     \/ /\ Head(queue) = Shutdown
        /\ writer' = "draining"
        /\ flushing' = TRUE
        /\ UNCHANGED held
  /\ UNCHANGED <<clientVars, cleanupDue, attempted, stored, written>>

\* Where a loop goes on after a batch: the drain has no retention test.
AfterBatch == IF flushing THEN "draining" ELSE "cleaning"

AfterWrite_Fault(ok) == "counting"                \* failed batches counted too
AfterWrite(ok) == IF ok THEN "counting" ELSE AfterBatch

\* write_batch: one transaction.  ok tells whether it committed; an error is
\* logged and the batch is gone.
Write(ok) ==
  /\ writer = "writing"
  /\ attempted' = Append(attempted, held)
  /\ stored' = IF ok THEN stored \cup {held} ELSE stored
  /\ held' = NoBatch
  /\ writer' = AfterWrite(ok)
  /\ UNCHANGED <<clientVars, queue, flushing, cleanupDue, written>>

\* written.fetch_add(n).
Count ==
  /\ writer = "counting"
  /\ written' = written + 1
  /\ writer' = AfterBatch
  /\ UNCHANGED <<clientVars, queue, held, flushing, cleanupDue, attempted, stored>>

AfterCleanup_Fault == "cleaning"                  \* no bound on the chunks
AfterCleanup == "receiving"

\* The retention pass when one is due: at most CLEANUP_MAX_CHUNKS deletes, so
\* one bounded step.  last_cleanup is set before the pass, even if it fails.
Cleanup ==
  /\ writer = "cleaning"
  /\ writer' = AfterCleanup
  /\ cleanupDue' = FALSE
  /\ UNCHANGED <<clientVars, queue, held, flushing, attempted, stored, written>>

\* rx.try_recv() after the loop, and the thread's end when it finds no batch.
Drain ==
  /\ writer = "draining"
  /\ queue' = IF queue = <<>> THEN queue ELSE Tail(queue)
  /\ IF queue # <<>> /\ Head(queue) \in Batch
       THEN writer' = "writing" /\ held' = Head(queue)
       ELSE writer' = "stopped" /\ UNCHANGED held
  /\ UNCHANGED <<clientVars, flushing, cleanupDue, attempted, stored, written>>

WriterStep ==
  \/ Receive
  \/ \E ok \in BOOLEAN : Write(ok)
  \/ Count
  \/ Cleanup
  \/ Drain

\* CLEANUP_EVERY elapses.
CleanupFallsDue ==
  /\ ~ cleanupDue
  /\ Connected
  /\ cleanupDue' = TRUE
  /\ UNCHANGED <<clientVars, queue, writer, held, flushing, attempted, stored,
                 written>>

-----------------------------------------------------------------------------
\* The process has exited.
Done ==
  /\ client = "closed"
  /\ UNCHANGED vars

Next ==
  \/ Record
  \/ BeginShutdown
  \/ ClientStep
  \/ WriterStep
  \/ CleanupFallsDue
  \/ Done

\* Both are running OS threads; nobody owes the recorder a batch or a quit.
Fairness == WF_vars(WriterStep) /\ WF_vars(ClientStep)

Spec == Init /\ [][Next]_vars /\ Fairness

-----------------------------------------------------------------------------
(* What the recorder promises.                                             *)

\* The types, and the bound of the queue (QUEUE_CAPACITY): collection is
\* never delayed and memory never grows behind a slow disk.
TypeOK ==
  /\ client \in ClientState
  /\ offered \in 0 .. MaxBatches
  /\ dropped \in 0 .. MaxBatches
  /\ queue \in Seq(Msg) /\ Len(queue) <= QueueCapacity
  /\ writer \in WriterState
  /\ held \in Batch \cup {NoBatch}
  /\ flushing \in BOOLEAN
  /\ cleanupDue \in BOOLEAN
  /\ attempted \in Seq(Batch)
  /\ stored \in SUBSET Batch
  /\ written \in 0 .. MaxBatches

\* The batches in the queue.
Queued == {b \in Batch : \E i \in 1 .. Len(queue) : queue[i] = b}

\* The batches that were accepted and are not settled yet.
Pending == Queued \cup ({held} \ {NoBatch})

QueuedCount ==
  IF queue # <<>> /\ queue[Len(queue)] = Shutdown THEN Len(queue) - 1 ELSE Len(queue)

\* No batch is lost silently or written twice: each one offered was counted as
\* dropped, or waits in the queue, or is in the writer's hands, or was given
\* to write_batch exactly once.
Accounted ==
  dropped + QueuedCount + (IF held = NoBatch THEN 0 ELSE 1) + Len(attempted) = offered

\* rows_written() never claims a row that is not in the database, whenever the
\* UI reads it, and has caught up once the thread has ended.
NeverOverclaims ==
  /\ written <= Cardinality(stored)
  /\ writer = "stopped" => written = Cardinality(stored)

\* The final drain ("best-effort final drain of anything still queued") never
\* finds a batch: record() borrows the handle that shutdown() consumes, so
\* Shutdown is the last batch-or-shutdown message, and everything accepted
\* has been written by the time it is received.
DrainFindsNothing == flushing => Pending = {}

\* Quitting never hangs on the recorder, even when the queue is full.
ShutdownTerminates == (client = "sending") ~> (client = "closed")

\* The detailed recorder implements the promise of BestEffortLog: in order,
\* exactly once, nothing kept is left behind when shutdown() returns.
Log == INSTANCE BestEffortLog WITH
  refused <- dropped,
  kept <- Pending,
  closed <- client \in {"dropping", "closed"}

ImplementsLog == Log!Spec
=============================================================================
