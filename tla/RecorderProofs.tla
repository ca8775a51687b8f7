--------------------------- MODULE RecorderProofs ---------------------------
(***************************************************************************)
(* Proofs about Recorder, for every queue capacity and every number of     *)
(* batches: the type invariant, the accounting of batches, the final drain *)
(* that finds nothing, and that the recorder implements BestEffortLog.     *)
(*                                                                         *)
(* The argument: batches are numbered as they are offered, so the order of *)
(* attempted, held and queue is one strictly increasing run of numbers     *)
(* that ends at offered, with Shutdown (the largest number) last.          *)
(***************************************************************************)
EXTENDS Recorder, FiniteSetTheorems, TLAPS

\* Where Shutdown can be, and what the program counters imply.
Control ==
  /\ client \in {"open", "sending"} =>
       ~ flushing /\ \A i \in 1 .. Len(queue) : queue[i] \in Batch
  /\ client \in {"dropping", "closed"} => writer = "stopped"
  /\ flushing <=> writer \in {"draining", "stopped"}
  /\ flushing => queue = <<>>
  /\ writer = "writing" <=> held # NoBatch

\* attempted, held and queue are one increasing run of offers.
Order ==
  /\ \A i, j \in 1 .. Len(queue) : i < j => queue[i] < queue[j]
  /\ \A i \in 1 .. Len(queue) : queue[i] \in Batch => queue[i] <= offered
  /\ \A i \in 1 .. Len(queue) : held < queue[i]
  /\ held <= offered
  /\ \A k \in 1 .. Len(attempted) :
       /\ attempted[k] <= offered
       /\ held # NoBatch => attempted[k] < held
       /\ \A i \in 1 .. Len(queue) : attempted[k] < queue[i]
  /\ \A b \in stored : \E k \in 1 .. Len(attempted) : attempted[k] = b

\* The counter lags the database by the one batch between commit and count.
Counted ==
  Cardinality(stored) = written + (IF writer = "counting" THEN 1 ELSE 0)

Types ==
  /\ client \in ClientState
  /\ offered \in 0 .. MaxBatches
  /\ dropped \in Nat
  /\ queue \in Seq(Msg) /\ Len(queue) <= QueueCapacity
  /\ writer \in WriterState
  /\ held \in Batch \cup {NoBatch}
  /\ flushing \in BOOLEAN
  /\ cleanupDue \in BOOLEAN
  /\ attempted \in Seq(Batch)
  /\ stored \in SUBSET Batch
  /\ written \in Nat

IInv == Types /\ Control /\ Order /\ Accounted /\ Counted

-----------------------------------------------------------------------------
\* What Head, Tail and Append do to a sequence of messages.
LEMMA TailFacts ==
  ASSUME NEW S, NEW q \in Seq(S), q # <<>>
  PROVE  /\ Tail(q) \in Seq(S)
         /\ Len(Tail(q)) = Len(q) - 1
         /\ \A i \in 1 .. Len(Tail(q)) : i + 1 \in 1 .. Len(q) /\ Tail(q)[i] = q[i + 1]
         /\ Head(q) = q[1]
         /\ Head(q) \in S
         /\ 1 \in 1 .. Len(q)
  OBVIOUS

LEMMA AppendFacts ==
  ASSUME NEW S, NEW q \in Seq(S), NEW e \in S
  PROVE  /\ Append(q, e) \in Seq(S)
         /\ Len(Append(q, e)) = Len(q) + 1
         /\ \A i \in 1 .. Len(q) : Append(q, e)[i] = q[i]
         /\ Append(q, e)[Len(q) + 1] = e
         /\ \A i \in 1 .. Len(Append(q, e)) : i \in 1 .. Len(q) \/ i = Len(q) + 1
         /\ Append(q, e) # <<>>
  OBVIOUS

LEMMA StoredFinite ==
  ASSUME MaxBatches \in Nat, NEW T \in SUBSET Batch
  PROVE  /\ IsFiniteSet(T)
         /\ Cardinality(T) \in 0 .. MaxBatches
<1>1. IsFiniteSet(Batch) /\ Cardinality(Batch) = MaxBatches
  BY FS_Interval DEF Batch
<1>2. QED
  BY <1>1, FS_Subset, FS_CardinalityType

\* The inductive invariant holds at the start.
LEMMA InitIInv == Init => IInv
<1> SUFFICES ASSUME Init PROVE IInv
  OBVIOUS
<1> USE MaxBatchesAssumption, QueueCapacityAssumption DEF Init
<1>1. Types
  <2>1. <<>> \in Seq(Msg) /\ <<>> \in Seq(Batch) /\ Len(<<>>) = 0
    OBVIOUS
  <2>2. queue \in Seq(Msg) /\ Len(queue) <= QueueCapacity /\ attempted \in Seq(Batch)
    BY <2>1
  <2>3. cleanupDue \in BOOLEAN /\ flushing \in BOOLEAN
    BY Zenon
  <2>4. QED
    BY <2>2, <2>3 DEF Types, ClientState, WriterState, NoBatch
<1>2. Control
  BY DEF Control, NoBatch
<1>3. Order
  BY DEF Order, NoBatch
<1>4. Accounted
  BY DEF Accounted, QueuedCount, NoBatch
<1>5. Counted
  BY FS_EmptySet DEF Counted
<1>6. QED
  BY <1>1, <1>2, <1>3, <1>4, <1>5 DEF IInv

-----------------------------------------------------------------------------
\* A message greater than everything before it may be sent.
LEMMA AppendKeepsOrder ==
  ASSUME Types, Order, NEW m \in Msg, queue' = Append(queue, m),
         UNCHANGED <<held, attempted, stored>>,
         offered' \in 0 .. MaxBatches, offered <= offered',
         m \in Batch => m <= offered',
         held < m,
         \A i \in 1 .. Len(queue) : queue[i] < m,
         \A k \in 1 .. Len(attempted) : attempted[k] < m
  PROVE  Order'
<1> USE MaxBatchesAssumption
<1>0. /\ Len(queue) \in Nat
      /\ Len(queue') = Len(queue) + 1
      /\ \A i \in 1 .. Len(queue) : queue'[i] = queue[i] /\ queue[i] \in Int
      /\ queue'[Len(queue) + 1] = m
      /\ \A i \in 1 .. Len(queue') : i \in 1 .. Len(queue) \/ i = Len(queue) + 1
  BY AppendFacts DEF Types, Msg, Batch, Shutdown
<1>1. \A i, j \in 1 .. Len(queue') : i < j => queue'[i] < queue'[j]
  <2> SUFFICES ASSUME NEW i \in 1 .. Len(queue'), NEW j \in 1 .. Len(queue'), i < j
               PROVE  queue'[i] < queue'[j]
    OBVIOUS
  <2>1. i \in 1 .. Len(queue)
    BY <1>0
  <2>2. CASE j \in 1 .. Len(queue)
    BY <2>1, <2>2, <1>0 DEF Order
  <2>3. CASE j = Len(queue) + 1
    BY <2>1, <2>3, <1>0
  <2>4. QED
    BY <2>2, <2>3, <1>0
<1>2. \A i \in 1 .. Len(queue') : queue'[i] \in Batch => queue'[i] <= offered'
  BY <1>0 DEF Order, Types
<1>3. \A i \in 1 .. Len(queue') : held' < queue'[i]
  BY <1>0 DEF Order
<1>4. held' <= offered'
  BY DEF Order, Types, Batch, NoBatch
<1>5. \A k \in 1 .. Len(attempted) :
        attempted[k] <= offered' /\ \A i \in 1 .. Len(queue') : attempted[k] < queue'[i]
  <2> SUFFICES ASSUME NEW k \in 1 .. Len(attempted)
               PROVE  /\ attempted[k] <= offered'
                      /\ \A i \in 1 .. Len(queue') : attempted[k] < queue'[i]
    OBVIOUS
  <2>1. attempted[k] \in Int /\ attempted[k] <= offered
    BY DEF Order, Types, Batch
  <2>2. attempted[k] <= offered'
    BY <2>1 DEF Types
  <2>3. \A i \in 1 .. Len(queue') : attempted[k] < queue'[i]
    BY <1>0 DEF Order
  <2>4. QED
    BY <2>2, <2>3
<1>6. QED
  BY <1>1, <1>2, <1>3, <1>4, <1>5 DEF Order

\* record() keeps the invariant, whether the batch is queued or dropped.
LEMMA RecordIInv == IInv /\ Record => IInv'
<1> SUFFICES ASSUME IInv, Record PROVE IInv'
  OBVIOUS
<1> USE MaxBatchesAssumption, QueueCapacityAssumption
        DEF IInv, Record, MayRecord, writerVars
<1> offered + 1 \in Batch /\ offered + 1 \in Msg /\ offered \in Nat
  BY DEF Types, Batch, Msg
<1>1. CASE Connected /\ HasRoom /\ Enqueue(offered + 1) /\ UNCHANGED dropped
  <2> USE <1>1 DEF Enqueue
  <2>0. /\ queue' = Append(queue, offered + 1)
        /\ queue' \in Seq(Msg)
        /\ Len(queue') = Len(queue) + 1
        /\ \A i \in 1 .. Len(queue) : queue'[i] = queue[i]
        /\ queue'[Len(queue) + 1] = offered + 1
        /\ \A i \in 1 .. Len(queue') : i \in 1 .. Len(queue) \/ i = Len(queue) + 1
        /\ queue' # <<>>
        /\ Len(queue) \in Nat
    BY AppendFacts DEF Types
  <2>1. Types'
    BY <2>0 DEF Types, HasRoom
  <2>2. Control'
    BY <2>0 DEF Control, Connected
  <2>3. Order'
    <3>1. /\ held < offered + 1
          /\ offered' \in 0 .. MaxBatches /\ offered <= offered' /\ offered + 1 <= offered'
      BY DEF Order, Types, Batch, NoBatch
    <3>2. \A i \in 1 .. Len(queue) : queue[i] < offered + 1
      BY DEF Order, Types, Control, Batch
    <3>3. \A k \in 1 .. Len(attempted) : attempted[k] < offered + 1
      BY DEF Order, Types, Batch
    <3>4. UNCHANGED <<held, attempted, stored>>
      OBVIOUS
    <3>5. QED
      BY <2>0, <3>1, <3>2, <3>3, <3>4, AppendKeepsOrder
  <2>4. Accounted'
    <3>1. QueuedCount' = Len(queue) + 1
      BY <2>0 DEF QueuedCount, Batch, Shutdown
    <3>2. QueuedCount = Len(queue)
      BY DEF QueuedCount, Control, Batch, Shutdown, Types
    <3>3. QED
      BY <3>1, <3>2, <2>0 DEF Accounted, Types, Batch, NoBatch
  <2>5. Counted'
    BY DEF Counted
  <2>6. QED
    BY <2>1, <2>2, <2>3, <2>4, <2>5
<1>2. CASE ~ (Connected /\ HasRoom) /\ CountDrop /\ UNCHANGED queue
  <2> USE <1>2 DEF CountDrop
  <2>1. Types'
    BY DEF Types
  <2>2. Control'
    BY DEF Control
  <2>3. Order'
    BY DEF Order, Types, Batch, Msg, NoBatch
  <2>4. Accounted'
    <3>1. QueuedCount' = QueuedCount /\ QueuedCount \in Int /\ Len(attempted) \in Nat
      BY DEF QueuedCount, Types
    <3>2. QED
      BY <3>1 DEF Accounted, Types
  <2>5. Counted'
    BY DEF Counted
  <2>6. QED
    BY <2>1, <2>2, <2>3, <2>4, <2>5
<1>3. QED
  BY <1>1, <1>2

\* The owner's steps: BeginShutdown, the two sends of Shutdown, Join.
LEMMA ClientIInv == IInv /\ (BeginShutdown \/ ClientStep) => IInv'
<1> USE MaxBatchesAssumption, QueueCapacityAssumption DEF IInv, writerVars
<1>1. ASSUME IInv, BeginShutdown PROVE IInv'
  <2> USE <1>1 DEF BeginShutdown
  <2>1. Types'
    BY DEF Types, ClientState
  <2>2. Control'
    BY DEF Control
  <2>3. Order' /\ Accounted' /\ Counted'
    BY DEF Order, Accounted, QueuedCount, Counted
  <2>4. QED
    BY <2>1, <2>2, <2>3
<1>2. ASSUME IInv, SendShutdown("sending", "joining") PROVE IInv'
  <2> USE <1>2 DEF SendShutdown, Enqueue
  <2>0. Connected /\ HasRoom /\ queue' = Append(queue, Shutdown) /\ Shutdown \in Msg
    BY DEF Control, Connected, Msg
  <2>1. /\ queue' = Append(queue, Shutdown)
        /\ queue' \in Seq(Msg)
        /\ Len(queue') = Len(queue) + 1
        /\ \A i \in 1 .. Len(queue) : queue'[i] = queue[i]
        /\ queue'[Len(queue) + 1] = Shutdown
        /\ \A i \in 1 .. Len(queue') : i \in 1 .. Len(queue) \/ i = Len(queue) + 1
        /\ queue' # <<>>
        /\ Len(queue) \in Nat
    BY <2>0, AppendFacts DEF Types
  <2>2. Types'
    BY <2>0, <2>1 DEF Types, ClientState, HasRoom
  <2>3. Control'
    BY <2>0, <2>1 DEF Control, Connected
  <2>4. Order'
    <3>1. /\ held < Shutdown /\ Shutdown \in Msg /\ Shutdown \notin Batch
          /\ offered' \in 0 .. MaxBatches /\ offered <= offered'
      BY DEF Types, Msg, Batch, Shutdown, NoBatch
    <3>2. \A i \in 1 .. Len(queue) : queue[i] < Shutdown
      BY DEF Control, Batch, Shutdown
    <3>3. \A k \in 1 .. Len(attempted) : attempted[k] < Shutdown
      BY DEF Types, Batch, Shutdown
    <3>4. UNCHANGED <<held, attempted, stored>>
      OBVIOUS
    <3>5. QED
      BY <2>0, <3>1, <3>2, <3>3, <3>4, AppendKeepsOrder
  <2>5. Accounted'
    <3>1. QueuedCount' = Len(queue)
      BY <2>1 DEF QueuedCount
    <3>2. QueuedCount = Len(queue)
      BY DEF QueuedCount, Control, Batch, Shutdown, Types
    <3>3. QED
      BY <3>1, <3>2, <2>1 DEF Accounted, Types
  <2>6. Counted'
    BY DEF Counted
  <2>7. QED
    BY <2>2, <2>3, <2>4, <2>5, <2>6
<1>3. ASSUME IInv, Join PROVE IInv'
  <2> USE <1>3 DEF Join, ThreadEnded
  <2>1. Types'
    BY DEF Types, ClientState
  <2>2. Control'
    BY DEF Control
  <2>3. Order' /\ Accounted' /\ Counted'
    BY DEF Order, Accounted, QueuedCount, Counted
  <2>4. QED
    BY <2>1, <2>2, <2>3
<1>4. ASSUME IInv, SendShutdown("dropping", "closed") PROVE IInv'
  <2> USE <1>4 DEF SendShutdown
  <2>0. ~ Connected /\ UNCHANGED queue
    BY DEF Control, Connected
  <2>1. Types'
    BY <2>0 DEF Types, ClientState
  <2>2. Control'
    BY <2>0 DEF Control
  <2>3. Order' /\ Accounted' /\ Counted'
    BY <2>0 DEF Order, Accounted, QueuedCount, Counted
  <2>4. QED
    BY <2>1, <2>2, <2>3
<1>5. QED
  BY <1>1, <1>2, <1>3, <1>4 DEF ClientStep

-----------------------------------------------------------------------------
\* rx.recv(): the head leaves the queue, and is the smallest number in it.
LEMMA ReceiveIInv == IInv /\ Receive => IInv'
<1> SUFFICES ASSUME IInv, Receive PROVE IInv'
  OBVIOUS
<1> USE MaxBatchesAssumption, QueueCapacityAssumption
        DEF IInv, Receive, clientVars
<1>0. /\ queue' = Tail(queue)
      /\ queue' \in Seq(Msg)
      /\ Len(queue) \in Nat
      /\ Len(queue') = Len(queue) - 1
      /\ \A i \in 1 .. Len(queue') : i + 1 \in 1 .. Len(queue) /\ queue'[i] = queue[i + 1]
      /\ Head(queue) = queue[1]
      /\ Head(queue) \in Msg
      /\ 1 \in 1 .. Len(queue)
  BY TailFacts DEF Types
<1>1. held = NoBatch /\ ~ flushing
  BY DEF Control
<1>2. CASE Head(queue) \in Batch /\ writer' = "writing" /\ held' = Head(queue)
           /\ UNCHANGED flushing
  <2> USE <1>2
  <2>1. Types'
    BY <1>0 DEF Types, WriterState
  <2>2. Control'
    <3>1. client \in {"open", "sending"} =>
            ~ flushing' /\ \A i \in 1 .. Len(queue') : queue'[i] \in Batch
      BY <1>0, <1>1 DEF Control
    <3>2. client' \in {"dropping", "closed"} => writer' = "stopped"
      BY DEF Control
    <3>3. flushing' <=> writer' \in {"draining", "stopped"}
      BY <1>1
    <3>4. flushing' => queue' = <<>>
      BY <1>1
    <3>5. writer' = "writing" <=> held' # NoBatch
      BY DEF Batch, NoBatch
    <3>6. QED
      BY <3>1, <3>2, <3>3, <3>4, <3>5 DEF Control
  <2>3. Order'
    BY <1>0, <1>1 DEF Order, Types, Batch, NoBatch
  <2>4. Accounted'
    <3>1. queue'# <<>> => Len(queue') \in 1 .. Len(queue') /\ queue'[Len(queue')] = queue[Len(queue)]
      BY <1>0
    <3>2. queue' = <<>> => Len(queue) = 1 /\ queue[Len(queue)] = Head(queue)
      <4>1. Len(<<>>) = 0
        OBVIOUS
      <4>2. QED
        BY <4>1, <1>0
    <3>3. Head(queue) # Shutdown
      BY DEF Batch, Shutdown
    <3>4. QueuedCount' = QueuedCount - 1 /\ QueuedCount \in Int
      BY <1>0, <3>1, <3>2, <3>3 DEF QueuedCount
    <3>5. held' # NoBatch
      BY DEF Batch, NoBatch
    <3>6. QED
      BY <1>1, <3>4, <3>5 DEF Accounted, Types
  <2>5. Counted'
    BY DEF Counted
  <2>6. QED
    BY <2>1, <2>2, <2>3, <2>4, <2>5
<1>3. CASE Head(queue) = Shutdown /\ writer' = "draining" /\ flushing' = TRUE
           /\ UNCHANGED held
  <2> USE <1>3
  <2>0. Len(queue) = 1 /\ queue' = <<>>
    <3>1. \A i \in 2 .. Len(queue) : queue[1] < queue[i] /\ queue[i] \in Msg
      BY <1>0 DEF Order, Types
    <3>2. Len(queue) = 1
      BY <3>1, <1>0 DEF Msg, Batch, Shutdown
    <3>3. QED
      BY <3>2, <1>0
  <2>1. Types'
    BY <1>0 DEF Types, WriterState
  <2>2. Control'
    BY <1>0, <1>1, <2>0 DEF Control, Batch, Shutdown
  <2>3. Order'
    BY <1>0, <1>1, <2>0 DEF Order, Types, Batch, NoBatch
  <2>4. Accounted'
    BY <1>0, <1>1, <2>0 DEF Accounted, QueuedCount, Types
  <2>5. Counted'
    BY DEF Counted
  <2>6. QED
    BY <2>1, <2>2, <2>3, <2>4, <2>5
<1>4. QED
  BY <1>2, <1>3

\* write_batch: the batch in hand becomes the newest attempted one.
LEMMA WriteIInv ==
  ASSUME IInv, NEW ok \in BOOLEAN, Write(ok)
  PROVE  IInv'
<1> USE MaxBatchesAssumption, QueueCapacityAssumption
        DEF IInv, Write, clientVars
<1>0. held \in Batch /\ held # NoBatch /\ ~ flushing
  BY DEF Types, Control
<1>1. /\ attempted' = Append(attempted, held)
      /\ attempted' \in Seq(Batch)
      /\ Len(attempted) \in Nat
      /\ Len(attempted') = Len(attempted) + 1
      /\ \A k \in 1 .. Len(attempted) : attempted'[k] = attempted[k]
      /\ attempted'[Len(attempted) + 1] = held
      /\ \A k \in 1 .. Len(attempted') : k \in 1 .. Len(attempted) \/ k = Len(attempted) + 1
  BY <1>0, AppendFacts DEF Types
<1>2. writer' = IF ok THEN "counting" ELSE "cleaning"
  BY <1>0 DEF AfterWrite, AfterBatch
<1>3. stored' = stored \/ (stored' = stored \cup {held} /\ ok)
  OBVIOUS
<1>4. Types'
  BY <1>0, <1>1, <1>2, <1>3 DEF Types, WriterState
<1>5. Control'
  BY <1>0, <1>2 DEF Control
<1>6. Order'
  <2>1. \A k \in 1 .. Len(attempted') :
          /\ attempted'[k] <= offered'
          /\ held' # NoBatch => attempted'[k] < held'
          /\ \A i \in 1 .. Len(queue') : attempted'[k] < queue'[i]
    BY <1>0, <1>1 DEF Order
  <2>2. \A b \in stored' : \E k \in 1 .. Len(attempted') : attempted'[k] = b
    <3> SUFFICES ASSUME NEW b \in stored'
                 PROVE  \E k \in 1 .. Len(attempted') : attempted'[k] = b
      OBVIOUS
    <3>1. CASE b \in stored
      BY <3>1, <1>1 DEF Order
    <3>2. CASE b = held
      BY <3>2, <1>1
    <3>3. QED
      BY <3>1, <3>2, <1>3
  <2>3. \A i \in 1 .. Len(queue') : held' < queue'[i]
    BY <1>0 DEF Order, Types, Msg, Batch, Shutdown, NoBatch
  <2>4. held' <= offered'
    BY DEF Types, NoBatch
  <2>5. QED
    BY <2>1, <2>2, <2>3, <2>4 DEF Order
<1>7. Accounted'
  <2>1. QueuedCount' = QueuedCount /\ QueuedCount \in Int
    BY DEF QueuedCount, Types
  <2>2. QED
    BY <1>0, <1>1, <2>1 DEF Accounted, Types
<1>8. Counted'
  <2>1. Cardinality(stored) = written
    BY <1>0 DEF Counted, Types
  <2>2. CASE ok
    <3>1. held \notin stored
      BY <1>0 DEF Order, Types, Batch, NoBatch
    <3>2. IsFiniteSet(stored)
      BY StoredFinite DEF Types
    <3>3. Cardinality(stored \cup {held}) = Cardinality(stored) + 1
      BY <3>1, <3>2, FS_AddElement
    <3>4. QED
      BY <2>1, <2>2, <3>3, <1>2 DEF Counted
  <2>3. CASE ~ ok
    BY <2>1, <2>3, <1>2 DEF Counted, Types
  <2>4. QED
    BY <2>2, <2>3
<1>9. QED
  BY <1>4, <1>5, <1>6, <1>7, <1>8

\* The steps that move no batch: Count, Cleanup, the drain, the clock.
LEMMA WriterRestIInv == IInv /\ (Count \/ Cleanup \/ Drain \/ CleanupFallsDue) => IInv'
<1> USE MaxBatchesAssumption, QueueCapacityAssumption DEF IInv, clientVars
<1>1. ASSUME IInv, Count PROVE IInv'
  <2> USE <1>1 DEF Count
  <2>0. ~ flushing /\ writer' = "cleaning"
    BY DEF Control, AfterBatch
  <2>1. Types'
    BY <2>0 DEF Types, WriterState
  <2>2. Control'
    BY <2>0 DEF Control
  <2>3. Order' /\ Accounted'
    BY DEF Order, Accounted, QueuedCount
  <2>4. Counted'
    BY <2>0 DEF Counted, Types
  <2>5. QED
    BY <2>1, <2>2, <2>3, <2>4
<1>2. ASSUME IInv, Cleanup PROVE IInv'
  <2> USE <1>2 DEF Cleanup, AfterCleanup
  <2>1. Types'
    BY DEF Types, WriterState
  <2>2. Control'
    BY DEF Control
  <2>3. Order' /\ Accounted'
    BY DEF Order, Accounted, QueuedCount
  <2>4. Counted'
    BY DEF Counted, Types
  <2>5. QED
    BY <2>1, <2>2, <2>3, <2>4
<1>3. ASSUME IInv, Drain PROVE IInv'
  <2> USE <1>3 DEF Drain
  <2>0. queue = <<>> /\ UNCHANGED <<queue, held>> /\ writer' = "stopped"
    BY DEF Control
  <2>1. Types'
    BY <2>0 DEF Types, WriterState
  <2>2. Control'
    BY <2>0 DEF Control
  <2>3. Order' /\ Accounted'
    BY <2>0 DEF Order, Accounted, QueuedCount
  <2>4. Counted'
    BY <2>0 DEF Counted, Types
  <2>5. QED
    BY <2>1, <2>2, <2>3, <2>4
<1>4. ASSUME IInv, CleanupFallsDue PROVE IInv'
  <2> USE <1>4 DEF CleanupFallsDue
  <2>1. Types'
    BY DEF Types
  <2>2. Control' /\ Order' /\ Accounted' /\ Counted'
    BY DEF Control, Order, Accounted, QueuedCount, Counted
  <2>3. QED
    BY <2>1, <2>2
<1>5. QED
  BY <1>1, <1>2, <1>3, <1>4

LEMMA StutterIInv == IInv /\ UNCHANGED vars => IInv'
<1> SUFFICES ASSUME IInv, UNCHANGED vars PROVE IInv'
  OBVIOUS
<1> USE DEF IInv, vars, clientVars, writerVars
<1>1. Types'
  BY DEF Types
<1>2. Control' /\ Order'
  BY DEF Control, Order
<1>3. Accounted' /\ Counted'
  BY DEF Accounted, QueuedCount, Counted
<1>4. QED
  BY <1>1, <1>2, <1>3

LEMMA NextIInv == IInv /\ [Next]_vars => IInv'
<1> SUFFICES ASSUME IInv, [Next]_vars PROVE IInv'
  OBVIOUS
<1>1. CASE Record
  BY <1>1, RecordIInv
<1>2. CASE BeginShutdown \/ ClientStep
  BY <1>2, ClientIInv
<1>3. CASE WriterStep
  BY <1>3, ReceiveIInv, WriteIInv, WriterRestIInv DEF WriterStep
<1>4. CASE CleanupFallsDue
  BY <1>4, WriterRestIInv
<1>5. CASE UNCHANGED vars
  BY <1>5, StutterIInv
<1>6. QED
  BY <1>1, <1>2, <1>3, <1>4, <1>5 DEF Next, Done

\* The inductive invariant, for every capacity and every number of batches.
THEOREM Invariance == Spec => []IInv
<1>1. Spec => Init /\ [][Next]_vars
  BY DEF Spec
<1>2. QED
  BY InitIInv, NextIInv, <1>1, PTL

-----------------------------------------------------------------------------
\* The bounds of TypeOK that need counting: at most MaxBatches are dropped,
\* and at most MaxBatches are counted as written.
LEMMA IInvTypeOK == IInv => TypeOK
<1> SUFFICES ASSUME IInv PROVE TypeOK
  OBVIOUS
<1> USE MaxBatchesAssumption, QueueCapacityAssumption DEF IInv
<1>1. dropped \in 0 .. MaxBatches
  <2>1. QueuedCount \in Nat /\ Len(attempted) \in Nat
    BY DEF QueuedCount, Types
  <2>2. QED
    BY <2>1 DEF Accounted, Types
<1>2. written \in 0 .. MaxBatches
  BY StoredFinite DEF Counted, Types
<1>3. QED
  BY <1>1, <1>2 DEF TypeOK, Types

\* Type correctness, and the bound of the queue: no schedule of reducer and
\* writer ever queues more than QUEUE_CAPACITY messages.
THEOREM TypeCorrect == Spec => []TypeOK
BY Invariance, IInvTypeOK, PTL

\* Every batch handed to record() is counted as dropped, queued, in hand, or
\* attempted, exactly one of the four.
THEOREM AllAccounted == Spec => []Accounted
<1>1. IInv => Accounted
  BY DEF IInv
<1>2. QED
  BY Invariance, <1>1, PTL

\* The written counter lags the database by at most the batch being counted.
THEOREM WrittenIsHonest == Spec => []NeverOverclaims
<1>1. IInv => NeverOverclaims
  BY StoredFinite, MaxBatchesAssumption DEF IInv, Counted, Types, NeverOverclaims
<1>2. QED
  BY Invariance, <1>1, PTL

\* The final drain of writer_loop is dead code: when the loop has seen
\* Shutdown, nothing that was accepted is left.
THEOREM DrainIsEmpty == Spec => []DrainFindsNothing
<1>1. IInv => DrainFindsNothing
  BY DEF IInv, Control, DrainFindsNothing, Pending, Queued, NoBatch
<1>2. QED
  BY Invariance, <1>1, PTL

-----------------------------------------------------------------------------
(* The recorder implements the promise: a step of Recorder is a step of    *)
(* BestEffortLog under the mapping of Recorder, or leaves it unchanged.    *)

LEMMA InitRefines == Init => Log!Init
<1> SUFFICES ASSUME Init PROVE Log!Init
  OBVIOUS
<1>1. Pending = {}
  BY DEF Init, Pending, Queued, NoBatch
<1>2. QED
  BY <1>1 DEF Init, Log!Init

\* A queued batch is kept, a dropped one refused.
LEMMA RecordRefines == IInv /\ Record => Log!Next
<1> SUFFICES ASSUME IInv, Record PROVE Log!Next
  OBVIOUS
<1> USE MaxBatchesAssumption DEF IInv, Record, MayRecord, writerVars
<1>0. offered + 1 \in Batch /\ offered + 1 \in Msg
  BY DEF Types, Batch, Msg
<1>1. CASE Connected /\ HasRoom /\ Enqueue(offered + 1) /\ UNCHANGED dropped
  <2>1. queue' = Append(queue, offered + 1)
    BY <1>1 DEF Enqueue
  <2>2. Queued' = Queued \cup {offered + 1}
    BY <1>0, <2>1, AppendFacts DEF Types, Queued
  <2>3. Pending' = Pending \cup {offered + 1}
    BY <2>2 DEF Pending
  <2>4. Log!Keep
    BY <1>1, <2>3 DEF Log!Keep
  <2>5. QED
    BY <2>4 DEF Log!Next
<1>2. CASE ~ (Connected /\ HasRoom) /\ CountDrop /\ UNCHANGED queue
  <2>1. Pending' = Pending
    BY <1>2 DEF Pending, Queued
  <2>2. Log!Refuse
    BY <1>2, <2>1 DEF CountDrop, Log!Refuse
  <2>3. QED
    BY <2>2 DEF Log!Next
<1>3. QED
  BY <1>1, <1>2

\* write_batch settles the oldest kept batch.
LEMMA WriteRefines ==
  ASSUME IInv, NEW ok \in BOOLEAN, Write(ok)
  PROVE  Log!Next
<1> USE DEF IInv, Write, clientVars
<1>1. held \in Pending /\ held # NoBatch
  BY DEF Control, Types, Pending
<1>2. \A b \in Queued : held < b
  BY DEF Order, Queued
<1>3. \A b \in Pending : held <= b
  BY <1>1, <1>2 DEF Pending, Queued, Types, Batch, NoBatch
<1>4. Pending' = Pending \ {held}
  <2>1. Queued' = Queued
    BY DEF Queued
  <2>2. held \notin Queued
    BY <1>2, <1>1 DEF Types, Batch, NoBatch
  <2>3. QED
    BY <2>1, <2>2, <1>1 DEF Pending
<1>5. stored' \in {stored, stored \cup {held}}
  OBVIOUS
<1>6. Log!Settle(held)
  BY <1>1, <1>3, <1>4, <1>5 DEF Log!Settle
<1>7. QED
  BY <1>1, <1>6 DEF Log!Next

\* join() returns only when everything kept is settled.
LEMMA JoinRefines == IInv /\ Join => Log!Next
<1> SUFFICES ASSUME IInv, Join PROVE Log!Next
  OBVIOUS
<1>1. Pending = {} /\ Pending' = Pending
  BY DEF IInv, Control, Types, Join, ThreadEnded, Pending, Queued, NoBatch, writerVars
<1>2. Log!Close
  BY <1>1 DEF Join, Log!Close, writerVars
<1>3. QED
  BY <1>2 DEF Log!Next

\* Taking a batch from the queue is internal: it stays kept.
LEMMA ReceiveRefines == IInv /\ Receive => UNCHANGED Log!vars
<1> SUFFICES ASSUME IInv, Receive PROVE UNCHANGED Log!vars
  OBVIOUS
<1> USE DEF IInv, Receive, clientVars
<1>0. /\ Len(queue) \in Nat
      /\ Len(queue') = Len(queue) - 1
      /\ \A i \in 1 .. Len(queue') : i + 1 \in 1 .. Len(queue) /\ queue'[i] = queue[i + 1]
      /\ Head(queue) = queue[1]
      /\ 1 \in 1 .. Len(queue)
  BY TailFacts DEF Types
<1>1. held = NoBatch
  BY DEF Control
<1>2. \A b \in Batch : b \in Queued <=> b \in Queued' \/ b = Head(queue)
  <2> SUFFICES ASSUME NEW b \in Batch
               PROVE  b \in Queued <=> b \in Queued' \/ b = Head(queue)
    OBVIOUS
  <2>1. ASSUME b \in Queued PROVE b \in Queued' \/ b = Head(queue)
    <3>1. PICK i \in 1 .. Len(queue) : queue[i] = b
      BY <2>1 DEF Queued
    <3>2. CASE i = 1
      BY <3>1, <3>2, <1>0
    <3>3. CASE i # 1
      <4>1. i - 1 \in 1 .. Len(queue') /\ queue'[i - 1] = queue[i]
        <5>1. i - 1 \in 1 .. Len(queue') /\ (i - 1) + 1 = i
          BY <3>3, <1>0
        <5>2. QED
          BY <5>1, <1>0
      <4>2. QED
        BY <4>1, <3>1 DEF Queued
    <3>4. QED
      BY <3>2, <3>3
  <2>2. ASSUME b \in Queued' PROVE b \in Queued
    BY <2>2, <1>0 DEF Queued
  <2>3. ASSUME b = Head(queue) PROVE b \in Queued
    BY <2>3, <1>0 DEF Queued
  <2>4. QED
    BY <2>1, <2>2, <2>3
<1>3. Pending' = Pending
  <2>0. Shutdown \notin Batch /\ NoBatch \notin Batch
    BY MaxBatchesAssumption DEF Batch, Shutdown, NoBatch
  <2>1. CASE Head(queue) \in Batch
    <3>1. held' = Head(queue)
      BY <2>0, <2>1
    <3>2. Queued = Queued' \cup {Head(queue)}
      BY <2>1, <1>2 DEF Queued
    <3>3. QED
      BY <2>0, <2>1, <3>1, <3>2, <1>1 DEF Pending
  <2>2. CASE Head(queue) = Shutdown
    <3>1. held' = held
      BY <2>0, <2>2
    <3>2. Queued = Queued'
      BY <2>0, <2>2, <1>2 DEF Queued
    <3>3. QED
      BY <3>1, <3>2 DEF Pending
  <2>3. QED
    BY <2>1, <2>2
<1>4. QED
  BY <1>3 DEF Log!vars

\* The handshake, the counter, the retention pass and the drain are internal.
LEMMA OtherRefines ==
  IInv /\ (\/ BeginShutdown
           \/ SendShutdown("sending", "joining")
           \/ SendShutdown("dropping", "closed")
           \/ Count
           \/ Cleanup
           \/ Drain
           \/ CleanupFallsDue
           \/ UNCHANGED vars) => UNCHANGED Log!vars
<1> USE DEF Pending, Queued, writerVars, clientVars
<1>1. ASSUME IInv, BeginShutdown PROVE UNCHANGED Log!vars
  BY <1>1 DEF BeginShutdown, Log!vars
<1>2. ASSUME IInv, SendShutdown("sending", "joining") PROVE UNCHANGED Log!vars
  <2>0. queue' = Append(queue, Shutdown) /\ Shutdown \in Msg /\ Shutdown \notin Batch
    BY <1>2, MaxBatchesAssumption
       DEF IInv, Control, Connected, SendShutdown, Enqueue, Msg, Batch, Shutdown
  <2>1. Queued' = Queued
    BY <2>0, AppendFacts DEF IInv, Types
  <2>2. QED
    BY <1>2, <2>1 DEF SendShutdown, Log!vars
<1>3. ASSUME IInv, SendShutdown("dropping", "closed") PROVE UNCHANGED Log!vars
  BY <1>3 DEF SendShutdown, IInv, Control, Connected, Log!vars
<1>4. ASSUME IInv, Count \/ Cleanup \/ CleanupFallsDue PROVE UNCHANGED Log!vars
  BY <1>4 DEF Count, Cleanup, CleanupFallsDue, Log!vars
<1>5. ASSUME IInv, Drain PROVE UNCHANGED Log!vars
  BY <1>5 DEF Drain, IInv, Control, Log!vars
<1>6. ASSUME UNCHANGED vars PROVE UNCHANGED Log!vars
  BY <1>6 DEF vars, Log!vars
<1>7. QED
  BY <1>1, <1>2, <1>3, <1>4, <1>5, <1>6

LEMMA NextRefines == IInv /\ [Next]_vars => [Log!Next]_(Log!vars)
BY RecordRefines, WriteRefines, JoinRefines, ReceiveRefines, OtherRefines
   DEF Next, ClientStep, WriterStep, Done

\* The recorder keeps the promise of its module comment, for every capacity
\* and every schedule of reducer and writer thread.
THEOREM Refinement == Spec => ImplementsLog
<1>1. Spec => Init /\ [][Next]_vars
  BY DEF Spec
<1>2. QED
  BY InitRefines, NextRefines, Invariance, <1>1, PTL DEF Log!Spec, ImplementsLog
=============================================================================
