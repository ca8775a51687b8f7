--------------------------- MODULE BestEffortLog ---------------------------
(***************************************************************************)
(* What the SQLite recorder promises the reducer (storage/mod.rs, module   *)
(* comment): a batch handed over is either refused at once and counted, or *)
(* kept; a kept batch is settled (stored, or lost to a failed transaction) *)
(* exactly once, in the order the batches were handed over; and the log    *)
(* closes only when every kept batch is settled.                           *)
(*                                                                         *)
(* A batch is the number of its offer: 1, 2, 3, ...  No queue, no writer   *)
(* thread and no shutdown handshake: Recorder is shown to implement this.  *)
(***************************************************************************)
EXTENDS Naturals

CONSTANT MaxBatches   \* bound: batches the reducer ever offers

VARIABLES
  offered,   \* number of batches offered so far
  refused,   \* how many of them were refused
  kept,      \* the kept batches that are not settled yet
  stored,    \* the batches in the database
  closed     \* the log has been flushed and closed

vars == <<offered, refused, kept, stored, closed>>

Init ==
  /\ offered = 0
  /\ refused = 0
  /\ kept = {}
  /\ stored = {}
  /\ closed = FALSE

Keep ==
  /\ ~ closed
  /\ offered < MaxBatches
  /\ offered' = offered + 1
  /\ kept' = kept \cup {offered + 1}
  /\ UNCHANGED <<refused, stored, closed>>

Refuse ==
  /\ ~ closed
  /\ offered < MaxBatches
  /\ offered' = offered + 1
  /\ refused' = refused + 1
  /\ UNCHANGED <<kept, stored, closed>>

\* The oldest kept batch is settled: one transaction, all of it or none.
Settle(b) ==
  /\ b \in kept
  /\ \A c \in kept : b <= c
  /\ kept' = kept \ {b}
  /\ stored' \in {stored, stored \cup {b}}
  /\ UNCHANGED <<offered, refused, closed>>

Close ==
  /\ ~ closed
  /\ kept = {}
  /\ closed' = TRUE
  /\ UNCHANGED <<offered, refused, kept, stored>>

Next ==
  \/ Keep
  \/ Refuse
  \/ \E b \in kept : Settle(b)
  \/ Close

Spec == Init /\ [][Next]_vars
=============================================================================
