----------------------------- MODULE MCRecorder -----------------------------
(* Recorder on a queue of two messages and five batches: the queue fills,   *)
(* drops, and fills again; Shutdown meets a full queue.                     *)
EXTENDS Recorder
=============================================================================
