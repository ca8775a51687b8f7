---------------------------- MODULE MCEventLoop ----------------------------
(* EventLoop with a channel of two events.                                  *)
EXTENDS EventLoop
=============================================================================
