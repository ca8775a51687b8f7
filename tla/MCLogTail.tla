----------------------------- MODULE MCLogTail ------------------------------
(* LogTail for TLC: lines of one or two bytes, three being too many.       *)
EXTENDS LogTail
=============================================================================
