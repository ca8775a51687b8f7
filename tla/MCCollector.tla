---------------------------- MODULE MCCollector ----------------------------
(* Collector on two endpoints, three intervals, scrapes of up to a cadence   *)
(* and a half.                                                              *)
EXTENDS Collector
=============================================================================
