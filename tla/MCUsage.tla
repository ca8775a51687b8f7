------------------------------ MODULE MCUsage ------------------------------
(* UsageAccounting for TLC: days of two ticks, a chart of two days.         *)
EXTENDS UsageAccounting, TLC

Symmetry == Permutations(Models)
=============================================================================
