-------------------------- MODULE MCEndpointState --------------------------
(* EndpointState for TLC: a server that may restart under another model.   *)
EXTENDS EndpointState, TLC

Symmetry == Permutations(Series)

\* The values derived from the last scrape are only looked at in the step that
\* derives them: later steps and states depend on which there are.  And nothing
\* depends on the health.
View == <<serverVars, connVars, [k \in DOMAIN derived |-> SampleIds(derived[k])], last, age,
          windows, history, peak, resetIn, feed, histVars>>
=============================================================================
