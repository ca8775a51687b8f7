----------------------------- MODULE MCPipeline -----------------------------
(***************************************************************************)
(* Instances of MetricsPipeline for TLC.                                   *)
(***************************************************************************)
EXTENDS MetricsPipeline

LOCAL Key(m, e) == [model |-> m, engine |-> e]
LOCAL Server(keys, engines, geometry, old) ==
  [keys |-> keys, capacity |-> engines, geometry |-> geometry, old |-> old, busy |-> FALSE]

MCLatencies == {1, 3}
MCLayouts == <<<<1, 2, Inf>>, <<2, Inf>>>>
MCDamages == {"none", "comments", "bare", "_bucket", "_count", ""}

\* One server whose window is followed for long.
OneModel == {[Server({Key("m", "0")}, [e \in {"0"} |-> 4], FALSE, FALSE) EXCEPT !.busy = TRUE]}

\* Servers of several shapes: two models on one engine; one model on two; the
\* engine named on one side only, by an old version; engines that differ; two
\* models and two engines, of which a label is missing.
ManyServers ==
  OneModel \cup
  { Server({Key("m", "0"), Key("n", "0")}, [e \in {"0"} |-> 4], FALSE, FALSE),
    Server({Key("m", "0"), Key("m", "1")}, [e \in {"0", "1"} |-> IF e = "0" THEN 4 ELSE 8], TRUE, FALSE),
    Server({Key("m", NoEngine)}, [e \in {"0"} |-> 4], TRUE, TRUE),
    Server({Key("m", NoEngine), Key("m", "0")}, [e \in {"0"} |-> 4], FALSE, FALSE),
    Server({Key("m", "0"), Key("n", "0")}, [e \in {NoEngine} |-> 4], FALSE, TRUE),
    Server({Key("m", "1")}, [e \in {"0"} |-> 4], FALSE, FALSE),
    Server({Key("m", "0"), Key("m", "1"), Key("n", "1")}, [e \in {"0", "1"} |-> IF e = "0" THEN 4 ELSE 8], FALSE, FALSE) }
=============================================================================
