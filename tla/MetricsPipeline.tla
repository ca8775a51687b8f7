-------------------------- MODULE MetricsPipeline ---------------------------
(***************************************************************************)
(* From a server's /metrics text to what vllmtop shows of it: the text is  *)
(* parsed (Exposition), curated (Normalize) and, for one series and one    *)
(* histogram, turned into percentiles of a recent window and points of a   *)
(* chart (Rings), in the order of EndpointState::ingest_metrics.           *)
(*                                                                         *)
(* The other actor is the server: how it is deployed (which models on      *)
(* which engines, which labels its version exposes), what it observes, and *)
(* that it restarts, possibly as a version with other buckets.  A line may *)
(* reach vllmtop damaged, a proxy may strip the comments, and a server     *)
(* that is not ready shows nothing of its models.                          *)
(***************************************************************************)
EXTENDS Normalize, Rings

CONSTANTS
  Deployments,  \* of the server: records of keys, capacity, geometry, old and busy
  Layouts,      \* of its buckets, by version: bounds in order, Inf the last
  Latencies,    \* the latencies a request may have
  Damages,      \* how a text may differ from what the server wrote
  Horizon,      \* bound: ticks
  MaxSeen,      \* bound: observations of one process
  MaxRuns       \* bound: processes of the server

\* A series has a label of its engine or none, a cache a whole number of
\* blocks, a latency and a bound a natural number.
IsDeployment(d) ==
  /\ IsFiniteSet(d.keys) /\ d.keys # {}
  /\ \A k \in d.keys : k = [model |-> k.model, engine |-> k.engine]
  /\ IsFiniteSet(DOMAIN d.capacity)
  /\ d.capacity = [e \in DOMAIN d.capacity |-> d.capacity[e]]
  /\ \A e \in DOMAIN d.capacity :
       d.capacity[e] \in Nat /\ (d.geometry => d.capacity[e] % 2 = 0)
  /\ {d.geometry, d.old, d.busy} \subseteq BOOLEAN

IsLayout(l) ==
  /\ l \in Seq(0 .. Inf) /\ l # <<>>
  /\ l[Len(l)] = Inf
  /\ \A i, j \in DOMAIN l : i < j => l[i] < l[j]

ASSUME PipelineAssumption ==
  /\ \A d \in Deployments : IsDeployment(d)
  /\ Layouts # <<>> /\ Layouts \in Seq(Range(Layouts))
  /\ \A l \in Range(Layouts) : IsLayout(l)
  /\ IsFiniteSet(Latencies) /\ Latencies \subseteq 0 .. Inf - 1
  /\ {Horizon, MaxRuns} \subseteq Nat \ {0} /\ MaxSeen \in Nat

VARIABLES
  now,
  deployment,   \* server: what it is
  layout,       \* server: the bounds of its buckets
  seen,         \* server: how many observations of each latency
  run,          \* server: its process, numbered from 1
  total,        \* history: observations of all its processes
  text,         \* the text scraped in this tick, if any
  capacity,     \* of every curated series, NaN where it is not known
  ring,         \* the HistogramWindow of the series Busy
  estimate,     \* derived.estimates of the last scrape
  chart,        \* the RingSeries of its observations
  truth         \* history: run, seen and total at a snapshot; was its count lost?

serverVars == <<deployment, layout, seen, run, total>>
vars == <<now, serverVars, text, capacity, ring, estimate, chart, truth>>

Sum(f) == MapThenSumSet(LAMBDA x : f[x], DOMAIN f)

Times(r) == {r[i].at : i \in DOMAIN r}

NoneSeen == [v \in Latencies |-> 0]

Init ==
  /\ now = 1
  /\ deployment \in Deployments
  /\ layout = Layouts[1]
  /\ seen = NoneSeen
  /\ run = 1
  /\ total = 0
  /\ text = <<>>
  /\ capacity = Nothing
  /\ ring = <<>>
  /\ estimate = NoEstimate
  /\ chart = <<>>
  /\ truth = Nothing

-----------------------------------------------------------------------------
(* The server: one that is not busy is only looked at.                     *)

Elapse ==
  /\ now < Horizon
  /\ now' = now + 1
  /\ text' = <<>>
  /\ UNCHANGED <<serverVars, capacity, ring, estimate, chart, truth>>

\* Steps of the server after a tick's scrape are the next tick's.
Observe(v) ==
  /\ deployment.busy
  /\ now \notin Times(chart)
  /\ Sum(seen) < MaxSeen
  /\ seen' = [seen EXCEPT ![v] = @ + 1]
  /\ total' = total + 1
  /\ UNCHANGED <<now, deployment, layout, run, text, capacity, ring, estimate, chart, truth>>

Restart(version) ==
  /\ deployment.busy
  /\ now \notin Times(chart)
  /\ run < MaxRuns
  /\ run' = run + 1
  /\ seen' = NoneSeen
  /\ layout' = Layouts[version]
  /\ UNCHANGED <<now, deployment, total, text, capacity, ring, estimate, chart, truth>>

\* Its text: a gauge of each series, a histogram of the series Busy, the
\* engines' capacities, and lines that belong to no series.
Busy == CHOOSE k \in deployment.keys : TRUE

KeyLabels(k) ==
  IF k.engine = NoEngine THEN [model_name |-> k.model]
  ELSE [model_name |-> k.model, engine |-> k.engine]

TypeLine(base, kind) == [form |-> "type", name |-> <<base, "">>, kind |-> kind]
SampleLine(base, part, labels, v) ==
  [form |-> "sample", name |-> <<base, part>>, labels |-> labels, closed |-> TRUE,
   tokens |-> <<[is |-> "number", v |-> v]>>]
Damaged(line) == [line EXCEPT !.tokens = <<[is |-> "word", v |-> 0]>>]

\* The values of f, in some order.
ForEach(f) == LET order == SetToSeq(DOMAIN f) IN [i \in DOMAIN order |-> f[order[i]]]

GaugeLines ==
  LET name == IF deployment.old THEN "vllm:gpu_cache_usage_perc" ELSE "vllm:kv_cache_usage_perc" IN
  <<TypeLine(name, "gauge")>>
    \o ForEach([k \in deployment.keys |-> SampleLine(name, "", KeyLabels(k), 0)])

UpTo(le) == Sum([v \in {x \in Latencies : x <= le} |-> seen[v]])

HistogramLines ==
  LET name == IF deployment.old THEN "vllm:time_per_output_token_seconds"
              ELSE "vllm:inter_token_latency_seconds"
      sample(part, labels, v) == SampleLine(name, part, labels, v)
  IN <<TypeLine(name, "histogram")>>
     \o [i \in DOMAIN layout |-> sample("_bucket", Put(KeyLabels(Busy), "le", layout[i]), UpTo(layout[i]))]
     \o <<sample("_sum", KeyLabels(Busy), Sum([v \in Latencies |-> v * seen[v]])),
          sample("_count", KeyLabels(Busy), Sum(seen))>>

CapacityLabels(e) ==
  LET tokens == deployment.capacity[e]
      geometry == IF deployment.geometry
                  THEN [kv_cache_size_tokens |-> NaN, num_gpu_blocks |-> tokens \div 2, block_size |-> 2]
                  ELSE [kv_cache_size_tokens |-> tokens]
  IN IF e = NoEngine THEN geometry ELSE Put(geometry, "engine", e)

OtherLines ==
  ForEach([e \in DOMAIN deployment.capacity |-> SampleLine("vllm:cache_config_info", "", CapacityLabels(e), 1)])
    \o <<TypeLine("http_requests_total", "counter"),
         SampleLine("http_requests_total", "", [status |-> "2xx"], 1),
         SampleLine("http_requests_total", "", [status |-> "5xx"], 1),
         SampleLine("process_start_time_seconds", "", Nothing, 1),
         [form |-> "other"]>>

Written == GaugeLines \o HistogramLines \o OtherLines

IsPart(line, part) == line.form = "sample" /\ line.name[2] = part

\* ... and what becomes of it on the way.
Damage(lines, how) ==
  CASE how = "none" -> lines
    [] how = "comments" -> [i \in DOMAIN lines |-> IF lines[i].form = "sample" THEN lines[i] ELSE [form |-> "other"]]
    [] how = "bare" -> OtherLines
    [] OTHER -> LET parts == {i \in DOMAIN lines : IsPart(lines[i], how)} IN
                IF parts = {} THEN lines ELSE [lines EXCEPT ![Min(parts)] = Damaged(@)]

-----------------------------------------------------------------------------
(* A good scrape.                                                          *)

CapacitySlot == <<"kv_cache_size_tokens">>

Snapshot(curated, at) ==
  IF Busy \notin DOMAIN curated.series \/ <<"itl">> \notin DOMAIN curated.series[Busy] THEN NoPoint
  ELSE to_point(curated.series[Busy][<<"itl">>], at)

\* A window whose series is not in this text goes; a snapshot that makes no
\* sense, or is missing, leaves it alone and yields no estimate.
Scrape(how) ==
  /\ now \notin Times(chart)
  /\ text' = Damage(Written, how)
  /\ \E curated \in {curate(parse_text(text'))} : \E point \in {Snapshot(curated, now)} :
     /\ capacity' = [k \in DOMAIN curated.series |->
                       IF CapacitySlot \in DOMAIN curated.series[k] THEN curated.series[k][CapacitySlot] ELSE NaN]
     /\ ring' = IF Busy \notin DOMAIN curated.series THEN <<>>
                ELSE IF point = NoPoint THEN ring ELSE PushPoint(ring, point)
     /\ estimate' = IF point = NoPoint THEN NoEstimate ELSE Estimate(ring')
  /\ chart' = PushHistory(chart, now, 0)
  /\ truth' = [t \in Times(ring') |->
                 IF t = now THEN [run |-> run, seen |-> seen, total |-> total, lost |-> how = "_count"] ELSE truth[t]]
  /\ UNCHANGED <<now, serverVars>>

Next ==
  \/ Elapse
  \/ \E v \in Latencies : Observe(v)
  \/ \E version \in DOMAIN Layouts : Restart(version)
  \/ \E how \in Damages : Scrape(how)

Spec == Init /\ [][Next]_vars

-----------------------------------------------------------------------------
(* What a scrape is worth.                                                 *)

\* Types, and the bounds of what is kept: a window reaches back just far
\* enough to cover the percentile window, whatever was scraped in between
\* (its second snapshot never covers it, its first is at most the margin
\* older), and no ring or chart outgrows its cap.
TypeOK ==
  /\ now \in 1 .. Horizon
  /\ deployment \in Deployments /\ layout \in Range(Layouts) /\ run \in 1 .. MaxRuns
  /\ seen \in [Latencies -> 0 .. MaxSeen]
  /\ DOMAIN capacity \subseteq deployment.keys
  /\ DOMAIN truth = Times(ring)
  /\ Len(ring) <= MaxPoints
  /\ Len(ring) > 2 =>
       /\ Newest(ring).at - ring[2].at < Window
       /\ Newest(ring).at - ring[1].at <= Window + Margin
  /\ Len(chart) <= MaxHistory
  /\ \A i \in DOMAIN chart : Newest(chart).at - chart[i].at <= HistoryWindow

\* Nothing of a text is dropped in silence: every sample line is a sample of
\* one family or counted as an issue, however many issues are kept; and a
\* part of a histogram whose TYPE line came first is in that histogram, not
\* in a family of its own, where no percentile would see it.
TextAccounted ==
  LET parsed == parse_text(text)
      samples == {i \in DOMAIN text : text[i].form = "sample"}
      good == {i \in samples : parse_sample_line(text[i])}
      histograms == {j \in DOMAIN text : text[j].form = "type" /\ text[j].kind = "histogram"}
      parts(j) == {i \in good : i > j /\ text[i].name[1] = text[j].name[1]}
      family(name) == parsed.families[IndexOf(parsed, name)]
  IN text # <<>> =>
     /\ Cardinality(samples) =
          parsed.issue_count
          + Sum([i \in DOMAIN parsed.families |-> Len(parsed.families[i].samples)])
     /\ parsed.issue_count = Cardinality(samples \ good)
     /\ Len(parsed.issues) = Min({MaxIssues, parsed.issue_count})
     /\ \A j \in histograms :
          {<<text[i].name, text[i].labels>> : i \in parts(j)}
            \subseteq {<<s.name, s.labels>> : s \in ToSet(family(text[j].name).samples)}

\* The capacities shown add up to no more than the engines have, so that a
\* cache two models share weighs once in the fleet's mean, whichever series
\* and labels this text has; and no series is given the cache of an engine
\* that is not its own.
CapacityNotDoubleCounted ==
  LET engines == deployment.capacity
      holders == {k \in DOMAIN capacity : capacity[k] # NaN}
  IN /\ Sum([k \in holders |-> capacity[k]]) <= Sum(engines)
     /\ \A k \in holders :
          \E e \in DOMAIN engines :
            /\ engines[e] = capacity[k]
            /\ k.engine = e \/ NoEngine \in {k.engine, e}

\* The latency at rank q of what was seen between two snapshots.
SeenBetween(a, b) == [v \in Latencies |-> truth[b].seen[v] - truth[a].seen[v]]
Rank(counts, q) ==
  Min({v \in Latencies :
         100 * Sum([x \in {y \in Latencies : y <= v} |-> counts[x]]) >= q * Sum(counts)})

\* <<num, den>> lies in the bucket of v; beyond the last finite bound it is
\* that bound.
InBucket(fraction, v, bounds) ==
  LET finite == bounds \ {Inf}
      above == {b \in finite : b >= v}
      below == {b \in finite : b < v} \cup {0}
      lower == Max(below)
      upper == IF above = {} THEN lower ELSE Min(above)
  IN /\ lower * fraction[2] <= fraction[1]
     /\ fraction[1] <= upper * fraction[2]

\* Of two neighbours in the ring, the server restarted in between, and the
\* counts the scrapes read did not fall.
CountRead(t) == IF truth[t].lost THEN 0 ELSE Sum(truth[t].seen)
RestartHidden ==
  \E i \in 2 .. Len(ring) :
    /\ truth[ring[i - 1].at].run # truth[ring[i].at].run
    /\ CountRead(ring[i].at) >= CountRead(ring[i - 1].at)

\* Percentiles are of what the server saw between the ends of the window.
\* Within one process they are exact: all its observations, and the bucket of
\* the latency at that rank, whatever lines were lost in between.  Across a
\* restart nothing is counted that was not observed.  And they are missing
\* only after a scrape without the histogram, before a second snapshot, or
\* when a restart could not be seen in the counts: any other restart starts
\* the window anew.
EstimateIsHonest ==
  IF estimate = NoEstimate
  THEN Len(ring) < 2 \/ Newest(ring).at # Newest(chart).at \/ RestartHidden
  ELSE LET a == ring[1].at
           b == Newest(ring).at
           counts == SeenBetween(a, b)
       IN /\ estimate.elapsed = b - a
          /\ estimate.observations <= truth[b].total - truth[a].total
          /\ truth[a].run = truth[b].run =>
               /\ estimate.observations = Sum(counts)
               /\ \A q \in DOMAIN estimate.quantile :
                    estimate.quantile[q] # NoFraction =>
                      InBucket(estimate.quantile[q], Rank(counts, q), DOMAIN ring[1].buckets)

\* The comment in estimate: after what push checks, no bucket's count falls
\* within a window.  It does not hold, by a restart under a larger load: the
\* early return that the comment is on is needed.
DeltasNeverFall ==
  Len(ring) >= 2 => \A le \in DOMAIN ring[1].buckets : Deltas(ring)[le] >= 0
=============================================================================
