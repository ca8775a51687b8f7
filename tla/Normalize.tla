----------------------------- MODULE Normalize ------------------------------
(***************************************************************************)
(* What vllmtop takes from a parsed text (metrics/normalize.rs): values by *)
(* series (model, engine) under canonical names, facts about the endpoint, *)
(* and the join of the engines' KV capacities onto the series.             *)
(*                                                                         *)
(* A curated series is a function from slots to values: an Option field is *)
(* a slot it may lack, an entry of a map is the slot <<map, key>>.  Label  *)
(* sets are functions from label names to values; a label read as a number *)
(* has an integer, or NaN where the text is none (vLLM writes "None").     *)
(***************************************************************************)
EXTENDS Exposition, FiniteSets

CONSTANTS
  MaxStatuses   \* MAX_HTTP_STATUS_CLASSES: 16

NaN == -3                        \* any value that is not finite
NoEngine == "no engine"          \* SeriesKey::engine is None

Put(f, x, v) == [y \in DOMAIN f \cup {x} |-> IF y = x THEN v ELSE f[y]]

Nothing == [x \in {} |-> 0]

NoScrape == [series |-> Nothing, info |-> Nothing, status |-> Nothing,
             capabilities |-> {}, capacity |-> Nothing]

-----------------------------------------------------------------------------
(* The metric names curate knows.                                          *)

\* Exposition name, slot and capability of the single-valued families.
GaugeSpecs ==
  { <<"vllm:num_requests_running", "running", "running">>,
    <<"vllm:num_requests_waiting", "waiting", "waiting">>,
    <<"vllm:kv_cache_usage_perc", "kv_cache_usage", "kv_cache_usage">>,
    <<"vllm:gpu_cache_usage_perc", "kv_cache_usage", "kv_cache_usage">>,
    <<"vllm:prompt_tokens_total", "prompt_tokens", "prompt_tokens">>,
    <<"vllm:generation_tokens_total", "generation_tokens", "generation_tokens">>,
    <<"vllm:num_preemptions_total", "preemptions", "preemptions">>,
    <<"vllm:prefix_cache_queries_total", "prefix_cache_queries", "prefix_cache">>,
    <<"vllm:gpu_prefix_cache_queries_total", "prefix_cache_queries", "prefix_cache">>,
    <<"vllm:prefix_cache_hits_total", "prefix_cache_hits", "prefix_cache">>,
    <<"vllm:gpu_prefix_cache_hits_total", "prefix_cache_hits", "prefix_cache">>,
    <<"vllm:external_prefix_cache_queries_total", "external_queries", "external_prefix_cache">>,
    <<"vllm:external_prefix_cache_hits_total", "external_hits", "external_prefix_cache">> }

\* ... of those that fan out over one more label, with the label.
LabelledSpecs ==
  { <<"vllm:num_requests_waiting_by_reason", "waiting_by_reason", "waiting_by_reason", "reason">>,
    <<"vllm:request_success_total", "success", "request_success", "finished_reason">> }

ProcessNames ==
  {"process_start_time_seconds", "process_resident_memory_bytes",
   "process_cpu_seconds_total", "process_open_fds", "process_max_fds"}

\* HISTOGRAM_SPECS: exposition name and canonical id.
HistogramSpecs ==
  { <<"vllm:time_to_first_token_seconds", "ttft">>,
    <<"vllm:inter_token_latency_seconds", "itl">>,
    <<"vllm:time_per_output_token_seconds", "itl">>,
    <<"vllm:e2e_request_latency_seconds", "e2e">>,
    <<"vllm:request_queue_time_seconds", "queue">>,
    <<"vllm:request_prefill_time_seconds", "prefill">>,
    <<"vllm:request_decode_time_seconds", "decode">>,
    <<"vllm:request_inference_time_seconds", "inference">>,
    <<"vllm:request_prompt_tokens", "req_prompt_tokens">>,
    <<"vllm:request_generation_tokens", "req_generation_tokens">> }

CacheConfigLabels ==
  {"block_size", "cache_dtype", "enable_prefix_caching", "gpu_memory_utilization",
   "kv_cache_max_concurrency", "kv_cache_size_tokens", "num_gpu_blocks", "sliding_window"}

-----------------------------------------------------------------------------
(* One family.                                                             *)

Has(labels, name) == name \in DOMAIN labels

\* series_key: only samples with a model belong to a series.
Keyed(sample) == Has(sample.labels, "model_name")
series_key(labels) ==
  [model |-> labels["model_name"],
   engine |-> IF Has(labels, "engine") THEN labels["engine"] ELSE NoEngine]

SetSlot(out, key, slot, value) ==
  [out EXCEPT !.series =
     Put(@, key, Put(IF key \in DOMAIN @ THEN @[key] ELSE Nothing, slot, value))]

\* gauge_into and labelled_gauge_into.
Single(out, family, spec) ==
  Fold(LAMBDA o, s : IF ~ Keyed(s) THEN o
                     ELSE [SetSlot(o, series_key(s.labels), <<spec[2]>>, s.value)
                             EXCEPT !.capabilities = @ \cup {spec[3]}],
       out, family.samples)

Labelled(out, family, spec) ==
  Fold(LAMBDA o, s : IF ~ Keyed(s) \/ ~ Has(s.labels, spec[4]) THEN o
                     ELSE [SetSlot(o, series_key(s.labels), <<spec[2], s.labels[spec[4]]>>, s.value)
                             EXCEPT !.capabilities = @ \cup {spec[3]}],
       out, family.samples)

\* first_value: a value that is not finite is as good as none.
Process(out, family) ==
  [out EXCEPT
     !.info = IF family.samples = <<>> \/ Head(family.samples).value = NaN
              THEN [x \in DOMAIN @ \ {family.name[1]} |-> @[x]]
              ELSE Put(@, family.name[1], Head(family.samples).value),
     !.capabilities = @ \cup {"process_info"}]

\* http_requests_total: summed by status class, a bounded number of them.
HttpStatus(out, sample) ==
  LET status == sample.labels["status"] IN
  IF \/ ~ Has(sample.labels, "status")
     \/ sample.value = NaN
     \/ status \notin DOMAIN out.status /\ Cardinality(DOMAIN out.status) >= MaxStatuses
  THEN out
  ELSE [out EXCEPT !.status = Put(@, status, sample.value + (IF status \in DOMAIN @ THEN @[status] ELSE 0)),
                   !.capabilities = @ \cup {"http_requests"}]

\* cache_config_info: the kept labels, and the capacity of the engine, given
\* directly or as blocks and their size.
Num(labels, name) == IF Has(labels, name) THEN labels[name] ELSE NaN

Capacity(labels) ==
  LET tokens == Num(labels, "kv_cache_size_tokens")
      blocks == Num(labels, "num_gpu_blocks")
      size == Num(labels, "block_size")
  IN IF tokens # NaN THEN tokens
     ELSE IF blocks > 0 /\ size > 0 THEN blocks * size ELSE NaN

CacheConfig(out, sample) ==
  LET tokens == Capacity(sample.labels)
      engine == IF Has(sample.labels, "engine") THEN sample.labels["engine"] ELSE NoEngine
      kept == CacheConfigLabels \cap DOMAIN sample.labels
  IN [out EXCEPT !.info = [x \in DOMAIN @ \cup kept |-> IF x \in kept THEN sample.labels[x] ELSE @[x]],
                 !.capabilities = @ \cup {"cache_config"},
                 !.capacity = IF tokens = NaN THEN @ ELSE Put(@, engine, tokens)]

\* curate_histogram: the samples of one series, whatever their order.  A sum
\* or a count that is not there is zero; without buckets there is nothing.
NoHistogram == [buckets |-> <<>>, sum |-> 0, count |-> 0]

Component(h, s) ==
  CASE s.name[2] = "_bucket" ->
         IF Has(s.labels, "le") THEN [h EXCEPT !.buckets = Append(@, <<s.labels["le"], s.value>>)] ELSE h
    [] s.name[2] = "_sum" -> [h EXCEPT !.sum = s.value]
    [] s.name[2] = "_count" -> [h EXCEPT !.count = s.value]
    [] OTHER -> h

Collect(family, key) ==
  Fold(LAMBDA h, s : IF Keyed(s) /\ series_key(s.labels) = key THEN Component(h, s) ELSE h,
       NoHistogram, family.samples)

Histogram(out, family, spec) ==
  LET keys == {series_key(s.labels) : s \in {x \in ToSet(family.samples) : Keyed(x)}}
      partial == [k \in keys |-> Collect(family, k)]
      found == {k \in keys : partial[k].buckets # <<>>}
      was(k) == IF k \in DOMAIN out.series THEN out.series[k] ELSE Nothing
  IN [out EXCEPT
        !.series = [k \in DOMAIN @ \cup found |->
                      IF k \in found THEN Put(was(k), <<spec[2]>>, partial[k]) ELSE @[k]],
        !.capabilities = IF found = {} THEN @ ELSE @ \cup {spec[2]}]

\* The arm of curate's match a family takes: at most one.
Curate(out, family) ==
  LET of(specs) == {s \in specs : family.name = <<s[1], "">>}
      the(specs) == CHOOSE s \in of(specs) : TRUE
  IN CASE of(GaugeSpecs) # {} -> Single(out, family, the(GaugeSpecs))
       [] of(LabelledSpecs) # {} -> Labelled(out, family, the(LabelledSpecs))
       [] family.name[1] \in ProcessNames /\ family.name[2] = "" -> Process(out, family)
       [] family.name = <<"http_requests_total", "">> -> Fold(HttpStatus, out, family.samples)
       [] family.name = <<"vllm:cache_config_info", "">> -> Fold(CacheConfig, out, family.samples)
       [] of(HistogramSpecs) # {} /\ family.kind = "histogram" -> Histogram(out, family, the(HistogramSpecs))
       [] OTHER -> out

-----------------------------------------------------------------------------
(* The join of capacities (by engine) onto the series.                     *)

\* The entry a series would use: its own engine's, or the only one there is,
\* if not both name an engine.
Lone(capacity) == Cardinality(DOMAIN capacity) = 1

Claims(keys, capacity) ==
  [k \in {x \in keys : \/ x.engine \in DOMAIN capacity
                       \/ Lone(capacity) /\ NoEngine \in DOMAIN capacity \cup {x.engine}} |->
     IF k.engine \in DOMAIN capacity THEN k.engine ELSE CHOOSE e \in DOMAIN capacity : TRUE]

Claimants(claims, entry) == {k \in DOMAIN claims : claims[k] = entry}

Joined_Fault(keys, capacity) == DOMAIN Claims(keys, capacity)
Joined(keys, capacity) ==
  LET claims == Claims(keys, capacity) IN
  {k \in DOMAIN claims : Cardinality(Claimants(claims, claims[k])) = 1}

WithCapacity(out) ==
  LET keys == DOMAIN out.series
      joined == Joined(keys, out.capacity)
      claims == Claims(keys, out.capacity)
  IN [out EXCEPT
        !.series = [k \in keys |-> IF k \notin joined THEN @[k]
                                   ELSE Put(@[k], <<"kv_cache_size_tokens">>, out.capacity[claims[k]])],
        !.capabilities = IF joined = {} THEN @ ELSE @ \cup {"kv_capacity"}]

curate(scrape) == WithCapacity(Fold(Curate, NoScrape, scrape.families))

=============================================================================
