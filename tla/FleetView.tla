----------------------------- MODULE FleetView ------------------------------
(***************************************************************************)
(* What is said of a fleet, from what is known of its endpoints:           *)
(* freshness, the roll-up of an endpoint's series, the roll-up of the      *)
(* fleet, and the order of the table.  Pure operators; an Option is a      *)
(* sequence of at most one element.                                        *)
(*                                                                         *)
(*   a series    [loads, ttft, usage, capacity], all Options; usage in %   *)
(*   an endpoint [name, age, healthy, curated, ...]: the ticks since its   *)
(*               last success, and the series of that success by key       *)
(***************************************************************************)
EXTENDS Integers, Sequences, FiniteSets, FiniteSetsExt, SequencesExt

CONSTANT TickMs   \* a tick of the clock, in milliseconds

\* Values that add up: requests running and waiting, tokens per second.
\* The other rates and deltas are summed in the same way.
Loads == {"running", "waiting", "generation_tps"}

(***************************************************************************)
(* Freshness.                                                              *)
(***************************************************************************)

staleness_threshold(refresh) == IF 3 * refresh < 5000 THEN 5000 ELSE 3 * refresh

freshness(e, refresh) ==
  IF e.age = <<>> THEN "Never"
  ELSE IF e.age[1] * TickMs > staleness_threshold(refresh) THEN "Stale"
  ELSE "Fresh"

\* freshness_badge
Badge(e, refresh) ==
  CASE freshness(e, refresh) = "Never" -> "INIT"
    [] freshness(e, refresh) = "Stale" -> "STALE"
    [] OTHER -> IF e.healthy = "no" THEN "UNHLTH" ELSE "UP"

(***************************************************************************)
(* One endpoint.                                                           *)
(***************************************************************************)

Sum(f) == MapThenSumSet(LAMBDA x : f[x], DOMAIN f)

\* Of a function to Options, the arguments where there is a value.
Told(options) == {x \in DOMAIN options : options[x] # <<>>}

\* sum_opt over a set: absent only if all are absent.
SumOpt(options) ==
  IF Told(options) = {} THEN <<>> ELSE <<Sum([x \in Told(options) |-> options[x][1]])>>

WorstOpt(options) ==
  IF Told(options) = {} THEN <<>> ELSE <<Max({options[x][1] : x \in Told(options)})>>

\* aggregate_kv: a fraction sum/over of what the series report, weighted by
\* capacity only when each of them reports that too.
aggregate_kv(series) ==
  LET reporting == Told([x \in DOMAIN series |-> series[x].usage])
      capacity == [x \in reporting |-> series[x].capacity]
      total == SumOpt(capacity)
      weighted == Told(capacity) = reporting /\ total # <<>> /\ total[1] > 0
  IN  IF reporting = {} THEN <<>>
      ELSE IF weighted
      THEN <<[weighted |-> TRUE, over |-> total[1],
              sum |-> Sum([x \in reporting |-> series[x].usage[1] * series[x].capacity[1]])]>>
      ELSE <<[weighted |-> FALSE, over |-> Cardinality(reporting),
              sum |-> Sum([x \in reporting |-> series[x].usage[1]])]>>

aggregate(curated) ==
  [loads |-> [l \in Loads |-> SumOpt([k \in DOMAIN curated |-> curated[k].loads[l]])],
   ttft |-> WorstOpt([k \in DOMAIN curated |-> curated[k].ttft]),
   kv |-> aggregate_kv(curated)]

\* kv_absolute: tokens used and held, only if every series reports both.
kv_absolute(curated) ==
  IF DOMAIN curated # {} /\ \A k \in DOMAIN curated : curated[k].usage # <<>> /\ curated[k].capacity # <<>>
  THEN <<[used |-> Sum([k \in DOMAIN curated |-> curated[k].usage[1] * curated[k].capacity[1]]),
          total |-> Sum([k \in DOMAIN curated |-> curated[k].capacity[1]])]>>
  ELSE <<>>

(***************************************************************************)
(* The fleet.                                                              *)
(***************************************************************************)

Tally(endpoints, Is(_)) == Cardinality({i \in DOMAIN endpoints : Is(endpoints[i])})

Contributors_Fault(endpoints, refresh) ==     \* whoever ever answered
  {i \in DOMAIN endpoints : freshness(endpoints[i], refresh) # "Never"}
\* Who counts in the totals: a stale snapshot must not inflate them.
Contributors(endpoints, refresh) ==
  {i \in DOMAIN endpoints : freshness(endpoints[i], refresh) = "Fresh"}

aggregate_fleet(endpoints, refresh) ==
  LET fresh == Contributors(endpoints, refresh)
      Agg == [i \in fresh |-> aggregate(endpoints[i].curated)]
      Series == UNION {{<<i, k>> : k \in DOMAIN endpoints[i].curated} : i \in fresh}
      worst == WorstOpt([i \in fresh |-> Agg[i].ttft])
  IN  [total |-> Len(endpoints),
       up |-> Tally(endpoints, LAMBDA e : freshness(e, refresh) = "Fresh" /\ e.healthy # "no"),
       stale |-> Tally(endpoints, LAMBDA e : freshness(e, refresh) = "Stale"),
       down |-> Tally(endpoints, LAMBDA e : \/ freshness(e, refresh) = "Never"
                                            \/ freshness(e, refresh) = "Fresh" /\ e.healthy = "no"),
       loads |-> [l \in Loads |-> SumOpt([i \in fresh |-> Agg[i].loads[l]])],
       kv |-> aggregate_kv([s \in Series |-> endpoints[s[1]].curated[s[2]]]),
       ttft |-> worst,
       worst |-> IF worst = <<>> THEN <<>> ELSE <<Min({i \in fresh : Agg[i].ttft = worst})>>]

\* sorted_endpoint_indices: busiest first, an unknown value last, ties by name.
Busier(endpoints, l, i, j) ==
  LET v == aggregate(endpoints[i].curated).loads[l]
      w == aggregate(endpoints[j].curated).loads[l]
  IN  \/ v # <<>> /\ w = <<>>
      \/ v # <<>> /\ w # <<>> /\ v[1] > w[1]

Precedes(endpoints, sort, i, j) ==
  LET byName == endpoints[i].name < endpoints[j].name
  IN  IF sort = "name" THEN byName
      ELSE \/ Busier(endpoints, sort, i, j)
           \/ ~Busier(endpoints, sort, j, i) /\ byName

Rank(endpoints, sort, i) == Cardinality({j \in DOMAIN endpoints : Precedes(endpoints, sort, j, i)})

sorted_endpoint_indices(endpoints, sort) ==
  [k \in DOMAIN endpoints |-> CHOOSE i \in DOMAIN endpoints : Rank(endpoints, sort, i) = k - 1]
=============================================================================
