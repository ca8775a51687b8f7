-------------------------- MODULE UsageAccounting --------------------------
(***************************************************************************)
(* The daily-usage charts (docs/USAGE-ACCOUNTING.md): what vllmtop records *)
(* of a server's cumulative counters (App::record_samples), what retention *)
(* leaves of it (storage/mod.rs) and what query_on makes of the rest       *)
(* (storage/usage.rs): the sum of the positive deltas between consecutive  *)
(* snapshots, by the local day of the later one.                           *)
(*                                                                         *)
(* Around it move the server, which serves, restarts and may come back     *)
(* under another model; the user, who stops and starts vllmtop; and the    *)
(* recorder, which may drop a batch or fail to write it.                   *)
(*                                                                         *)
(* Time is counted in ticks of the recording cadence's order, a day being  *)
(* DayLen of them.  One endpoint and one of the three counters are enough: *)
(* the query keeps endpoints, engines and metrics apart as it does models. *)
(*                                                                         *)
(* Two simplifications.  A row is stored in the step that takes the        *)
(* snapshot, where the code hands it to the writer thread (see Recorder),  *)
(* so one taken just before midnight may land just after it.  And all days *)
(* are of one length, where the query's are local calendar days, which are *)
(* an hour shorter or longer when the clocks change.                       *)
(***************************************************************************)
EXTENDS Integers, FiniteSetsExt

CONSTANTS
  Models,       \* the models the server may serve
  DayLen,       \* ticks of a day
  WindowDays,   \* USAGE_WINDOW_DAYS: 30
  RecordEvery,  \* COUNTER_RECORD_EVERY, 30 s, in ticks
  Retentions,   \* values of retention_days the user may configure
  Horizon,      \* bound: ticks
  MaxWork,      \* bound: what the server counts of a model
  MaxRestarts,  \* bound: restarts of the server
  MaxStops,     \* bound: times the user stops vllmtop
  MaxLosses     \* bound: batches dropped or not written

ASSUME TimeAssumption ==
  {DayLen, WindowDays, RecordEvery, Horizon} \subseteq Nat \ {0}
ASSUME BoundsAssumption == {MaxRestarts, MaxStops, MaxLosses} \subseteq Nat
ASSUME ModelsAssumption == IsFiniteSet(Models)
ASSUME RetentionAssumption == Retentions \subseteq Nat \ {0} /\ Retentions # {}

None == -1

VARIABLES
  now,        \* the wall clock
  model,      \* server: what it serves
  count,      \* server: its counter
  served,     \* history: all it ever counted, per model
  restarts,   \* history: how often it restarted
  version,    \* the database's schema version: "none", "ours" or "newer"
  recording,  \* vllmtop runs with a recorder
  retention,  \* retention_days of this run
  recordedAt, \* counter_recorded_at: the last snapshot's tick, or None
  rows,       \* the samples table
  stops,      \* history: how often vllmtop was stopped
  losses      \* history: batches lost

serverVars == <<model, count, served, restarts>>
appVars == <<recording, retention, recordedAt>>
vars == <<now, serverVars, version, appVars, rows, stops, losses>>

\* A row, and what was true when it was taken (history): which process of the
\* server it is of, what that had served, and which run of vllmtop took it.
Row == [ts : Nat, model : Models, value : Nat, run : Nat, served : Nat, boot : Nat]

Init ==
  /\ now = 0
  /\ model \in Models
  /\ count = 0
  /\ served = [m \in Models |-> 0]
  /\ restarts = 0
  /\ version \in {"none", "newer"}
  /\ recording = FALSE
  /\ retention = CHOOSE r \in Retentions : TRUE     \* nothing reads it yet
  /\ recordedAt = None
  /\ rows = {}
  /\ stops = 0
  /\ losses = 0

-----------------------------------------------------------------------------
(* The server and the clock.                                               *)

Elapse(n) ==
  /\ now < Horizon /\ served[model] + n <= MaxWork
  /\ now' = now + 1
  /\ count' = count + n
  /\ served' = [served EXCEPT ![model] = @ + n]
  /\ UNCHANGED <<model, restarts, version, appVars, rows, stops, losses>>

Restart(m) ==
  /\ restarts < MaxRestarts
  /\ model' = m
  /\ count' = 0
  /\ restarts' = restarts + 1
  /\ UNCHANGED <<now, served, version, appVars, rows, stops, losses>>

-----------------------------------------------------------------------------
(* vllmtop.                                                                *)

\* check_schema_version: a new database is stamped, one of another version
\* refused, and then nothing is recorded.
Supported == version \in {"none", "ours"}

Start ==
  /\ ~ recording /\ Supported
  /\ recording' = TRUE
  /\ version' = "ours"
  /\ retention' \in Retentions
  /\ recordedAt' = None
  /\ UNCHANGED <<now, serverVars, rows, stops, losses>>

Stop ==
  /\ recording /\ stops < MaxStops
  /\ recording' = FALSE
  /\ stops' = stops + 1
  /\ UNCHANGED <<now, serverVars, version, retention, recordedAt, rows, losses>>

RecordDue_Fault == recordedAt = None \/ now - recordedAt >= RecordEvery - 1
RecordDue == recordedAt = None \/ now - recordedAt >= RecordEvery

\* A good scrape.  The throttle is set whatever becomes of the batch: the
\* queue may be full, the transaction fail, the text lack the counter.  Two
\* snapshots of a series never share a millisecond.
RecordSamples(kept) ==
  /\ recording /\ RecordDue
  /\ \A r \in rows : r.model = model => r.ts # now
  /\ recordedAt' = now
  /\ losses' = IF kept THEN losses ELSE losses + 1
  /\ losses' <= MaxLosses
  /\ rows' = IF ~ kept THEN rows
             ELSE rows \cup {[ts |-> now, model |-> model, value |-> count,
                              run |-> restarts, served |-> served[model], boot |-> stops]}
  /\ UNCHANGED <<now, serverVars, version, recording, retention, stops>>

\* One pass deletes a bounded number of the expired rows of all metrics, in
\* no stated order: any part of the expired snapshots.
Expired == {r \in rows : r.ts < now - retention * DayLen}

Cleanup ==
  /\ recording
  /\ \E deleted \in SUBSET Expired \ {{}} : rows' = rows \ deleted
  /\ UNCHANGED <<now, serverVars, version, appVars, stops, losses>>

Next ==
  \/ \E n \in {0, 1} : Elapse(n)
  \/ \E m \in Models : Restart(m)
  \/ Start
  \/ Stop
  \/ \E kept \in BOOLEAN : RecordSamples(kept)
  \/ Cleanup

Spec == Init /\ [][Next]_vars

-----------------------------------------------------------------------------
(* query_on.                                                               *)

Day(t) == t \div DayLen
Today == Day(now)

\* The axis, and the rows: one day more, so that the oldest day's first delta
\* has a predecessor.
Axis == Today - (WindowDays - 1) .. Today
Bounded_Fault == {r \in rows : r.ts >= now - WindowDays * DayLen}
Bounded == {r \in rows : r.ts >= now - (WindowDays + 1) * DayLen}

\* LAG over the rows of the same series: none or one row.
Earlier(r) == {q \in Bounded : q.model = r.model /\ q.ts < r.ts}
Lag(r) == {q \in Earlier(r) : \A p \in Earlier(r) : p.ts <= q.ts}

\* The rows of a day that have a delta.
Landing_Fault(d) ==                          \* the partition split by day
  {r \in Bounded : Day(r.ts) = d /\ \E q \in Lag(r) : Day(q.ts) = d}
Landing(d) == {r \in Bounded : Day(r.ts) = d /\ Lag(r) # {}}

Delta(r) == r.value - (CHOOSE q \in Lag(r) : TRUE).value
Positive_Fault(r) == IF Delta(r) > 0 THEN Delta(r) ELSE - Delta(r)
Positive(r) == IF Delta(r) > 0 THEN Delta(r) ELSE 0

\* A day's total, None when it has no delta: absent is not zero.
DayTotal_Fault(d) == MapThenSumSet(Positive, Landing(d))
DayTotal(d) ==
  IF Landing(d) = {} THEN None ELSE MapThenSumSet(Positive, Landing(d))

DailyUsage == [d \in Axis |-> DayTotal(d)]

-----------------------------------------------------------------------------
(* Properties.                                                             *)

\* Every variable has its type, and the throttle keeps the snapshots of one
\* run of vllmtop apart.
TypeOK ==
  /\ now \in 0 .. Horizon
  /\ model \in Models /\ count \in Nat /\ count <= served[model]
  /\ served \in [Models -> Nat]
  /\ restarts \in 0 .. MaxRestarts /\ stops \in 0 .. MaxStops /\ losses \in 0 .. MaxLosses
  /\ version \in {"none", "ours", "newer"} /\ (version = "newer" => rows = {})
  /\ recording \in BOOLEAN /\ retention \in Retentions
  /\ recordedAt \in {None} \cup Nat /\ recordedAt <= now
  /\ \A r \in rows : r \in Row /\ r.ts <= now
  /\ \A q, r \in rows : q.boot = r.boot /\ q.ts < r.ts => r.ts - q.ts >= RecordEvery

Known(d) == DailyUsage[d] # None
Rows(m) == {r \in rows : r.model = m}
TakenBy(t, m) == {r \in Rows(m) : r.ts <= t}
Truth(set) == IF set = {} THEN 0 ELSE Max({r.served : r \in set})

\* What was observed of model m in day d: from the last snapshot before it to
\* the last one in it.
Observed(d, m) == Truth(TakenBy((d + 1) * DayLen - 1, m)) - Truth(TakenBy(d * DayLen - 1, m))

\* usage.rs: sums of positive deltas.  However snapshots are lost, the server
\* restarts and comes back under other models, and vllmtop is stopped, no day
\* shows more than the server served between the snapshots around it.
NeverOvercounts ==
  \A d \in Axis : Known(d) => DailyUsage[d] <= MapThenSumSet(LAMBDA m : Observed(d, m), Models)

\* USAGE-ACCOUNTING.md: deltas telescope, and a dropped batch costs nothing.
\* Of two snapshots of one process that the query reads, the days from the
\* earlier one's to the later one's show at least all that was served between
\* them, whatever was lost in the middle, if the axis holds those days.
DroppedBatchesHeal ==
  \A q, r \in Bounded :
    /\ q.model = r.model /\ q.run = r.run /\ q.ts < r.ts
    /\ Day(q.ts) >= Today - (WindowDays - 1)
    => LET days == {d \in Day(q.ts) .. Day(r.ts) : Known(d)} IN
       MapThenSumSet(LAMBDA d : DailyUsage[d], days) >= r.served - q.served

\* Absent is not zero (README.md, USAGE-ACCOUNTING.md): a day of which nothing
\* was stored is absent, one with two snapshots of a series is not.
AbsentIsNotZero ==
  \A d \in Axis :
    LET of(m) == {r \in Rows(m) : Day(r.ts) = d} IN
    /\ (\A m \in Models : of(m) = {}) => ~ Known(d)
    /\ (\E m \in Models : Cardinality({r \in of(m) : r \in Bounded}) > 1) => Known(d)

\* usage.rs: "31 days of raw samples so day 30's first delta has its
\* predecessor".  A day that is over keeps its total as long as it is on the
\* axis, if retention keeps those rows and no series resumed in it after a gap
\* of more than a day.
Settled(d) ==
  \A m \in Models : \A r \in Rows(m) : Day(r.ts) = d =>
     LET before == {q \in Rows(m) : q.ts < d * DayLen} IN
     before # {} => Max({q.ts : q \in before}) >= d * DayLen - DayLen

PastDaysAreStable ==
  [][\A d \in Axis \cap Today' - (WindowDays - 1) .. Today - 1 :
       Settled(d) /\ {retention, retention'} \subseteq WindowDays + 1 .. Horizon
       => DailyUsage'[d] = DailyUsage[d]]_vars
=============================================================================
